------------------------------- MODULE Servo --------------------------------
(***************************************************************************)
(* What the servo keeps from one measurement to the next (servo.c): the    *)
(* filtered mean delay, the integral part of the PI controller and, on     *)
(* hardware that has one, the timing output.  Delays are in any unit; the  *)
(* offset is in microseconds, Scale units each.                            *)
(***************************************************************************)
EXTENDS Integers

CONSTANTS
  MeanDelays,  \* mean delays of the path, below a second
  Offsets,     \* offsets from the master, in microseconds
  Scale,       \* units in a microsecond
  Stiffness,   \* rt_opts.s
  TopBits,     \* 63: bits of a positive int64_t
  Ai,          \* rt_opts.ai
  AdjMax,      \* PP_ADJ_FREQ_MAX << 16
  JumpLimit,   \* TIME_ADJUST_THRESHOLD_SCALED_NS
  PpsUs,       \* rt_opts.ptpPpsThresholdMs * 1000
  Disturbances \* bound on changes of the path, steps of the clock and negative delays

VARIABLES
  svY,       \* mpd_fltr.y
  svExp,     \* mpd_fltr.s_exp
  svDrift,   \* obs_drift
  svOut,     \* the timing output is enabled
  svOffset,  \* offsetFromMaster of the last measurement
  svPath,    \* the mean delay there really is
  svDisturbed  \* changes of the path, steps of the clock and negative delays so far

svVars == <<svY, svExp, svDrift, svOut, svOffset, svPath, svDisturbed>>

Abs(x) == IF x < 0 THEN -x ELSE x

-----------------------------------------------------------------------------
(* pp_servo_mpd_fltr() for a measured delay m: the new [y, e].             *)

(* How far the filter may be stiff without overflow.                       *)
Stiff(y) == CHOOSE s \in 0..Stiffness :
              /\ y \div 2 ^ (TopBits - s) = 0
              /\ \A r \in (s + 1)..Stiffness : y \div 2 ^ (TopBits - r) # 0

(* Mutant: a value out of line is replaced by twice the average, no more.  *)
Trimmed_Trapped(m, y, e) == IF m < 0 THEN y ELSE IF m > 3 * y THEN 2 * y ELSE m

(* A negative delay counts as the average, a very long one as a bit more   *)
(* than twice the average.                                                 *)
Trimmed(m, y, e) == IF m < 0 THEN y ELSE IF m > 3 * y THEN 2 * y + e + 1 ELSE m

pp_servo_mpd_fltr(m) ==
  LET y == IF svExp >= 1 THEN svY ELSE IF m < 0 THEN 0 ELSE m
      limit == 2 ^ Stiff(y)
      e == IF svExp >= limit THEN limit ELSE svExp + 1
  IN  [y |-> (y * (e - 1) + Trimmed(m, y, e)) \div e, e |-> e]

(* The accumulator of pp_servo_pi_controller() with its anti-windup.       *)
Accumulate(n) ==
  LET sum == svDrift + n
      most == AdjMax * Ai
  IN  IF sum > most THEN most ELSE IF sum < -most THEN -most ELSE sum

(* control_timing_output(): the picoseconds are converted to uint64_t, so  *)
(* that the quotient of a negative offset, taken as an int, is far from    *)
(* the offset.  2^64 \div 10^6 = -140462611 modulo 2^32.                   *)
OffsetUs(us) == IF us >= 0 THEN us ELSE Abs(us - 140462611)

control_timing_output(us) ==
  svOut' = IF OffsetUs(us) <= PpsUs THEN TRUE
           ELSE IF OffsetUs(us) > PpsUs + PpsUs \div 5 THEN FALSE
           ELSE svOut

-----------------------------------------------------------------------------
SvInit ==
  /\ svY = 0 /\ svExp = 0 /\ svDrift = 0
  /\ svOut = FALSE /\ svOffset = 0
  /\ svPath \in MeanDelays /\ svDisturbed = 0

Disturb == svDisturbed < Disturbances /\ svDisturbed' = svDisturbed + 1

(* A measurement: __pp_servo_update() and control_timing_output().  Its    *)
(* delay is that of the path, or negative when the clock is being slewed.  *)
Measurement ==
  \E us \in Offsets, m \in {svPath, -1} :
    LET f == pp_servo_mpd_fltr(m)
        n == us * Scale
    IN  /\ svOffset' = us
        /\ IF m = -1 \/ Abs(n) > JumpLimit THEN Disturb ELSE UNCHANGED svDisturbed
        /\ svY' = f.y
        /\ IF Abs(n) > JumpLimit                  \* pp_servo_offset_master()
           THEN svExp' = 0 /\ svDrift' = 0        \* time set, _pp_servo_init()
           ELSE svExp' = f.e /\ svDrift' = Accumulate(n)
        /\ control_timing_output(us)
        /\ UNCHANGED svPath

(* A mean delay of a second or more: __pp_servo_update() returns.          *)
BadEvent ==
  \E us \in Offsets :
    /\ svOffset' = us
    /\ control_timing_output(us)
    /\ UNCHANGED <<svY, svExp, svDrift, svPath, svDisturbed>>

(* The network takes another path.                                         *)
NewPath ==
  /\ Disturb
  /\ svPath' \in MeanDelays \ {svPath}
  /\ UNCHANGED <<svY, svExp, svDrift, svOut, svOffset>>

SvNext == Measurement \/ BadEvent \/ NewPath

(* A measurement of the true delay that leads to no jump is made again and *)
(* again: Syncs and delay requests are sent periodically.                  *)
GoodMeasurement ==
  /\ Measurement
  /\ svY' = pp_servo_mpd_fltr(svPath).y
  /\ svDisturbed' = svDisturbed

SvSpec == SvInit /\ [][SvNext]_svVars

-----------------------------------------------------------------------------

(* "add fltr->s_exp to ensure we are not trapped into 0": once disturbances*)
(* stop, the filtered delay comes to the real one, up to the integer       *)
(* division, and stays there.                                              *)
FilterClose == Abs(svY - svPath) <= 2 ^ Stiffness

FilterConverges == <>[]FilterClose
=============================================================================
