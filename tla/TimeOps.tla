------------------------------ MODULE TimeOps -------------------------------
(***************************************************************************)
(* What the time drivers compute: the correction of a receive time stamp   *)
(* with the phase of the DMTD (wrs_linearize_rx_timestamp()), the          *)
(* adjustment wrs_time_set() makes of a time difference, and how the other *)
(* drivers read, set and tune their clocks.                                *)
(***************************************************************************)
EXTENDS Integers

-----------------------------------------------------------------------------
(* A mutant: the falling edge counter is not corrected when it is behind.  *)
FallingTick_Ignored(rising, ahead, tick) == rising

(* nsec_f: the falling edge counter, from the rising one.                  *)
FallingTick(rising, ahead, tick) == IF ahead THEN rising - tick ELSE rising

(* ts = <<secs, nsec>> is the rising edge time stamp, raw the DMTD phase   *)
(* and tp the transition point, in parts of a nanosecond: ps of them to    *)
(* the nanosecond, period to the clock cycle.  Near the transition of the  *)
(* rising edge counter the falling one is picked, half a cycle away.  The  *)
(* result is <<secs, nsec, phase>>.                                        *)
wrs_linearize_rx_timestamp(ts, raw, ahead, tp, period, ps, second) ==
    LET tick == period \div ps
        Wrap(x) == IF x < 0 THEN x + period ELSE IF x >= period THEN x - period ELSE x
        phase_r == Wrap(raw - tp)
        phase_f == Wrap(raw - tp + period \div 2)
        falling == 4 * phase_r > 3 * period \/ 4 * phase_r < period
        later == phase_f + period \div 2
        nsec == IF ~falling THEN ts[2]
                ELSE FallingTick(ts[2], ahead, tick) + (IF later >= period THEN tick ELSE 0)
        phase == IF falling THEN Wrap(later) ELSE phase_r
    IN IF nsec >= second THEN <<ts[1] + 1, nsec - second, phase>> ELSE <<ts[1], nsec, phase>>

-----------------------------------------------------------------------------

(* The seconds wrs_time_set() adjusts: rounded to the nearest.             *)
WholeSeconds(secs, ms, half) ==
    IF ms > half THEN secs + 1 ELSE IF ms < -half THEN secs - 1 ELSE secs

(* wrs_time_set(): the adjustment for a difference of d ms, with second ms *)
(* to the second (1000) and the threshold thr (20 ms).  The counters of    *)
(* the hardware cannot be adjusted together: first the seconds, and in the *)
(* next call the rest, if it is neither small nor close to a second.       *)
wrs_time_set(d, second, thr) ==
    LET sign == IF d < 0 THEN -1 ELSE 1
        secs == sign * ((sign * d) \div second)
        ms == d - secs * second
    IN IF secs # 0 THEN WholeSeconds(secs, ms, second \div 2) * second
       ELSE IF sign * ms > thr /\ sign * ms < second - thr THEN ms
       ELSE 0

-----------------------------------------------------------------------------
(* The other clocks, as the nanoseconds they count, second to the second:  *)
(* "unix" counts UTC, which is utc seconds behind, "sim" and "wrpc" TAI.   *)
(* A time is [s, n] with n in parts of a nanosecond, frac of them.         *)
Behind(kind, utc) == IF kind = "unix" THEN utc ELSE 0

time_get(kind, ns, utc, second, frac) ==
    LET secs == IF ns < 0 THEN -((-ns) \div second) ELSE ns \div second
    IN  [s |-> secs + Behind(kind, utc), n |-> (ns - secs * second) * frac]

(* The kernel's clock is not set to a time before 1970.                    *)
time_set(kind, ns, utc, t, second, frac) ==
    LET secs == t.s - Behind(kind, utc)
        nsec == t.n \div frac
    IN  IF kind = "unix" /\ (secs < 0 \/ nsec < 0) THEN ns ELSE secs * second + nsec

-----------------------------------------------------------------------------
(* The frequency in effect after adjust_freq(ppb), old being the one       *)
(* before: in 2^-16 ppm for "unix", in ppb for "sim", where 0 changes      *)
(* nothing; the value of the DAC on a switch, 4096 steps for 1200 ppb.     *)
PP_ADJ_FREQ_MAX == 512000

Within(x, lo, hi) == IF x > hi THEN hi ELSE IF x < lo THEN lo ELSE x

unix_time_adjust_freq(old, ppb) ==
    IF ppb = 0 THEN old ELSE Within(ppb, -PP_ADJ_FREQ_MAX, PP_ADJ_FREQ_MAX) * (65536 \div 1000)

sim_adjust_freq(old, ppb) ==
    IF ppb = 0 THEN old ELSE Within(ppb, -PP_ADJ_FREQ_MAX, PP_ADJ_FREQ_MAX)

wrs_time_adjust_freq(ppb) ==
    LET steps == IF ppb < 0 THEN -((-ppb * 4096) \div 1200) ELSE (ppb * 4096) \div 1200
    IN  32768 + Within(steps, -32768, 32767)
=============================================================================
