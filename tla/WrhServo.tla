------------------------------ MODULE WrhServo ------------------------------
(***************************************************************************)
(* The servo of the White Rabbit and L1Sync extensions (wrh-servo.c, the   *)
(* wrapper wr-servo.c) with the hardware it steers.  An offset is a number *)
(* of picoseconds; a tick has Period of them, a second SecondPs.  The      *)
(* slave's clock is behind its master's by whErr; an adjustment takes      *)
(* effect some time after it is ordered, so the samples of one measurement *)
(* may be taken on both sides of it.                                       *)
(***************************************************************************)
EXTENDS Integers

CONSTANTS
  Period,      \* clock_period_ps
  SecondPs,    \* picoseconds in a second
  Threshold,   \* WRH_SERVO_OFFSET_STABILITY_THRESHOLD
  MaxMissed,   \* iterations in WAIT_OFFSET_STABLE, 10 in the code
  Drifts,      \* by how much the clock may be disturbed
  MaxDrifts    \* disturbances of the clock or the PLL, a bound

VARIABLES
  whMech,      \* "E2E" or "P2P"
  whErr,       \* the real offset
  whSample,    \* the real offset when Sync was received
  whGotSync,   \* gs->got_sync
  whPend,      \* adjustment under way, 0 for none
  whBusy,      \* adjust_in_progress()
  whPll,       \* locking_poll() = WRH_SPLL_LOCKED
  whServo,     \* state, servo_locked, readyForSync, doRestart, missed_iters
  whOut,       \* the timing output is enabled
  whDrifts

whVars == <<whMech, whErr, whSample, whGotSync, whPend, whBusy, whPll, whServo, whOut, whDrifts>>
whHw == <<whMech, whErr, whPll, whDrifts>>

States == {"UNINITIALIZED", "SYNC_TAI", "SYNC_NSEC", "SYNC_PHASE", "TRACK_PHASE",
           "WAIT_OFFSET_STABLE"}

Abs(n) == IF n < 0 THEN -n ELSE n
Trunc(n, d) == IF n < 0 THEN -((-n) \div d) ELSE n \div d        \* C division
Rest(n, d) == n - d * Trunc(n, d)

(* pp_time_hardwarize() of the offset below a second.                      *)
Ticks(offset) == Trunc(Rest(offset, SecondPs), Period)
Phase(offset) == Rest(Rest(offset, SecondPs), Period)

-----------------------------------------------------------------------------
(* __wrh_servo_update() behind the checks of the PLL and of the hardware:  *)
(* the state the offset selects, then what that state does.                *)

Selected(state, offset) ==
  IF Trunc(offset, SecondPs) # 0 THEN "SYNC_TAI"
  ELSE IF Ticks(offset) # 0 THEN "SYNC_NSEC" ELSE state

(* The result of a step: next state, adjustment, missed iterations.        *)
Does(state, adjust, missed) == [state |-> state, adjust |-> adjust, missed |-> missed]

(* Mutant: the servo waits for the offset however long it takes.           *)
WaitOffsetStable_Forever(offset, missed) ==
  IF Abs(offset) < Threshold THEN Does("TRACK_PHASE", <<>>, missed)
  ELSE Does("WAIT_OFFSET_STABLE", <<>>, missed)

WaitOffsetStable(offset, missed) ==
  LET m == IF Abs(offset) < Threshold THEN missed ELSE missed + 1
  IN  IF m >= MaxMissed THEN Does("SYNC_PHASE", <<>>, 0)
      ELSE Does(IF m = missed THEN "TRACK_PHASE" ELSE "WAIT_OFFSET_STABLE", <<>>, m)

TrackPhase(offset, missed) ==
  IF Abs(Phase(offset)) > 2 * Threshold THEN Does("SYNC_PHASE", <<>>, missed)
  ELSE Does("TRACK_PHASE", <<Trunc(Phase(offset), 4)>>, missed)

Action(state, offset, missed) ==
  CASE state = "SYNC_TAI" -> Does("SYNC_PHASE", <<SecondPs * Trunc(offset, SecondPs)>>, missed)
    [] state = "SYNC_NSEC" -> Does("SYNC_PHASE", <<Period * Ticks(offset)>>, missed)
    [] state = "SYNC_PHASE" -> Does("WAIT_OFFSET_STABLE", <<Phase(offset)>>, missed)
    [] state = "WAIT_OFFSET_STABLE" -> WaitOffsetStable(offset, missed)
    [] state = "TRACK_PHASE" -> TrackPhase(offset, missed)

Unmoved == UNCHANGED <<whPend, whBusy, whOut>>

wrh_servo_update(offset) ==
  \/ whServo.state = "UNINITIALIZED" /\ UNCHANGED whServo /\ Unmoved
  \/ whServo.state # "UNINITIALIZED" /\ ~whServo.ready /\ UNCHANGED whServo /\ Unmoved
  \/ /\ whServo.state # "UNINITIALIZED" /\ whServo.ready /\ ~whPll
     /\ whServo' = [whServo EXCEPT !.restart = TRUE]
     /\ Unmoved
  \/ /\ whServo.state # "UNINITIALIZED" /\ whServo.ready /\ whPll /\ whBusy
     /\ UNCHANGED whServo /\ Unmoved
  \/ /\ whServo.state # "UNINITIALIZED" /\ whServo.ready /\ whPll /\ ~whBusy
     /\ \E r \in {Action(Selected(whServo.state, offset), offset, whServo.missed)} :
          /\ whServo' = [whServo EXCEPT !.state = r.state, !.missed = r.missed,
                                        !.locked = r.state = "TRACK_PHASE"]
          /\ whPend' = IF r.adjust = <<>> THEN 0 ELSE r.adjust[1]
          /\ whBusy' = (r.adjust # <<>>)
          /\ whOut' = (whOut \/ (whServo.state = "WAIT_OFFSET_STABLE" /\ r.state = "TRACK_PHASE"))

(* Sync (and its Follow_Up) fix t1 and t2.                                 *)
wrh_servo_got_sync ==
  /\ whSample' = whErr
  /\ IF whMech = "P2P" /\ whGotSync
     THEN whGotSync' = FALSE /\ wrh_servo_update(whErr)
     ELSE whGotSync' = TRUE /\ UNCHANGED whServo /\ Unmoved
  /\ UNCHANGED whHw

(* Delay_Resp: t3 and t4 were taken later than t1 and t2; an adjustment in *)
(* between counts by half.                                                 *)
wrh_servo_got_resp ==
  /\ whMech = "E2E"
  /\ whGotSync
  /\ whGotSync' = FALSE
  /\ wrh_servo_update(Trunc(whSample + whErr, 2))
  /\ UNCHANGED <<whHw, whSample>>

wrh_servo_got_presp ==
  /\ whMech = "P2P"
  /\ ~whGotSync
  /\ whGotSync' = TRUE
  /\ UNCHANGED <<whHw, whSample, whServo>> /\ Unmoved

(* wrh_servo_init() clears what the extension's handshake will set again;  *)
(* pp_servo_init() clears servo_locked.                                    *)
wrh_servo_init ==
  /\ whServo' = [state |-> "SYNC_TAI", locked |-> FALSE, ready |-> FALSE, restart |-> FALSE, missed |-> 0]
  /\ whGotSync' = FALSE
  /\ whBusy' = TRUE                                  \* adjust_phase(cur_setpoint_ps)
  /\ UNCHANGED <<whHw, whSample, whPend, whOut>>

(* The port enters UNCALIBRATED, or the handshake starts again.            *)
Restart == (whServo.restart \/ whServo.state = "UNINITIALIZED") /\ wrh_servo_init

wrh_servo_reset ==
  /\ whDrifts < MaxDrifts
  /\ whDrifts' = whDrifts + 1
  /\ whServo' = [whServo EXCEPT !.state = "UNINITIALIZED", !.ready = FALSE, !.restart = FALSE, !.missed = 0]
  /\ UNCHANGED <<whMech, whErr, whSample, whGotSync, whPend, whBusy, whPll, whOut>>

(* The handshake is over: the PLL is locked.                               *)
ReadyForSync ==
  /\ whServo.state # "UNINITIALIZED" /\ ~whServo.ready /\ whPll
  /\ whServo' = [whServo EXCEPT !.ready = TRUE]
  /\ UNCHANGED <<whHw, whSample, whGotSync>> /\ Unmoved

-----------------------------------------------------------------------------
(* The hardware.                                                           *)

AdjustDone ==
  /\ whBusy
  /\ whErr' = whErr - whPend
  /\ whPend' = 0
  /\ whBusy' = FALSE
  /\ UNCHANGED <<whMech, whSample, whGotSync, whPll, whServo, whOut, whDrifts>>

PllLocks ==
  /\ ~whPll
  /\ whPll' = TRUE
  /\ UNCHANGED <<whMech, whErr, whSample, whGotSync, whServo, whDrifts>> /\ Unmoved

Disturbed ==
  /\ whDrifts < MaxDrifts
  /\ whDrifts' = whDrifts + 1
  /\ \/ whPll /\ whPll' = FALSE /\ UNCHANGED whErr
     \/ \E d \in Drifts : whErr' = whErr + d /\ UNCHANGED whPll
  /\ UNCHANGED <<whMech, whSample, whGotSync, whServo>> /\ Unmoved

WhInit ==
  /\ whMech \in {"E2E", "P2P"}
  /\ whErr \in Drifts
  /\ whSample = 0
  /\ whGotSync = FALSE
  /\ whPend = 0
  /\ whBusy = FALSE
  /\ whPll = FALSE
  /\ whServo = [state |-> "UNINITIALIZED", locked |-> FALSE, ready |-> FALSE, restart |-> FALSE, missed |-> 0]
  /\ whOut = FALSE
  /\ whDrifts = 0

WhNext ==
  \/ wrh_servo_got_sync \/ wrh_servo_got_resp \/ wrh_servo_got_presp
  \/ Restart \/ wrh_servo_reset \/ ReadyForSync
  \/ AdjustDone \/ PllLocks \/ Disturbed

WhSpec == WhInit /\ [][WhNext]_whVars

(* The master goes on sending, an adjustment ends, an enabled PLL locks,   *)
(* the port comes back and its handshake ends.  An adjustment that always  *)
(* ends between a Sync and its Delay_Resp is no hindrance.                 *)
WhFair ==
  /\ WF_whVars(wrh_servo_got_sync) /\ WF_whVars(wrh_servo_got_resp) /\ WF_whVars(wrh_servo_got_presp)
  /\ WF_whVars(AdjustDone) /\ WF_whVars(PllLocks) /\ WF_whVars(Restart) /\ WF_whVars(ReadyForSync)

-----------------------------------------------------------------------------
(* Whatever disturbs the clock, the PLL or the port, and wherever an       *)
(* adjustment takes effect between the stamps of a measurement, the servo  *)
(* ends in TRACK_PHASE with the clock as close as the quarter steps of the *)
(* phase bring it, and reports to be locked.                               *)
Settled == whServo.state = "TRACK_PHASE" /\ whServo.locked /\ Abs(whErr) < 4

WhSettles == <>[]Settled
=============================================================================
