----------------------------- MODULE MCProgress -----------------------------
(***************************************************************************)
(* What must happen in the end: the White Rabbit handshake is finished or  *)
(* given up (WrLink), L1Sync settles (L1Sync), the two servos converge     *)
(* (Servo, WrhServo) and a grand master gives its PPS away (WrsTiming).    *)
(* subject says which component a behaviour is of; the others rest.        *)
(***************************************************************************)
EXTENDS WrLink, Integers

VARIABLES
  subject,
  svY, svExp, svDrift, svOut, svOffset, svPath, svDisturbed,
  whMech, whErr, whSample, whGotSync, whPend, whBusy, whPll, whServo, whOut, whDrifts,
  l1Port, l1Net, l1Kinds, l1Faults,
  wtClass, wtHal, wt, wtLeft

servo == <<svY, svExp, svDrift, svOut, svOffset, svPath, svDisturbed>>
wrh   == <<whMech, whErr, whSample, whGotSync, whPend, whBusy, whPll, whServo, whOut, whDrifts>>
l1    == <<l1Port, l1Net, l1Kinds, l1Faults>>
mode  == <<wtClass, wtHal, wt, wtLeft>>

(* Offsets on both sides of the limits for the PPS (2) and a jump (3).     *)
Sv == INSTANCE Servo WITH
  MeanDelays <- {0, 5, 20}, Offsets <- {-1, 3, 9}, Scale <- 1, Stiffness <- 2,
  TopBits <- 6, Ai <- 3, AdjMax <- 1, JumpLimit <- 3, PpsUs <- 2, Disturbances <- 2

(* Three cycles to the second; disturbances of a phase, of a cycle and of  *)
(* more than a second.                                                     *)
Wh == INSTANCE WrhServo WITH
  Period <- 8, SecondPs <- 24, Threshold <- 2, MaxMissed <- 2, Drifts <- {1, -5, 9, -30},
  MaxDrifts <- 2

L1 == INSTANCE L1Sync WITH
  Required <- {"tx", "rx", "cong"}, MaxFaults <- 1, Cap <- 2,
  FaultKinds <- {{}, {"unlock", "flap"}, {"lose", "protocol"}, {"newgm", "silence"}}

Wt == INSTANCE WrsTiming WITH
  Classes <- {"GM", "BC"}, MaxPllChanges <- 2, MaxRpcErrors <- 1, MaxCrashes <- 1

-----------------------------------------------------------------------------
Rests == "at rest"
WrRests == port = Rests /\ net = Rests /\ faults = Rests
SvRests == /\ svY = Rests /\ svExp = Rests /\ svDrift = Rests /\ svOut = Rests
           /\ svOffset = Rests /\ svPath = Rests /\ svDisturbed = Rests
WhRests == /\ whMech = Rests /\ whErr = Rests /\ whSample = Rests /\ whGotSync = Rests
           /\ whPend = Rests /\ whBusy = Rests /\ whPll = Rests /\ whServo = Rests
           /\ whOut = Rests /\ whDrifts = Rests
L1Rests == l1Port = Rests /\ l1Net = Rests /\ l1Kinds = Rests /\ l1Faults = Rests
WtRests == wtClass = Rests /\ wtHal = Rests /\ wt = Rests /\ wtLeft = Rests

ProgressInit ==
  \/ subject = "wr"    /\ Init      /\ SvRests /\ WhRests /\ L1Rests /\ WtRests
  \/ subject = "servo" /\ Sv!SvInit /\ WrRests /\ WhRests /\ L1Rests /\ WtRests
  \/ subject = "wrh"   /\ Wh!WhInit /\ WrRests /\ SvRests /\ L1Rests /\ WtRests
  \/ subject = "l1"    /\ L1!L1Init /\ WrRests /\ SvRests /\ WhRests /\ WtRests
  \/ subject = "mode"  /\ Wt!WtInit /\ WrRests /\ SvRests /\ WhRests /\ L1Rests

ProgressNext ==
  /\ UNCHANGED subject
  /\ \/ subject = "wr"    /\ Next      /\ UNCHANGED <<servo, wrh, l1, mode>>
     \/ subject = "servo" /\ Sv!SvNext /\ UNCHANGED <<vars, wrh, l1, mode>>
     \/ subject = "wrh"   /\ Wh!WhNext /\ UNCHANGED <<vars, servo, l1, mode>>
     \/ subject = "l1"    /\ L1!L1Next /\ UNCHANGED <<vars, servo, wrh, mode>>
     \/ subject = "mode"  /\ Wt!WtNext /\ UNCHANGED <<vars, servo, wrh, l1>>

-----------------------------------------------------------------------------
(* The fairness of each component, see there.                              *)
WrFairness ==
  /\ \A e \in End : WF_vars(subject = "wr" /\ Idle(e)) /\ WF_vars(subject = "wr" /\ Tick(e))
  /\ WF_vars(subject = "wr" /\ Receive("S"))
  /\ WF_vars(subject = "wr" /\ Announce)
  /\ SF_vars(/\ subject = "wr" /\ net["S"] # <<>> /\ Head(net["S"]).kind = "announce"
             /\ Receive("S"))

SvFairness == WF_servo(subject = "servo" /\ Sv!GoodMeasurement)

WhFairness ==
  /\ WF_wrh(subject = "wrh" /\ Wh!wrh_servo_got_sync)
  /\ WF_wrh(subject = "wrh" /\ Wh!wrh_servo_got_resp)
  /\ WF_wrh(subject = "wrh" /\ Wh!wrh_servo_got_presp)
  /\ WF_wrh(subject = "wrh" /\ Wh!AdjustDone) /\ WF_wrh(subject = "wrh" /\ Wh!PllLocks)
  /\ WF_wrh(subject = "wrh" /\ Wh!Restart) /\ WF_wrh(subject = "wrh" /\ Wh!ReadyForSync)

L1Fairness ==
  /\ \A e \in End : /\ WF_l1(subject = "l1" /\ L1!Receive(e))
                    /\ WF_l1(subject = "l1" /\ L1!Poll(e))
  /\ WF_l1(subject = "l1" /\ L1!PllLocks)

WtFairness == WF_mode(subject = "mode" /\ Wt!Loop) /\ WF_mode(subject = "mode" /\ Wt!PllLocks)

ProgressSpec ==
  /\ ProgressInit /\ [][ProgressNext]_<<subject, vars, servo, wrh, l1, mode>>
  /\ WrFairness /\ SvFairness /\ WhFairness /\ L1Fairness /\ WtFairness

-----------------------------------------------------------------------------
(* With fallback to PTP a port does not stay UNCALIBRATED for ever,        *)
(* whichever frames of the handshake are lost (wr_handshake_fail()).       *)
WrCalibrates ==
  subject = "wr" /\ port["S"].fallback /\ port["S"].pp = "UNCALIBRATED"
    ~> subject = "wr" /\ port["S"].pp # "UNCALIBRATED"

(* Without fallback a failed handshake is followed by another one          *)
(* (doRestart, wr_bmca_s1(), wr_idle()).                                   *)
WrTriesAgain ==
  subject = "wr" /\ port["S"].pp = "UNCALIBRATED" /\ port["S"].wst = "IDLE"
    ~> subject = "wr" /\ (port["S"].pp # "UNCALIBRATED" \/ port["S"].wst # "IDLE")

(* A master does not stay in a handshake its slave has given up: it is     *)
(* ready for the next SLAVE_PRESENT again.                                 *)
WrMasterReleased ==
  subject = "wr" /\ port["M"].wst # "IDLE" ~> subject = "wr" /\ port["M"].wst = "IDLE"

(* Once disturbances stop, the filtered mean delay of the servo comes to   *)
(* the real one, up to the integer division, and stays there: it is not    *)
(* trapped in zero (pp_servo_mpd_fltr()).                                  *)
FilterConverges == <>[](subject = "servo" => Sv!FilterClose)

(* Whatever disturbs the clock, the PLL or the port, and wherever an       *)
(* adjustment takes effect between the stamps of a measurement, the servo  *)
(* of the extensions ends in TRACK_PHASE with the clock as close as the    *)
(* quarter steps of the phase bring it, and reports to be locked           *)
(* (wrh_servo_update()).                                                   *)
WhSettles == <>[](subject = "wrh" => Wh!Settled)

(* The ends of a link with L1Sync agree in the end.  Without lost frames   *)
(* both come up again after the cable was pulled or the PLL lost lock, and *)
(* the servo may work; lost frames can also leave both without the         *)
(* extension, but never one with and one without                           *)
(* (l1e_run_state_machine(), l1e_handle_signaling()).                      *)
L1SyncSettles ==
  /\ <>[](subject = "l1" /\ L1!OnlyLocal => L1!BothUp /\ L1!MayWork)
  /\ \/ <>[](subject = "l1" /\ L1!NoReselection => L1!BothUp)
     \/ <>[](subject = "l1" /\ L1!NoReselection => L1!BothPlain)

(* Whatever mode the HAL was found in, whichever call fails and however    *)
(* often ppsi is restarted, a clock configured as grand master ends up in  *)
(* grand master mode, and with its PPS output on                           *)
(* (grand_master_initialized(), bmc_update_clock_quality()).               *)
GmOutputs == <>[](subject = "mode" => Wt!GmOn)
=============================================================================
