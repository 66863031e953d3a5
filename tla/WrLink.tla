------------------------------- MODULE WrLink -------------------------------
(***************************************************************************)
(* The White Rabbit extension on the two ends of one link: the handshake   *)
(* (proto-ext-whiterabbit/state-wr-*.c, wr-state-machine.c, common-fun.c), *)
(* the hooks the standard state machine calls (hooks.c) and the extension  *)
(* state of fsm.c.                                                         *)
(*                                                                         *)
(* End "M" is a port that becomes MASTER, end "S" one that becomes its     *)
(* slave.  Each step is one call of pp_state_machine() on one end, with    *)
(* the next frame or without.  Frames travel in order and may be lost.  A  *)
(* handshake timer of R + 1 periods is counted in whole periods: tick says *)
(* that the call finds another period over, and the delay a state returns  *)
(* brings a call at the end of each.                                       *)
(***************************************************************************)
EXTENDS Naturals, Sequences

CONSTANTS
  R,          \* WR_STATE_RETRY
  Fallbacks,  \* the values of ppi->ptp_fallback
  WrNodes,    \* whether the master is a WR node: {TRUE}, {FALSE} or both
  Expires,    \* the ends whose PROT_STATE timer may expire
  Cap,        \* frames under way in one direction, a bound
  MaxFaults   \* faults of the link or the PLL, a bound

ASSUME RetryAssumption == R \in Nat /\ Cap \in Nat \ {0} /\ MaxFaults \in Nat
ASSUME LinkAssumption == Fallbacks \subseteq BOOLEAN /\ WrNodes \subseteq BOOLEAN

End == {"M", "S"}
Peer(e) == IF e = "M" THEN "S" ELSE "M"

WrStates == {"IDLE", "PRESENT", "S_LOCK", "M_LOCK", "LOCKED", "CALIBRATION",
             "CALIBRATED", "RESP_CALIB_REQ", "WR_LINK_ON"}
Waiting  == WrStates \ {"IDLE", "CALIBRATION", "WR_LINK_ON"}
Signals  == {"SLAVE_PRESENT", "LOCK", "LOCKED", "CALIBRATE", "CALIBRATED", "WR_MODE_ON"}

Nothing  == [kind |-> "none"]
Sig(id)  == [kind |-> "signaling", id |-> id]

VARIABLES
  port,    \* the two port instances, see Init
  net,     \* the frames on their way to each end
  faults   \* faults so far: see Fault

vars == <<port, net, faults>>

-----------------------------------------------------------------------------
(* common-fun.c and the extension state of fsm.c.                          *)

wr_reset_process(x, role) ==
  [x EXCEPT !.role = role, !.on = FALSE,
            !.parentWr = @ /\ role = "SLAVE", !.parentOn = @ /\ role = "SLAVE"]

pdstate_enable_extension(x) == [x EXCEPT !.ext = "ACTIVE"]

(* extension_state_changed() resets the process as well.                   *)
pdstate_disable_extension(x) ==
  IF x.ext = "ACTIVE" THEN [wr_reset_process(x, "NONE") EXCEPT !.ext = "PTP"] ELSE x

(* Mutant: a failed handshake leaves the extension as it is.               *)
wr_handshake_fail_StaysActive(x) ==
  IF x.fallback THEN [wr_reset_process(x, "NONE") EXCEPT !.wnext = "IDLE", !.restart = FALSE]
              ELSE [x EXCEPT !.wnext = "IDLE", !.restart = TRUE]

(* Mutant: without fallback nothing asks for another handshake.            *)
wr_handshake_fail_NoRestart(x) ==
  IF x.fallback
  THEN pdstate_disable_extension([x EXCEPT !.wnext = "IDLE", !.restart = FALSE])
  ELSE [x EXCEPT !.wnext = "IDLE"]

(* Without fallback to PTP the next Announce starts another handshake.     *)
wr_handshake_fail(x) ==
  IF x.fallback
  THEN pdstate_disable_extension([x EXCEPT !.wnext = "IDLE", !.restart = FALSE])
  ELSE [x EXCEPT !.wnext = "IDLE", !.restart = TRUE]

-----------------------------------------------------------------------------
(* The WR states.  A state function gives the port afterwards, the         *)
(* signaling message it sends, if any, and ppi->next_state.                *)

Result(x, msg) == [x |-> x, send |-> msg, next |-> x.pp]

(* The start of a waiting state.                                           *)
StartWait(x) == [x EXCEPT !.retry = R]

(* wr_handshake_retry(): one more period has passed, and the message is    *)
(* sent again; or the last one has, and the handshake failed.              *)
CheckTime(x, tick, msg) ==
  IF ~tick THEN Result(x, Nothing)
  ELSE IF x.retry = 0 THEN Result(wr_handshake_fail(x), Nothing)
  ELSE Result([x EXCEPT !.retry = @ - 1], msg)

(* wr_present(), wr_m_lock(), wr_locked(), wr_calibrated(): send msg and   *)
(* wait for the message that leads to state to.  A frame that comes with   *)
(* the first call of a state is not looked at.                             *)
SendAndWait(x, new, f, tick, msg, expected, to) ==
  IF new THEN Result(StartWait(x), msg)
  ELSE IF f.kind = "signaling"
  THEN Result(IF f.id = expected THEN [x EXCEPT !.wnext = to] ELSE x, Nothing)
  ELSE CheckTime(x, tick, msg)

(* wr_servo_init() forgets a restart the servo asked for.                  *)
wr_present(x, new, f, tick) ==
  SendAndWait(IF new THEN [x EXCEPT !.restart = FALSE] ELSE x,
              new, f, tick, Sig("SLAVE_PRESENT"), "LOCK", "S_LOCK")

(* Mutant: the master never gives up.                                      *)
wr_m_lock_NoTimeout(x, new, f, tick) ==
  SendAndWait(IF new THEN wr_reset_process(x, "MASTER") ELSE x,
              new, f, FALSE, Sig("LOCK"), "LOCKED", "CALIBRATION")

wr_m_lock(x, new, f, tick) ==
  SendAndWait(IF new THEN wr_reset_process(x, "MASTER") ELSE x,
              new, f, tick, Sig("LOCK"), "LOCKED", "CALIBRATION")

(* wr_s_lock(): locked is what locking_poll() says; each retry disables    *)
(* locking and enables it again.                                           *)
wr_s_lock(x, new, tick, locked) ==
  IF new THEN Result([StartWait(x) EXCEPT !.lock = "enabled"], Nothing)
  ELSE IF locked THEN Result([x EXCEPT !.wnext = "LOCKED", !.lock = "locked"], Nothing)
  ELSE CheckTime(IF tick THEN [x EXCEPT !.lock = IF x.retry = 0 THEN "off" ELSE "enabled"]
                 ELSE x, tick, Nothing)

wr_locked(x, new, f, tick) ==
  SendAndWait(x, new, f, tick, Sig("LOCKED"), "CALIBRATE", "RESP_CALIB_REQ")

wr_calibration(x) == Result([x EXCEPT !.wnext = "CALIBRATED"], Sig("CALIBRATE"))

wr_calibrated(x, new, f, tick) ==
  IF x.role = "MASTER"
  THEN SendAndWait(x, new, f, tick, Sig("CALIBRATED"), "CALIBRATE", "RESP_CALIB_REQ")
  ELSE SendAndWait(x, new, f, tick, Sig("CALIBRATED"), IF x.role = "SLAVE" THEN "WR_MODE_ON" ELSE "",
                   "WR_LINK_ON")

(* wr_resp_calib_req(): sends nothing, and does look at the frame of its   *)
(* first call.                                                             *)
wr_resp_calib_req(x, new, f, tick) ==
  LET y == IF new THEN StartWait(x) ELSE x
      to == IF x.role = "MASTER" THEN "WR_LINK_ON" ELSE "CALIBRATION"
  IN  IF f.kind = "signaling"
      THEN Result(IF f.id = "CALIBRATED" THEN [y EXCEPT !.wnext = to] ELSE y, Nothing)
      ELSE CheckTime(y, tick, Nothing)

(* wr_link_on(): tried again when the message cannot be sent.              *)
wr_link_on(x, err) ==
  IF x.role = "MASTER" /\ err THEN Result(x, Nothing)
  ELSE Result([x EXCEPT !.on = TRUE, !.parentOn = TRUE, !.wnext = "IDLE"],
              IF x.role = "MASTER" THEN Sig("WR_MODE_ON") ELSE Nothing)

(* wr_idle(): a master waits for a slave to present itself; any other port *)
(* acts on a change of its parent, and goes back to UNCALIBRATED for it.   *)
wr_idle(x, f) ==
  IF x.pp = "MASTER"
  THEN Result(IF f = Sig("SLAVE_PRESENT")
              THEN [pdstate_enable_extension(x) EXCEPT !.wnext = "M_LOCK"]
              ELSE IF f.kind = "signaling" THEN pdstate_enable_extension(x) ELSE x, Nothing)
  ELSE LET y == [x EXCEPT !.detect = "NO"]
           z == CASE x.detect = "WR" ->
                       [wr_reset_process(pdstate_enable_extension(y), "SLAVE")
                           EXCEPT !.wnext = "PRESENT"]
                  [] x.detect = "NOT_WR" -> pdstate_disable_extension(y)
                  [] OTHER -> x
       IN  [Result(z, Nothing) EXCEPT !.next =
              IF x.detect # "NO" /\ x.pp = "SLAVE" THEN "UNCALIBRATED" ELSE x.pp]

(* wr_run_state_machine().  The timer means nothing outside the states     *)
(* that wait, where it is zero here.                                       *)
wr_run_state_machine(x0, f, tick, locked, err) ==
  LET s   == IF x0.ext = "ACTIVE" THEN x0.wnext ELSE "IDLE"
      new == x0.wst # s
      x   == IF s \in Waiting THEN [x0 EXCEPT !.wst = s, !.wnext = s]
             ELSE [x0 EXCEPT !.wst = s, !.wnext = s, !.retry = 0]
  IN  CASE s = "IDLE"           -> wr_idle(x, f)
        [] s = "PRESENT"        -> wr_present(x, new, f, tick)
        [] s = "M_LOCK"         -> wr_m_lock(x, new, f, tick)
        [] s = "S_LOCK"         -> wr_s_lock(x, new, tick, locked)
        [] s = "LOCKED"         -> wr_locked(x, new, f, tick)
        [] s = "CALIBRATION"    -> wr_calibration(x)
        [] s = "CALIBRATED"     -> wr_calibrated(x, new, f, tick)
        [] s = "RESP_CALIB_REQ" -> wr_resp_calib_req(x, new, f, tick)
        [] s = "WR_LINK_ON"     -> wr_link_on(x, err)

-----------------------------------------------------------------------------
(* The hooks the standard state machine calls (hooks.c).                   *)

(* An Announce of the parent.  The servo asked for a restart, or sequence  *)
(* numbers are missing (a gap of more than one): that is a new parent.     *)
wr_bmca_s1(x, ann) ==
  LET newParent == x.restart \/ x.gap
  IN  [x EXCEPT !.restart = FALSE, !.gap = FALSE,
                !.parentWr = ann.wr, !.parentOn = ann.on,
                !.detect = IF ~newParent THEN @ ELSE IF ann.wr THEN "WR" ELSE "NOT_WR"]

(* Mutant: WR mode is not required.                                        *)
wr_ready_for_slave_AnyMode(x) == x.ext = "ACTIVE" => x.wst = "IDLE"

wr_ready_for_slave(x) == x.ext = "ACTIVE" => x.on /\ x.parentOn /\ x.wst = "IDLE"

(* wr_new_slave() simulates a new parent.                                  *)
wr_new_slave(x) == IF x.ext = "ACTIVE" THEN [x EXCEPT !.restart = TRUE] ELSE x

wr_state_change(x0, next) ==
  LET x == IF x0.pp = "SLAVE" /\ next = "UNCALIBRATED" /\ x0.parentWr
           THEN pdstate_enable_extension(x0) ELSE x0
      y == IF x.on /\ x.pp \in {"SLAVE", "MASTER"} THEN wr_reset_process(x, "NONE") ELSE x
      z == CASE x.ext # "ACTIVE" -> wr_reset_process(x, "NONE")
             [] x.ext = "ACTIVE" /\ next = "MASTER" ->
                  [wr_reset_process(y, "MASTER") EXCEPT !.wnext = "IDLE"]
             [] x.ext = "ACTIVE" /\ next = "UNCALIBRATED" /\ x.pp = "SLAVE" /\ y.parentWr ->
                  [wr_reset_process(y, "SLAVE") EXCEPT !.wnext = "PRESENT"]
             [] x.ext = "ACTIVE" /\ next = "UNCALIBRATED" /\ x.pp # "SLAVE" /\ ~y.parentWr ->
                  wr_handshake_fail(y)
             [] x.ext = "ACTIVE" /\ next = "LISTENING" -> wr_reset_process(y, "NONE")
             [] OTHER -> y
  IN  [z EXCEPT !.lock = IF x.pp = "SLAVE" THEN "off" ELSE @]

(* pp_leave_current_state()                                                *)
pp_leave_current_state(x, next) ==
  [wr_state_change(x, next) EXCEPT !.pp = next, !.isNew = TRUE]

-----------------------------------------------------------------------------
(* The steps.                                                              *)

(* __send_and_log(): a frame that finds the link full is lost.             *)
Sent(q, f) == IF f = Nothing \/ Len(q) = Cap THEN q ELSE Append(q, f)

(* The end e becomes x, the frames on their way to it become q, and send   *)
(* leaves for the other end.                                               *)
Step(e, x, q, send) ==
  /\ port' = [port EXCEPT ![e] = x]
  /\ net' = [net EXCEPT ![e] = q, ![Peer(e)] = Sent(@, send)]

(* An event that starts the handshake anew or ends it: the link goes down, *)
(* the PLL unlocks, Announces are missing, the grandmaster changes.        *)
Fault == faults < MaxFaults /\ faults' = faults + 1

(* The end of a call of pp_state_machine(): the protocol detection timer,  *)
(* then the extension's state machine.                                     *)
RunExtension(e, x, q, f, tick) ==
  /\ UNCHANGED faults
  /\ \E expired \in {b \in BOOLEAN : b => e \in Expires /\ x.ext = "ACTIVE"},
        locked \in {b \in BOOLEAN : b => x.wnext = "S_LOCK"},
        err \in {b \in BOOLEAN : b => x.wnext = "WR_LINK_ON"} :
       \E r \in {wr_run_state_machine(IF expired THEN pdstate_disable_extension(x) ELSE x,
                                      f, tick, locked, err)} :
         Step(e, IF r.next = x.pp THEN r.x ELSE pp_leave_current_state(r.x, r.next), q, r.send)

(* pp_slave(), in UNCALIBRATED and SLAVE.                                  *)
SlaveCall(q, f, tick) ==
  LET x == port["S"]
      y == IF x.pp = "UNCALIBRATED" /\ x.isNew THEN wr_new_slave(x) ELSE x
      z == [IF f.kind = "announce" THEN wr_bmca_s1(y, f) ELSE y EXCEPT !.isNew = FALSE]
      ready == x.pp = "UNCALIBRATED" /\ wr_ready_for_slave(x)
  IN  /\ x.pp \in {"UNCALIBRATED", "SLAVE"}
      /\ \/ ready /\ UNCHANGED faults /\ Step("S", pp_leave_current_state(z, "SLAVE"), q, Nothing)
         \/ ~ready /\ RunExtension("S", z, q, f, tick)
         \/ \* the grandmaster has changed
            /\ x.pp = "SLAVE" /\ Fault
            /\ Step("S", pp_leave_current_state(z, "UNCALIBRATED"), q, Nothing)
         \/ \* the Announce receipt timer has expired
            /\ f.kind # "announce" /\ Fault
            /\ Step("S", pp_leave_current_state(z, "LISTENING"), q, Nothing)

(* pp_listening() on a slave-only clock.  The Announce may be the one with *)
(* which the sender is qualified and chosen: the port has then been called *)
(* in LISTENING for the whole interval between two Announces.              *)
ListeningCall(q, f, tick) ==
  LET x == [port["S"] EXCEPT !.isNew = FALSE]
  IN  /\ x.pp = "LISTENING"
      /\ \/ \E gap \in {x.gap, x.gap \/ f.kind = "announce"} :
              RunExtension("S", [x EXCEPT !.gap = gap], q, f, tick)
         \/ /\ f.kind = "announce" /\ ~port["S"].isNew /\ x.wst = x.wnext /\ UNCHANGED faults
            /\ Step("S", pp_leave_current_state(wr_bmca_s1(x, f), "UNCALIBRATED"), q, Nothing)

(* The master: in LISTENING until its Announce receipt timer expires.  One *)
(* that is not a WR node knows nothing of the extension.                   *)
MasterCall(q, f, tick) ==
  LET x == port["M"]
  IN  \/ x.wr /\ RunExtension("M", x, q, f, tick)
      \/ /\ x.pp = "LISTENING" /\ UNCHANGED faults
         /\ Step("M", pp_leave_current_state(x, "MASTER"), q, Nothing)
      \/ ~x.wr /\ f # Nothing /\ UNCHANGED faults /\ Step("M", x, q, Nothing)

Call(e, q, f, tick) ==
  IF e = "M" THEN MasterCall(q, f, tick) ELSE SlaveCall(q, f, tick) \/ ListeningCall(q, f, tick)

(* pp_state_machine() without and with a frame, and at the end of a        *)
(* period.                                                                 *)
Idle(e)    == Call(e, net[e], Nothing, FALSE)
Receive(e) == net[e] # <<>> /\ Call(e, Tail(net[e]), Head(net[e]), FALSE)
Tick(e)    == port[e].wst \in Waiting /\ port[e].wnext = port[e].wst /\ Call(e, net[e], Nothing, TRUE)

(* A master sends an Announce.                                             *)
Announce ==
  /\ port["M"].pp = "MASTER" /\ Len(net["S"]) < Cap
  /\ net' = [net EXCEPT !["S"] = Append(@, [kind |-> "announce", wr |-> port["M"].wr,
                                            on |-> port["M"].wr /\ port["M"].on])]
  /\ UNCHANGED <<port, faults>>

(* A frame is lost.                                                        *)
Lose(e) ==
  /\ net[e] # <<>>
  /\ net' = [net EXCEPT ![e] = Tail(@)]
  /\ UNCHANGED <<port, faults>>

(* More than one Announce is lost.                                         *)
Gap ==
  /\ Fault
  /\ net["S"] # <<>> /\ Head(net["S"]).kind = "announce"
  /\ net' = [net EXCEPT !["S"] = Tail(@)]
  /\ port' = [port EXCEPT !["S"].gap = TRUE]

(* The servo finds the PLL unlocked.                                       *)
PllUnlocked ==
  /\ port["S"].pp \in {"UNCALIBRATED", "SLAVE"} /\ port["S"].ext = "ACTIVE"
  /\ port["S"].lock = "locked"
  /\ Fault
  /\ port' = [port EXCEPT !["S"].restart = TRUE]
  /\ UNCHANGED net

(* The port when its link has gone down and come up again: state DISABLED, *)
(* INITIALIZING with wr_init(), then LISTENING.  The extension's state     *)
(* machine does not run meanwhile, and keeps its state.                    *)
Reopened(x) ==
  [pp_leave_current_state(wr_reset_process([pp_leave_current_state(x, "DISABLED")
                                              EXCEPT !.ext = "ACTIVE"], "NONE"), "LISTENING")
     EXCEPT !.restart = @ \/ x.pp \in {"UNCALIBRATED", "SLAVE"}]

(* The link goes down and comes up, with the same or another master.       *)
Flap ==
  /\ Fault
  /\ \E wr \in WrNodes, gap \in {port["S"].gap, TRUE} :
       port' = [e \in End |-> IF e = "M" THEN [Reopened(port[e]) EXCEPT !.wr = wr]
                              ELSE [Reopened(port[e]) EXCEPT !.gap = gap]]
  /\ net' = [e \in End |-> <<>>]

Init ==
  /\ \E fb \in Fallbacks, wr \in WrNodes :
       port = [e \in End |->
                 [pp |-> "LISTENING", isNew |-> TRUE, wst |-> "IDLE", wnext |-> "IDLE",
                  ext |-> "ACTIVE", role |-> "NONE", on |-> FALSE,
                  parentWr |-> FALSE, parentOn |-> FALSE, detect |-> "NO",
                  restart |-> FALSE, gap |-> TRUE, lock |-> "off", retry |-> 0,
                  fallback |-> fb, wr |-> e = "S" \/ wr]]
  /\ net = [e \in End |-> <<>>]
  /\ faults = 0

Next ==
  \/ \E e \in End : Idle(e) \/ Receive(e) \/ Tick(e) \/ Lose(e)
  \/ Announce \/ Gap \/ PllUnlocked \/ Flap

Spec == Init /\ [][Next]_vars

(* The main loop calls the state machine of a port again and again, with   *)
(* the frames that arrive and without; time passes; and of the Announces   *)
(* that keep coming some arrive.                                           *)
Fairness ==
  /\ \A e \in End : WF_vars(Idle(e)) /\ WF_vars(Tick(e))
  /\ WF_vars(Receive("S"))
  /\ WF_vars(Announce)
  /\ SF_vars(net["S"] # <<>> /\ Head(net["S"]).kind = "announce" /\ Receive("S"))

FairSpec == Spec /\ Fairness

-----------------------------------------------------------------------------
(* Properties.                                                             *)

Frames == {Sig(id) : id \in Signals} \cup [kind : {"announce"}, wr : BOOLEAN, on : BOOLEAN]

(* The type invariant.                                                     *)
TypeOK ==
  /\ port \in [End -> [pp : {"LISTENING", "UNCALIBRATED", "SLAVE", "MASTER"}, isNew : BOOLEAN,
                       wst : WrStates, wnext : WrStates, ext : {"ACTIVE", "PTP"},
                       role : {"NONE", "MASTER", "SLAVE"}, on : BOOLEAN,
                       parentWr : BOOLEAN, parentOn : BOOLEAN, detect : {"NO", "WR", "NOT_WR"},
                       restart : BOOLEAN, gap : BOOLEAN, lock : {"off", "enabled", "locked"},
                       retry : 0..R, fallback : BOOLEAN, wr : BOOLEAN]]
  /\ net \in [End -> Seq(Frames)]
  /\ (\A e \in End : Len(net[e]) <= Cap) /\ faults \in 0..MaxFaults

(* A slave is in WR mode only while its master is: whatever frames of the  *)
(* handshake were lost, sent again or came late, the two ends finished the *)
(* same handshake (wr_link_on(), wr_reset_process()).                      *)
WrModeAgreed == port["S"].pp = "SLAVE" /\ port["S"].on => port["M"].on

(* A slave in WR mode has its PLL locked to the link: no handshake gets    *)
(* past wr_s_lock() on the lock of an earlier one.                         *)
WrModeLocked == port["S"].pp = "SLAVE" /\ port["S"].on => port["S"].lock = "locked"

(* A port is in state SLAVE with the extension active only in WR mode: it  *)
(* does not use the WR servo after a handshake that was not finished       *)
(* (wr_ready_for_slave(), wr_idle(), wr_state_change()).                   *)
SlaveInWrMode == port["S"].pp = "SLAVE" /\ port["S"].ext = "ACTIVE" => port["S"].on

(* A slave in WR mode has a master in WR mode and a locked PLL, and with   *)
(* the extension active it is a slave in WR mode only: whatever frames of  *)
(* the handshake are lost, repeated or late, whenever a timer of an end in *)
(* Expires runs out and whenever the PLL or the link fails (wr_link_on(),  *)
(* wr_s_lock(), wr_ready_for_slave(), wr_reset_process()).                 *)
WrModeSound == WrModeAgreed /\ WrModeLocked /\ SlaveInWrMode

(* With fallback to PTP a port does not stay UNCALIBRATED for ever,        *)
(* whichever frames of the handshake are lost (wr_handshake_fail()).       *)
Calibrates ==
  port["S"].fallback /\ port["S"].pp = "UNCALIBRATED" ~> port["S"].pp # "UNCALIBRATED"

(* Without fallback a failed handshake is followed by another one          *)
(* (doRestart, wr_bmca_s1(), wr_idle()).                                   *)
TriesAgain ==
  port["S"].pp = "UNCALIBRATED" /\ port["S"].wst = "IDLE"
    ~> port["S"].pp # "UNCALIBRATED" \/ port["S"].wst # "IDLE"

(* A master does not stay in a handshake its slave has given up: it is     *)
(* ready for the next SLAVE_PRESENT again.                                 *)
MasterReleased == port["M"].wst # "IDLE" ~> port["M"].wst = "IDLE"
=============================================================================
