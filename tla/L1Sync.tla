------------------------------- MODULE L1Sync -------------------------------
(***************************************************************************)
(* The L1Sync extension on the two ends of a link: its state machine       *)
(* (l1e-state-machine.c), the hooks of the standard state machine          *)
(* (l1e-hooks.c), the TLV (l1e-msg.c) and the extension state of fsm.c.    *)
(*                                                                         *)
(* End "M" becomes MASTER, end "S" its slave.  A step is one call of       *)
(* pp_state_machine() on one end.  A TLV carries two sets of properties,   *)
(* the required and the active ones, among tx (coherent), rx (coherent)    *)
(* and cong(ruent); both ends require the same.                            *)
(***************************************************************************)
EXTENDS Naturals, Sequences

CONSTANTS
  Required,    \* txCoherentIsRequired, rxCoherentIsRequired, congruentIsRequired
  FaultKinds,  \* sets of faults: a behaviour meets those of one set
  MaxFaults,   \* faults in a behaviour, a bound
  Cap          \* frames under way in one direction, a bound

VARIABLES l1Port, l1Net, l1Kinds, l1Faults
l1Vars == <<l1Port, l1Net, l1Kinds, l1Faults>>

End == {"M", "S"}
Peer(e) == IF e = "M" THEN "S" ELSE "M"
SlaveStates == {"UNCALIBRATED", "SLAVE"}
Nothing == [kind |-> "none"]

(* F applied to a value that is computed once.                             *)
Then(F(_), value) == CHOOSE r \in {F(v) : v \in {value}} : TRUE

-----------------------------------------------------------------------------
(* The events of the state machine.                                        *)

le1_evt_L1_SYNC_RESET(x) == ~x.link \/ x.st = "INITIALIZING"
le1_evt_CONFIG_OK(x) == x.peerReq = Required

(* STATE_OK updates what the port itself reports before it is evaluated.   *)
OwnActive(x) ==
  LET tx == x.act \cap {"tx"}
  IN  CASE x.st \in SlaveStates -> tx \cup (IF x.pll = "locked" THEN {"rx", "cong"} ELSE {})
        [] x.st = "MASTER" -> tx \cup {"cong"} \cup
                              (IF {"tx", "rx"} \subseteq x.peerAct /\ tx # {} THEN {"rx"} ELSE {})
        [] OTHER -> x.act \ {"cong"}
le1_evt_STATE_OK(x) == Required \subseteq x.act /\ Required \subseteq x.peerAct

-----------------------------------------------------------------------------
(* The servo and the PLL, as far as L1Sync sees them.                      *)

wrh_servo_init(x) == [x EXCEPT !.ready = FALSE]

wrh_servo_reset(x) == IF x.ext = "ACTIVE" THEN [x EXCEPT !.ready = FALSE] ELSE x

l1e_send_sync_msg(x) == [x EXCEPT !.out = [kind |-> "l1sync", req |-> Required, act |-> x.act]]

(* The handlers return a record; exec says that they returned a delay of 0.*)
Goto(x, state) == [x EXCEPT !.nxt = state, !.exec = TRUE]
Forget(x) == [x EXCEPT !.peerReq = {}, !.peerAct = {}]
Iterate(x, due) == [(IF due THEN l1e_send_sync_msg(x) ELSE x) EXCEPT !.exec = FALSE]

l1e_handle_state_disabled(x, new) ==
  LET y == IF new THEN [Forget(x) EXCEPT !.act = {}] ELSE x
  IN  IF le1_evt_L1_SYNC_RESET(y) THEN [y EXCEPT !.exec = FALSE] ELSE Goto(y, "IDLE")

l1e_handle_state_link_alive(x, due) ==
  IF ~x.alive THEN Goto(x, "IDLE")
  ELSE IF le1_evt_CONFIG_OK(x) /\ x.st \in SlaveStates \cup {"MASTER"} THEN Goto(x, "CONFIG_MATCH")
  ELSE Iterate(x, due)

l1e_handle_state_config_match(x, new, due) ==
  LET y == IF new /\ x.st \in SlaveStates /\ "cong" \in Required
           THEN wrh_servo_init([x EXCEPT !.act = @ \ {"rx"}, !.pll = "locking"]) ELSE x
      z == [y EXCEPT !.act = OwnActive(y)]
  IN  IF ~y.alive THEN Goto(y, "IDLE")
      ELSE IF ~le1_evt_CONFIG_OK(y) THEN Goto(y, "LINK_ALIVE")
      ELSE IF le1_evt_STATE_OK(z) THEN Goto(z, "UP")
      ELSE Iterate(z, due)

-----------------------------------------------------------------------------
(* pdstate_disable_extension() reaches l1e_run_state_machine() again       *)
(* through extension_state_changed(), with DISABLED as next state; the     *)
(* timers that are due have been seen by then.                             *)

Disabled(x) == l1e_handle_state_disabled([x EXCEPT !.l1 = "DISABLED", !.nxt = "DISABLED"],
                                         x.l1 # "DISABLED")

pdstate_disable_extension(x) ==
  LET y == [x EXCEPT !.pd = "FAILURE"]
  IN  IF y.ext # "ACTIVE" THEN y
      ELSE IF y.l1 = "DISABLED" THEN [y EXCEPT !.ext = "PTP"]
      ELSE Disabled([y EXCEPT !.ext = "PTP"])

pdstate_enable_extension(x) ==
  IF x.pd = "NONE" THEN x
  ELSE IF x.ext = "ACTIVE" THEN [x EXCEPT !.pd = "PDETECTED"]
  ELSE wrh_servo_init([x EXCEPT !.pd = "PDETECTED", !.ext = "ACTIVE"])

l1e_handle_state_idle(x, new, due) ==
  LET y == IF new THEN l1e_send_sync_msg(Forget(x)) ELSE x
  IN  IF le1_evt_L1_SYNC_RESET(y) THEN Goto(pdstate_disable_extension(y), "DISABLED")
      ELSE IF y.alive THEN Goto(y, "LINK_ALIVE")
      ELSE Iterate(y, due)

LeaveUp(x) ==
  IF x.st \in SlaveStates THEN [wrh_servo_reset([x EXCEPT !.pll = "off"]) EXCEPT !.exec = TRUE]
  ELSE [x EXCEPT !.exec = TRUE]

(* Of several reasons to leave UP the last one decides.                    *)
CheckLink(x)   == IF x.alive THEN x ELSE [pdstate_disable_extension(x) EXCEPT !.nxt = "IDLE"]
CheckConfig(x) == IF le1_evt_CONFIG_OK(x) THEN x ELSE [x EXCEPT !.nxt = "LINK_ALIVE"]
CheckState(x)  == IF le1_evt_STATE_OK(x) THEN x ELSE [x EXCEPT !.nxt = "CONFIG_MATCH"]
Evaluated(x)   == [x EXCEPT !.act = OwnActive(x)]

l1e_handle_state_up(x, new, due) ==
  LET y == [x EXCEPT !.ready = @ \/ new]
      u == Then(CheckState, Then(Evaluated, Then(CheckConfig, CheckLink(y))))
  IN  IF u.nxt # "UP" THEN LeaveUp(u)
      ELSE Iterate(IF new THEN pdstate_enable_extension(u) ELSE u, due)

le1_state_action(x, new, due) ==
  CASE x.l1 = "DISABLED" -> l1e_handle_state_disabled(x, new)
    [] x.l1 = "IDLE" -> l1e_handle_state_idle(x, new, due)
    [] x.l1 = "LINK_ALIVE" -> l1e_handle_state_link_alive(x, due)
    [] x.l1 = "CONFIG_MATCH" -> l1e_handle_state_config_match(x, new, due)
    [] x.l1 = "UP" -> l1e_handle_state_up(x, new, due)

(* due.tx, due.rx: the two timers of the extension have expired.           *)
l1e_run_state_machine(x, due) ==
  LET new == x.nxt # x.l1
      Action(y) == IF y.exec THEN le1_state_action(y, new, due.tx) ELSE y
  IN  IF x.nxt # "DISABLED" /\ (x.ext # "ACTIVE" \/ x.st = "INITIALIZING") THEN x
      ELSE Then(Action, [x EXCEPT !.act = (@ \ {"tx"}) \cup (IF x.link THEN {"tx"} ELSE {}),
                                  !.alive = @ /\ ~due.rx,
                                  !.exec = @ \/ due.rx \/ due.tx \/ new,
                                  !.l1 = x.nxt])

-----------------------------------------------------------------------------
(* The hooks of l1e-hooks.c.  next is the state the port is about to enter.*)

NoTimer == [tx |-> FALSE, rx |-> FALSE, prot |-> FALSE]

l1e_init(x) ==
  [Forget(x) EXCEPT !.alive = FALSE, !.act = {}, !.l1 = "DISABLED", !.nxt = "DISABLED",
                    !.pd = "WAIT_MSG", !.ext = "ACTIVE"]

(* Mutant: a TLV does not bring the extension back.                        *)
l1e_handle_signaling_NoEnable(x, frame) ==
  LET y == [x EXCEPT !.peerReq = frame.req, !.peerAct = frame.act, !.alive = TRUE]
  IN  IF y.pd = "PDETECTION" THEN [y EXCEPT !.pd = "PDETECTED"] ELSE y

l1e_handle_signaling(x, frame) ==
  LET y == [x EXCEPT !.peerReq = frame.req, !.peerAct = frame.act, !.alive = TRUE]
      z == IF y.ext = "PTP" THEN pdstate_enable_extension(y) ELSE y
  IN  IF z.pd = "PDETECTION" THEN [z EXCEPT !.pd = "PDETECTED"] ELSE z

l1e_new_slave(x) == IF x.ext = "ACTIVE" THEN wrh_servo_init(x) ELSE x

l1e_state_change(x, next, due) ==
  LET y == IF x.ext = "PTP" /\ next = "UNCALIBRATED" THEN pdstate_enable_extension(x) ELSE x
  IN  IF (next = "DISABLED" \/ y.ext # "ACTIVE") /\ y.l1 # "DISABLED"
      THEN l1e_run_state_machine([y EXCEPT !.nxt = "DISABLED"], due)
      ELSE IF y.ext = "ACTIVE" /\ next = "INITIALIZING"
      THEN [y EXCEPT !.l1 = "DISABLED", !.nxt = "DISABLED"]
      ELSE IF y.st = "SLAVE" /\ next # "UNCALIBRATED" /\ y.l1 # "DISABLED"
      THEN wrh_servo_reset([y EXCEPT !.pll = "off"])
      ELSE y

pp_leave_current_state(x, next, due) ==
  LET y == [l1e_state_change(x, next, due) EXCEPT !.st = next, !.new = TRUE]
  IN  IF next = "DISABLED" THEN [y EXCEPT !.pd = "NONE", !.ext = "DISABLE"] ELSE y

-----------------------------------------------------------------------------
(* pp_state_machine().  frame is Nothing, a TLV or another PTP message;    *)
(* next is what the state's handler or the BMCA asks for.                  *)

StateHandler(x, frame) ==
  LET y == IF x.st = "INITIALIZING" THEN l1e_init(x)
           ELSE IF x.st = "UNCALIBRATED" /\ x.new THEN l1e_new_slave(x) ELSE x
  IN  IF frame.kind = "l1sync" /\ x.st # "INITIALIZING" THEN l1e_handle_signaling(y, frame) ELSE y

NextOfHandler(x, change) ==
  CASE x.st = "INITIALIZING" -> "LISTENING"
    [] x.st = "UNCALIBRATED" -> "SLAVE"
    [] x.st = "SLAVE" /\ change = "newgm"   -> "UNCALIBRATED"
    [] x.st = "SLAVE" /\ change = "silence" -> "LISTENING"
    [] OTHER -> x.st

NextOfBmc(e, x, change) ==
  IF x.st = "LISTENING" /\ change = "decide" THEN (IF e = "M" THEN "MASTER" ELSE "UNCALIBRATED")
  ELSE x.st

pp_state_machine(e, x, frame, due, change) ==
  LET Detection(y) == [y EXCEPT !.out = Nothing,
                         !.pd = IF @ = "WAIT_MSG" /\ frame # Nothing THEN "PDETECTION" ELSE @]
      Handler(y) == [StateHandler(y, frame) EXCEPT !.new = FALSE]
      CheckProtocol(y) == IF due.prot /\ y.ext = "ACTIVE" /\ y.pd \in {"PDETECTION", "PDETECTED"}
                          THEN pdstate_disable_extension(y) ELSE y
      Enter(next, y) == pp_leave_current_state(y, next, due)
      AfterHandler(y) ==
        IF NextOfBmc(e, y, change) # y.st THEN Enter(NextOfBmc(e, y, change), y)
        ELSE l1e_run_state_machine(y, due)
      handled == Then(Handler, Detection(x))
  IN  IF NextOfHandler(x, change) # x.st THEN Enter(NextOfHandler(x, change), handled)
      ELSE Then(AfterHandler, Then(CheckProtocol, handled))

(* The cable is pulled and plugged again: run_all_state_machines().        *)
Flapped(x) ==
  [pp_leave_current_state([x EXCEPT !.link = FALSE], "DISABLED", NoTimer)
     EXCEPT !.link = TRUE, !.st = "INITIALIZING", !.pll = IF @ = "locked" THEN "locking" ELSE @,
            !.out = Nothing]

-----------------------------------------------------------------------------
(* The two ends and the link.  A frame is on its way for less than an      *)
(* interval: the next periodic TLV is sent after the last one arrived, one *)
(* that is sent immediately may follow at once.  The receipt timer spans   *)
(* several intervals: it expires only when a frame was lost or the peer    *)
(* sends none, its extension being off; so does PROT_STATE, of the same    *)
(* length, before the protocol is detected, but not before the port itself *)
(* leaves DISABLED, 100 ms after INITIALIZING.                             *)

Permitted(e) ==
  LET silent == l1Net[e] = <<>> /\ (l1Port[e].quiet \/ l1Port[Peer(e)].ext # "ACTIVE")
  IN  [tx |-> l1Net[Peer(e)] = <<>>, rx |-> silent, prot |-> silent /\ l1Port[e].pd = "PDETECTION"
                                         /\ l1Port[e].l1 # "DISABLED"]
Timers(e) == {NoTimer, [NoTimer EXCEPT !.tx = Permitted(e).tx], [NoTimer EXCEPT !.rx = Permitted(e).rx],
              Permitted(e)}

Put(e, x) ==
  /\ x.out # Nothing => Len(l1Net[Peer(e)]) < Cap
  /\ l1Port' = [l1Port EXCEPT ![e] = [x EXCEPT !.out = Nothing]]

Sent(e, x, net) == IF x.out = Nothing THEN net ELSE [net EXCEPT ![Peer(e)] = Append(@, x.out)]

(* A call without a TLV, with another PTP message perhaps.                 *)
Call(e, frame, due, change) ==
  \E x \in {pp_state_machine(e, l1Port[e], frame, due, change)} :
    /\ Put(e, x)
    /\ l1Net' = Sent(e, x, l1Net)
    /\ UNCHANGED l1Kinds

(* A master announces, a slave asks for the delay; these other messages    *)
(* matter to a port that has heard none, and to the BMCA of one that       *)
(* listens.                                                                *)
Audible(e) == l1Port[Peer(e)].st \in SlaveStates \cup {"MASTER"}
Others(e) == IF Audible(e) /\ l1Port[e].pd = "WAIT_MSG" THEN {[kind |-> "other"]} ELSE {}
Decides(e) == IF l1Port[e].st = "LISTENING" /\ (e = "M" \/ Audible(e)) THEN "decide" ELSE ""

Timed(e) ==
  \E frame \in {Nothing} \cup Others(e), due \in Timers(e), change \in {"", Decides(e)} :
    Call(e, frame, due, change) /\ UNCHANGED l1Faults

Receive(e) ==
  /\ l1Net[e] # <<>>
  /\ \E x \in {[pp_state_machine(e, l1Port[e], Head(l1Net[e]), NoTimer, "") EXCEPT !.quiet = FALSE]} :
       /\ Put(e, x)
       /\ l1Net' = Sent(e, x, [l1Net EXCEPT ![e] = Tail(@)])
  /\ UNCHANGED <<l1Kinds, l1Faults>>

(* Locking takes longer than the exchange of TLVs by which both ends learn *)
(* that the slave is not coherent.                                         *)
Known(e) == "rx" \notin l1Port[e].peerAct /\ \A i \in DOMAIN l1Net[e] : "rx" \notin l1Net[e][i].act

PllLocks ==
  /\ l1Port["S"].pll = "locking"
  /\ \A e \in End : Known(e)
  /\ l1Port' = [l1Port EXCEPT !["S"].pll = "locked"]
  /\ UNCHANGED <<l1Net, l1Kinds, l1Faults>>

Fault(kind) == kind \in l1Kinds /\ l1Faults < MaxFaults /\ l1Faults' = l1Faults + 1

Lose(e) ==
  /\ Fault("lose")
  /\ l1Net[e] # <<>>
  /\ l1Net' = [l1Net EXCEPT ![e] = Tail(@)]
  /\ l1Port' = [l1Port EXCEPT ![e].quiet = TRUE]
  /\ UNCHANGED l1Kinds

PllUnlocks ==
  /\ Fault("unlock")
  /\ l1Port["S"].pll = "locked"
  /\ l1Port' = [l1Port EXCEPT !["S"].pll = "locking"]
  /\ UNCHANGED <<l1Net, l1Kinds>>

Flap(e) ==
  /\ Fault("flap")
  /\ \E x \in {Flapped(l1Port[e])} : l1Port' = [l1Port EXCEPT ![e] = x]
  /\ l1Net' = [l1Net EXCEPT ![e] = <<>>]
  /\ UNCHANGED l1Kinds

(* The masters fall silent, or the grand master behind the peer changes.   *)
Reselect(change) ==
  /\ Fault(change)
  /\ l1Port["S"].st = "SLAVE"
  /\ \E due \in Timers("S") : Call("S", Nothing, due, change)

(* No Delay_Resp or Delay_Req came for the time of the PROT_STATE timer.   *)
ProtocolLost(e) ==
  /\ Fault("protocol")
  /\ l1Port[e].pd = "PDETECTED"
  /\ Call(e, Nothing, [NoTimer EXCEPT !.prot = TRUE], "")

L1Init ==
  /\ l1Port = [e \in End |->
       [st |-> "INITIALIZING", new |-> TRUE, link |-> TRUE, ext |-> "DISABLE", pd |-> "NONE",
        l1 |-> "DISABLED", nxt |-> "DISABLED", exec |-> FALSE, alive |-> FALSE, act |-> {},
        peerReq |-> {}, peerAct |-> {}, ready |-> FALSE, pll |-> "off", quiet |-> FALSE,
        out |-> Nothing]]
  /\ l1Net = [e \in End |-> <<>>]
  /\ l1Kinds \in FaultKinds
  /\ l1Faults = 0

L1Next ==
  \/ \E e \in End : Timed(e) \/ Receive(e) \/ Lose(e) \/ Flap(e) \/ ProtocolLost(e)
  \/ PllLocks
  \/ PllUnlocks
  \/ \E change \in {"newgm", "silence"} : Reselect(change)

(* The loop calls each port again and again; a call finds every timer      *)
(* expired that is not restarted in time, frames arrive unless they are    *)
(* lost, and a PLL that is enabled locks.                                  *)
Poll(e) == Call(e, Nothing, Permitted(e), Decides(e)) /\ UNCHANGED l1Faults

L1Fair ==
  /\ \A e \in End : WF_l1Vars(Receive(e)) /\ WF_l1Vars(Poll(e))
  /\ WF_l1Vars(PllLocks)
L1Spec == L1Init /\ [][L1Next]_l1Vars

-----------------------------------------------------------------------------

BothUp == \A e \in End : l1Port[e].l1 = "UP" /\ l1Port[e].ext = "ACTIVE"
BothPlain == \A e \in End : l1Port[e].ext = "PTP"
MayWork == l1Port["S"].ready
OnlyLocal == l1Kinds \subseteq {"unlock", "flap"}
NoReselection == l1Kinds \subseteq {"unlock", "flap", "lose", "protocol"}

(* The ends agree in the end.  Without lost frames both come up again      *)
(* after the cable was pulled or the PLL lost lock, and the servo may      *)
(* work; lost frames can also leave both without the extension, each       *)
(* waiting for the other's TLV, but never one with and one without.        *)
L1SyncSettles ==
  /\ OnlyLocal => <>[](BothUp /\ MayWork)
  /\ NoReselection => <>[]BothUp \/ <>[]BothPlain
=============================================================================
