--------------------------- MODULE DelayExchange ----------------------------
(***************************************************************************)
(* A slave port measuring its offset: Sync and Follow_Up of the parent,    *)
(* the port's own delay requests, end to end or peer to peer, and the      *)
(* servo that combines the six time stamps (state-slave.c, state-master.c, *)
(* common-fun-p2p.c, fsm-lib.c, servo.c).  A time stamp is the tag of the  *)
(* event it was taken at, <<other party, sequenceId>>: what matters here   *)
(* is which events are put together, not their times.  The network loses,  *)
(* reorders and, for messages without a time stamp, duplicates.            *)
(***************************************************************************)
EXTENDS Integers, FiniteSetsExt

CONSTANTS
  OneStep,     \* masters that send their time stamp in the Sync
  DxModes,     \* what to start with: <<delayMechanism, externalPortConfiguration, Masters>>
  MaxReqs,     \* bound on the requests
  MaxSyncs,    \* bound on the Syncs
  MaxFlight,   \* bound on the messages in flight
  MaxChanges,  \* bound on the changes of the parent
  MaxDxFaults  \* bound on missing time stamps, failed sends and duplicates together

ASSUME DxAssumption == \A mode \in DxModes : mode[2] \in BOOLEAN /\ mode[3] # {}

VARIABLES
  dxMode,      \* delayMechanism, externalPortConfigurationEnabled, masters on the link
  dxPort,      \* the pp_instance and its servo
  dxNet,       \* messages in flight
  dxSyncSeq,   \* sequenceId of the last Sync of each master
  dxReqs,      \* delay requests some master has still to see: <<master, sequenceId>>
  dxChanges,   \* changes of the parent so far
  dxFaults     \* faults so far

dxVars == <<dxMode, dxPort, dxNet, dxSyncSeq, dxReqs, dxChanges, dxFaults>>

E2E == dxMode[1] = "E2E"
Epc == dxMode[2]
Masters == dxMode[3]

Zero      == <<"zero", 0>>
Incorrect == <<"incorrect", 0>>
Stamp(m, s) == <<m, s>>
AllZero   == [i \in 0..6 |-> Zero]

(* Of t, number 0 is the cField of the Sync that t1 starts from.           *)
InitialPort ==
  [state |-> "UNCALIBRATED", fresh |-> TRUE, parent |-> CHOOSE m \in Masters : TRUE,
   newGM |-> FALSE, waiting |-> FALSE, recvSeq |-> 0, t |-> AllZero, lastSnt |-> Zero,
   seq |-> 0, dresp |-> FALSE, dfup |-> FALSE,
   got |-> FALSE, st |-> AllZero, used |-> AllZero]

DxInit ==
  /\ dxMode \in DxModes
  /\ dxPort = InitialPort
  /\ dxNet = {} /\ dxReqs = {}
  /\ dxSyncSeq = [m \in Masters |-> 0]
  /\ dxChanges = 0 /\ dxFaults = 0

DxFault(yes) == dxFaults' = dxFaults + (IF yes THEN 1 ELSE 0) /\ dxFaults' <= MaxDxFaults

Msg(type, m, s) == [type |-> type, from |-> m, seq |-> s]

-----------------------------------------------------------------------------
(* The servo.  Every operator maps a port to the set of ports that the     *)
(* call may leave, over the values of the time stamps.                     *)

bad(p, mask) == \E i \in mask : p.t[i] = Incorrect

(* PP_SERVO_RESET_DATA() and the other resets of _pp_servo_init().         *)
pp_servo_init(p) == [p EXCEPT !.got = FALSE, !.st = AllZero]

(* pp_servo_calculate_delays() tests the time stamps of the instance and   *)
(* computes with those of the servo; the latter are recorded in used.      *)
CanCalculate(p) == ~bad(p, {1, 2}) /\ ~bad(p, IF E2E THEN {3, 4} ELSE {3, 4, 5, 6})

(* __pp_servo_update(): a mean delay of a second or more is dropped, a     *)
(* large offset is corrected by setting the time, any other by the PI      *)
(* controller.                                                             *)
Update(p) ==
  IF ~CanCalculate(p) THEN {p}
  ELSE LET q == [p EXCEPT !.used = p.st]
       IN  {q, pp_servo_init(q)}

(* pp_servo_got_sync()                                                     *)
pp_servo_got_sync(p) ==
  LET q == [p EXCEPT !.st[0] = p.t[0], !.st[1] = p.t[1], !.st[2] = p.t[2]]
  IN  IF ~E2E /\ q.got THEN Update([q EXCEPT !.got = FALSE])
      ELSE {[q EXCEPT !.got = TRUE]}

(* Mutant: the pair t1, t2 can be used again.                              *)
pp_servo_got_resp_Reused(p) ==
  IF ~p.got THEN {p}
  ELSE IF bad(p, {3, 4}) THEN {p}
  ELSE Update([p EXCEPT !.st[3] = p.t[3], !.st[4] = p.t[4]])

(* pp_servo_got_resp()                                                     *)
pp_servo_got_resp(p) ==
  LET q == [p EXCEPT !.got = FALSE]
  IN  IF ~p.got THEN {p}
      ELSE IF bad(q, {3, 4}) THEN {q}
      ELSE Update([q EXCEPT !.st[3] = p.t[3], !.st[4] = p.t[4]])

(* pp_servo_got_presp()                                                    *)
pp_servo_got_presp(p) ==
  IF bad(p, {3, 4, 5, 6}) THEN {p}
  ELSE {[p EXCEPT !.st = [i \in 0..6 |-> IF i >= 3 THEN p.t[i] ELSE @[i]], !.got = TRUE]}

(* presp_call_servo() of a slave.                                          *)
presp_call_servo(p) == IF p.t[4] = Incorrect THEN {p} ELSE pp_servo_got_presp(p)

-----------------------------------------------------------------------------
(* Messages, received in the states UNCALIBRATED and SLAVE.                *)

(* slave_handle_sync(): the time stamp of the reception may be missing.    *)
slave_handle_sync(p, m, rcv) ==
  LET q == [p EXCEPT !.t[2] = rcv, !.t[0] = Stamp(m.from, m.seq)]
  IN  IF m.from # p.parent THEN {p}
      ELSE IF m.from \notin OneStep
      THEN {[q EXCEPT !.waiting = TRUE, !.recvSeq = m.seq, !.t[1] = Zero]}
      ELSE LET r == [q EXCEPT !.waiting = FALSE, !.t[1] = Stamp(m.from, m.seq)]
           IN  IF bad(r, {1, 2}) THEN {r} ELSE pp_servo_got_sync(r)

(* Mutant: the Follow_Up is taken for whatever Sync came last.             *)
slave_handle_followup_AnySeq(p, m) ==
  LET q == [p EXCEPT !.waiting = FALSE, !.t[1] = Stamp(m.from, m.seq)]
  IN  IF m.from # p.parent \/ ~p.waiting THEN {p}
      ELSE IF bad(q, {1, 2}) THEN {q} ELSE pp_servo_got_sync(q)

(* slave_handle_followup()                                                 *)
slave_handle_followup(p, m) ==
  LET q == [p EXCEPT !.waiting = FALSE, !.t[1] = Stamp(m.from, m.seq)]
  IN  IF m.from # p.parent \/ ~p.waiting \/ p.recvSeq # m.seq THEN {p}
      ELSE IF bad(q, {1, 2}) THEN {q} ELSE pp_servo_got_sync(q)

(* slave_handle_response()                                                 *)
slave_handle_response(p, m) ==
  IF p.seq # m.seq \/ m.from # p.parent THEN {p}
  ELSE pp_servo_got_resp([p EXCEPT !.t[4] = Stamp(m.from, m.seq)])

Faulty(p) == [p EXCEPT !.state = "FAULTY"]

(* st_com_peer_handle_pres(), an answer in two steps: a second answer to   *)
(* one request is a fault, unless the state is configured from outside.    *)
st_com_peer_handle_pres(p, m, rcv) ==
  IF E2E \/ p.seq # m.seq THEN {p}
  ELSE IF p.dresp /\ ~Epc THEN {Faulty(p)}
  ELSE {[p EXCEPT !.dresp = TRUE, !.t[4] = Stamp(m.from, m.seq), !.t[6] = rcv]}

(* st_com_peer_handle_pres_followup()                                      *)
st_com_peer_handle_pres_followup(p, m) ==
  IF E2E \/ p.seq # m.seq THEN {p}
  ELSE IF p.dfup /\ ~Epc THEN {Faulty(p)}
  ELSE presp_call_servo([p EXCEPT !.dfup = TRUE, !.t[5] = Stamp(m.from, m.seq)])

Handle(p, m, rcv) ==
  CASE m.type = "SYNC"         -> slave_handle_sync(p, m, rcv)
    [] m.type = "FOLLOW_UP"    -> slave_handle_followup(p, m)
    [] m.type = "DELAY_RESP"   -> slave_handle_response(p, m)
    [] m.type = "PDELAY_RESP"  -> st_com_peer_handle_pres(p, m, rcv)
    [] m.type = "PDELAY_R_FUP" -> st_com_peer_handle_pres_followup(p, m)
    [] OTHER                   -> {p}

-----------------------------------------------------------------------------
(* pp_slave().                                                             *)

(* msg_issue_request(): a Pdelay_Req forgets the previous exchange.        *)
msg_issue_request(p) ==
  [p EXCEPT !.seq = @ + 1,
            !.t[4] = IF E2E THEN @ ELSE Incorrect,
            !.dresp = IF E2E THEN @ ELSE FALSE,
            !.dfup = IF E2E THEN @ ELSE FALSE]

(* pp_lib_may_issue_request() when PP_TO_REQUEST has expired; t3 is        *)
(* whatever the last time stamp of a sent message was.                     *)
pp_lib_may_issue_request(p, send) ==
  LET q == msg_issue_request(p)
      snt == CASE send = "OK"       -> Stamp("sent", q.seq)
               [] send = "NO_STAMP" -> Incorrect
               [] OTHER             -> p.lastSnt          \* PP_SEND_ERROR, PP_SEND_DROP
  IN  [q EXCEPT !.lastSnt = snt, !.t[3] = snt]

(* The head of pp_slave(): the next state, and the servo set up when       *)
(* UNCALIBRATED has just been entered.                                     *)
Entered(p) ==
  IF p.state = "UNCALIBRATED"
  THEN LET q == IF ~p.fresh THEN p
                ELSE [pp_servo_init(p) EXCEPT !.t[0] = Zero, !.t[1] = Zero, !.used = AllZero]
       IN  [q EXCEPT !.fresh = TRUE, !.state = "SLAVE"]
  ELSE IF p.newGM THEN [p EXCEPT !.newGM = FALSE, !.state = "UNCALIBRATED", !.fresh = TRUE]
  ELSE [p EXCEPT !.fresh = FALSE]

Running == dxPort.state \in {"UNCALIBRATED", "SLAVE"}

(* A call without a message in which the request timer has expired.        *)
Request ==
  /\ Running /\ dxPort.seq < MaxReqs
  /\ \E send \in {"OK", "NO_STAMP", "ERROR"} :
       /\ DxFault(send # "OK")
       /\ dxPort' = pp_lib_may_issue_request(Entered(dxPort), send)
       /\ dxReqs' = IF send = "ERROR" THEN dxReqs
                    ELSE dxReqs \cup {<<m, dxPort.seq + 1>> : m \in Masters}
  /\ UNCHANGED <<dxMode, dxNet, dxSyncSeq, dxChanges>>

(* A call with a message.  Only messages without a time stamp may be       *)
(* duplicated.                                                             *)
DxReceive ==
  /\ Running
  /\ \E m \in dxNet, stamped \in BOOLEAN, again \in BOOLEAN :
       /\ ~stamped => m.type \in {"SYNC", "PDELAY_RESP"}
       /\ again => m.type \in {"FOLLOW_UP", "DELAY_RESP", "PDELAY_R_FUP"}
       /\ DxFault(~stamped \/ again)
       /\ dxPort' \in Handle(Entered(dxPort), m,
                             IF stamped THEN Stamp(m.from, m.seq) ELSE Incorrect)
       /\ dxNet' = IF again THEN dxNet ELSE dxNet \ {m}
  /\ UNCHANGED <<dxMode, dxSyncSeq, dxReqs, dxChanges>>

(* The BMCA makes another master the parent (bmc_s1()).                    *)
ChangeParent ==
  /\ Running /\ dxChanges < MaxChanges
  /\ \E m \in Masters \ {dxPort.parent} :
       dxPort' = [dxPort EXCEPT !.parent = m, !.newGM = TRUE]
  /\ dxChanges' = dxChanges + 1
  /\ UNCHANGED <<dxMode, dxNet, dxSyncSeq, dxReqs, dxFaults>>

-----------------------------------------------------------------------------
(* The other side.                                                         *)

Fits(msgs) == Cardinality(dxNet \cup msgs) <= MaxFlight

SyncsSent == MapThenSumSet(LAMBDA m : dxSyncSeq[m], Masters)

(* msg_issue_sync_followup() in state MASTER: no Follow_Up without the     *)
(* time stamp of the Sync.                                                 *)
msg_issue_sync_followup(m) ==
  /\ SyncsSent < MaxSyncs
  /\ dxSyncSeq' = [dxSyncSeq EXCEPT ![m] = @ + 1]
  /\ LET sync == Msg("SYNC", m, dxSyncSeq[m] + 1)
         fup  == Msg("FOLLOW_UP", m, dxSyncSeq[m] + 1)
     IN  \E sent \in {{sync}, {sync, fup}} :
           /\ m \in OneStep => sent = {sync}
           /\ Fits(sent) /\ dxNet' = dxNet \cup sent
  /\ UNCHANGED <<dxMode, dxPort, dxReqs, dxChanges, dxFaults>>

(* master_handle_delay_request(), st_com_peer_handle_preq()                *)
AnswerRequest(m) ==
  \E r \in dxReqs :
    /\ r[1] = m
    /\ dxReqs' = dxReqs \ {r}
    /\ LET sent == IF E2E THEN {Msg("DELAY_RESP", m, r[2])}
                   ELSE {Msg("PDELAY_RESP", m, r[2]), Msg("PDELAY_R_FUP", m, r[2])}
       IN  Fits(sent) /\ dxNet' = dxNet \cup sent
    /\ UNCHANGED <<dxMode, dxPort, dxSyncSeq, dxChanges, dxFaults>>

(* The network loses a message.                                            *)
DxLose ==
  /\ \E m \in dxNet : dxNet' = dxNet \ {m}
  /\ UNCHANGED <<dxMode, dxPort, dxSyncSeq, dxReqs, dxChanges, dxFaults>>

DxNext ==
  \/ Request \/ DxReceive \/ ChangeParent \/ DxLose
  \/ \E m \in Masters : msg_issue_sync_followup(m) \/ AnswerRequest(m)

DxSpec == DxInit /\ [][DxNext]_dxVars

-----------------------------------------------------------------------------
(* Whatever is lost, late, doubled or not time stamped: when the servo     *)
(* computed an offset, t1 and t2 have the sequence number of one Sync, t3  *)
(* is the departure of the very request that t4, t5 and t6 answer, none of *)
(* the time stamps is missing, and, end to end, no time stamp was the      *)
(* initial zero.                                                           *)
StampsOfOneExchange ==
  LET u == dxPort.used
  IN  u # AllZero =>
        /\ u[1][2] = u[2][2] /\ u[1][2] > 0
        /\ u[3][2] = u[4][2]
        /\ ~E2E => u[5][2] = u[3][2] /\ u[6][2] = u[3][2]
        /\ E2E => u[3] # Zero
        /\ \A i \in 1..6 : u[i] # Incorrect

(* Once a change of the parent has been noticed, everything the servo has  *)
(* computed with came from the present parent.                             *)
StampsOfParent ==
  LET p == dxPort
  IN  Running /\ p.used # AllZero /\ ~p.newGM /\ ~(p.state = "UNCALIBRATED" /\ p.fresh) =>
        /\ p.used[1][1] = p.parent
        /\ E2E => p.used[4][1] = p.parent

(* What the servo computes with belongs together: t1, t2 to one Sync, t3   *)
(* to t6 to one request, all of it to the present parent once its change   *)
(* was noticed (slave_handle_followup(), slave_handle_response(),          *)
(* st_com_peer_handle_pres(), pp_servo_got_resp()).                        *)
StampsBelong == StampsOfOneExchange /\ StampsOfParent

NewPair ==
  dxPort'.used # dxPort.used /\ dxPort'.used # AllZero =>
    <<dxPort'.used[1], dxPort'.used[2]>> # <<dxPort.used[1], dxPort.used[2]>>

(* pp_servo_got_sync() and pp_servo_got_resp() let the servo use a Sync    *)
(* once only: two computations never share t1 and t2.                      *)
FreshSyncEachTime == [][NewPair]_dxVars
=============================================================================
