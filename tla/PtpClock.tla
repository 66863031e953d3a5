------------------------------ MODULE PtpClock ------------------------------
(***************************************************************************)
(* One PTP clock: its ports, the standard port state machine (fsm.c and    *)
(* proto-standard/state-*.c), the best master clock algorithm              *)
(* (proto-standard/bmc.c) and the main loop that drives them               *)
(* (arch-wrs/main-loop.c; arch-unix/main-loop.c is the same loop with      *)
(* links that never go down).  No protocol extension is attached.          *)
(*                                                                         *)
(* The main loop is one thread.  Between two passes it hands received      *)
(* frames to their port; a pass runs every port in order, then, when the   *)
(* BMC timer has expired, bmc_calculate_ebest().  One call of              *)
(* pp_state_machine() is a handler step and, when bmca_execute is still    *)
(* set and the handler did not change the state, a decision step; nothing  *)
(* comes between the two.                                                  *)
(*                                                                         *)
(* Time is not counted: a running timer may have expired, or not, whenever *)
(* the code asks, except right after the same call restarted it.           *)
(***************************************************************************)
EXTENDS ForeignMasters

CONSTANTS
  N,             \* number of ports, defaultDS.numberPorts
  ClockId,       \* defaultDS.clockIdentity
  Qualities,     \* the <<prio1, class, accuracy, variance, prio2>> this clock may have
  GmLockedClass, \* configured clockClass is PP_PTP_CLASS_GM_LOCKED (6)
  SlaveOnly,     \* defaultDS.slaveOnly
  MasterOnly,    \* ports with portDS.masterOnly
  EPC,           \* defaultDS.externalPortConfigurationEnabled
  DesiredState,  \* externalPortConfigurationPortDS.desiredState of each port
  P2P,           \* ports that use the peer delay mechanism
  GmDelay,       \* gmDelayToGenPpsSec > 0
  Flaky,         \* ports whose link may go down
  Announces,     \* for each port, the Announce contents its neighbours may send
  Steady,        \* ports whose masters never let a window or a receipt timeout pass
  Loops,         \* pairs <<q, p>>: port p hears what port q of this clock sends
  Phantoms       \* what the memory in front of the table, frgn_master[-1], may hold

Port == 1..N
PortId(p) == <<ClockId, p>>

States == {"INITIALIZING", "FAULTY", "DISABLED", "LISTENING", "PRE_MASTER",
           "MASTER", "PASSIVE", "UNCALIBRATED", "SLAVE"}
MasterStates == {"MASTER", "PRE_MASTER"}
SlaveStates  == {"SLAVE", "UNCALIBRATED"}

Class(q) == q[2]

ASSUME PortsAssumption == N \in Nat \ {0}
ASSUME OptionsAssumption ==
  /\ {SlaveOnly, EPC, GmDelay, GmLockedClass} \subseteq BOOLEAN
  /\ MasterOnly \subseteq Port /\ P2P \subseteq Port /\ Flaky \subseteq Port
  /\ Steady \subseteq Port /\ Loops \subseteq Port \X Port
  /\ ClockId \in Identity
  /\ Qualities # {} /\ Qualities \subseteq Quality
  /\ Phantoms # {} /\ Phantoms \subseteq Record
  /\ \A p \in Port : Announces[p] \subseteq Announce
  /\ DesiredState \in [Port -> States]
(* pp_init_globals(): what the configuration is reduced to before the      *)
(* first pass.                                                             *)
pp_init_globals ==
  /\ EPC => ~SlaveOnly /\ MasterOnly = {}
  /\ SlaveOnly => \A q \in Qualities : Class(q) = 255
  /\ EPC /\ (\E p \in Port : DesiredState[p] \in SlaveStates) =>
       \A q \in Qualities : Class(q) >= 128

ASSUME ConfigurationAssumption == pp_init_globals

VARIABLES
  state,     \* ppi->state
  fresh,     \* FAULTY was entered and its handler has not run yet (is_new_state)
  link,      \* ppi->link_up
  frgn,      \* ppi->frgn_master[0 .. frgn_rec_num-1]
  best,      \* ppi->frgn_rec_best, 0 for -1
  bmca,      \* ppi->bmca_execute
  ebest,     \* ppg->ebest_idx, 0 for -1
  own,       \* defaultDS priorities and clockQuality
  parent,    \* parentDS: parentPortIdentity, grandmaster identity and quality
  steps,     \* currentDS.stepsRemoved
  newGM,     \* parentDS.newGrandmaster
  gmTimer,   \* PP_TO_GM_BY_BMCA is running
  turn,      \* ports of the current pass that have run; N+1: inside bmc_calculate_ebest
  deciding   \* port whose pp_state_machine() call goes on with the BMCA decision, or 0

portVars  == <<state, fresh, link, bmca>>
tableVars == <<frgn, best>>
dsVars    == <<parent, steps, newGM, gmTimer>>
vars == <<state, fresh, link, frgn, best, bmca, ebest, own, parent, steps, newGM,
          gmTimer, turn, deciding>>

-----------------------------------------------------------------------------
(* Data set updates, Tables 13 to 16 of the standard.                      *)

OwnParent(q) == [src |-> <<ClockId, 0>>, gm |-> ClockId, q |-> q]

(* Mutant: stepsRemoved is not reset.                                      *)
bmc_m1_KeepsSteps == /\ parent' = OwnParent(own)
                     /\ newGM' = FALSE
                     /\ UNCHANGED steps

(* bmc_m1(): this clock is its own parent.  The memset of parentDS also    *)
(* clears newGrandmaster.                                                  *)
bmc_m1 == /\ parent' = OwnParent(own)
          /\ steps' = 0
          /\ newGM' = FALSE

(* bmc_m2(): m1, and the timer that leads to the timing output of a grand  *)
(* master elected by the BMCA is started, or found expired and stopped.    *)
bmc_m2 == /\ bmc_m1
          /\ IF ~GmDelay THEN UNCHANGED gmTimer
             ELSE IF gmTimer THEN gmTimer' \in BOOLEAN ELSE gmTimer' = TRUE

bmc_m3 == /\ gmTimer' = IF GmDelay THEN FALSE ELSE gmTimer
          /\ UNCHANGED <<parent, steps, newGM>>

(* bmc_s1(): the sender of r becomes the parent.  stepsRemoved is a        *)
(* UInteger16.                                                             *)
bmc_s1(r) == /\ steps' = Inc16(r.steps)
             /\ newGM' = (parent.src # r.src)
             /\ parent' = [src |-> r.src, gm |-> r.gm, q |-> r.q]
             /\ gmTimer' = FALSE

(* The record of this clock, bmc_setup_local_frgn_master().                *)
D0(p) == [src |-> PortId(p), rx |-> PortId(p), gm |-> ClockId, q |-> own,
          steps |-> 0, qualified |-> TRUE, aged |-> FALSE]

(* empty_frn_master                                                        *)
EmptyRecord == [src |-> <<0, 0>>, rx |-> <<0, 0>>, gm |-> 0, q |-> <<0, 0, 0, 0, 0>>,
                steps |-> 0, qualified |-> FALSE, aged |-> FALSE]

(* is_ebest(): the source it recognises, for Ebest at port e.              *)
EbestSrc(e, tbl, b) == IF e # 0 /\ b[e] # 0 THEN {tbl[e][b[e]].src} ELSE {}

CurEbestSrc == EbestSrc(ebest, frgn, best)

ErbestRec(p) == IF best[p] # 0 THEN frgn[p][best[p]] ELSE EmptyRecord

(* What bmc_state_decision() reads through its pointer to Ebest: when the  *)
(* table of port ebest has no best record the pointer is frgn_master[-1].  *)
EbestRecs == IF ebest = 0 THEN {EmptyRecord}
             ELSE IF best[ebest] = 0 THEN Phantoms
             ELSE {ErbestRec(ebest)}

-----------------------------------------------------------------------------
(* bmc_state_decision(), Figure 26.  eb is the record Ebest points at.     *)

(* Mutant: every port follows a better Ebest.                              *)
FollowsEbest_AnyPort(p) == TRUE

(* D0 lost against Ebest: an ordinary clock, or the port of Ebest.         *)
FollowsEbest(p) == N = 1 \/ p = ebest

DecisionD0(p, eb) ==
  LET er == ErbestRec(p)
      c  == bmc_dataset_cmp(D0(p), IF Class(own) < 128 THEN er ELSE eb, CurEbestSrc)
      bc == bmc_gm_cmp(eb, er, CurEbestSrc)
      tc == bmc_topology_cmp(eb, er, CurEbestSrc)
  IN  CASE c = 0                              -> "ERROR"
        [] c < 0 /\ Class(own) < 128          -> "M1"
        [] c > 0 /\ Class(own) < 128          -> "P1"
        [] c < 0 /\ Class(own) >= 128         -> "M2"
        [] OTHER -> IF FollowsEbest(p) THEN "S1"
                    ELSE IF bc < 0 \/ tc > 0 THEN "M3"
                    ELSE IF tc < 0 THEN "P2"
                    ELSE "ERROR"

Decision(p, eb) ==
  IF state[p] \in {"FAULTY", "INITIALIZING"} THEN "KEEP"
  ELSE IF SlaveOnly THEN IF best[p] # 0 /\ p = ebest THEN "S1" ELSE "LISTEN"
  ELSE IF best[p] = 0 /\ state[p] = "LISTENING" THEN "LISTEN"
  ELSE IF p \in MasterOnly THEN IF ebest # 0 THEN "M3" ELSE "M1"
  ELSE IF ebest = 0 THEN "M1"
  ELSE DecisionD0(p, eb)

(* The state each outcome leads to, given the state the port is in.        *)
StateFor(p, d, eb) ==
  CASE d = "KEEP"   -> state[p]
    [] d = "LISTEN" -> "LISTENING"
    [] d = "ERROR"  -> "FAULTY"
    [] d = "S1"     -> IF state[p] \in SlaveStates /\ ~(p = ebest /\ parent.src # eb.src)
                       THEN state[p] ELSE "UNCALIBRATED"
    [] OTHER        -> IF Class(own) = 255 THEN "LISTENING"
                       ELSE IF d \in {"P1", "P2"} THEN "PASSIVE"
                       ELSE IF state[p] \in MasterStates THEN state[p]
                       ELSE "PRE_MASTER"

(* The data set updates that go with it.                                   *)
UpdateFor(p, d, eb) ==
  CASE d = "S1" /\ p = ebest              -> bmc_s1(eb)
    [] d = "M1" /\ Class(own) # 255       -> bmc_m1 /\ UNCHANGED gmTimer
    [] d = "M2" /\ Class(own) # 255       -> bmc_m2
    [] d = "M3" /\ Class(own) # 255       -> bmc_m3
    [] OTHER                              -> UNCHANGED dsVars

(* Mutant: the comparison is the wrong way round.                          *)
BetterOwnPort_Swapped(p, src) == src[1] = ClockId /\ bmc_pidcmp(src, PortId(p)) > 0

(* src is a better port of this clock than p.                              *)
BetterOwnPort(p, src) == src[1] = ClockId /\ bmc_pidcmp(src, PortId(p)) < 0

(* bmc_check_frgn_master(): a better port of this clock is heard on p.     *)
bmc_check_frgn_master(p) ==
  \E i \in 1..Len(frgn[p]) : BetterOwnPort(p, frgn[p][i].src)

(* bmc_state_descision_epc(): only the data sets are updated.              *)
DecideEpc(p) ==
  CASE state[p] \in SlaveStates /\ frgn[p] # << >> -> bmc_s1(frgn[p][1])
    [] /\ state[p] \in MasterStates \cup {"PASSIVE"}
       /\ \A q \in Port : state[q] \notin SlaveStates -> bmc_m2
    [] OTHER -> UNCHANGED dsVars

(* ppi->state = next_state, by pp_leave_current_state() or not at all.     *)
Enter(p, s) ==
  /\ state' = [state EXCEPT ![p] = s]
  /\ fresh' = [fresh EXCEPT ![p] = (s = "FAULTY" /\ state[p] # "FAULTY")]

(* The second half of pp_state_machine(): bmca_execute is cleared and      *)
(* bmc_apply_state_descision() gives the next state.                       *)
Decide(p) ==
  /\ deciding = p
  /\ deciding' = 0
  /\ bmca' = [bmca EXCEPT ![p] = FALSE]
  /\ IF EPC THEN Enter(p, state[p]) /\ IF link[p] THEN DecideEpc(p) ELSE UNCHANGED dsVars
     ELSE IF ~link[p] THEN Enter(p, "INITIALIZING") /\ UNCHANGED dsVars
     ELSE IF N > 1 /\ bmc_check_frgn_master(p)
     THEN Enter(p, "PASSIVE") /\ UNCHANGED dsVars
     ELSE \E eb \in (IF SlaveOnly THEN {ErbestRec(p)} ELSE EbestRecs) :
            LET d == Decision(p, eb)
            IN  Enter(p, StateFor(p, d, eb)) /\ UpdateFor(p, d, eb)
  /\ UNCHANGED <<link, tableVars, ebest, own, turn>>

-----------------------------------------------------------------------------
(* Frames.  Only Announce messages reach the table; of the peer delay      *)
(* messages only a second answer to one request changes a port's state.    *)

NoFrame == [kind |-> "none"]

(* msg_pack_announce(): what a MASTER port of this clock sends.            *)
OwnAnnounce(q) == [src |-> PortId(q), gm |-> parent.gm, q |-> parent.q, steps |-> steps]

Heard(p) == Announces[p] \cup
            {OwnAnnounce(q) : q \in {x \in Port : <<x, p>> \in Loops /\ state[x] = "MASTER"}}

Frames(p) == {[kind |-> "announce", ann |-> a, inSeq |-> b] : a \in Heard(p), b \in BOOLEAN}
             \cup (IF p \in P2P THEN {[kind |-> "second_pdelay_resp"]} ELSE {})

(* pp_packet_prefilter(): the frame the handler of port p sees.            *)
pp_packet_prefilter(p, f) ==
  IF \/ state[p] \in {"INITIALIZING", "DISABLED", "FAULTY"}
     \/ f.kind = "announce" /\ f.ann.src = PortId(p)
  THEN NoFrame ELSE f

Unstored(p) == [tbl |-> frgn[p], best |-> best[p], sel |-> 0, passive |-> FALSE]

(* Mutant: the ports of this clock are not told apart.                     *)
IgnoredAnnounce_OwnPorts(p, a) == a.steps >= 255

(* 9.3.2.5 a) and d): Announces of this clock, but for the ones that make  *)
(* a port PASSIVE, and those that travelled too far are not stored.        *)
IgnoredAnnounce(p, a) ==
  \/ a.src[1] = ClockId /\ (N = 1 \/ ~BetterOwnPort(p, a.src))
  \/ a.steps >= 255

(* bmc_add_frgn_master(): the table, its best record, the slot returned    *)
(* and whether the port must go PASSIVE because a better port of this      *)
(* clock is heard.  The EPC branch compares the 1-based portNumber with    *)
(* the 0-based port_idx.                                                   *)
bmc_add_frgn_master(p, f) ==
  LET a       == f.ann
      r       == bmc_store_frgn_master(a, PortId(p))
      passive == N > 1 /\ BetterOwnPort(p, a.src)
      Added(st) == [tbl |-> st.tbl, best |-> best[p], sel |-> st.sel, passive |-> passive]
  IN  IF EPC
      THEN IF a.src = <<ClockId, p - 1>> THEN Unstored(p)
           ELSE [tbl |-> <<r>>, best |-> 1, sel |-> 1, passive |-> FALSE]
      ELSE IF IgnoredAnnounce(p, a) THEN [Unstored(p) EXCEPT !.passive = passive]
      ELSE Added(Stored(frgn[p], r, f.inSeq))

(* listening_, master_ and passive_handle_announce()                       *)
HandleAnnounce(p, f) ==
  IF f.kind = "announce" /\ p \notin MasterOnly THEN bmc_add_frgn_master(p, f)
                                                ELSE Unstored(p)

(* next_state after the message handler: cur, or what the message forces.  *)
AfterMessage(f, add, cur) ==
  IF add.passive THEN "PASSIVE"
  ELSE IF f.kind = "second_pdelay_resp" /\ ~EPC THEN "FAULTY"
  ELSE cur

is_grand_master == /\ \E p \in Port : state[p] \in MasterStates \cup {"PASSIVE"}
                   /\ \A p \in Port : state[p] \notin SlaveStates

(* Mutant: slaveOnly is not looked at.                                     *)
TimeoutState_AlwaysMaster == "MASTER"

(* st_com_check_announce_receive_timeout(): where an expired timer leads,  *)
(* what it does to the data sets and to the table.                         *)
TimeoutState == IF SlaveOnly THEN "LISTENING" ELSE "MASTER"

TimeoutUpdate(to) ==
  IF ~to \/ SlaveOnly THEN UNCHANGED dsVars
  ELSE IF is_grand_master THEN bmc_m1 /\ UNCHANGED gmTimer
  ELSE bmc_m3

StoreTable(p, add, to) ==
  /\ frgn' = [frgn EXCEPT ![p] = IF to THEN FlushErbest(add.tbl, add.best) ELSE add.tbl]
  /\ best' = [best EXCEPT ![p] = IF to THEN 0 ELSE add.best]

(* The end of the handler: a changed state ends pp_state_machine(), an     *)
(* unchanged one goes on to the decision if bmca_execute is set.           *)
Leave(p, cur, next) ==
  /\ Enter(p, next)
  /\ deciding' = IF next = cur /\ bmca[p] THEN p ELSE 0

-----------------------------------------------------------------------------
(* The state handlers.  f is the frame (or NoFrame), to: the timer the     *)
(* handler looks at has expired, err: a peer delay request could not be    *)
(* sent.                                                                   *)

(* pp_initializing().  ok is FALSE when the network or the grand master    *)
(* reference is not ready.  init_parent_ds() runs when no other port with  *)
(* a link has left INITIALIZING.                                           *)
InitialState(p) ==
  IF ~EPC THEN "LISTENING"
  ELSE IF Class(own) < 128 /\ DesiredState[p] \in SlaveStates THEN "FAULTY"
  ELSE IF DesiredState[p] = "SLAVE" THEN "UNCALIBRATED"
  ELSE DesiredState[p]

Initializing(p, ok) ==
  /\ ok /\ GmLockedClass => Class(own) = 6
  /\ IF ok /\ \A q \in Port \ {p} : state[q] = "INITIALIZING" \/ ~link[q]
     THEN parent' = OwnParent(own) ELSE UNCHANGED parent
  /\ Leave(p, "INITIALIZING", IF ok THEN InitialState(p) ELSE "INITIALIZING")
  /\ UNCHANGED <<tableVars, steps, newGM, gmTimer>>

Listening(p, f, to, err) ==
  LET add == HandleAnnounce(p, f)
  IN  /\ to => ~EPC /\ ~add.passive
      /\ StoreTable(p, add, to)
      /\ TimeoutUpdate(to)
      /\ Leave(p, state[p], IF err /\ f = NoFrame /\ ~EPC THEN "FAULTY"
                            ELSE IF to THEN TimeoutState
                            ELSE AfterMessage(f, add, state[p]))

(* The timer also restarts on an Announce whose source is that of the slot *)
(* that was best before the Announce was stored.                           *)
Passive(p, f, to, err) ==
  LET add   == HandleAnnounce(p, f)
      reset == \/ add.passive
               \/ /\ f.kind = "announce" /\ best[p] # 0
                  /\ add.tbl[best[p]].src = f.ann.src
  IN  /\ to => ~EPC /\ ~reset /\ p \notin Steady
      /\ StoreTable(p, add, to)
      /\ TimeoutUpdate(to)
      /\ Leave(p, state[p], IF err /\ f = NoFrame /\ ~EPC THEN "FAULTY"
                            ELSE IF to THEN TimeoutState
                            ELSE AfterMessage(f, add, state[p]))

(* pp_master(), both for MASTER and PRE_MASTER.  to: PP_TO_QUALIFICATION;  *)
(* the frame of the call that turns PRE_MASTER into MASTER is not looked   *)
(* at.                                                                     *)
Master(p, f, to) ==
  LET add == HandleAnnounce(p, f)
  IN  /\ to => ~EPC /\ state[p] = "PRE_MASTER"
      /\ IF to THEN UNCHANGED tableVars ELSE StoreTable(p, add, FALSE)
      /\ Leave(p, state[p], IF to THEN "MASTER"
                            ELSE IF SlaveOnly /\ ~EPC THEN "LISTENING"
                            ELSE AfterMessage(f, add, state[p]))
      /\ UNCHANGED dsVars

(* Mutant: the desired state UNCALIBRATED is not enforced.                 *)
SlaveNext_NoEpc(p) ==
  IF state[p] = "UNCALIBRATED" THEN "SLAVE" ELSE IF newGM THEN "UNCALIBRATED" ELSE state[p]

(* The state pp_slave() moves to when neither a message nor a timer says   *)
(* otherwise.                                                              *)
SlaveNext(p) ==
  LET s == IF state[p] = "UNCALIBRATED" THEN "SLAVE"
           ELSE IF newGM THEN "UNCALIBRATED" ELSE state[p]
  IN  IF EPC /\ s = "SLAVE" /\ DesiredState[p] = "UNCALIBRATED" THEN "UNCALIBRATED" ELSE s

(* pp_slave(), both for SLAVE and UNCALIBRATED.  An Announce of the parent *)
(* restarts the timer and, when its record is new in the table, updates    *)
(* the data sets.  A slave port is no grand master: its timeout is an m3.  *)
Slave(p, f, to) ==
  LET fromParent == f.kind = "announce" /\ f.ann.src = parent.src
      add == IF fromParent \/ (f.kind = "announce" /\ EPC)
             THEN bmc_add_frgn_master(p, f) ELSE HandleAnnounce(p, f)
      s1  == (fromParent \/ EPC) /\ add.sel # 0
  IN  /\ to => ~EPC /\ ~fromParent /\ ~add.passive /\ p \notin Steady
      /\ StoreTable(p, add, to)
      /\ IF s1 THEN bmc_s1(add.tbl[add.sel])
         ELSE /\ newGM' = (newGM /\ state[p] # "SLAVE")
              /\ gmTimer' = IF to /\ ~SlaveOnly /\ GmDelay THEN FALSE ELSE gmTimer
              /\ UNCHANGED <<parent, steps>>
      /\ Leave(p, state[p], IF to THEN TimeoutState
                            ELSE AfterMessage(f, add, SlaveNext(p)))

(* pp_faulty().  to: PP_TO_IN_STATE.                                       *)
Faulty(p, to) ==
  /\ to => ~fresh[p] /\ ~(EPC /\ Class(own) < 128 /\ DesiredState[p] \in SlaveStates)
  /\ Leave(p, "FAULTY", IF to THEN "INITIALIZING" ELSE "FAULTY")
  /\ UNCHANGED <<tableVars, dsVars>>

(* The dispatch of pp_state_machine() for a port with its link up.         *)
pp_state_machine(p, frame, to) ==
  LET f == pp_packet_prefilter(p, frame)
  IN  \E err \in BOOLEAN :
        /\ err => p \in P2P /\ state[p] \in {"LISTENING", "PASSIVE"}
        /\ CASE state[p] = "INITIALIZING"   -> Initializing(p, to)
             [] state[p] = "LISTENING"      -> Listening(p, f, to, err)
             [] state[p] = "PASSIVE"        -> Passive(p, f, to, err)
             [] state[p] \in MasterStates   -> Master(p, f, to)
             [] state[p] \in SlaveStates    -> Slave(p, f, to)
             [] state[p] = "FAULTY"         -> Faulty(p, to)
             [] OTHER -> ~to /\ Leave(p, state[p], state[p]) /\ UNCHANGED <<tableVars, dsVars>>
        /\ UNCHANGED <<link, bmca, ebest, own>>

-----------------------------------------------------------------------------
(* The main loop.                                                          *)

Idle == turn = 0 /\ deciding = 0

(* A frame is handed to its port between two passes.                       *)
Receive(p) ==
  /\ Idle
  /\ link[p]
  /\ \E f \in Frames(p), to \in BOOLEAN : pp_state_machine(p, f, to)
  /\ UNCHANGED turn

(* run_all_state_machines(), one iteration of its loop over the ports: the *)
(* link is sampled, then the state machine runs if the link is up.         *)
RunPort(p, to) ==
  /\ turn = p - 1 /\ deciding = 0 /\ turn' = p
  /\ link[p]
  /\ pp_state_machine(p, NoFrame, to)

LinkDown(p) ==
  /\ turn = p - 1 /\ deciding = 0 /\ turn' = p
  /\ link[p] /\ p \in Flaky
  /\ link' = [link EXCEPT ![p] = FALSE]
  /\ Enter(p, "DISABLED")
  /\ frgn' = [frgn EXCEPT ![p] = << >>]
  /\ best' = [best EXCEPT ![p] = 0]
  /\ UNCHANGED <<bmca, ebest, own, dsVars, deciding>>

(* The port is set to INITIALIZING and run at once.                        *)
LinkUp(p) ==
  /\ turn = p - 1 /\ deciding = 0 /\ turn' = p
  /\ ~link[p]
  /\ link' = [link EXCEPT ![p] = TRUE]
  /\ \E ok \in BOOLEAN : Initializing(p, ok)
  /\ UNCHANGED <<bmca, ebest, own>>

StayDown(p) ==
  /\ turn = p - 1 /\ deciding = 0 /\ turn' = p
  /\ ~link[p]
  /\ UNCHANGED <<portVars, tableVars, ebest, own, dsVars, deciding>>

(* The end of a pass: PP_TO_BMC has not expired, or it has and             *)
(* bmc_calculate_ebest() starts by updating the clock quality.             *)
SkipBmc ==
  /\ turn = N /\ deciding = 0 /\ turn' = 0
  /\ UNCHANGED <<portVars, tableVars, ebest, own, dsVars, deciding>>

StartBmc ==
  /\ turn = N /\ deciding = 0 /\ turn' = N + 1
  /\ own' \in Qualities
  /\ UNCHANGED <<portVars, tableVars, ebest, dsVars, deciding>>

(* bmc_age_frgn_masters(): records whose window has passed are removed one *)
(* by one, except that of Ebest's source.                                  *)
AgedOut(p) == {i \in 1..Len(frgn[p]) : frgn[p][i].aged /\ frgn[p][i].src \notin CurEbestSrc}

AgingDone == EPC \/ \A p \in Port : AgedOut(p) = {}

bmc_age_frgn_master(p) ==
  /\ turn = N + 1 /\ ~EPC
  /\ AgedOut(p) # {}
  /\ LET i == First(AgedOut(p))
     IN  /\ frgn' = [frgn EXCEPT ![p] = RemoveAt(@, i)]
         /\ best' = [best EXCEPT ![p] = BestAfterRemove(@, i)]
  /\ UNCHANGED <<portVars, ebest, own, dsVars, turn, deciding>>

bmc_any_port_initializing == \E p \in Port : link[p] /\ state[p] = "INITIALIZING"

(* bmc_update_erbest_inst() for every port in turn.  A port whose link is  *)
(* down or that is FAULTY or DISABLED loses its table.  Ports up to the    *)
(* old Ebest still see that port's old best record, the ones behind it     *)
(* already see the new one.                                                *)
FlushedTable(p) ==
  IF ~link[p] \/ state[p] \in {"FAULTY", "DISABLED"} THEN << >> ELSE frgn[p]

NewFrgn == [p \in Port |-> FlushedTable(p)]

NewBest ==
  LET ofEbest == IF ebest = 0 THEN 0 ELSE Erbest(NewFrgn[ebest], CurEbestSrc)
      later   == IF ofEbest = 0 THEN {} ELSE {NewFrgn[ebest][ofEbest].src}
  IN  [p \in Port |-> Erbest(NewFrgn[p], IF p <= ebest THEN CurEbestSrc ELSE later)]

(* bmc_update_ebest(): the port whose Erbest is best, 0 if no port has one.*)
NewEbest(tbl, b) ==
  LET ebsrc == EbestSrc(ebest, tbl, b)
      beats == {ij \in Port \X Port :
                  /\ b[ij[1]] # 0
                  /\ \/ b[ij[2]] = 0
                     \/ bmc_dataset_cmp(tbl[ij[1]][b[ij[1]]], tbl[ij[2]][b[ij[2]]], ebsrc) < 0}
      e     == Champion(N, beats)
  IN  IF b[e] = 0 THEN 0 ELSE e

(* The rest of bmc_calculate_ebest(): nothing more while a port with a     *)
(* link is INITIALIZING, else Erbest, Ebest, and every port is told to     *)
(* decide.                                                                 *)
bmc_calculate_ebest ==
  /\ turn = N + 1 /\ AgingDone
  /\ turn' = 0
  /\ IF bmc_any_port_initializing THEN UNCHANGED <<tableVars, ebest, bmca>>
     ELSE /\ bmca' = [p \in Port |-> TRUE]
          /\ IF EPC THEN UNCHANGED <<tableVars, ebest>>
             ELSE /\ frgn' = NewFrgn
                  /\ best' = NewBest
                  /\ ebest' = NewEbest(NewFrgn, NewBest)
  /\ UNCHANGED <<state, fresh, link, own, dsVars, deciding>>

(* Time passes: the window since the last Announce of a record ends.       *)
Lapse(p) ==
  /\ Idle /\ ~EPC /\ p \notin Steady
  /\ \E i \in 1..Len(frgn[p]) :
       /\ ~frgn[p][i].aged
       /\ frgn' = [frgn EXCEPT ![p] = Put(@, i, [@[i] EXCEPT !.aged = TRUE])]
  /\ UNCHANGED <<portVars, best, ebest, own, dsVars, turn, deciding>>

-----------------------------------------------------------------------------
NullParent == [src |-> <<0, 0>>, gm |-> 0, q |-> <<0, 0, 0, 0, 0>>]

Init ==
  /\ state = [p \in Port |-> "DISABLED"]
  /\ fresh = [p \in Port |-> FALSE]
  /\ link  = [p \in Port |-> FALSE]
  /\ frgn  = [p \in Port |-> << >>]
  /\ best  = [p \in Port |-> 0]
  /\ bmca  = [p \in Port |-> FALSE]
  /\ ebest = 1    \* ebest_idx is never set to -1 before the first calculation
  /\ own \in Qualities
  /\ parent = NullParent
  /\ steps = 0
  /\ newGM = FALSE
  /\ gmTimer = FALSE
  /\ turn = 0
  /\ deciding = 0

Pass == \/ \E p \in Port : (\E to \in BOOLEAN : RunPort(p, to)) \/ LinkUp(p) \/ StayDown(p)
        \/ SkipBmc

Bmc == StartBmc \/ (\E p \in Port : bmc_age_frgn_master(p)) \/ bmc_calculate_ebest

Next == \/ Pass
        \/ Bmc
        \/ \E p \in Port : Decide(p) \/ Receive(p) \/ LinkDown(p) \/ Lapse(p)

Spec == Init /\ [][Next]_vars

(* Fairness: the loop goes on, links come up, and every timer expires if   *)
(* it is asked for ever (a step with to = TRUE; in INITIALIZING: the       *)
(* network and the reference become ready).                                *)
Fairness ==
  /\ WF_vars(Pass) /\ WF_vars(Bmc) /\ SF_vars(StartBmc)
  /\ \A p \in Port : /\ WF_vars(Decide(p)) /\ WF_vars(Lapse(p))
                      /\ SF_vars(LinkUp(p)) /\ SF_vars(RunPort(p, TRUE))

(* The masters of the steady ports keep announcing, in sequence.           *)
Announced(p, a) ==
  /\ Idle /\ link[p]
  /\ pp_state_machine(p, [kind |-> "announce", ann |-> a, inSeq |-> TRUE], FALSE)
  /\ UNCHANGED turn

FairSpec == Spec /\ Fairness

(* ... and a MASTER port of this clock that such a port hears does so too. *)
OwnAnnounced(q, p) == state[q] = "MASTER" /\ Announced(p, OwnAnnounce(q))

-----------------------------------------------------------------------------
(* Properties.                                                             *)

Records(p) == {frgn[p][i] : i \in 1..Len(frgn[p])}

TableOK(tbl, b) == /\ tbl \in Seq(Record) /\ Len(tbl) <= NR
                   /\ b \in 0..Len(tbl)

PortsOK == /\ state \in [Port -> States]
           /\ fresh \in [Port -> BOOLEAN]
           /\ link \in [Port -> BOOLEAN]
           /\ bmca \in [Port -> BOOLEAN]

TablesOK == /\ frgn \in [Port -> Seq(Record)]
            /\ best \in [Port -> Nat]
            /\ \A p \in Port : TableOK(frgn[p], best[p])

DataSetsOK == /\ parent \in [src : PortIdentity, gm : Identity, q : Quality]
              /\ steps \in UInteger16
              /\ newGM \in BOOLEAN
              /\ gmTimer \in BOOLEAN

LoopOK == /\ ebest \in 0..N
          /\ own \in Qualities
          /\ turn \in 0..(N + 1)
          /\ deciding \in 0..N

(* Type invariant: every variable keeps its type, a table never outgrows   *)
(* frgn_master[], and frgn_rec_best and ebest_idx are -1 or an index of    *)
(* what they index.                                                        *)
TypeOK == PortsOK /\ TablesOK /\ DataSetsOK /\ LoopOK

(* A foreign master has at most one record in a port's table, whatever     *)
(* mixture of updates, replacements in a full table, aging and flushing    *)
(* the table went through (bmc_add_frgn_master, bmc_remove_foreign_master).*)
UniqueSources ==
  \A p \in Port : \A i, j \in 1..Len(frgn[p]) :
     frgn[p][i].src = frgn[p][j].src => i = j

(* No table holds a record of the port itself or of a worse port of this   *)
(* clock, so a clock never follows its own Announce messages: the only own *)
(* records are those that force PASSIVE (bmc_check_frgn_master).           *)
NoSelfRecord ==
  ~EPC => \A p \in Port : \A r \in Records(p) :
            r.src[1] = ClockId => bmc_pidcmp(r.src, PortId(p)) < 0

(* A port that is SLAVE or UNCALIBRATED and has no decision outstanding is *)
(* the port of Ebest; so at most one port steers the clock once every port *)
(* has acted on the last bmc_calculate_ebest().                            *)
SettledSlaveIsEbest ==
  ~EPC => \A p \in Port : state[p] \in SlaveStates /\ ~bmca[p] => p = ebest

(* The two "error" exits of bmc_state_decision() are never taken: a port   *)
(* that was not FAULTY does not become FAULTY by a decision.               *)
DecisionNeverFaults ==
  [][\A p \in Port : deciding = p /\ state[p] # "FAULTY" => state'[p] # "FAULTY"]_vars

(* With external port configuration the BMCA, the timers and the frames    *)
(* never move a port away from its configured state, once it left          *)
(* INITIALIZING.                                                           *)
EpcHoldsDesiredState ==
  EPC => \A p \in Port :
    state[p] \notin {"DISABLED", "INITIALIZING"} =>
      \/ state[p] = DesiredState[p]
      \/ state[p] \in SlaveStates /\ DesiredState[p] = "SLAVE"

(* No neighbour announces under this clock's own identity.                 *)
ForeignIdentities == \A p \in Port : \A a \in Announces[p] : a.src[1] # ClockId

(* A slave-only clock never becomes a master or passive, not even by the   *)
(* announce receipt timeout.                                               *)
SlaveOnlyNeverMaster ==
  SlaveOnly => \A p \in Port : state[p] \notin MasterStates \cup {"PASSIVE"}

(* "Should be always true" (bmc.c, is_ebest()): when Ebest exists, its     *)
(* port has a best record.  Stated for the moments a port decides, which   *)
(* is when bmc_state_decision() reads that record.                         *)
EbestHasErbest == deciding # 0 /\ ~EPC /\ ebest # 0 => best[ebest] # 0

(* When every master has fallen silent the clock takes over: all its ports *)
(* end up MASTER and it announces itself as the grand master (ANN_RECEIPT  *)
(* timeout, aging, the M1 decision).                                       *)
LostMasters ==
  <>[][\A p \in Port : ~Receive(p)]_vars =>
     <>[](\A p \in Port : state[p] = "MASTER" /\ parent = OwnParent(own) /\ steps = 0)

(* a, announced on port p, beats everything else announced to this clock   *)
(* and the clock itself.                                                   *)
BestAnnounced(p, a) ==
  LET R(q, b) == Qualified(bmc_store_frgn_master(b, PortId(q)))
  IN  /\ \A q \in Port : \A b \in Announces[q] :
           <<q, b>> = <<p, a>> \/ bmc_dataset_cmp(R(p, a), R(q, b), {}) < 0
      /\ \A x \in Qualities :
           Class(x) >= 128 /\ bmc_dataset_cmp(R(p, a), [D0(p) EXCEPT !.q = x], {}) < 0

(* The clock has settled on a, heard on port p: its port is SLAVE of it,   *)
(* the data sets name it, and no other port follows anything.              *)
SettledOn(p, a) ==
  /\ state[p] = "SLAVE"
  /\ parent = [src |-> a.src, gm |-> a.gm, q |-> a.q]
  /\ steps = a.steps + 1
  /\ \A q \in Port \ {p} : state[q] \in {"MASTER", "PASSIVE"}

(* Of two ports of this clock on one network the better one is MASTER, the *)
(* one that hears it PASSIVE.                                              *)
LoopsQuiet ==
  \A lp \in Loops : lp[1] < lp[2] => state[lp[1]] = "MASTER" /\ state[lp[2]] = "PASSIVE"

(* "PTP implementation accepts any message received from another PTP Port  *)
(* on the same PTP Instance" (bmc.c, bmc_add_frgn_master(), on external    *)
(* port configuration): a port that follows its peer stores the Announce   *)
(* of another port of this clock.                                          *)
EpcAcceptsOtherPorts ==
  EPC => \A p, q \in Port :
    (p # q /\ link[p] /\ state[p] \in SlaveStates /\ state[q] = "MASTER") =>
      bmc_add_frgn_master(p, [kind |-> "announce", ann |-> OwnAnnounce(q), inSeq |-> TRUE]).sel # 0
=============================================================================
