--------------------------- MODULE PtpClockProofs ---------------------------
(***************************************************************************)
(* Proofs about PtpClock, for any number of ports, any size of the foreign *)
(* master tables, any set of neighbours and every configuration.           *)
(***************************************************************************)
EXTENDS PtpClock, ForeignMastersProofs

(* What UniqueSources and NoSelfRecord say of the table of port p.         *)
Clean(p, tbl) ==
  /\ Unique(tbl)
  /\ ~EPC => \A i \in 1..Len(tbl) :
               tbl[i].src[1] = ClockId => bmc_pidcmp(tbl[i].src, PortId(p)) < 0

TablesClean == \A p \in Port : Clean(p, frgn[p])

(* What every state handler of port p does: only its own state and table   *)
(* change, and a port becomes a slave in a handler only under external     *)
(* port configuration.                                                     *)
Moves(p) == \E s \in States : /\ Enter(p, s)
                              /\ ~EPC /\ s \in SlaveStates => state[p] \in SlaveStates

Tables(p) == \E t, b : /\ frgn' = [frgn EXCEPT ![p] = t]
                       /\ best' = [best EXCEPT ![p] = b]
                       /\ TableOK(t, b)
                       /\ Clean(p, frgn[p]) => Clean(p, t)

HandlerEffect(p) == /\ Moves(p)
                    /\ deciding' \in {0, p}
                    /\ Tables(p)
                    /\ DataSetsOK'

-----------------------------------------------------------------------------
(* Data set updates keep the types of the data sets.                       *)

(* The parent data set that bmc_m1() writes has the type of parentDS.      *)
LEMMA OwnParentType ==
  ASSUME LoopOK
  PROVE  OwnParent(own) \in [src : PortIdentity, gm : Identity, q : Quality]
<1>1. own \in Quality
  BY OptionsAssumption DEF LoopOK
<1>2. <<ClockId, 0>> \in PortIdentity
  BY OptionsAssumption DEF PortIdentity
<1> QED BY <1>1, <1>2, OptionsAssumption DEF OwnParent

(* bmc_s1() keeps the types of the data sets.                              *)
LEMMA S1Type ==
  ASSUME NEW r \in Record, bmc_s1(r)
  PROVE  DataSetsOK'
<1>1. /\ r.src \in PortIdentity /\ r.gm \in Identity /\ r.q \in Quality
      /\ Inc16(r.steps) \in UInteger16
  BY RecordFields, Inc16Type
<1>2. steps' \in UInteger16 /\ newGM' \in BOOLEAN /\ gmTimer' \in BOOLEAN
  BY <1>1, Zenon DEF bmc_s1
<1>3. parent' \in [src : PortIdentity, gm : Identity, q : Quality]
  BY <1>1 DEF bmc_s1
<1> QED BY <1>2, <1>3, Zenon DEF DataSetsOK

(* bmc_m1() keeps the types of the data sets.                              *)
LEMMA M1Type ==
  ASSUME LoopOK, DataSetsOK, bmc_m1, gmTimer' \in BOOLEAN
  PROVE  DataSetsOK'
<1>1. 0 \in UInteger16
  BY Zero16
<1> QED BY <1>1, OwnParentType DEF bmc_m1, DataSetsOK

(* bmc_m2() keeps the types of the data sets.                              *)
LEMMA M2Type ==
  ASSUME LoopOK, DataSetsOK, bmc_m2
  PROVE  DataSetsOK'
<1>1. gmTimer' \in BOOLEAN
  BY DEF bmc_m2, DataSetsOK
<1> QED BY <1>1, M1Type DEF bmc_m2

(* bmc_m3() keeps the types of the data sets.                              *)
LEMMA M3Type ==
  ASSUME DataSetsOK, bmc_m3
  PROVE  DataSetsOK'
BY DEF bmc_m3, DataSetsOK

(* A step that leaves the data sets alone keeps their types.               *)
LEMMA UnchangedType ==
  ASSUME DataSetsOK, UNCHANGED dsVars
  PROVE  DataSetsOK'
BY DEF dsVars, DataSetsOK

(* What the announce receipt timeout does to the data sets                 *)
(* (st_com_check_announce_receive_timeout) keeps their types.              *)
LEMMA TimeoutUpdateType ==
  ASSUME LoopOK, DataSetsOK, NEW to \in BOOLEAN, TimeoutUpdate(to)
  PROVE  DataSetsOK'
<1>1. CASE UNCHANGED dsVars
  BY <1>1, UnchangedType
<1>2. CASE bmc_m1 /\ UNCHANGED gmTimer
  <2>1. gmTimer' \in BOOLEAN
    BY <1>2 DEF DataSetsOK
  <2> QED BY <1>2, <2>1, M1Type
<1>3. CASE bmc_m3
  BY <1>3, M3Type
<1> QED BY <1>1, <1>2, <1>3 DEF TimeoutUpdate

-----------------------------------------------------------------------------
(* Frames and the table.                                                   *)

(* Whatever a port hears, from its neighbours or from ports of this clock, *)
(* is an Announce.                                                         *)
LEMMA HeardType ==
  ASSUME DataSetsOK, NEW p \in Port
  PROVE  Heard(p) \subseteq Announce
<1>1. Announces[p] \subseteq Announce
  BY OptionsAssumption
<1>2. ASSUME NEW q \in Port PROVE OwnAnnounce(q) \in Announce
  <2>1. <<ClockId, q>> \in PortIdentity
    BY OptionsAssumption, PortsAssumption DEF PortIdentity, Port
  <2> QED BY <2>1 DEF OwnAnnounce, PortId, Announce, DataSetsOK
<1> QED BY <1>1, <1>2 DEF Heard

(* A frame as a handler sees it.                                           *)
FrameOK(f) == f.kind = "announce" => f.ann \in Announce /\ f.inSeq \in BOOLEAN

(* The frame that pp_packet_prefilter() lets through is well formed.       *)
LEMMA FrameType ==
  ASSUME DataSetsOK, NEW p \in Port, NEW frame \in Frames(p) \cup {NoFrame}
  PROVE  FrameOK(pp_packet_prefilter(p, frame))
<1>1. FrameOK(NoFrame)
  BY DEF FrameOK, NoFrame
<1>2. ASSUME frame \in Frames(p) PROVE FrameOK(frame)
  <2>1. CASE frame = [kind |-> "second_pdelay_resp"]
    BY <2>1 DEF FrameOK
  <2>2. CASE \E a \in Heard(p), b \in BOOLEAN :
               frame = [kind |-> "announce", ann |-> a, inSeq |-> b]
    BY <2>2, HeardType DEF FrameOK
  <2> QED BY <1>2, <2>1, <2>2 DEF Frames
<1>3. pp_packet_prefilter(p, frame) \in {NoFrame, frame}
  BY DEF pp_packet_prefilter
<1> QED BY <1>1, <1>2, <1>3

(* bmc_store_frgn_master() makes a record of an Announce.                  *)
LEMMA StoreType ==
  ASSUME NEW p \in Port, NEW a \in Announce
  PROVE  /\ bmc_store_frgn_master(a, PortId(p)) \in Record
         /\ bmc_store_frgn_master(a, PortId(p)).src = a.src
<1>1. PortId(p) \in PortIdentity
  BY OptionsAssumption, PortsAssumption DEF PortId, PortIdentity, Port
<1> QED BY <1>1 DEF bmc_store_frgn_master, Record, Announce

(* What bmc_add_frgn_master() hands back, given that the table was fine.   *)
AddOK(p, add) == /\ TableOK(add.tbl, add.best)
                 /\ add.sel \in 0..Len(add.tbl)
                 /\ Clean(p, frgn[p]) => Clean(p, add.tbl)

(* A handler that stores nothing hands back a clean table.                 *)
LEMMA UnstoredOK ==
  ASSUME TablesOK, NEW p \in Port
  PROVE  AddOK(p, Unstored(p))
<1>1. TableOK(frgn[p], best[p])
  BY DEF TablesOK
<1> QED BY <1>1 DEF AddOK, Unstored, TableOK

(* bmc_add_frgn_master() keeps the table within its bound and its index    *)
(* valid, and keeps it clean: no second record of a source, none of the    *)
(* port itself or of a worse port of this clock.                           *)
LEMMA AddFrgnMasterOK ==
  ASSUME TablesOK, NEW p \in Port, NEW f, f.kind = "announce", FrameOK(f)
  PROVE  AddOK(p, bmc_add_frgn_master(p, f))
<1> DEFINE r  == bmc_store_frgn_master(f.ann, PortId(p))
           st == Stored(frgn[p], r, f.inSeq)
           add == bmc_add_frgn_master(p, f)
<1>1. f.ann \in Announce /\ f.inSeq \in BOOLEAN
  BY DEF FrameOK
<1>2. r \in Record /\ r.src = f.ann.src
  BY <1>1, StoreType
<1>3. TableOK(frgn[p], best[p]) /\ frgn[p] \in Seq(Record) /\ Len(frgn[p]) <= NR
  BY DEF TablesOK, TableOK
<1>4. CASE EPC /\ f.ann.src = <<ClockId, p - 1>>
  <2>1. add = Unstored(p)
    BY <1>4 DEF bmc_add_frgn_master
  <2> QED BY <2>1, UnstoredOK
<1>5. CASE EPC /\ f.ann.src # <<ClockId, p - 1>>
  <2>1. add = [tbl |-> <<r>>, best |-> 1, sel |-> 1, passive |-> FALSE]
    BY <1>5 DEF bmc_add_frgn_master
  <2> HIDE DEF r
  <2>2. <<r>> \in Seq(Record) /\ Len(<<r>>) = 1
    BY <1>2
  <2>3. TableOK(<<r>>, 1)
    BY <2>2, NRAssumption DEF TableOK
  <2>4. Clean(p, <<r>>)
    BY <2>2, <1>5 DEF Clean, Unique
  <2> QED BY <2>1, <2>2, <2>3, <2>4 DEF AddOK
<1>6. CASE ~EPC /\ IgnoredAnnounce(p, f.ann)
  <2>1. /\ add.tbl = frgn[p] /\ add.best = best[p] /\ add.sel = 0
    BY <1>6 DEF bmc_add_frgn_master, Unstored
  <2> QED BY <2>1, <1>3 DEF AddOK, TableOK
<1>7. CASE ~EPC /\ ~IgnoredAnnounce(p, f.ann)
  <2>1. add.tbl = st.tbl /\ add.best = best[p] /\ add.sel = st.sel
    BY <1>7 DEF bmc_add_frgn_master
  <2> HIDE DEF r
  <2>2. /\ st.tbl \in Seq(Record) /\ Len(st.tbl) <= NR
        /\ Len(frgn[p]) <= Len(st.tbl) /\ st.sel \in 0..Len(st.tbl)
    BY <1>1, <1>2, <1>3, StoredType
  <2>3. /\ Unique(frgn[p]) => Unique(st.tbl)
        /\ \A j \in 1..Len(st.tbl) :
             \/ st.tbl[j].src = r.src
             \/ j \in 1..Len(frgn[p]) /\ st.tbl[j].src = frgn[p][j].src
    BY <1>1, <1>2, <1>3, StoredSources
  <2> HIDE DEF st
  <2>4. TableOK(st.tbl, best[p])
    BY <2>2, <1>3 DEF TableOK
  <2>5. f.ann.src[1] = ClockId => bmc_pidcmp(f.ann.src, PortId(p)) < 0
    BY <1>7 DEF IgnoredAnnounce, BetterOwnPort
  <2>6. Clean(p, frgn[p]) => Clean(p, st.tbl)
    BY <2>3, <2>5, <1>2 DEF Clean
  <2> QED BY <2>1, <2>2, <2>4, <2>6 DEF AddOK
<1> QED BY <1>4, <1>5, <1>6, <1>7

(* So do the announce handlers built on it.                                *)
LEMMA HandleAnnounceOK ==
  ASSUME TablesOK, NEW p \in Port, NEW f, FrameOK(f)
  PROVE  AddOK(p, HandleAnnounce(p, f))
BY UnstoredOK, AddFrgnMasterOK DEF HandleAnnounce

(* StoreTable writes back what was handed to it, perhaps without Erbest.   *)
LEMMA StoreTableOK ==
  ASSUME TablesOK, NEW p \in Port, NEW add, AddOK(p, add), NEW to \in BOOLEAN,
         StoreTable(p, add, to)
  PROVE  Tables(p)
<1>1. add.tbl \in Seq(Record) /\ Len(add.tbl) <= NR /\ add.best \in 0..Len(add.tbl)
  BY DEF AddOK, TableOK
<1>2. CASE ~to
  BY <1>2 DEF StoreTable, Tables, AddOK
<1>3. CASE to
  <2> DEFINE t == FlushErbest(add.tbl, add.best)
  <2>1. /\ t \in Seq(Record) /\ Len(t) <= Len(add.tbl)
        /\ Unique(add.tbl) => Unique(t)
        /\ \A j \in 1..Len(t) : \E k \in 1..Len(add.tbl) : t[j] = add.tbl[k]
    BY <1>1, FlushErbestFacts
  <2>2. frgn' = [frgn EXCEPT ![p] = t] /\ best' = [best EXCEPT ![p] = 0]
    BY <1>3 DEF StoreTable
  <2> HIDE DEF t
  <2>3. Len(t) \in Nat /\ Len(add.tbl) \in Nat /\ NR \in Nat
    BY <1>1, <2>1, NRAssumption
  <2>4. TableOK(t, 0)
    BY <1>1, <2>1, <2>3 DEF TableOK
  <2>5. Clean(p, add.tbl) => Clean(p, t)
    BY <2>1 DEF Clean
  <2>6. Clean(p, frgn[p]) => Clean(p, add.tbl)
    BY DEF AddOK
  <2> QED BY <2>2, <2>4, <2>5, <2>6 DEF Tables
<1> QED BY <1>2, <1>3

(* A handler that leaves the tables alone satisfies Tables.                *)
LEMMA TablesUnchanged ==
  ASSUME TablesOK, NEW p \in Port, UNCHANGED tableVars
  PROVE  Tables(p)
<1>1. frgn' = [frgn EXCEPT ![p] = frgn[p]] /\ best' = [best EXCEPT ![p] = best[p]]
  BY DEF tableVars, TablesOK
<1>2. TableOK(frgn[p], best[p])
  BY DEF TablesOK
<1> QED BY <1>1, <1>2 DEF Tables

(* The end of a handler satisfies Moves when it leads to a state of its    *)
(* own or, without EPC, from one slave state to another.                   *)
LEMMA LeaveOK ==
  ASSUME PortsOK, NEW p \in Port, NEW cur, NEW next \in States, Leave(p, cur, next),
         ~EPC /\ next \in SlaveStates => state[p] \in SlaveStates
  PROVE  Moves(p) /\ deciding' \in {0, p}
BY DEF Leave, Moves

-----------------------------------------------------------------------------
(* The state handlers, one by one.                                         *)

(* The state names, and which of them are no slave states.                 *)
LEMMA StateNames ==
  /\ {"INITIALIZING", "FAULTY", "LISTENING", "MASTER", "PASSIVE", "UNCALIBRATED", "SLAVE",
      "PRE_MASTER", "DISABLED"} \subseteq States
  /\ {"INITIALIZING", "FAULTY", "LISTENING", "MASTER", "PASSIVE", "PRE_MASTER",
      "DISABLED"} \cap SlaveStates = {}
BY DEF States, SlaveStates

(* pp_initializing() has the effect of a handler.                          *)
LEMMA InitializingOK ==
  ASSUME TypeOK, NEW p \in Port, NEW ok \in BOOLEAN, Initializing(p, ok)
  PROVE  HandlerEffect(p)
<1> DEFINE next == IF ok THEN InitialState(p) ELSE "INITIALIZING"
<1>1. next \in States /\ (~EPC => next \notin SlaveStates)
  BY StateNames, OptionsAssumption DEF InitialState
<1>2. Leave(p, "INITIALIZING", next)
  BY DEF Initializing
<1> HIDE DEF next
<1>3. Moves(p) /\ deciding' \in {0, p}
  BY <1>1, <1>2, LeaveOK DEF TypeOK
<1>4. Tables(p)
  BY TablesUnchanged DEF Initializing, TypeOK
<1>5. parent' = OwnParent(own) \/ parent' = parent
  BY DEF Initializing
<1>6. DataSetsOK'
  BY <1>5, OwnParentType DEF Initializing, TypeOK, DataSetsOK
<1> QED BY <1>3, <1>4, <1>6 DEF HandlerEffect

(* pp_listening() has the effect of a handler.                             *)
LEMMA ListeningOK ==
  ASSUME TypeOK, NEW p \in Port, NEW f, FrameOK(f), NEW to \in BOOLEAN, NEW err \in BOOLEAN,
         state[p] \in States, Listening(p, f, to, err)
  PROVE  HandlerEffect(p)
<1> DEFINE add  == HandleAnnounce(p, f)
           next == IF err /\ f = NoFrame /\ ~EPC THEN "FAULTY"
                   ELSE IF to THEN TimeoutState
                   ELSE AfterMessage(f, add, state[p])
<1>1. AddOK(p, add)
  BY HandleAnnounceOK DEF TypeOK
<1>2. StoreTable(p, add, to) /\ TimeoutUpdate(to) /\ Leave(p, state[p], next)
  BY DEF Listening
<1>3. next \in {"FAULTY", "LISTENING", "MASTER", "PASSIVE", state[p]}
  BY DEF TimeoutState, AfterMessage
<1> HIDE DEF add, next
<1>4. Tables(p)
  BY <1>1, <1>2, StoreTableOK DEF TypeOK
<1>5. Moves(p) /\ deciding' \in {0, p}
  <2>1. next \in States /\ (next \in SlaveStates => state[p] \in SlaveStates)
    BY <1>3, StateNames
  <2> QED BY <1>2, <2>1, LeaveOK DEF TypeOK
<1>6. DataSetsOK'
  BY <1>2, TimeoutUpdateType DEF TypeOK
<1> QED BY <1>4, <1>5, <1>6 DEF HandlerEffect

(* pp_passive() has the effect of a handler.                               *)
LEMMA PassiveOK ==
  ASSUME TypeOK, NEW p \in Port, NEW f, FrameOK(f), NEW to \in BOOLEAN, NEW err \in BOOLEAN,
         state[p] \in States, Passive(p, f, to, err)
  PROVE  HandlerEffect(p)
<1> DEFINE add  == HandleAnnounce(p, f)
           next == IF err /\ f = NoFrame /\ ~EPC THEN "FAULTY"
                   ELSE IF to THEN TimeoutState
                   ELSE AfterMessage(f, add, state[p])
<1>1. AddOK(p, add)
  BY HandleAnnounceOK DEF TypeOK
<1>2. StoreTable(p, add, to) /\ TimeoutUpdate(to) /\ Leave(p, state[p], next)
  BY DEF Passive
<1>3. next \in {"FAULTY", "LISTENING", "MASTER", "PASSIVE", state[p]}
  BY DEF TimeoutState, AfterMessage
<1> HIDE DEF add, next
<1>4. Tables(p)
  BY <1>1, <1>2, StoreTableOK DEF TypeOK
<1>5. Moves(p) /\ deciding' \in {0, p}
  <2>1. next \in States /\ (next \in SlaveStates => state[p] \in SlaveStates)
    BY <1>3, StateNames
  <2> QED BY <1>2, <2>1, LeaveOK DEF TypeOK
<1>6. DataSetsOK'
  BY <1>2, TimeoutUpdateType DEF TypeOK
<1> QED BY <1>4, <1>5, <1>6 DEF HandlerEffect

(* pp_master() has the effect of a handler.                                *)
LEMMA MasterOK ==
  ASSUME TypeOK, NEW p \in Port, NEW f, FrameOK(f), NEW to \in BOOLEAN,
         state[p] \in States, Master(p, f, to)
  PROVE  HandlerEffect(p)
<1> DEFINE add  == HandleAnnounce(p, f)
           next == IF to THEN "MASTER"
                   ELSE IF SlaveOnly /\ ~EPC THEN "LISTENING"
                   ELSE AfterMessage(f, add, state[p])
<1>1. AddOK(p, add)
  BY HandleAnnounceOK DEF TypeOK
<1>2. /\ UNCHANGED tableVars \/ StoreTable(p, add, FALSE)
      /\ Leave(p, state[p], next)
      /\ UNCHANGED dsVars
  BY DEF Master
<1>3. next \in {"FAULTY", "LISTENING", "MASTER", "PASSIVE", state[p]}
  BY DEF AfterMessage
<1> HIDE DEF add, next
<1>4. Tables(p)
  BY <1>1, <1>2, StoreTableOK, TablesUnchanged DEF TypeOK
<1>5. Moves(p) /\ deciding' \in {0, p}
  <2>1. next \in States /\ (next \in SlaveStates => state[p] \in SlaveStates)
    BY <1>3, StateNames
  <2> QED BY <1>2, <2>1, LeaveOK DEF TypeOK
<1>6. DataSetsOK'
  BY <1>2, UnchangedType DEF TypeOK
<1> QED BY <1>4, <1>5, <1>6 DEF HandlerEffect

(* pp_slave() has the effect of a handler.                                 *)
LEMMA SlaveOK ==
  ASSUME TypeOK, NEW p \in Port, NEW f, FrameOK(f), NEW to \in BOOLEAN,
         state[p] \in SlaveStates, Slave(p, f, to)
  PROVE  HandlerEffect(p)
<1> DEFINE fromParent == f.kind = "announce" /\ f.ann.src = parent.src
           add  == IF fromParent \/ (f.kind = "announce" /\ EPC)
                   THEN bmc_add_frgn_master(p, f) ELSE HandleAnnounce(p, f)
           next == IF to THEN TimeoutState ELSE AfterMessage(f, add, SlaveNext(p))
<1>1. AddOK(p, add)
  BY HandleAnnounceOK, AddFrgnMasterOK DEF TypeOK
<1>2. /\ StoreTable(p, add, to)
      /\ Leave(p, state[p], next)
      /\ \/ add.sel # 0 /\ bmc_s1(add.tbl[add.sel])
         \/ /\ newGM' = (newGM /\ state[p] # "SLAVE")
            /\ gmTimer' = IF to /\ ~SlaveOnly /\ GmDelay THEN FALSE ELSE gmTimer
            /\ UNCHANGED <<parent, steps>>
  BY DEF Slave
<1>3. next \in {"FAULTY", "LISTENING", "MASTER", "PASSIVE", "SLAVE", "UNCALIBRATED"}
  BY DEF TimeoutState, AfterMessage, SlaveNext, SlaveStates
<1> HIDE DEF fromParent, add, next
<1>4. Tables(p)
  BY <1>1, <1>2, StoreTableOK DEF TypeOK
<1>5. Moves(p) /\ deciding' \in {0, p}
  <2>1. next \in States
    BY <1>3, StateNames
  <2> QED BY <1>2, <2>1, LeaveOK DEF TypeOK
<1>6. DataSetsOK'
  <2>1. CASE add.sel # 0 /\ bmc_s1(add.tbl[add.sel])
    <3>1. add.tbl[add.sel] \in Record
      BY <2>1, <1>1 DEF AddOK, TableOK
    <3> QED BY <2>1, <3>1, S1Type
  <2>2. CASE /\ newGM' = (newGM /\ state[p] # "SLAVE")
             /\ gmTimer' = IF to /\ ~SlaveOnly /\ GmDelay THEN FALSE ELSE gmTimer
             /\ UNCHANGED <<parent, steps>>
    BY <2>2 DEF TypeOK, DataSetsOK
  <2> QED BY <1>2, <2>1, <2>2
<1> QED BY <1>4, <1>5, <1>6 DEF HandlerEffect

(* pp_faulty() has the effect of a handler.                                *)
LEMMA FaultyOK ==
  ASSUME TypeOK, NEW p \in Port, NEW to \in BOOLEAN, Faulty(p, to)
  PROVE  HandlerEffect(p)
<1> DEFINE next == IF to THEN "INITIALIZING" ELSE "FAULTY"
<1>1. Leave(p, "FAULTY", next) /\ UNCHANGED tableVars /\ UNCHANGED dsVars
  BY DEF Faulty
<1>2. next \in States /\ next \notin SlaveStates
  BY StateNames
<1> HIDE DEF next
<1>3. Moves(p) /\ deciding' \in {0, p}
  BY <1>1, <1>2, LeaveOK DEF TypeOK
<1> QED BY <1>1, <1>3, TablesUnchanged, UnchangedType DEF HandlerEffect, TypeOK

(* The whole of pp_state_machine() up to the decision.                     *)
LEMMA StateMachineOK ==
  ASSUME TypeOK, NEW p \in Port, NEW frame \in Frames(p) \cup {NoFrame}, NEW to \in BOOLEAN,
         pp_state_machine(p, frame, to)
  PROVE  HandlerEffect(p)
<1> DEFINE f == pp_packet_prefilter(p, frame)
<1>1. FrameOK(f)
  BY FrameType DEF TypeOK
<1>2. state[p] \in States
  BY DEF TypeOK, PortsOK
<1>3. \/ Initializing(p, to)
      \/ \E err \in BOOLEAN : Listening(p, f, to, err)
      \/ \E err \in BOOLEAN : Passive(p, f, to, err)
      \/ Master(p, f, to)
      \/ state[p] \in SlaveStates /\ Slave(p, f, to)
      \/ Faulty(p, to)
      \/ Leave(p, state[p], state[p]) /\ UNCHANGED <<tableVars, dsVars>>
  BY DEF pp_state_machine
<1> HIDE DEF f
<1>4. CASE Leave(p, state[p], state[p]) /\ UNCHANGED <<tableVars, dsVars>>
  <2>1. Moves(p) /\ deciding' \in {0, p}
    BY <1>2, <1>4, LeaveOK DEF TypeOK
  <2> QED BY <1>4, <2>1, TablesUnchanged, UnchangedType DEF HandlerEffect, TypeOK
<1> QED BY <1>1, <1>2, <1>3, <1>4, InitializingOK, ListeningOK, PassiveOK, MasterOK,
           SlaveOK, FaultyOK

-----------------------------------------------------------------------------
(***************************************************************************)
(* The inductive invariant.  SettledSlaveIsEbest is inductive given the    *)
(* range of ebest; the two facts about tables are inductive together with  *)
(* the types.                                                              *)
(***************************************************************************)
Inv == TypeOK /\ TablesClean /\ SettledSlaveIsEbest

(* An empty table is clean and within its bound.                           *)
LEMMA EmptyTable ==
  ASSUME NEW p
  PROVE  TableOK(<< >>, 0) /\ Clean(p, << >>)
BY NRAssumption DEF TableOK, Clean, Unique

(* Tables of one port change.                                              *)
LEMMA TablesStep ==
  ASSUME TablesOK, TablesClean, NEW p \in Port, Tables(p)
  PROVE  TablesOK' /\ TablesClean'
<1>1. PICK t, b : /\ frgn' = [frgn EXCEPT ![p] = t]
                  /\ best' = [best EXCEPT ![p] = b]
                  /\ TableOK(t, b)
                  /\ Clean(p, frgn[p]) => Clean(p, t)
  BY DEF Tables
<1>2. t \in Seq(Record) /\ b \in Nat
  BY <1>1 DEF TableOK
<1>3. frgn' \in [Port -> Seq(Record)] /\ best' \in [Port -> Nat]
  BY <1>1, <1>2 DEF TablesOK
<1>4. ASSUME NEW q \in Port
      PROVE  TableOK(frgn'[q], best'[q]) /\ Clean(q, frgn'[q])
  <2>1. CASE q = p
    <3>1. frgn'[q] = t /\ best'[q] = b
      BY <2>1, <1>1 DEF TablesOK
    <3> QED BY <2>1, <3>1, <1>1 DEF TablesClean
  <2>2. CASE q # p
    <3>1. frgn'[q] = frgn[q] /\ best'[q] = best[q]
      BY <2>2, <1>1 DEF TablesOK
    <3> QED BY <3>1 DEF TablesOK, TablesClean
  <2> QED BY <2>1, <2>2
<1>5. TablesOK'
  BY <1>3, <1>4 DEF TablesOK
<1>6. TablesClean'
  BY <1>4 DEF TablesClean
<1> QED BY <1>5, <1>6

(* Entering a state keeps the types of the port variables.                 *)
LEMMA EnterType ==
  ASSUME PortsOK, NEW p \in Port, NEW s \in States, Enter(p, s)
  PROVE  state' \in [Port -> States] /\ fresh' \in [Port -> BOOLEAN]
BY DEF Enter, PortsOK

(* A handler step keeps the invariant, whatever the loop does around it.   *)
LEMMA HandlerStep ==
  ASSUME Inv, NEW p \in Port, HandlerEffect(p), link' \in [Port -> BOOLEAN],
         UNCHANGED <<bmca, ebest, own>>, turn' \in 0..(N + 1)
  PROVE  Inv'
<1>1. PICK s \in States : /\ Enter(p, s)
                          /\ ~EPC /\ s \in SlaveStates => state[p] \in SlaveStates
  BY DEF HandlerEffect, Moves
<1>2. PortsOK'
  BY <1>1, EnterType DEF Inv, TypeOK, PortsOK
<1>3. TablesOK' /\ TablesClean'
  BY TablesStep DEF HandlerEffect, Inv, TypeOK
<1>4. DataSetsOK'
  BY DEF HandlerEffect
<1>5. deciding' \in 0..N
  BY PortsAssumption DEF HandlerEffect, Port
<1>6. LoopOK'
  BY <1>5 DEF Inv, TypeOK, LoopOK
<1>7. SettledSlaveIsEbest'
  <2>1. SUFFICES ASSUME ~EPC, NEW q \in Port, state'[q] \in SlaveStates, ~bmca[q]
                 PROVE  q = ebest
    BY DEF SettledSlaveIsEbest, SlaveStates
  <2>2. state[q] \in SlaveStates
    BY <1>1, <2>1 DEF Enter, Inv, TypeOK, PortsOK
  <2> QED BY <2>1, <2>2 DEF Inv, SettledSlaveIsEbest
<1> QED BY <1>2, <1>3, <1>4, <1>6, <1>7 DEF Inv, TypeOK

-----------------------------------------------------------------------------
(* The decision.                                                           *)

(* What the decision reads through its pointers to Erbest and Ebest is a   *)
(* record, also when frgn_rec_best is -1.                                  *)
LEMMA EbestRecsType ==
  ASSUME TablesOK, LoopOK, NEW p \in Port
  PROVE  EbestRecs \subseteq Record /\ ErbestRec(p) \in Record
<1>1. EmptyRecord \in Record
  <2>1. 0 \in UInteger16
    BY Zero16
  <2>2. <<0, 0>> \in PortIdentity /\ 0 \in Identity /\ <<0, 0, 0, 0, 0>> \in Quality
    BY DEF PortIdentity, Identity, Quality
  <2> QED BY <2>1, <2>2 DEF EmptyRecord, Record
<1>2. ASSUME NEW q \in Port PROVE ErbestRec(q) \in Record
  <2>1. frgn[q] \in Seq(Record) /\ best[q] \in 0..Len(frgn[q])
    BY DEF TablesOK, TableOK
  <2> QED BY <1>1, <2>1 DEF ErbestRec
<1>3. ebest # 0 => ebest \in Port
  BY DEF LoopOK, Port
<1>4. EbestRecs \subseteq Record
  BY <1>1, <1>2, <1>3, OptionsAssumption DEF EbestRecs
<1> QED BY <1>2, <1>4

(* Every outcome of the decision leads to a state.                         *)
LEMMA StateForType ==
  ASSUME NEW p \in Port, state[p] \in States, NEW d, NEW eb
  PROVE  StateFor(p, d, eb) \in States
BY StateNames DEF StateFor

(* The data set update of every outcome keeps the types.                   *)
LEMMA UpdateForType ==
  ASSUME LoopOK, DataSetsOK, NEW p \in Port, NEW d, NEW eb \in Record, UpdateFor(p, d, eb)
  PROVE  DataSetsOK'
<1>1. \/ bmc_s1(eb)
      \/ bmc_m1 /\ UNCHANGED gmTimer
      \/ bmc_m2
      \/ bmc_m3
      \/ UNCHANGED dsVars
  BY DEF UpdateFor
<1>2. CASE bmc_m1 /\ UNCHANGED gmTimer
  <2>1. gmTimer' \in BOOLEAN
    BY <1>2 DEF DataSetsOK
  <2> QED BY <1>2, <2>1, M1Type
<1> QED BY <1>1, <1>2, S1Type, M2Type, M3Type, UnchangedType

(* Only the S1 outcome makes a slave, and only on the port of Ebest.       *)
LEMMA DecidedSlave ==
  ASSUME LoopOK, NEW p \in Port, NEW eb,
         StateFor(p, Decision(p, eb), eb) \in SlaveStates
  PROVE  p = ebest
<1> DEFINE d == Decision(p, eb)
<1>0. StateFor(p, d, eb) \in SlaveStates
  OBVIOUS
<1>1. CASE state[p] \in {"FAULTY", "INITIALIZING"}
  <2>1. d = "KEEP"
    BY <1>1 DEF Decision
  <2>2. StateFor(p, d, eb) = state[p]
    BY <2>1 DEF StateFor
  <2> QED BY <1>1, <2>2, StateNames
<1>2. CASE state[p] \notin {"FAULTY", "INITIALIZING"}
  <2>1. d # "KEEP"
    BY <1>2 DEF Decision, DecisionD0
  <2>2. d = "S1"
    <3> HIDE DEF d
    <3>1. CASE d \in {"LISTEN", "ERROR"}
      BY <3>1, <1>0, StateNames DEF StateFor
    <3>2. CASE d \notin {"LISTEN", "ERROR", "S1", "KEEP"}
      <4>1. StateFor(p, d, eb) \in {"LISTENING", "PASSIVE", "PRE_MASTER"} \cup MasterStates
        BY <3>2 DEF StateFor
      <4> QED BY <4>1, <1>0, StateNames DEF MasterStates
    <3> QED BY <2>1, <3>1, <3>2
  <2>3. p = ebest \/ (ebest # 0 /\ FollowsEbest(p))
    BY <1>2, <2>2 DEF Decision, DecisionD0
  <2> QED BY <2>3, PortsAssumption DEF FollowsEbest, LoopOK, Port
<1> QED BY <1>1, <1>2

(* The decision of a port (bmc_apply_state_descision) keeps the invariant. *)
LEMMA DecideStep ==
  ASSUME Inv, NEW p \in Port, Decide(p)
  PROVE  Inv'
<1>0. state[p] \in States /\ PortsOK /\ TablesOK /\ DataSetsOK /\ LoopOK
  BY DEF Inv, TypeOK, PortsOK
<1>1. \E s \in States : Enter(p, s) /\ (~EPC /\ s \in SlaveStates => p = ebest)
  <2>1. CASE EPC
    BY <2>1, <1>0 DEF Decide
  <2>2. CASE ~EPC /\ Enter(p, "INITIALIZING")
    BY <2>2, StateNames
  <2>3. CASE ~EPC /\ Enter(p, "PASSIVE")
    BY <2>3, StateNames
  <2>4. CASE ~EPC /\ \E eb : Enter(p, StateFor(p, Decision(p, eb), eb))
    <3>1. PICK eb : Enter(p, StateFor(p, Decision(p, eb), eb))
      BY <2>4
    <3>2. StateFor(p, Decision(p, eb), eb) \in States
      BY <1>0, StateForType
    <3>3. StateFor(p, Decision(p, eb), eb) \in SlaveStates => p = ebest
      BY <1>0, DecidedSlave
    <3> QED BY <3>1, <3>2, <3>3
  <2> QED BY <2>1, <2>2, <2>3, <2>4 DEF Decide
<1>2. DataSetsOK'
  <2>1. CASE UNCHANGED dsVars
    BY <2>1, <1>0, UnchangedType
  <2>2. CASE EPC /\ DecideEpc(p)
    <3>1. CASE frgn[p] # << >> /\ bmc_s1(frgn[p][1])
      <4>1. frgn[p][1] \in Record
        BY <3>1, <1>0 DEF TablesOK
      <4> QED BY <3>1, <4>1, S1Type
    <3>2. CASE bmc_m2
      BY <3>2, <1>0, M2Type
    <3>3. CASE UNCHANGED dsVars
      BY <3>3, <1>0, UnchangedType
    <3> QED BY <2>2, <3>1, <3>2, <3>3 DEF DecideEpc
  <2>3. CASE \E eb \in EbestRecs \cup {ErbestRec(p)} : UpdateFor(p, Decision(p, eb), eb)
    <3>1. PICK eb \in EbestRecs \cup {ErbestRec(p)} : UpdateFor(p, Decision(p, eb), eb)
      BY <2>3
    <3>2. eb \in Record
      BY <1>0, EbestRecsType
    <3> QED BY <1>0, <3>1, <3>2, UpdateForType
  <2> QED BY <2>1, <2>2, <2>3 DEF Decide
<1>3. PICK s \in States : Enter(p, s) /\ (~EPC /\ s \in SlaveStates => p = ebest)
  BY <1>1
<1>4. bmca' = [bmca EXCEPT ![p] = FALSE] /\ UNCHANGED <<link, ebest, own, turn>> /\ deciding' = 0
  BY DEF Decide
<1>5. PortsOK'
  BY <1>0, <1>3, <1>4, EnterType DEF PortsOK
<1>6. TablesOK' /\ TablesClean'
  BY DEF Decide, tableVars, Inv, TypeOK, TablesOK, TablesClean
<1>7. LoopOK'
  BY <1>0, <1>4, PortsAssumption DEF LoopOK
<1>8. SettledSlaveIsEbest'
  <2>1. SUFFICES ASSUME ~EPC, NEW q \in Port, state'[q] \in SlaveStates, ~bmca'[q]
                 PROVE  q = ebest
    BY <1>4 DEF SettledSlaveIsEbest, SlaveStates
  <2>2. CASE q = p
    BY <2>1, <2>2, <1>3, <1>0 DEF Enter, PortsOK
  <2>3. CASE q # p
    BY <2>1, <2>3, <1>3, <1>4, <1>0 DEF Enter, PortsOK, Inv, SettledSlaveIsEbest
  <2> QED BY <2>2, <2>3
<1> QED BY <1>2, <1>5, <1>6, <1>7, <1>8 DEF Inv, TypeOK

-----------------------------------------------------------------------------
(* The steps of the main loop.                                             *)

(* Receiving a frame, running a port and bringing a link up keep the       *)
(* invariant.                                                              *)
LEMMA RunStep ==
  ASSUME Inv, NEW p \in Port,
         \/ Receive(p)
         \/ \E to \in BOOLEAN : RunPort(p, to)
         \/ LinkUp(p)
  PROVE  Inv'
<1>0. TypeOK /\ link \in [Port -> BOOLEAN] /\ turn \in 0..(N + 1)
  BY DEF Inv, TypeOK, PortsOK, LoopOK
<1>1. CASE Receive(p)
  <2>1. PICK f \in Frames(p), to \in BOOLEAN : pp_state_machine(p, f, to)
    BY <1>1 DEF Receive
  <2>2. HandlerEffect(p)
    BY <1>0, <2>1, StateMachineOK
  <2>3. UNCHANGED <<link, bmca, ebest, own>> /\ turn' = turn
    BY <1>1, <2>1 DEF Receive, pp_state_machine
  <2> QED BY <1>0, <2>2, <2>3, HandlerStep
<1>2. CASE \E to \in BOOLEAN : RunPort(p, to)
  <2>1. PICK to \in BOOLEAN : RunPort(p, to)
    BY <1>2
  <2>2. HandlerEffect(p)
    BY <1>0, <2>1, StateMachineOK DEF RunPort
  <2>3. UNCHANGED <<link, bmca, ebest, own>> /\ turn' = p
    BY <2>1 DEF RunPort, pp_state_machine
  <2>4. p \in 0..(N + 1)
    BY PortsAssumption DEF Port
  <2> QED BY <1>0, <2>2, <2>3, <2>4, HandlerStep
<1>3. CASE LinkUp(p)
  <2>1. PICK ok \in BOOLEAN : Initializing(p, ok)
    BY <1>3 DEF LinkUp
  <2>2. HandlerEffect(p)
    BY <1>0, <2>1, InitializingOK
  <2>3. UNCHANGED <<bmca, ebest, own>> /\ turn' = p /\ link' \in [Port -> BOOLEAN]
    BY <1>0, <1>3 DEF LinkUp
  <2>4. p \in 0..(N + 1)
    BY PortsAssumption DEF Port
  <2> QED BY <1>0, <2>2, <2>3, <2>4, HandlerStep
<1> QED BY <1>1, <1>2, <1>3

(* Losing a link keeps the invariant.                                      *)
LEMMA LinkDownStep ==
  ASSUME Inv, NEW p \in Port, LinkDown(p)
  PROVE  Inv'
<1>1. Tables(p)
  BY EmptyTable DEF LinkDown, Tables
<1>2. HandlerEffect(p)
  <2>1. Moves(p)
    BY StateNames DEF LinkDown, Moves
  <2>2. deciding' \in {0, p}
    BY DEF LinkDown
  <2>3. DataSetsOK'
    BY UnchangedType DEF LinkDown, Inv, TypeOK
  <2> QED BY <1>1, <2>1, <2>2, <2>3 DEF HandlerEffect
<1>3. link' \in [Port -> BOOLEAN] /\ turn' \in 0..(N + 1) /\ UNCHANGED <<bmca, ebest, own>>
  BY PortsAssumption DEF LinkDown, Inv, TypeOK, PortsOK, Port
<1> QED BY <1>2, <1>3, HandlerStep

(* Steps that touch neither ports nor tables.                              *)
LEMMA QuietStep ==
  ASSUME Inv, UNCHANGED <<portVars, tableVars, ebest, dsVars, deciding>>,
         own' \in Qualities, turn' \in 0..(N + 1)
  PROVE  Inv'
<1>1. PortsOK' /\ SettledSlaveIsEbest'
  BY DEF Inv, TypeOK, PortsOK, SettledSlaveIsEbest, portVars
<1>2. TablesOK' /\ TablesClean'
  BY DEF Inv, TypeOK, TablesOK, TablesClean, tableVars
<1>3. DataSetsOK'
  BY UnchangedType DEF Inv, TypeOK
<1>4. LoopOK'
  BY DEF Inv, TypeOK, LoopOK
<1> QED BY <1>1, <1>2, <1>3, <1>4 DEF Inv, TypeOK

(* Every step of run_all_state_machines() keeps the invariant.             *)
LEMMA PassStep ==
  ASSUME Inv, (\E p \in Port : StayDown(p)) \/ SkipBmc \/ StartBmc
  PROVE  Inv'
<1>1. UNCHANGED <<portVars, tableVars, ebest, dsVars, deciding>> /\ own' \in Qualities
  BY DEF StayDown, SkipBmc, StartBmc, Inv, TypeOK, LoopOK
<1>2. turn' \in 0..(N + 1)
  BY PortsAssumption DEF StayDown, SkipBmc, StartBmc, Port
<1> QED BY <1>1, <1>2, QuietStep

(* Steps that change the table of one port and nothing else.               *)
LEMMA TableStep ==
  ASSUME Inv, NEW p \in Port, Tables(p), UNCHANGED <<portVars, ebest, own, dsVars, turn, deciding>>
  PROVE  Inv'
<1>1. PortsOK' /\ SettledSlaveIsEbest'
  BY DEF Inv, TypeOK, PortsOK, SettledSlaveIsEbest, portVars
<1>2. TablesOK' /\ TablesClean'
  BY TablesStep DEF Inv, TypeOK
<1>3. DataSetsOK'
  BY UnchangedType DEF Inv, TypeOK
<1>4. LoopOK'
  BY DEF Inv, TypeOK, LoopOK
<1> QED BY <1>1, <1>2, <1>3, <1>4 DEF Inv, TypeOK

(* Aging out one record (bmc_age_frgn_master) keeps the invariant: the     *)
(* best index is moved with its record.                                    *)
LEMMA AgeStep ==
  ASSUME Inv, NEW p \in Port, bmc_age_frgn_master(p)
  PROVE  Inv'
<1> DEFINE i == First(AgedOut(p))
           t == RemoveAt(frgn[p], i)
           b == BestAfterRemove(best[p], i)
<1>1. /\ frgn[p] \in Seq(Record) /\ Len(frgn[p]) <= NR /\ Len(frgn[p]) \in Nat
      /\ best[p] \in 0..Len(frgn[p]) /\ NR \in Nat
  BY NRAssumption DEF Inv, TypeOK, TablesOK, TableOK
<1>2. i \in 1..Len(frgn[p])
  <2>1. AgedOut(p) \subseteq Nat /\ AgedOut(p) \subseteq 1..Len(frgn[p])
    BY DEF AgedOut
  <2>2. AgedOut(p) # {}
    BY DEF bmc_age_frgn_master
  <2> QED BY <2>1, <2>2, FirstInSet
<1>3. frgn' = [frgn EXCEPT ![p] = t] /\ best' = [best EXCEPT ![p] = b]
  BY DEF bmc_age_frgn_master
<1> HIDE DEF i
<1>4. t \in Seq(Record) /\ Len(t) = Len(frgn[p]) - 1
  BY <1>1, <1>2, RemoveAtFacts
<1>5. b \in 0..(Len(frgn[p]) - 1)
  BY <1>1, <1>2 DEF BestAfterRemove
<1>6. /\ Unique(frgn[p]) => Unique(t)
      /\ \A j \in 1..Len(t) : \E k \in 1..Len(frgn[p]) : t[j] = frgn[p][k]
  BY <1>1, <1>2, RemoveAtSources
<1> HIDE DEF t, b
<1>7. TableOK(t, b)
  BY <1>1, <1>4, <1>5 DEF TableOK
<1>8. Clean(p, frgn[p]) => Clean(p, t)
  BY <1>6 DEF Clean
<1>9. Tables(p)
  BY <1>3, <1>7, <1>8 DEF Tables
<1> QED BY <1>9, TableStep DEF bmc_age_frgn_master

(* The end of a time window keeps the invariant.                           *)
LEMMA LapseStep ==
  ASSUME Inv, NEW p \in Port, Lapse(p)
  PROVE  Inv'
<1>1. /\ frgn[p] \in Seq(Record) /\ Len(frgn[p]) <= NR /\ Len(frgn[p]) \in Nat
      /\ best[p] \in 0..Len(frgn[p])
  BY DEF Inv, TypeOK, TablesOK, TableOK
<1>2. PICK i \in 1..Len(frgn[p]) :
        frgn' = [frgn EXCEPT ![p] = Put(frgn[p], i, [frgn[p][i] EXCEPT !.aged = TRUE])]
  BY DEF Lapse, Inv, TypeOK, TablesOK
<1> DEFINE r == [frgn[p][i] EXCEPT !.aged = TRUE]
           t == Put(frgn[p], i, r)
<1>3. r \in Record /\ r.src = frgn[p][i].src
  <2>1. frgn[p][i] \in Record
    BY <1>1
  <2> QED BY <2>1 DEF Record
<1> HIDE DEF r
<1>4. i \in 1..(Len(frgn[p]) + 1)
  BY <1>1
<1>5. /\ t \in Seq(Record) /\ Len(t) = Len(frgn[p])
      /\ \A j \in 1..Len(t) : t[j] = IF j = i THEN r ELSE frgn[p][j]
  BY <1>1, <1>3, <1>4, PutFacts
<1>6. \A j \in 1..Len(t) : t[j].src = frgn[p][j].src
  BY <1>3, <1>5
<1>7. frgn' = [frgn EXCEPT ![p] = t] /\ best' = [best EXCEPT ![p] = best[p]]
  BY <1>2 DEF Lapse, r, Inv, TypeOK, TablesOK
<1> HIDE DEF t
<1>8. TableOK(t, best[p]) /\ (Clean(p, frgn[p]) => Clean(p, t))
  BY <1>1, <1>5, <1>6 DEF TableOK, Clean, Unique
<1>9. Tables(p)
  BY <1>7, <1>8 DEF Tables
<1> QED BY <1>9, TableStep DEF Lapse

(* bmc_calculate_ebest(): the new best records and the new Ebest index are *)
(* indexes of what they index, for every table.                            *)
LEMMA NewEbestType ==
  ASSUME NEW tbl, NEW b
  PROVE  NewEbest(tbl, b) \in 0..N
<1>1. \A beats : Champion(N, beats) \in 1..N
  BY PortsAssumption, ChampionInRange
<1>2. \E beats : NewEbest(tbl, b) \in {0, Champion(N, beats)}
  BY DEF NewEbest
<1> QED BY <1>1, <1>2, PortsAssumption

(* bmc_calculate_ebest() keeps the invariant: it moves Ebest only when it  *)
(* sets bmca_execute on all ports.                                         *)
LEMMA CalculateStep ==
  ASSUME Inv, bmc_calculate_ebest
  PROVE  Inv'
<1>0. /\ UNCHANGED <<state, fresh, link, own, dsVars, deciding>> /\ turn' = 0
  BY DEF bmc_calculate_ebest
<1>1. DataSetsOK'
  BY <1>0, UnchangedType DEF Inv, TypeOK
<1>2. CASE UNCHANGED <<tableVars, ebest, bmca>>
  <2>1. UNCHANGED portVars /\ own' \in Qualities /\ turn' \in 0..(N + 1)
    BY <1>0, <1>2, PortsAssumption DEF portVars, Inv, TypeOK, LoopOK
  <2> QED BY <1>0, <1>2, <2>1, QuietStep
<1>3. CASE bmca' = [p \in Port |-> TRUE]
  <2>1. PortsOK' /\ SettledSlaveIsEbest'
    BY <1>0, <1>3 DEF PortsOK, SettledSlaveIsEbest, Inv, TypeOK
  <2>2. CASE UNCHANGED <<tableVars, ebest>>
    <3>1. TablesOK' /\ TablesClean'
      BY <2>2 DEF tableVars, TablesOK, TablesClean, Inv, TypeOK
    <3>2. LoopOK'
      BY <1>0, <2>2, PortsAssumption DEF LoopOK, Inv, TypeOK
    <3> QED BY <1>1, <2>1, <3>1, <3>2 DEF Inv, TypeOK
  <2>3. CASE frgn' = NewFrgn /\ best' = NewBest /\ ebest' = NewEbest(NewFrgn, NewBest)
    <3>1. ASSUME NEW p \in Port
          PROVE  /\ NewFrgn[p] \in Seq(Record) /\ Len(NewFrgn[p]) <= NR
                 /\ Clean(p, NewFrgn[p])
      <4>1. NewFrgn[p] = << >> \/ NewFrgn[p] = frgn[p]
        BY DEF NewFrgn, FlushedTable
      <4>2. CASE NewFrgn[p] = << >>
        BY <4>2, EmptyTable DEF TableOK
      <4>3. CASE NewFrgn[p] = frgn[p]
        BY <4>3 DEF Inv, TypeOK, TablesOK, TableOK, TablesClean
      <4> QED BY <4>1, <4>2, <4>3
    <3>2. ASSUME NEW p \in Port PROVE NewBest[p] \in 0..Len(NewFrgn[p])
      <4>1. \E src : NewBest[p] = Erbest(NewFrgn[p], src)
        BY DEF NewBest
      <4> QED BY <3>1, <4>1, ErbestInRange
    <3>3. NewFrgn \in [Port -> Seq(Record)]
      <4>1. NewFrgn = [p \in Port |-> NewFrgn[p]]
        BY DEF NewFrgn
      <4> HIDE DEF NewFrgn
      <4> QED BY <3>1, <4>1
    <3>4. NewBest \in [Port -> Nat]
      <4>1. NewBest = [p \in Port |-> NewBest[p]]
        BY DEF NewBest
      <4>2. \A p \in Port : NewBest[p] \in Nat
        BY <3>2
      <4> QED BY <4>1, <4>2
    <3>5. TablesOK'
      BY <2>3, <3>1, <3>2, <3>3, <3>4 DEF TablesOK, TableOK
    <3>6. TablesClean'
      BY <2>3, <3>1 DEF TablesClean
    <3>7. LoopOK'
      <4>1. ebest' \in 0..N
        BY <2>3, NewEbestType
      <4> QED BY <1>0, <4>1, PortsAssumption DEF LoopOK, Inv, TypeOK
    <3> QED BY <1>1, <2>1, <3>5, <3>6, <3>7 DEF Inv, TypeOK
  <2> QED BY <1>3, <2>2, <2>3, <1>0 DEF bmc_calculate_ebest, Inv
<1> QED BY <1>2, <1>3 DEF bmc_calculate_ebest

(* The invariant holds before the first pass.                              *)
LEMMA InitInv == Init => Inv
<1> SUFFICES ASSUME Init PROVE Inv
  OBVIOUS
<1>1. PortsOK
  BY StateNames DEF Init, PortsOK
<1>2. TablesOK /\ TablesClean
  <2>1. frgn \in [Port -> Seq(Record)] /\ best \in [Port -> Nat]
    BY DEF Init
  <2>2. \A p \in Port : frgn[p] = << >> /\ best[p] = 0
    BY DEF Init
  <2> QED BY <2>1, <2>2, EmptyTable DEF TablesOK, TablesClean
<1>3. DataSetsOK
  <2>1. 0 \in UInteger16
    BY Zero16
  <2>2. NullParent \in [src : PortIdentity, gm : Identity, q : Quality]
    BY DEF NullParent, PortIdentity, Identity, Quality
  <2> QED BY <2>1, <2>2 DEF Init, DataSetsOK
<1>4. LoopOK
  BY PortsAssumption DEF Init, LoopOK
<1>5. SettledSlaveIsEbest
  BY StateNames DEF Init, SettledSlaveIsEbest
<1> QED BY <1>1, <1>2, <1>3, <1>4, <1>5 DEF Inv, TypeOK

(* A step that changes nothing keeps the invariant.                        *)
LEMMA StutterInv ==
  ASSUME Inv, UNCHANGED vars
  PROVE  Inv'
<1>1. /\ UNCHANGED <<portVars, tableVars, ebest, dsVars, deciding>>
      /\ own' = own /\ turn' = turn
  BY DEF vars, portVars, tableVars, dsVars
<1>2. own \in Qualities /\ turn \in 0..(N + 1)
  BY DEF Inv, TypeOK, LoopOK
<1> QED BY <1>1, <1>2, QuietStep

(* Every step keeps the invariant.                                         *)
LEMMA NextInv == Inv /\ [Next]_vars => Inv'
<1> SUFFICES ASSUME Inv, [Next]_vars PROVE Inv'
  OBVIOUS
<1>1. CASE Pass
  BY <1>1, RunStep, PassStep DEF Pass
<1>2. CASE Bmc
  BY <1>2, PassStep, AgeStep, CalculateStep DEF Bmc
<1>3. CASE \E p \in Port : Decide(p) \/ Receive(p) \/ LinkDown(p) \/ Lapse(p)
  BY <1>3, DecideStep, RunStep, LinkDownStep, LapseStep
<1>4. CASE UNCHANGED vars
  BY <1>4, StutterInv
<1> QED BY <1>1, <1>2, <1>3, <1>4 DEF Next

(* The invariant contains the four properties.                             *)
LEMMA InvImplies == Inv => TypeOK /\ UniqueSources /\ NoSelfRecord /\ SettledSlaveIsEbest
<1> SUFFICES ASSUME Inv PROVE TypeOK /\ UniqueSources /\ NoSelfRecord /\ SettledSlaveIsEbest
  OBVIOUS
<1>1. UniqueSources
  BY DEF Inv, TablesClean, Clean, Unique, UniqueSources
<1>2. NoSelfRecord
  BY DEF Inv, TablesClean, Clean, NoSelfRecord, Records
<1> QED BY <1>1, <1>2 DEF Inv

-----------------------------------------------------------------------------
(* The invariant holds in every reachable state.                           *)
LEMMA Invariance == Spec => []Inv
<1>1. Init => Inv
  BY InitInv
<1>2. Inv /\ [Next]_vars => Inv'
  BY NextInv
<1> QED BY <1>1, <1>2, PTL DEF Spec

(* Whatever is received, whenever timers expire and links change: the      *)
(* variables keep their types, no table outgrows frgn_master[], and        *)
(* frgn_rec_best and ebest_idx never point outside.                        *)
THEOREM TypeCorrect == Spec => []TypeOK
<1>1. Inv => TypeOK
  BY InvImplies
<1> QED BY <1>1, Invariance, PTL

(* bmc_add_frgn_master(), bmc_remove_foreign_master() and                  *)
(* bmc_flush_erbest() never leave two records of one source in a table of  *)
(* any size.                                                               *)
THEOREM OneRecordPerSource == Spec => []UniqueSources
<1>1. Inv => UniqueSources
  BY InvImplies
<1> QED BY <1>1, Invariance, PTL

(* Whatever the cabling between its ports, a clock never keeps an Announce *)
(* of its own but that of a better port.                                   *)
THEOREM NeverFollowsItself == Spec => []NoSelfRecord
<1>1. Inv => NoSelfRecord
  BY InvImplies
<1> QED BY <1>1, Invariance, PTL

(* With any number of ports, only the port of Ebest is a slave once its    *)
(* decision is made.                                                       *)
THEOREM OneSlavePort == Spec => []SettledSlaveIsEbest
<1>1. Inv => SettledSlaveIsEbest
  BY InvImplies
<1> QED BY <1>1, Invariance, PTL
=============================================================================
