--------------------------- MODULE PtpPolicyProofs --------------------------
(***************************************************************************)
(* What the configuration of a clock promises, for every configuration and *)
(* any number of ports: external port configuration holds, a slave-only    *)
(* clock never becomes a master, and the best master clock algorithm       *)
(* always comes to a decision.                                             *)
(***************************************************************************)
EXTENDS PtpClockProofs

(* Port p enters some state of S.                                          *)
Enters(p, S) == \E s \in S : Enter(p, s)

(* The steps that leave the state of every port alone.                     *)
LEMMA QuietSteps ==
  ASSUME [Next]_vars
  PROVE  \/ UNCHANGED state
         \/ \E p \in Port : \/ Decide(p) \/ Receive(p) \/ LinkDown(p) \/ LinkUp(p)
                            \/ \E to \in BOOLEAN : RunPort(p, to)
<1>1. CASE Pass
  BY <1>1 DEF Pass, StayDown, SkipBmc, portVars
<1>2. CASE Bmc
  BY <1>2 DEF Bmc, StartBmc, bmc_age_frgn_master, bmc_calculate_ebest, portVars
<1>3. CASE \E p \in Port : Decide(p) \/ Receive(p) \/ LinkDown(p) \/ Lapse(p)
  BY <1>3 DEF Lapse, portVars
<1>4. CASE UNCHANGED vars
  BY <1>4 DEF vars
<1> QED BY <1>1, <1>2, <1>3, <1>4 DEF Next

(* What pp_state_machine() dispatches to, with the frame the handler sees. *)
LEMMA Dispatch ==
  ASSUME NEW p \in Port, NEW frame, NEW to \in BOOLEAN, pp_state_machine(p, frame, to)
  PROVE  LET f == pp_packet_prefilter(p, frame)
         IN  \/ state[p] = "INITIALIZING" /\ Initializing(p, to)
             \/ \E err \in BOOLEAN : state[p] = "LISTENING" /\ Listening(p, f, to, err)
             \/ \E err \in BOOLEAN : state[p] = "PASSIVE" /\ Passive(p, f, to, err)
             \/ state[p] \in MasterStates /\ Master(p, f, to)
             \/ state[p] \in SlaveStates /\ Slave(p, f, to)
             \/ state[p] = "FAULTY" /\ Faulty(p, to)
             \/ Leave(p, state[p], state[p])
BY DEF pp_state_machine

-----------------------------------------------------------------------------
(* External port configuration.                                            *)

(* The states a port configured for DesiredState[p] may be in.             *)
Held(p) == {"DISABLED", "INITIALIZING", DesiredState[p]}
           \cup (IF DesiredState[p] = "SLAVE" THEN SlaveStates ELSE {})

(* EpcHoldsDesiredState, with the states named as a set.                   *)
LEMMA HeldStates ==
  ASSUME EPC
  PROVE  EpcHoldsDesiredState <=> \A p \in Port : state[p] \in Held(p)
BY DEF EpcHoldsDesiredState, Held, SlaveStates

(* No message moves a port whose state is configured: an Announce of a     *)
(* better port of this clock does not make it PASSIVE, a second answer to  *)
(* a peer delay request does not make it FAULTY.                           *)
LEMMA EpcMessage ==
  ASSUME EPC, NEW p \in Port, NEW f, NEW cur
  PROVE  /\ AfterMessage(f, HandleAnnounce(p, f), cur) = cur
         /\ AfterMessage(f, bmc_add_frgn_master(p, f), cur) = cur
<1>1. ~bmc_add_frgn_master(p, f).passive
  BY DEF bmc_add_frgn_master, Unstored
<1>2. ~HandleAnnounce(p, f).passive
  BY <1>1 DEF HandleAnnounce, Unstored
<1> QED BY <1>1, <1>2 DEF AfterMessage

(* pp_initializing() gives a port its configured state; pp_init_globals()  *)
(* has made sure that the class of a clock with a slave port allows it.    *)
LEMMA EpcInitializing ==
  ASSUME EPC, LoopOK, NEW p \in Port, NEW ok \in BOOLEAN, Initializing(p, ok)
  PROVE  Enters(p, Held(p))
<1> DEFINE next == IF ok THEN InitialState(p) ELSE "INITIALIZING"
<1>1. Enter(p, next)
  BY DEF Initializing, Leave
<1>2. ~(Class(own) < 128 /\ DesiredState[p] \in SlaveStates)
  <2>1. ASSUME DesiredState[p] \in SlaveStates PROVE Class(own) >= 128
    BY <2>1, ConfigurationAssumption DEF pp_init_globals, LoopOK
  <2>2. Class(own) \in Nat
    BY OptionsAssumption DEF LoopOK, Quality, Class
  <2> QED BY <2>1, <2>2
<1>3. next \in Held(p)
  BY <1>2 DEF InitialState, Held, SlaveStates
<1> QED BY <1>1, <1>3 DEF Enters

(* pp_slave() moves between SLAVE and UNCALIBRATED only as configured.     *)
LEMMA EpcSlave ==
  ASSUME EPC, NEW p \in Port, NEW f, NEW to \in BOOLEAN,
         state[p] \in SlaveStates, state[p] \in Held(p), Slave(p, f, to)
  PROVE  Enters(p, Held(p))
<1>1. Enter(p, SlaveNext(p))
  <2>1. ~to
    BY DEF Slave
  <2> QED BY <2>1, EpcMessage DEF Slave, Leave
<1>2. SlaveNext(p) \in Held(p)
  BY DEF SlaveNext, Held, SlaveStates
<1> QED BY <1>1, <1>2 DEF Enters

(* No state handler moves a port away from its configured state.           *)
LEMMA EpcHandler ==
  ASSUME EPC, LoopOK, NEW p \in Port, NEW frame, NEW to \in BOOLEAN,
         pp_state_machine(p, frame, to), state[p] \in Held(p)
  PROVE  Enters(p, Held(p))
<1> DEFINE f == pp_packet_prefilter(p, frame)
<1> HIDE DEF f
<1>1. CASE state[p] = "INITIALIZING" /\ Initializing(p, to)
  BY <1>1, EpcInitializing
<1>2. ASSUME NEW err \in BOOLEAN, Listening(p, f, to, err) \/ Passive(p, f, to, err)
      PROVE  Enters(p, Held(p))
  <2>1. ~to /\ Enter(p, AfterMessage(f, HandleAnnounce(p, f), state[p]))
    BY <1>2 DEF Listening, Passive, Leave
  <2> QED BY <2>1, EpcMessage DEF Enters
<1>3. CASE Master(p, f, to)
  <2>1. ~to /\ Enter(p, AfterMessage(f, HandleAnnounce(p, f), state[p]))
    BY <1>3 DEF Master, Leave
  <2> QED BY <2>1, EpcMessage DEF Enters
<1>4. CASE state[p] \in SlaveStates /\ Slave(p, f, to)
  BY <1>4, EpcSlave
<1>5. CASE state[p] = "FAULTY" /\ Faulty(p, to)
  <2>1. Enter(p, "INITIALIZING") \/ Enter(p, state[p])
    BY <1>5 DEF Faulty, Leave
  <2> QED BY <2>1 DEF Enters, Held
<1>6. CASE Leave(p, state[p], state[p])
  BY <1>6 DEF Leave, Enters
<1> QED BY <1>1, <1>2, <1>3, <1>4, <1>5, <1>6, Dispatch DEF f

(* No step does.                                                           *)
LEMMA EpcStep ==
  ASSUME EPC, Inv, NEW p \in Port, state[p] \in Held(p),
         \/ Decide(p) \/ Receive(p) \/ LinkDown(p) \/ LinkUp(p)
         \/ \E to \in BOOLEAN : RunPort(p, to)
  PROVE  Enters(p, Held(p))
<1>0. LoopOK
  BY DEF Inv, TypeOK
<1>1. CASE Decide(p)
  BY <1>1 DEF Decide, Enters
<1>2. CASE LinkDown(p)
  BY <1>2 DEF LinkDown, Enters, Held
<1>3. CASE LinkUp(p)
  BY <1>0, <1>3, EpcInitializing DEF LinkUp
<1>4. CASE Receive(p) \/ \E to \in BOOLEAN : RunPort(p, to)
  BY <1>0, <1>4, EpcHandler DEF Receive, RunPort
<1> QED BY <1>1, <1>2, <1>3, <1>4

(* Whatever is received and whichever timers expire, with external port    *)
(* configuration every port that has left INITIALIZING is in the state     *)
(* configured for it.                                                      *)
THEOREM ConfiguredStateHolds == Spec => []EpcHoldsDesiredState
<1>1. Init => EpcHoldsDesiredState
  BY DEF Init, EpcHoldsDesiredState
<1>2. Inv /\ EpcHoldsDesiredState /\ [Next]_vars => EpcHoldsDesiredState'
  <2> SUFFICES ASSUME Inv, EpcHoldsDesiredState, [Next]_vars, EPC
               PROVE  \A q \in Port : state'[q] \in Held(q)
    BY DEF EpcHoldsDesiredState, Held, SlaveStates
  <2>1. \A q \in Port : state[q] \in Held(q)
    BY HeldStates
  <2>2. CASE UNCHANGED state
    BY <2>1, <2>2
  <2>3. ASSUME NEW p \in Port, Enters(p, Held(p))
        PROVE  \A q \in Port : state'[q] \in Held(q)
    BY <2>1, <2>3 DEF Enters, Enter, Inv, TypeOK, PortsOK
  <2> QED BY <2>1, <2>2, <2>3, QuietSteps, EpcStep
<1> QED BY <1>1, <1>2, Invariance, PTL DEF Spec

-----------------------------------------------------------------------------
(* Where the records of the tables come from.                              *)

(* Which port sent, and which received, the Announces a table was made of. *)
Origins(tbl) == {<<tbl[j].src, tbl[j].rx>> : j \in 1..Len(tbl)}

HeardOn(p) == {<<a.src, PortId(p)>> : a \in Heard(p)}

(* Storing an Announce adds no origin but that of the Announce.            *)
LEMMA StoredOrigins ==
  ASSUME NEW tbl \in Seq(Record), Len(tbl) <= NR, NEW r \in Record, NEW inSeq \in BOOLEAN
  PROVE  Origins(Stored(tbl, r, inSeq).tbl) \subseteq Origins(tbl) \cup {<<r.src, r.rx>>}
<1>0. NR \in Nat /\ Len(tbl) \in Nat
  BY NRAssumption
<1>1. CASE Known(tbl, r.src) # {}
  <2> DEFINE i == First(Known(tbl, r.src))
             u == Updated(tbl[i], r, inSeq)
  <2>1. i \in 1..Len(tbl)
    <3>1. Known(tbl, r.src) \subseteq Nat
      BY DEF Known
    <3>2. i \in Known(tbl, r.src)
      BY <1>1, <3>1, FirstInSet
    <3> QED BY <3>2 DEF Known
  <2>2. Stored(tbl, r, inSeq).tbl = Put(tbl, i, u)
    BY <1>1 DEF Stored
  <2> HIDE DEF i
  <2>3. tbl[i] \in Record /\ i \in 1..(Len(tbl) + 1)
    BY <2>1
  <2>4. u \in Record
    BY <2>3, UpdatedType
  <2>5. u.src = r.src /\ u.rx = r.rx
    BY DEF Updated, Record
  <2> HIDE DEF u
  <2>6. /\ Len(Put(tbl, i, u)) = Len(tbl)
        /\ \A j \in 1..Len(tbl) : Put(tbl, i, u)[j] = IF j = i THEN u ELSE tbl[j]
    BY <2>1, <2>3, <2>4, PutFacts
  <2> QED BY <2>2, <2>5, <2>6 DEF Origins
<1>2. CASE Known(tbl, r.src) = {}
  <2> DEFINE i == NewSlot(tbl, r)
  <2>1. i \in 0..(Len(tbl) + 1)
    BY NewSlotInRange
  <2>2. Stored(tbl, r, inSeq).tbl = IF i = 0 THEN tbl ELSE Put(tbl, i, r)
    BY <1>2 DEF Stored
  <2> HIDE DEF i
  <2>3. CASE i = 0
    BY <2>2, <2>3
  <2>4. CASE i # 0
    <3>1. i \in 1..(Len(tbl) + 1)
      BY <2>1, <2>4
    <3>2. /\ Len(Put(tbl, i, r)) = IF i > Len(tbl) THEN Len(tbl) + 1 ELSE Len(tbl)
          /\ \A j \in 1..Len(Put(tbl, i, r)) : Put(tbl, i, r)[j] = IF j = i THEN r ELSE tbl[j]
      BY <3>1, PutFacts
    <3>3. \A j \in 1..Len(Put(tbl, i, r)) :
            Put(tbl, i, r)[j] = r \/ (j \in 1..Len(tbl) /\ Put(tbl, i, r)[j] = tbl[j])
      BY <3>1, <3>2, <1>0
    <3> QED BY <2>2, <2>4, <3>3 DEF Origins
  <2> QED BY <2>3, <2>4
<1> QED BY <1>1, <1>2

(* Whether or not it is stored, an Announce adds no origin but its own.    *)
LEMMA AddOrigins ==
  ASSUME TablesOK, NEW p \in Port, NEW f, f.kind = "announce", FrameOK(f)
  PROVE  Origins(bmc_add_frgn_master(p, f).tbl)
           \subseteq Origins(frgn[p]) \cup {<<f.ann.src, PortId(p)>>}
<1> DEFINE r   == bmc_store_frgn_master(f.ann, PortId(p))
           st  == Stored(frgn[p], r, f.inSeq)
           add == bmc_add_frgn_master(p, f)
<1>1. f.ann \in Announce /\ f.inSeq \in BOOLEAN
  BY DEF FrameOK
<1>2. r \in Record /\ r.src = f.ann.src /\ r.rx = PortId(p)
  BY <1>1, StoreType DEF bmc_store_frgn_master
<1>3. add.tbl = frgn[p] \/ add.tbl = <<r>> \/ add.tbl = st.tbl
  <2>1. CASE EPC
    BY <2>1 DEF bmc_add_frgn_master, Unstored
  <2>2. CASE ~EPC /\ IgnoredAnnounce(p, f.ann)
    BY <2>2 DEF bmc_add_frgn_master, Unstored
  <2>3. CASE ~EPC /\ ~IgnoredAnnounce(p, f.ann)
    BY <2>3 DEF bmc_add_frgn_master
  <2> QED BY <2>1, <2>2, <2>3
<1> HIDE DEF r
<1>4. CASE add.tbl = <<r>>
  BY <1>2, <1>4 DEF Origins
<1>5. CASE add.tbl = st.tbl
  <2>1. frgn[p] \in Seq(Record) /\ Len(frgn[p]) <= NR
    BY DEF TablesOK, TableOK
  <2> QED BY <1>1, <1>2, <1>5, <2>1, StoredOrigins
<1> QED BY <1>3, <1>4, <1>5

(* A table that grew out of that of port p and what the port hears.        *)
Grown(p) == \E t : /\ frgn' = [frgn EXCEPT ![p] = t]
                   /\ Origins(t) \subseteq Origins(frgn[p]) \cup HeardOn(p)

(* An Announce the port hears, as the handlers get it.                     *)
FromHeard(p, f) == f.kind = "announce" => f.ann \in Heard(p)

(* What a handler writes back grew out of the table and the frame.         *)
LEMMA StoreOrigins ==
  ASSUME TablesOK, NEW p \in Port, NEW f, FrameOK(f), FromHeard(p, f), NEW add,
         \/ add = Unstored(p)
         \/ f.kind = "announce" /\ add = bmc_add_frgn_master(p, f),
         NEW to \in BOOLEAN, StoreTable(p, add, to)
  PROVE  Grown(p)
<1>1. Origins(add.tbl) \subseteq Origins(frgn[p]) \cup HeardOn(p)
  <2>1. CASE add = Unstored(p)
    BY <2>1 DEF Unstored
  <2>2. CASE f.kind = "announce" /\ add = bmc_add_frgn_master(p, f)
    BY <2>2, AddOrigins DEF HeardOn, FromHeard
  <2> QED BY <2>1, <2>2
<1>2. AddOK(p, add)
  BY UnstoredOK, AddFrgnMasterOK
<1>3. CASE ~to
  BY <1>1, <1>3 DEF StoreTable, Grown
<1>4. CASE to
  <2> DEFINE t == FlushErbest(add.tbl, add.best)
  <2>1. \A j \in 1..Len(t) : \E k \in 1..Len(add.tbl) : t[j] = add.tbl[k]
    BY <1>2, FlushErbestFacts DEF AddOK, TableOK
  <2>2. frgn' = [frgn EXCEPT ![p] = t]
    BY <1>4 DEF StoreTable
  <2> HIDE DEF t
  <2>3. Origins(t) \subseteq Origins(add.tbl)
    BY <2>1 DEF Origins
  <2> QED BY <1>1, <2>2, <2>3 DEF Grown
<1> QED BY <1>3, <1>4

(* The frame a handler sees comes from what the port hears.                *)
LEMMA FrameHeard ==
  ASSUME NEW p \in Port, NEW frame \in Frames(p) \cup {NoFrame}
  PROVE  FromHeard(p, pp_packet_prefilter(p, frame))
<1>1. FromHeard(p, NoFrame)
  BY DEF FromHeard, NoFrame
<1>2. ASSUME frame \in Frames(p) PROVE FromHeard(p, frame)
  <2>1. CASE frame = [kind |-> "second_pdelay_resp"]
    BY <2>1 DEF FromHeard
  <2>2. CASE \E a \in Heard(p), b \in BOOLEAN :
               frame = [kind |-> "announce", ann |-> a, inSeq |-> b]
    BY <2>2 DEF FromHeard
  <2> QED BY <1>2, <2>1, <2>2 DEF Frames
<1>3. pp_packet_prefilter(p, frame) \in {NoFrame, frame}
  BY DEF pp_packet_prefilter
<1> QED BY <1>1, <1>2, <1>3

(* No handler adds an origin that the port does not hear.                  *)
LEMMA HandlerOrigins ==
  ASSUME TypeOK, NEW p \in Port, NEW frame \in Frames(p) \cup {NoFrame}, NEW to \in BOOLEAN,
         pp_state_machine(p, frame, to)
  PROVE  UNCHANGED frgn \/ Grown(p)
<1> DEFINE f == pp_packet_prefilter(p, frame)
<1>1. FrameOK(f) /\ FromHeard(p, f)
  BY FrameType, FrameHeard DEF TypeOK
<1>2. \/ UNCHANGED frgn
      \/ StoreTable(p, HandleAnnounce(p, f), to)
      \/ StoreTable(p, HandleAnnounce(p, f), FALSE)
      \/ state[p] \in SlaveStates /\ Slave(p, f, to)
  <2>1. \/ Initializing(p, to)
        \/ \E err \in BOOLEAN : Listening(p, f, to, err)
        \/ \E err \in BOOLEAN : Passive(p, f, to, err)
        \/ Master(p, f, to)
        \/ state[p] \in SlaveStates /\ Slave(p, f, to)
        \/ Faulty(p, to)
        \/ Leave(p, state[p], state[p]) /\ UNCHANGED <<tableVars, dsVars>>
    BY DEF pp_state_machine
  <2> HIDE DEF f
  <2> QED BY <2>1 DEF Initializing, Listening, Passive, Master, Faulty, tableVars
<1> HIDE DEF f
<1>3. TablesOK
  BY DEF TypeOK
<1>4. ASSUME NEW b \in BOOLEAN, StoreTable(p, HandleAnnounce(p, f), b) PROVE Grown(p)
  BY <1>1, <1>3, <1>4, StoreOrigins DEF HandleAnnounce
<1>5. CASE Slave(p, f, to)
  <2>1. \E add : /\ StoreTable(p, add, to)
                 /\ \/ add = Unstored(p)
                    \/ f.kind = "announce" /\ add = bmc_add_frgn_master(p, f)
    BY <1>5 DEF Slave, HandleAnnounce
  <2> QED BY <1>1, <1>3, <2>1, StoreOrigins
<1> QED BY <1>2, <1>4, <1>5

(* Every record of a table was there before or is of a port heard now.     *)
LEMMA TableOrigins ==
  ASSUME Inv, [Next]_vars, NEW p \in Port
  PROVE  Origins(frgn'[p]) \subseteq Origins(frgn[p]) \cup HeardOn(p)
<1>0. TypeOK /\ frgn \in [Port -> Seq(Record)]
  BY DEF Inv, TypeOK, TablesOK
<1>1. CASE UNCHANGED frgn
  BY <1>1
<1>2. ASSUME NEW q \in Port, Grown(q)
      PROVE  Origins(frgn'[p]) \subseteq Origins(frgn[p]) \cup HeardOn(p)
  BY <1>0, <1>2 DEF Grown
<1>3. ASSUME NEW q \in Port, Receive(q) \/ \E to \in BOOLEAN : RunPort(q, to)
      PROVE  UNCHANGED frgn \/ Grown(q)
  BY <1>0, <1>3, HandlerOrigins DEF Receive, RunPort
<1>4. ASSUME NEW q \in Port, LinkDown(q) PROVE Grown(q)
  <2>1. Origins(<< >>) = {}
    BY DEF Origins
  <2> QED BY <1>4, <2>1 DEF LinkDown, Grown
<1>5. ASSUME NEW q \in Port, Lapse(q) PROVE Grown(q)
  <2>1. PICK i \in 1..Len(frgn[q]) :
          frgn' = [frgn EXCEPT ![q] = Put(frgn[q], i, [frgn[q][i] EXCEPT !.aged = TRUE])]
    BY <1>0, <1>5 DEF Lapse
  <2> DEFINE r == [frgn[q][i] EXCEPT !.aged = TRUE]
             t == Put(frgn[q], i, r)
  <2>2. frgn[q] \in Seq(Record) /\ frgn[q][i] \in Record
    BY <1>0
  <2>3. r \in Record /\ r.src = frgn[q][i].src /\ r.rx = frgn[q][i].rx
    BY <2>2 DEF Record
  <2> HIDE DEF r
  <2>4. i \in 1..(Len(frgn[q]) + 1)
    BY <2>2
  <2>5. /\ Len(t) = Len(frgn[q])
        /\ \A j \in 1..Len(t) : t[j] = IF j = i THEN r ELSE frgn[q][j]
    BY <2>2, <2>3, <2>4, PutFacts
  <2>6. frgn' = [frgn EXCEPT ![q] = t]
    BY <2>1 DEF r
  <2> HIDE DEF t
  <2>7. Origins(t) \subseteq Origins(frgn[q])
    BY <2>3, <2>5 DEF Origins
  <2> QED BY <2>6, <2>7 DEF Grown
<1>6. ASSUME NEW q \in Port, bmc_age_frgn_master(q) PROVE Grown(q)
  <2> DEFINE i == First(AgedOut(q))
             t == RemoveAt(frgn[q], i)
  <2>1. i \in 1..Len(frgn[q])
    <3>1. AgedOut(q) \subseteq Nat /\ AgedOut(q) \subseteq 1..Len(frgn[q])
      BY DEF AgedOut
    <3> QED BY <1>6, <3>1, FirstInSet DEF bmc_age_frgn_master
  <2>2. frgn' = [frgn EXCEPT ![q] = t]
    BY <1>6 DEF bmc_age_frgn_master
  <2> HIDE DEF i
  <2>3. \A j \in 1..Len(t) : \E k \in 1..Len(frgn[q]) : t[j] = frgn[q][k]
    BY <1>0, <2>1, RemoveAtSources
  <2> HIDE DEF t
  <2>4. Origins(t) \subseteq Origins(frgn[q])
    BY <2>3 DEF Origins
  <2> QED BY <2>2, <2>4 DEF Grown
<1>7. CASE bmc_calculate_ebest
  <2>1. UNCHANGED frgn \/ frgn' = NewFrgn
    BY <1>7 DEF bmc_calculate_ebest, tableVars
  <2>2. NewFrgn[p] = frgn[p] \/ NewFrgn[p] = << >>
    BY DEF NewFrgn, FlushedTable
  <2>3. Origins(<< >>) = {}
    BY DEF Origins
  <2> QED BY <2>1, <2>2, <2>3
<1>8. \/ UNCHANGED frgn
      \/ \E q \in Port : \/ Receive(q) \/ LinkDown(q) \/ Lapse(q) \/ bmc_age_frgn_master(q)
                         \/ \E to \in BOOLEAN : RunPort(q, to)
      \/ bmc_calculate_ebest
  <2>1. CASE Pass
    BY <2>1 DEF Pass, LinkUp, Initializing, StayDown, SkipBmc, tableVars
  <2>2. CASE Bmc
    BY <2>2 DEF Bmc, StartBmc, tableVars
  <2>3. CASE \E q \in Port : Decide(q) \/ Receive(q) \/ LinkDown(q) \/ Lapse(q)
    BY <2>3 DEF Decide, tableVars
  <2>4. CASE UNCHANGED vars
    BY <2>4 DEF vars
  <2> QED BY <2>1, <2>2, <2>3, <2>4 DEF Next
<1> QED BY <1>1, <1>2, <1>3, <1>4, <1>5, <1>6, <1>7, <1>8

-----------------------------------------------------------------------------
(* Slave-only clocks.                                                      *)

(* The states a slave-only clock's port may be in.                         *)
Follower == States \ (MasterStates \cup {"PASSIVE"})

(* Foreign: no table holds a record of a port of this clock.  A slave-only *)
(* clock sends no Announce, so it hears none of its own.                   *)
Foreign == \A p \in Port : \A o \in Origins(frgn[p]) : o[1][1] # ClockId

SlaveOnlyInv == SlaveOnly => Foreign /\ \A p \in Port : state[p] \in Follower

(* No message and no timer makes a port of a slave-only clock a master or  *)
(* passive.                                                                *)
LEMMA SlaveOnlyHandler ==
  ASSUME SlaveOnly, ~EPC, TypeOK, ForeignIdentities, \A q \in Port : state[q] \in Follower,
         NEW p \in Port, NEW frame \in Frames(p) \cup {NoFrame}, NEW to \in BOOLEAN,
         pp_state_machine(p, frame, to)
  PROVE  Enters(p, Follower)
<1> DEFINE f == pp_packet_prefilter(p, frame)
<1>0. /\ state[p] \in Follower
      /\ {"INITIALIZING", "FAULTY", "LISTENING", "UNCALIBRATED", "SLAVE"} \subseteq Follower
  BY DEF Follower, States, MasterStates
<1>1. f.kind = "announce" => f.ann.src[1] # ClockId
  <2>1. Heard(p) = Announces[p]
    BY DEF Heard, Follower, MasterStates
  <2> QED BY <2>1, FrameHeard DEF FromHeard, ForeignIdentities
<1>2. f.kind = "announce" => ~bmc_add_frgn_master(p, f).passive
  <2> HIDE DEF f
  <2>1. f.kind = "announce" => ~BetterOwnPort(p, f.ann.src)
    BY <1>1 DEF BetterOwnPort
  <2> QED BY <2>1 DEF bmc_add_frgn_master, Unstored
<1>3. ~HandleAnnounce(p, f).passive
  <2> HIDE DEF f
  <2> QED BY <1>2 DEF HandleAnnounce, Unstored
<1>4. \/ state[p] = "INITIALIZING" /\ Initializing(p, to)
      \/ \E err \in BOOLEAN : Listening(p, f, to, err)
      \/ state[p] \in SlaveStates /\ Slave(p, f, to)
      \/ Faulty(p, to)
      \/ Leave(p, state[p], state[p])
  BY <1>0, Dispatch DEF Follower
<1> HIDE DEF f
<1>5. CASE Initializing(p, to)
  <2>1. Enter(p, "LISTENING") \/ Enter(p, "INITIALIZING")
    BY <1>5 DEF Initializing, InitialState, Leave
  <2> QED BY <1>0, <2>1 DEF Enters
<1>6. ASSUME NEW err \in BOOLEAN, Listening(p, f, to, err) PROVE Enters(p, Follower)
  <2>1. \/ Enter(p, "FAULTY") \/ Enter(p, "LISTENING") \/ Enter(p, state[p])
    BY <1>3, <1>6 DEF Listening, Leave, TimeoutState, AfterMessage
  <2> QED BY <1>0, <2>1 DEF Enters
<1>7. CASE state[p] \in SlaveStates /\ Slave(p, f, to)
  <2>1. \/ Enter(p, "FAULTY") \/ Enter(p, "LISTENING") \/ Enter(p, SlaveNext(p))
    BY <1>2, <1>3, <1>7 DEF Slave, Leave, TimeoutState, AfterMessage
  <2>2. SlaveNext(p) \in {"SLAVE", "UNCALIBRATED"}
    BY <1>7 DEF SlaveNext, SlaveStates
  <2> QED BY <1>0, <2>1, <2>2 DEF Enters
<1>8. CASE Faulty(p, to)
  <2>1. Enter(p, "INITIALIZING") \/ Enter(p, "FAULTY")
    BY <1>8 DEF Faulty, Leave
  <2> QED BY <1>0, <2>1 DEF Enters
<1>9. CASE Leave(p, state[p], state[p])
  BY <1>0, <1>9 DEF Leave, Enters
<1> QED BY <1>4, <1>5, <1>6, <1>7, <1>8, <1>9

(* Nor does a decision: bmc_state_decision() only follows or listens.      *)
LEMMA SlaveOnlyDecide ==
  ASSUME SlaveOnly, ~EPC, TypeOK, Foreign, NEW p \in Port, state[p] \in Follower, Decide(p)
  PROVE  Enters(p, Follower)
<1>0. {"INITIALIZING", "LISTENING", "UNCALIBRATED", "SLAVE"} \subseteq Follower
  BY DEF Follower, States, MasterStates
<1>1. ~bmc_check_frgn_master(p)
  <2>1. ASSUME NEW i \in 1..Len(frgn[p]) PROVE frgn[p][i].src[1] # ClockId
    <3>1. <<frgn[p][i].src, frgn[p][i].rx>> \in Origins(frgn[p])
      BY DEF Origins
    <3> QED BY <3>1 DEF Foreign
  <2> QED BY <2>1 DEF bmc_check_frgn_master, BetterOwnPort
<1>2. CASE Enter(p, "INITIALIZING")
  BY <1>0, <1>2 DEF Enters
<1>3. ASSUME NEW eb, Enter(p, StateFor(p, Decision(p, eb), eb))
      PROVE  Enters(p, Follower)
  <2>1. Decision(p, eb) \in {"KEEP", "S1", "LISTEN"}
    BY DEF Decision
  <2>2. StateFor(p, Decision(p, eb), eb) \in {state[p], "LISTENING", "UNCALIBRATED"}
    <3> DEFINE d == Decision(p, eb)
    <3>1. d \in {"KEEP", "S1", "LISTEN"}
      BY <2>1
    <3> HIDE DEF d
    <3>2. StateFor(p, d, eb) \in {state[p], "LISTENING", "UNCALIBRATED"}
      BY <3>1 DEF StateFor
    <3> QED BY <3>2 DEF d
  <2> QED BY <1>0, <1>3, <2>2 DEF Enters
<1> QED BY <1>1, <1>2, <1>3 DEF Decide

(* The invariant of slave-only clocks is kept by every step.               *)
LEMMA SlaveOnlyStep ==
  ASSUME ForeignIdentities, Inv, SlaveOnlyInv, [Next]_vars
  PROVE  SlaveOnlyInv'
<1> SUFFICES ASSUME SlaveOnly PROVE Foreign' /\ \A q \in Port : state'[q] \in Follower
  BY DEF SlaveOnlyInv
<1>0. ~EPC /\ TypeOK /\ Foreign /\ \A q \in Port : state[q] \in Follower
  BY ConfigurationAssumption DEF pp_init_globals, SlaveOnlyInv, Inv
<1>1. Foreign'
  <2>1. ASSUME NEW p \in Port PROVE \A o \in HeardOn(p) : o[1][1] # ClockId
    <3>1. Heard(p) = Announces[p]
      BY <1>0 DEF Heard, Follower, MasterStates
    <3> QED BY <3>1 DEF HeardOn, ForeignIdentities
  <2>2. ASSUME NEW p \in Port PROVE \A o \in Origins(frgn'[p]) : o[1][1] # ClockId
    BY <1>0, <2>1, TableOrigins DEF Foreign
  <2>3. \A p \in Port : Origins(frgn[p])' = Origins(frgn'[p])
    BY DEF Origins
  <2> QED BY <2>2, <2>3 DEF Foreign
<1>2. \A q \in Port : state'[q] \in Follower
  <2>1. CASE UNCHANGED state
    BY <1>0, <2>1
  <2>2. ASSUME NEW p \in Port, Enters(p, Follower)
        PROVE  \A q \in Port : state'[q] \in Follower
    BY <1>0, <2>2 DEF Enters, Enter, TypeOK, PortsOK
  <2>3. ASSUME NEW p \in Port,
               \/ Decide(p) \/ Receive(p) \/ LinkDown(p) \/ LinkUp(p)
               \/ \E to \in BOOLEAN : RunPort(p, to)
        PROVE  Enters(p, Follower)
    <3>1. CASE Decide(p)
      BY <1>0, <3>1, SlaveOnlyDecide
    <3>2. CASE Receive(p) \/ \E to \in BOOLEAN : RunPort(p, to)
      BY <1>0, <3>2, SlaveOnlyHandler DEF Receive, RunPort
    <3>3. CASE LinkDown(p)
      BY <3>3 DEF LinkDown, Enters, Follower, States, MasterStates
    <3>4. CASE LinkUp(p)
      <4>1. Enter(p, "LISTENING") \/ Enter(p, "INITIALIZING")
        BY <1>0, <3>4 DEF LinkUp, Initializing, InitialState, Leave
      <4> QED BY <4>1 DEF Enters, Follower, States, MasterStates
    <3> QED BY <2>3, <3>1, <3>2, <3>3, <3>4
  <2> QED BY <2>1, <2>2, <2>3, QuietSteps
<1> QED BY <1>1, <1>2

(* A slave-only clock never becomes a master and never goes passive, with  *)
(* any number of ports, cabled to each other or not, as long as nobody     *)
(* else uses its identity.                                                 *)
THEOREM SlaveOnlyFollows == ForeignIdentities /\ Spec => []SlaveOnlyNeverMaster
<1>1. Init => SlaveOnlyInv
  <2> SUFFICES ASSUME Init PROVE Foreign /\ \A p \in Port : state[p] \in Follower
    BY DEF SlaveOnlyInv
  <2>1. \A p \in Port : frgn[p] = << >> /\ state[p] = "DISABLED"
    BY DEF Init
  <2>2. Origins(<< >>) = {}
    BY DEF Origins
  <2> QED BY <2>1, <2>2 DEF Foreign, Follower, States, MasterStates
<1>2. ForeignIdentities /\ Inv /\ SlaveOnlyInv /\ [Next]_vars => SlaveOnlyInv'
  BY SlaveOnlyStep
<1>3. SlaveOnlyInv => SlaveOnlyNeverMaster
  BY DEF SlaveOnlyInv, SlaveOnlyNeverMaster, Follower
<1>4. ForeignIdentities => []ForeignIdentities
  <2>1. ForeignIdentities => ForeignIdentities'
    BY DEF ForeignIdentities
  <2> QED BY <2>1, PTL
<1> QED BY <1>1, <1>2, <1>3, <1>4, Invariance, PTL DEF Spec

-----------------------------------------------------------------------------
(* The decision.                                                           *)

(* Every record of a port's table was received by that port.               *)
RxOwn == \A p \in Port : \A o \in Origins(frgn[p]) : o[2] = PortId(p)

(* A record of the table of port q names q as its receiver and another     *)
(* port as its sender.                                                     *)
LEMMA RecordOrigin ==
  ASSUME Inv, RxOwn, ~EPC, NEW q \in Port, NEW i \in 1..Len(frgn[q])
  PROVE  /\ frgn[q][i] \in Record
         /\ frgn[q][i].rx = PortId(q)
         /\ frgn[q][i].src # PortId(q)
         /\ ~SelfSent(frgn[q][i])
<1>1. frgn[q] \in Seq(Record)
  BY DEF Inv, TypeOK, TablesOK
<1>2. frgn[q][i] \in Record
  BY <1>1
<1>3. frgn[q][i].src \in PortIdentity /\ PortId(q) \in PortIdentity
  BY <1>2, OptionsAssumption, PortsAssumption DEF Record, PortId, PortIdentity, Port
<1>4. frgn[q][i].rx = PortId(q)
  <2>1. <<frgn[q][i].src, frgn[q][i].rx>> \in Origins(frgn[q])
    BY DEF Origins
  <2> QED BY <2>1 DEF RxOwn
<1>5. frgn[q][i].src # PortId(q)
  <2>1. frgn[q][i].src[1] = ClockId => bmc_pidcmp(frgn[q][i].src, PortId(q)) < 0
    BY DEF Inv, TablesClean, Clean
  <2>2. PortId(q)[1] = ClockId
    BY DEF PortId
  <2>3. bmc_pidcmp(PortId(q), PortId(q)) = 0
    BY <1>3, PidCmp
  <2> QED BY <2>1, <2>2, <2>3
<1> QED BY <1>2, <1>3, <1>4, <1>5, PidCmp DEF SelfSent

(* This clock's own data set.                                              *)
LEMMA OwnRecord ==
  ASSUME LoopOK, NEW p \in Port
  PROVE  /\ D0(p) \in Record /\ D0(p).src = PortId(p) /\ D0(p).rx = PortId(p)
         /\ D0(p).steps = 0 /\ D0(p).qualified
<1>1. own \in Quality /\ 0 \in UInteger16 /\ PortId(p) \in PortIdentity
  BY OptionsAssumption, PortsAssumption, Zero16 DEF LoopOK, PortId, PortIdentity, Port
<1> QED BY <1>1, OptionsAssumption DEF D0, Record

(* Erbest of port p is a record of its table, or the empty record; neither *)
(* can be mistaken for this clock's own data set.                          *)
LEMMA ErbestApart ==
  ASSUME Inv, RxOwn, ~EPC, NEW p \in Port
  PROVE  LET er == ErbestRec(p)
         IN  /\ er \in Record
             /\ er.src # PortId(p)
             /\ er.rx \in {PortId(p), <<0, 0>>}
             /\ er.steps # 0 => ~SelfSent(er)
<1>1. ErbestRec(p) \in Record
  BY EbestRecsType DEF Inv, TypeOK
<1>2. CASE best[p] = 0
  <2>1. ErbestRec(p) = EmptyRecord
    BY <1>2 DEF ErbestRec
  <2>2. /\ EmptyRecord.src = <<0, 0>> /\ EmptyRecord.rx = <<0, 0>> /\ EmptyRecord.steps = 0
    BY DEF EmptyRecord
  <2>3. PortId(p) # <<0, 0>>
    BY PortsAssumption DEF PortId, Port
  <2> QED BY <1>1, <2>1, <2>2, <2>3
<1>3. CASE best[p] # 0
  <2>1. best[p] \in 1..Len(frgn[p])
    BY <1>3 DEF Inv, TypeOK, TablesOK, TableOK
  <2>2. ErbestRec(p) = frgn[p][best[p]]
    BY <1>3 DEF ErbestRec
  <2> QED BY <1>1, <2>1, <2>2, RecordOrigin
<1> QED BY <1>2, <1>3

(* D0 never ties with Ebest or Erbest.                                     *)
LEMMA OwnDecides ==
  ASSUME Inv, RxOwn, ~EPC, NEW p \in Port, NEW q \in Port
  PROVE  bmc_dataset_cmp(D0(p), ErbestRec(q), CurEbestSrc) # 0
<1> DEFINE d0 == D0(p)
           er == ErbestRec(q)
<1>1. /\ d0 \in Record /\ d0.src = PortId(p) /\ d0.rx = PortId(p)
      /\ d0.steps = 0 /\ d0.qualified
  BY OwnRecord DEF Inv, TypeOK
<1>2. /\ er \in Record /\ er.src # PortId(q) /\ er.rx \in {PortId(q), <<0, 0>>}
      /\ er.steps # 0 => ~SelfSent(er)
  BY ErbestApart
<1> HIDE DEF d0, er
<1>3. is_qualified(d0, CurEbestSrc)
  BY <1>1 DEF is_qualified
<1>4. CASE ~is_qualified(er, CurEbestSrc)
  BY <1>3, <1>4, UnqualifiedLoses DEF d0, er
<1>5. CASE is_qualified(er, CurEbestSrc)
  <2>1. are_qualified(d0, er, CurEbestSrc)
    BY <1>3, <1>5 DEF are_qualified
  <2>2. d0.src # er.src \/ d0.rx # er.rx
    <3>1. p # q => PortId(p) # PortId(q)
      BY DEF PortId
    <3>2. PortId(p) # <<0, 0>>
      BY PortsAssumption DEF PortId, Port
    <3> QED BY <1>1, <1>2, <3>1, <3>2
  <2>3. er.steps \in Nat
    BY <1>2 DEF Record, UInteger16
  <2>4. bmc_dataset_cmp(d0, er, CurEbestSrc) # 0
    BY <1>1, <1>2, <2>1, <2>2, <2>3, DatasetDecides
  <2> QED BY <2>4 DEF d0, er
<1> QED BY <1>4, <1>5

(* Ebest and the Erbest of another port never tie on the path: the first   *)
(* wins outright, or the second is qualified and the paths differ.         *)
LEMMA PathDecides ==
  ASSUME Inv, RxOwn, ~EPC, NEW p \in Port, ebest # 0, best[ebest] # 0, p # ebest
  PROVE  LET eb == ErbestRec(ebest)
             er == ErbestRec(p)
         IN  \/ bmc_gm_cmp(eb, er, CurEbestSrc) < 0
             \/ bmc_topology_cmp(eb, er, CurEbestSrc) # 0
<1> DEFINE eb == ErbestRec(ebest)
           er == ErbestRec(p)
<1>0. ebest \in Port
  BY DEF Inv, TypeOK, LoopOK, Port
<1>1. eb \in Record /\ eb.rx = PortId(ebest) /\ ~SelfSent(eb) /\ eb.src \in CurEbestSrc
  <2>1. best[ebest] \in 1..Len(frgn[ebest])
    BY <1>0 DEF Inv, TypeOK, TablesOK, TableOK
  <2>2. eb = frgn[ebest][best[ebest]]
    BY DEF ErbestRec
  <2>3. eb.src \in CurEbestSrc
    BY <2>2 DEF CurEbestSrc, EbestSrc
  <2> QED BY <1>0, <2>1, <2>2, <2>3, RecordOrigin
<1>2. er \in Record /\ er.rx \in {PortId(p), <<0, 0>>} /\ (er.steps # 0 => ~SelfSent(er))
  BY ErbestApart
<1> HIDE DEF eb, er
<1>3. is_qualified(eb, CurEbestSrc)
  BY <1>1 DEF is_qualified
<1>4. CASE ~is_qualified(er, CurEbestSrc)
  BY <1>3, <1>4, UnqualifiedLoses DEF eb, er
<1>5. CASE is_qualified(er, CurEbestSrc)
  <2>1. are_qualified(eb, er, CurEbestSrc)
    BY <1>3, <1>5 DEF are_qualified
  <2>2. eb.rx # er.rx
    <3>1. PortId(ebest) # PortId(p)
      BY DEF PortId
    <3>2. PortId(ebest) # <<0, 0>>
      BY <1>0, PortsAssumption DEF PortId, Port
    <3> QED BY <1>1, <1>2, <3>1, <3>2
  <2>3. er.steps \in Nat /\ eb.steps \in Nat
    BY <1>1, <1>2 DEF Record, UInteger16
  <2>4. er.steps = eb.steps + 1 => ~SelfSent(er)
    BY <1>2, <2>3
  <2>5. bmc_topology_cmp(eb, er, CurEbestSrc) # 0
    BY <1>1, <1>2, <2>1, <2>2, <2>4, TopologyDecides
  <2> QED BY <2>5 DEF eb, er
<1> QED BY <1>4, <1>5

(* bmc_state_decision() takes neither of its error exits.                  *)
LEMMA DecisionMade ==
  ASSUME Inv, RxOwn, ~EPC, NEW p \in Port, ebest # 0, best[ebest] # 0
  PROVE  DecisionD0(p, ErbestRec(ebest)) # "ERROR"
<1> DEFINE eb == ErbestRec(ebest)
           er == ErbestRec(p)
           c  == bmc_dataset_cmp(D0(p), IF Class(own) < 128 THEN er ELSE eb, CurEbestSrc)
           bc == bmc_gm_cmp(eb, er, CurEbestSrc)
           tc == bmc_topology_cmp(eb, er, CurEbestSrc)
<1>0. ebest \in Port /\ Class(own) \in Int
  BY OptionsAssumption, SMTT(30) DEF Inv, TypeOK, LoopOK, Port, Quality, Class
<1>1. c # 0
  BY <1>0, OwnDecides
<1>2. FollowsEbest(p) \/ bc < 0 \/ tc # 0
  BY PathDecides DEF FollowsEbest
<1>3. c \in Int /\ tc \in Int
  <2>1. \A x, y : Cmp(x, y) \in Int
    BY DEF Cmp
  <2>2. \A x, y : bmc_pidcmp(x, y) \in Int
    BY <2>1 DEF bmc_pidcmp, bmc_idcmp
  <2>3. \A x, y, s : bmc_topology_cmp(x, y, s) \in Int
    BY <2>1, <2>2 DEF bmc_topology_cmp, QualifiedVerdict
  <2>4. \A x, y, s : bmc_gm_cmp(x, y, s) \in Int
    BY <2>1 DEF bmc_gm_cmp, QualifiedVerdict
  <2> QED BY <2>3, <2>4 DEF bmc_dataset_cmp
<1>4. DecisionD0(p, ErbestRec(ebest)) =
        CASE c = 0                              -> "ERROR"
          [] c < 0 /\ Class(own) < 128          -> "M1"
          [] c > 0 /\ Class(own) < 128          -> "P1"
          [] c < 0 /\ Class(own) >= 128         -> "M2"
          [] OTHER -> IF FollowsEbest(p) THEN "S1"
                      ELSE IF bc < 0 \/ tc > 0 THEN "M3"
                      ELSE IF tc < 0 THEN "P2"
                      ELSE "ERROR"
  BY DEF DecisionD0
<1> HIDE DEF c, bc, tc
<1> QED BY <1>0, <1>1, <1>2, <1>3, <1>4

(* A port that is not FAULTY does not become FAULTY by a decision.         *)
LEMMA DecideWell ==
  ASSUME Inv, RxOwn, EbestHasErbest, NEW p \in Port, deciding = p, state[p] # "FAULTY", Decide(p)
  PROVE  state'[p] # "FAULTY"
<1>1. ASSUME NEW s, Enter(p, s) PROVE state'[p] = s
  BY <1>1 DEF Enter, Inv, TypeOK, PortsOK
<1>2. CASE EPC
  BY <1>1, <1>2 DEF Decide
<1>3. CASE ~EPC /\ (Enter(p, "INITIALIZING") \/ Enter(p, "PASSIVE"))
  BY <1>1, <1>3
<1>4. CASE ~EPC /\ \E eb \in (IF SlaveOnly THEN {ErbestRec(p)} ELSE EbestRecs) :
                     Enter(p, StateFor(p, Decision(p, eb), eb))
  <2>1. PICK eb \in (IF SlaveOnly THEN {ErbestRec(p)} ELSE EbestRecs) :
               Enter(p, StateFor(p, Decision(p, eb), eb))
    BY <1>4
  <2> DEFINE d == Decision(p, eb)
  <2>2. d # "ERROR"
    <3>1. CASE d = DecisionD0(p, eb) /\ ebest # 0 /\ ~SlaveOnly
      <4>1. best[ebest] # 0
        BY <3>1, <1>4, PortsAssumption DEF EbestHasErbest, Port
      <4>2. eb = ErbestRec(ebest)
        BY <2>1, <3>1, <4>1 DEF EbestRecs
      <4> QED BY <1>4, <3>1, <4>1, <4>2, DecisionMade
    <3>2. CASE d \in {"KEEP", "S1", "LISTEN", "M1", "M3"}
      BY <3>2
    <3> QED BY <3>1, <3>2 DEF Decision
  <2> HIDE DEF d
  <2>3. StateFor(p, d, eb) # "FAULTY"
    BY <2>2 DEF StateFor, SlaveStates, MasterStates
  <2> QED BY <1>1, <2>1, <2>3 DEF d
<1> QED BY <1>2, <1>3, <1>4 DEF Decide

(* The receivers are right in every reachable state.                       *)
LEMMA Receivers == Spec => []RxOwn
<1>1. Init => RxOwn
  <2>1. Origins(<< >>) = {}
    BY DEF Origins
  <2> QED BY <2>1 DEF Init, RxOwn
<1>2. Inv /\ RxOwn /\ [Next]_vars => RxOwn'
  <2> SUFFICES ASSUME Inv, RxOwn, [Next]_vars, NEW p \in Port
               PROVE  \A o \in Origins(frgn'[p]) : o[2] = PortId(p)
    <3>1. \A p \in Port : Origins(frgn[p])' = Origins(frgn'[p])
      BY DEF Origins
    <3> QED BY <3>1 DEF RxOwn, PortId
  <2> QED BY TableOrigins DEF RxOwn, HeardOn
<1> QED BY <1>1, <1>2, Invariance, PTL DEF Spec

(* As long as Ebest, where there is one, has a best record when a port     *)
(* decides (what is_ebest() calls "should be always true"), no comparison  *)
(* of bmc_state_decision() ties and no port becomes FAULTY by a decision.  *)
THEOREM DecisionsAreMade == Spec /\ []EbestHasErbest => DecisionNeverFaults
<1> DEFINE Sound == \A p \in Port : deciding = p /\ state[p] # "FAULTY" => state'[p] # "FAULTY"
<1>1. Inv /\ RxOwn /\ EbestHasErbest /\ [Next]_vars => [Sound]_vars
  <2> SUFFICES ASSUME Inv, RxOwn, EbestHasErbest, Next, NEW p \in Port,
                      deciding = p, state[p] # "FAULTY"
               PROVE  state'[p] # "FAULTY"
    OBVIOUS
  <2>0. state \in [Port -> States] /\ p # 0
    BY PortsAssumption DEF Inv, TypeOK, PortsOK, Port
  <2>1. CASE Decide(p)
    BY <2>1, DecideWell
  <2>2. CASE UNCHANGED state
    BY <2>2
  <2>3. ASSUME NEW q \in Port,
               \/ Decide(q) /\ q # p
               \/ Receive(q) \/ LinkDown(q) \/ LinkUp(q)
               \/ \E to \in BOOLEAN : RunPort(q, to)
        PROVE  FALSE
    BY <2>0, <2>3 DEF Decide, Receive, Idle, LinkDown, LinkUp, RunPort
  <2> QED BY <2>1, <2>2, <2>3, QuietSteps
<1>2. DecisionNeverFaults <=> [][Sound]_vars
  BY DEF DecisionNeverFaults
<1> HIDE DEF Sound
<1> QED BY <1>1, <1>2, Invariance, Receivers, PTL DEF Spec

-----------------------------------------------------------------------------
(* Ebest.                                                                  *)

(* bmc_update_ebest() over any number of ports finds a port with a best    *)
(* record when there is one, and the best record of no other port beats    *)
(* that of the port found; provided that records of one grand master agree *)
(* on its quality and that none was received by the port that sent it      *)
(* (what RecordOrigin shows of the tables of a clock).                     *)
THEOREM EbestIsBest ==
  ASSUME NEW tbl, NEW b \in [Port -> Nat],
         \A p \in Port : b[p] # 0 => tbl[p][b[p]] \in Record /\ ~SelfSent(tbl[p][b[p]]),
         \A p, q \in Port :
           (b[p] # 0 /\ b[q] # 0 /\ tbl[p][b[p]].gm = tbl[q][b[q]].gm)
             => tbl[p][b[p]].q = tbl[q][b[q]].q
  PROVE  LET e     == NewEbest(tbl, b)
             heard == {p \in Port : b[p] # 0}
         IN  IF heard = {} THEN e = 0
             ELSE /\ e \in heard
                  /\ \A p \in heard :
                       ~Beats(tbl[p][b[p]], tbl[e][b[e]], EbestSrc(ebest, tbl, b))
<1> DEFINE R(p)  == tbl[p][b[p]]
           ebsrc == EbestSrc(ebest, tbl, b)
           beats == {ij \in Port \X Port :
                       /\ b[ij[1]] # 0
                       /\ \/ b[ij[2]] = 0
                          \/ bmc_dataset_cmp(R(ij[1]), R(ij[2]), ebsrc) < 0}
           c     == Champion(N, beats)
<1>0. /\ \A p \in Port : b[p] # 0 => R(p) \in Record /\ ~SelfSent(R(p))
      /\ \A p, q \in Port : (b[p] # 0 /\ b[q] # 0 /\ R(p).gm = R(q).gm) => R(p).q = R(q).q
  OBVIOUS
<1>1. NewEbest(tbl, b) = IF b[c] = 0 THEN 0 ELSE c
  BY DEF NewEbest
<1>2. \A i, j \in Port : <<i, j>> \in beats <=>
                           b[i] # 0 /\ (b[j] = 0 \/ Beats(R(i), R(j), ebsrc))
  BY DEF Beats
<1> HIDE DEF R, ebsrc, beats
<1>3. N \in Nat \ {0} /\ Port = 1..N
  BY PortsAssumption DEF Port
<1>4. \A i \in Port : <<i, i>> \notin beats
  BY <1>0, <1>2, BeatsIrreflexive
<1>5. ASSUME NEW i \in Port, NEW j \in Port, NEW k \in Port,
             <<i, j>> \in beats, <<j, k>> \in beats
      PROVE  <<i, k>> \in beats
  <2>1. b[i] # 0 /\ b[j] # 0 /\ Beats(R(i), R(j), ebsrc)
    BY <1>2, <1>5
  <2>2. CASE b[k] = 0
    BY <1>2, <2>1, <2>2
  <2>3. CASE b[k] # 0
    <3>1. Beats(R(j), R(k), ebsrc)
      BY <1>2, <1>5, <2>3
    <3>2. Beats(R(i), R(k), ebsrc)
      BY <1>0, <2>1, <2>3, <3>1, BeatsTransitive
    <3> QED BY <1>2, <2>1, <3>2
  <2> QED BY <2>2, <2>3
<1>6. c \in Port /\ \A i \in Port : <<i, c>> \notin beats
  <2>1. \A i \in 1..N : <<i, i>> \notin beats
    BY <1>3, <1>4
  <2>2. \A i, j, k \in 1..N : <<i, j>> \in beats /\ <<j, k>> \in beats => <<i, k>> \in beats
    BY <1>3, <1>5
  <2> QED BY <1>3, <2>1, <2>2, ChampionUnbeaten, ChampionInRange
<1> HIDE DEF c
<1>7. ASSUME NEW p \in Port, b[p] # 0
      PROVE  b[c] # 0 /\ ~Beats(R(p), R(c), ebsrc)
  BY <1>2, <1>6, <1>7
<1>8. CASE \E p \in Port : b[p] # 0
  <2>1. NewEbest(tbl, b) = c /\ b[c] # 0
    BY <1>1, <1>7, <1>8
  <2> QED BY <1>6, <1>7, <1>8, <2>1 DEF R, ebsrc
<1>9. CASE \A p \in Port : b[p] = 0
  BY <1>1, <1>6, <1>9
<1> QED BY <1>8, <1>9
=============================================================================
