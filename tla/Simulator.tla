------------------------------ MODULE Simulator ------------------------------
(***************************************************************************)
(* The simulator of arch-sim/ and time-sim/: a master and a slave in one   *)
(* process, simulated time that sim_main_loop() moves forward from one     *)
(* event to the next, and a table of pending packets that says when the    *)
(* next frame is due.  The frames themselves travel through UDP sockets,   *)
(* one per port and channel, in the order they were sent: an entry of the  *)
(* table only says for whom and on which channel something arrives.        *)
(* Times are ticks, relative to the present; the clocks' drift is left     *)
(* out.  The ports are a settled MASTER and SLAVE with the end to end      *)
(* delay mechanism.                                                        *)
(***************************************************************************)
EXTENDS Integers, SequencesExt, FiniteSets

CONSTANTS
  TProp,        \* t_prop_ns, of both directions
  Jitters,      \* what rand() * jit_ns / RAND_MAX may be
  Updates,      \* what enable_runtime_delay_updates adds at every step, 0 when off
  SimIntervals, \* [timer -> the values a reset may give it]
  IterMax,      \* sim_iter_max, Delay_Resps received
  MaxSyncs,     \* Syncs sent, a bound
  MaxPending    \* pending packets, a bound below the 64 of the table

SIM_MASTER == 0
SIM_SLAVE == 1
PP_NP_GEN == 0
PP_NP_EVT == 1
SimPorts == {SIM_MASTER, SIM_SLAVE}
SimTimers == {"sync", "ann", "req", "bmc"}
TimersOf(p) == IF p = SIM_MASTER THEN {"sync", "ann"} ELSE {"req"}

\* Times are unsigned, and the updates only ever add to them.
ASSUME SmAssumption ==
  /\ TProp \in Nat /\ Jitters \subseteq Nat /\ Updates \subseteq Nat
  /\ SimIntervals \in [SimTimers -> SUBSET Nat]

VARIABLES
  sm,           \* the table, the sockets, the ports' delays and timers
  smDelay       \* delay_ns of the main loop

smVars == <<sm, smDelay>>

SmInit ==
  /\ sm \in {[pending |-> << >>,
              sock    |-> [p \in SimPorts |-> [c \in {PP_NP_GEN, PP_NP_EVT} |-> << >>]],
              present |-> [p \in SimPorts |-> [c \in {PP_NP_GEN, PP_NP_EVT} |-> 0]],
              prop    |-> TProp,
              update  |-> u,
              jit     |-> [p \in SimPorts |-> 0],
              timer   |-> [t \in SimTimers |-> 0],
              syncs   |-> 0,
              got     |-> [sync |-> 0, fup |-> 0],
              iter    |-> 0,
              exited  |-> FALSE] : u \in Updates}
  /\ smDelay = 0

-----------------------------------------------------------------------------
(* The table of pending packets.                                           *)

\* Returns 1 if p1 has higher priority than p2.
compare_pending(p1, p2) ==
  \/ p1.delay < p2.delay
  \/ /\ p1.delay = p2.delay
     /\ \/ p1.to > p2.to
        \/ p1.to = p2.to /\ p1.ch > p2.ch

\* From the end, past the entries the new one goes before.
insert_pending(q, new) ==
  LET stays == {k \in 1..Len(q) : ~compare_pending(new, q[k])}
  IN  InsertAt(q, 1 + Max(stays \cup {0}), new)

pending_received(q) == IF q = << >> THEN q ELSE Tail(q)

\* sim_fast_forward_ns() and update_and_print_propagation_delays(): exit(1)
\* when a packet should have arrived in the meantime.
sim_fast_forward(s, ff) ==
  LET left == [i \in DOMAIN s.pending |->
                 [s.pending[i] EXCEPT !.delay = (IF @ + s.update < 0 THEN 0 ELSE @ + s.update) - ff]]
  IN  [s EXCEPT !.pending = left,
                !.prop = @ + s.update,
                !.timer = [t \in SimTimers |-> @[t] - ff],
                !.exited = \E i \in DOMAIN left : left[i].delay < 0]

-----------------------------------------------------------------------------
(* sim_net_send() and sim_net_recv().                                      *)

ChannelOf(kind) == IF kind \in {"sync", "req"} THEN PP_NP_EVT ELSE PP_NP_GEN

\* The states a send may lead to, one for each jitter.
sim_net_send(s, from, kind) ==
  LET to == 1 - from
      ch == ChannelOf(kind)
      n == IF kind = "sync" THEN s.syncs + 1 ELSE s.syncs
  IN  {LET jit == j + (IF kind = "fup" THEN s.jit[from] ELSE 0)
       IN  [s EXCEPT !.syncs = n,
                     !.jit[from] = jit,
                     !.pending = insert_pending(@, [delay |-> s.prop + jit, to |-> to, ch |-> ch]),
                     !.sock[to][ch] = Append(@, [kind |-> kind, n |-> n]),
                     !.present[to][ch] = @ + 1] : j \in Jitters}

\* What the head of the table announces is the oldest frame of its socket.
Received(s) == Head(s.sock[Head(s.pending).to][Head(s.pending).ch])

sim_net_recv_KeepsEntry(s) ==
  LET p == Head(s.pending).to
      ch == Head(s.pending).ch
  IN  [s EXCEPT !.sock[p][ch] = Tail(@), !.present[p][ch] = @ - 1]

sim_net_recv(s) ==
  LET p == Head(s.pending).to
      ch == Head(s.pending).ch
  IN  [s EXCEPT !.sock[p][ch] = Tail(@),
                !.present[p][ch] = @ - 1,
                !.iter = IF Received(s).kind = "resp" THEN @ + 1 ELSE @,
                !.pending = pending_received(@)]

-----------------------------------------------------------------------------
(* The ports' state machines.                                              *)

\* The states the sends of a message may lead to, from those of S.
Send(S, from, kind) == UNION {sim_net_send(s, from, kind) : s \in S}

\* pp_lib_may_issue_...(): nothing before the timer t expires, which is then
\* started again.
Waiting(S, t) == {s \in S : s.timer[t] > 0}
Restarted(S, t) == {[s EXCEPT !.timer[t] = v] : s \in S \ Waiting(S, t), v \in SimIntervals[t]}

pp_lib_may_issue_sync(S) ==
  Waiting(S, "sync") \cup Send(Send(Restarted(S, "sync"), SIM_MASTER, "sync"), SIM_MASTER, "fup")

pp_lib_may_issue_announce(S) == Waiting(S, "ann") \cup Send(Restarted(S, "ann"), SIM_MASTER, "ann")

pp_lib_may_issue_request(S) == Waiting(S, "req") \cup Send(Restarted(S, "req"), SIM_SLAVE, "req")

\* The answer to a request goes out after what is due.
RunMaster(S, msg) ==
  LET issued == pp_lib_may_issue_announce(pp_lib_may_issue_sync(S))
  IN  IF msg.kind = "req" THEN Send(issued, SIM_MASTER, "resp") ELSE issued

RunSlave(S, msg) ==
  {IF msg.kind \in {"sync", "fup"} THEN [s EXCEPT !.got[msg.kind] = msg.n] ELSE s :
     s \in pp_lib_may_issue_request(S)}

pp_state_machine(S, p, msg) == IF p = SIM_MASTER THEN RunMaster(S, msg) ELSE RunSlave(S, msg)

NextDelay(s, p) == Max({0, Min({s.timer[t] : t \in TimersOf(p)})})

-----------------------------------------------------------------------------
(* sim_main_loop().                                                        *)

\* The bounds of the instance.
InBounds(s) == s.syncs <= MaxSyncs /\ Len(s.pending) <= MaxPending

PacketDue == sm.pending # << >> /\ Head(sm.pending).delay <= smDelay

\* The first pending packet is due before the next timer.  The entry is
\* read again after sim_fast_forward_ns() has changed it.
DeliverPacket ==
  /\ sm.iter <= IterMax /\ ~sm.exited
  /\ PacketDue
  /\ LET p == Head(sm.pending).to
         f == sim_fast_forward(sm, Head(sm.pending).delay)
     IN  \E s \in IF f.exited THEN {f} ELSE pp_state_machine({sim_net_recv(f)}, p, Received(f)) :
           /\ InBounds(s)
           /\ sm' = s
           /\ smDelay' = Min({NextDelay(s, p), smDelay - (IF f.pending = << >> THEN 0 ELSE Head(f.pending).delay)})

\* No packet is due: up to the next timer, then run_all_state_machines(),
\* which also looks at the timer of the BMCA.
RunAllStateMachines ==
  /\ sm.iter <= IterMax /\ ~sm.exited
  /\ ~PacketDue
  /\ LET f == sim_fast_forward(sm, smDelay)
         none == [kind |-> "none", n |-> 0]
     IN  \E s \in IF f.exited THEN {f} ELSE RunSlave(RunMaster({f}, none), none) :
           /\ InBounds(s)
           /\ IF s.timer["bmc"] <= 0
                THEN \E v \in SimIntervals["bmc"] : sm' = [s EXCEPT !.timer["bmc"] = v] /\ smDelay' = 0
                ELSE sm' = s /\ smDelay' = Min({s.timer["bmc"], NextDelay(s, SIM_MASTER), NextDelay(s, SIM_SLAVE)})

SmNext == DeliverPacket \/ RunAllStateMachines

SmSpec == SmInit /\ [][SmNext]_smVars

-----------------------------------------------------------------------------
(* Properties.                                                             *)

\* sim_fast_forward_ns() never finds a packet that should already have been
\* received (it would print the delay and exit), and recvmsg(), which waits
\* for ever on an empty socket, is called only when a frame is there: the
\* table has exactly one entry for every frame in a socket, and simulated
\* time never passes one.
PendingInStep ==
  /\ ~sm.exited
  /\ \A p \in SimPorts, c \in {PP_NP_GEN, PP_NP_EVT} :
       LET entries == {i \in 1..Len(sm.pending) : sm.pending[i].to = p /\ sm.pending[i].ch = c}
       IN  Cardinality(entries) = Len(sm.sock[p][c]) /\ sm.present[p][c] = Len(sm.sock[p][c])

\* sim-socket.c, sim_net_send(): "the first will always arrive first to the
\* destination and will not cause the FollowUp to be discarded": the slave
\* receives the Follow_Up of a Sync after the Sync.
FollowUpAfterSync == sm.got.fup <= sm.got.sync
=============================================================================
