------------------------------ MODULE NetDriver ------------------------------
(***************************************************************************)
(* The network operations of a port: the sockets of time-unix/, time-wrs/, *)
(* time-bare/ and time-wrpc/, what they do with VLANs and with transmit    *)
(* time stamps, and one pass of a master port over them.  A frame is its   *)
(* number, which is also what memcmp() compares: two frames of a port      *)
(* differ at least in their sequenceId.                                    *)
(***************************************************************************)
EXTENDS Integers, SequencesExt

CONSTANTS
  Drivers,      \* pairs of a driver and a protocol
  Vlans,        \* the configured vlans, a sequence, for PPSI_PROTO_VLAN
  OtherVlan,    \* a vlan of the wire that is not ours
  Fds,          \* file descriptors that may be free, the bound on sockets
  MaxFrames,    \* frames sent before the last pass, a bound
  MaxOwed       \* stamps late or left in a queue, a bound

GEN == 1        \* PP_NP_GEN and PP_NP_EVT, the indices of two-element sequences
EVT == 2
Channels == {GEN, EVT}
Closed == <<-1, -1>>
NRetry == 3
NoStamp == 0    \* an incorrect time stamp

ASSUME NdAssumption == Fds \subseteq Nat \ {0}

VARIABLES
  nd,           \* the port: driver, protocol, channels, peer_vid, last_snt_time,
                \* and what the pass that is running has still to send
  ndOpen,       \* sockets the process has open
  ndQueue,      \* stamps in the error queue of the port's sockets, by channel
  ndLate        \* frames whose stamp the kernel still owes, with their channel

ndVars == <<nd, ndOpen, ndQueue, ndLate>>

NdInit ==
  /\ nd \in {[driver |-> d[1], proto |-> d[2], fd |-> Closed, chan |-> FALSE,
              up |-> FALSE, vid |-> 0, stamp |-> NoStamp, sent |-> 0, asked |-> 0, answered |-> 0,
              fup |-> <<NoStamp, NoStamp>>, jobs |-> << >>] : d \in Drivers}
  /\ ndOpen = {}
  /\ ndQueue = <<<< >>, << >>>>
  /\ ndLate = {}

-----------------------------------------------------------------------------
(* Opening and closing.  s is the port and the open sockets.               *)

\* The kernel gives the lowest free descriptor.
Socket(open) == Min(Fds \ open)

\* unix_open_ch_raw() and unix_open_ch_udp(): some call may fail.
unix_open_ch(s, c) ==
  LET fd == Socket(s.open)
  IN  {[ok |-> TRUE, open |-> s.open \cup {fd}, fd |-> [s.fd EXCEPT ![c] = fd]],
       [ok |-> FALSE, open |-> s.open, fd |-> [s.fd EXCEPT ![c] = -1]]}

unix_net_exit(s) ==
  [s EXCEPT !.open = @ \ {s.fd[c] : c \in Channels}, !.fd = Closed]

\* Called again on a port that is open, it closes first; UDP needs both.
unix_net_init(s, proto) ==
  LET clean == IF s.fd[GEN] > 0 THEN unix_net_exit(s) ELSE s
      gen == unix_open_ch(clean, GEN)
  IN  IF proto # "UDP" THEN gen
      ELSE {g \in gen : ~g.ok} \cup UNION {unix_open_ch(g, EVT) : g \in {g \in gen : g.ok}}

\* A bare socket is shut down and never closed; a failure leaves the
\* descriptor as it was.
bare_net_init(s) ==
  LET fd == Socket(s.open)
  IN  {[ok |-> TRUE, open |-> s.open \cup {fd}, fd |-> <<fd, fd>>],
       [ok |-> FALSE, open |-> s.open, fd |-> s.fd]}

Chans == [ok |-> TRUE, open |-> ndOpen, fd |-> nd.fd]

\* The one static socket of a node is re-used.
wrpc_net_init(s) == {[s EXCEPT !.open = {1}, !.fd = <<1, 1>>]}

Opened(driver, s) ==
  CASE driver = "bare" -> bare_net_init(s)
    [] driver = "wrpc" -> wrpc_net_init(s)
    [] OTHER           -> unix_net_init(s, nd.proto)

\* Queued stamps go with the socket.
Requeued(fd) ==
  /\ ndQueue' = [c \in Channels |-> IF fd[c] = nd.fd[c] THEN ndQueue[c] ELSE << >>]
  /\ ndLate' = {l \in ndLate : fd[l[2]] = nd.fd[l[2]]}

\* n_ops->init() of state INITIALIZING.  On a switch the port is looked up
\* in the HAL's memory and its time stamps are enabled: either may fail after
\* the sockets are open, which leaves them open and no wrs_socket.
NetInit ==
  /\ nd.jobs = << >> /\ Fds \ ndOpen # {}
  /\ \E s \in Opened(nd.driver, IF nd.driver = "wrs" /\ nd.chan THEN unix_net_exit(Chans) ELSE Chans),
        hal \in IF nd.driver = "wrs" THEN BOOLEAN ELSE {TRUE} :
       /\ nd' = [nd EXCEPT !.fd = s.fd, !.up = s.ok /\ hal,
                           !.chan = nd.driver = "wrs" /\ s.ok /\ hal]
       /\ ndOpen' = s.open
       /\ Requeued(s.fd)

\* n_ops->exit() when the link goes down.
NetExit ==
  /\ nd.up /\ nd.jobs = << >>
  /\ LET s == IF nd.driver \in {"bare", "wrpc"} THEN Chans ELSE unix_net_exit(Chans)
     IN  /\ nd' = [nd EXCEPT !.fd = s.fd, !.up = FALSE, !.chan = FALSE]
         /\ ndOpen' = s.open
         /\ Requeued(s.fd)

-----------------------------------------------------------------------------
(* Sending.  s is the port, the queues and the late stamps.                *)

\* What poll_tx_timestamp() makes of the stamps in the queue: it takes up to
\* three and stops at the one of its own frame.
poll_tx_timestamp_First(q, own) ==
  [stamp |-> IF q = << >> THEN NoStamp ELSE Head(q), left |-> IF q = << >> THEN q ELSE Tail(q)]

poll_tx_timestamp(q, own) ==
  LET mine == {i \in 1..NRetry : i <= Len(q) /\ q[i] = own}
      taken == IF mine # {} THEN Min(mine) ELSE Min({NRetry, Len(q)})
  IN  [stamp |-> IF mine # {} THEN own ELSE NoStamp, left |-> SubSeq(q, taken + 1, Len(q))]

\* Raw frames all use the general socket.
SendChannel(p, c) == IF p.proto = "UDP" THEN c ELSE GEN

\* n_ops->send(): the states it may leave, with its result.  The stamp of a
\* frame comes before the last poll, or late.
wrs_net_send(s, c) ==
  LET n == s.p.sent + 1
      ch == SendChannel(s.p, c)
      Polled(q, late) ==
        LET r == poll_tx_timestamp(q, n)
        IN  [p |-> [s.p EXCEPT !.sent = n, !.stamp = r.stamp], queue |-> [s.queue EXCEPT ![ch] = r.left],
             late |-> late, ok |-> TRUE]
  IN  {Polled(Append(s.queue[ch], n), s.late), Polled(s.queue[ch], s.late \cup {<<n, ch>>}),
       [s EXCEPT !.ok = FALSE]}

\* The system time is the stamp.  The VLAN case has no return and goes on
\* with the UDP code, whose sendto() fails on a raw socket.
unix_net_send(s, c) ==
  LET n == s.p.sent + 1
      out == [s EXCEPT !.p.sent = n, !.p.stamp = n, !.ok = s.p.proto # "VLAN"]
  IN  {out, [s EXCEPT !.p.stamp = n, !.ok = FALSE]}

\* A node's hardware stamp is there when the call returns, or incorrect.
wrpc_net_send(s, c) ==
  LET n == s.p.sent + 1
  IN  {[s EXCEPT !.p.sent = n, !.p.stamp = n, !.ok = TRUE],
       [s EXCEPT !.p.sent = n, !.p.stamp = NoStamp, !.ok = TRUE], [s EXCEPT !.ok = FALSE]}

NetSend(s, c) ==
  CASE s.p.driver = "wrs"  -> wrs_net_send(s, c)
    [] s.p.driver = "wrpc" -> wrpc_net_send(s, c)
    [] OTHER               -> unix_net_send(s, c)

\* The result __send_and_log() gives, for a frame of channel c.
Logged(s, c) == s.ok /\ ~(c = EVT /\ s.p.stamp = NoStamp)

\* msg_issue_sync_followup(): no Follow_Up unless the Sync went well.
msg_issue_sync_followup(s) ==
  UNION {IF ~Logged(t, EVT) THEN {t}
         ELSE {[u EXCEPT !.p.fup = <<t.p.sent, t.p.stamp>>] : u \in NetSend(t, GEN)} : t \in NetSend(s, EVT)}

msg_issue_announce(s) == NetSend(s, GEN)

\* The Delay_Resp goes out with the VLAN that peer_vid names by then.
msg_issue_delay_resp(s) == {[t EXCEPT !.p.answered = s.p.vid] : t \in NetSend(s, GEN)}

VlanList(p) == IF p.proto = "VLAN" THEN Vlans ELSE <<0>>

\* pp_vlan_issue_announce() and pp_vlan_issue_sync_followup(): one message
\* for each vlan, whatever becomes of the others.
PerVlan(kind, p) == [i \in DOMAIN VlanList(p) |-> [kind |-> kind, vid |-> VlanList(p)[i]]]

-----------------------------------------------------------------------------
(* Receiving, and one pass of a master.                                    *)

\* wrs_recv_msg() and unix_recv_msg(): a frame of another vlan is dropped, a
\* frame of one of ours names the peer's.
Accepted(p, vid) == p.proto = "VLAN" => \E i \in DOMAIN Vlans : Vlans[i] = vid

RecvMsg(p, vid) ==
  IF Accepted(p, vid) THEN [p EXCEPT !.vid = IF p.proto = "VLAN" THEN vid ELSE 0, !.asked = vid]
                      ELSE [p EXCEPT !.asked = 0]

\* pp_master() with a Delay_Req of vlan vid (0: none, or none on a port
\* without vlans): Syncs and Announces when their timers have expired, then
\* the answer.
MasterPass(vid, req, sync, ann) ==
  /\ nd.up /\ nd.sent < MaxFrames /\ nd.jobs = << >>
  /\ LET p == IF req THEN RecvMsg(nd, vid) ELSE [nd EXCEPT !.asked = 0]
         answer == [kind |-> "resp", vid |-> vid]
     IN  nd' = [p EXCEPT !.answered = 0,
                         !.jobs = (IF sync THEN PerVlan("sync", p) ELSE << >>)
                               \o (IF ann THEN PerVlan("ann", p) ELSE << >>)
                               \o (IF req /\ Accepted(nd, vid) THEN <<answer>> ELSE << >>)]
  /\ UNCHANGED <<ndOpen, ndQueue, ndLate>>

\* What sending a message of a pass may lead to.
Issued(job, s) ==
  LET there == [s EXCEPT !.p.vid = job.vid]
  IN  CASE job.kind = "sync" -> msg_issue_sync_followup(there)
        [] job.kind = "ann"  -> msg_issue_announce(there)
        [] OTHER             -> msg_issue_delay_resp(s)

\* The pass goes on with the next message.
Issue ==
  /\ nd.jobs # << >>
  /\ \E s \in Issued(Head(nd.jobs), [p |-> [nd EXCEPT !.jobs = Tail(@)], queue |-> ndQueue,
                                      late |-> ndLate, ok |-> TRUE]) :
       /\ Cardinality(s.late) + Len(s.queue[GEN]) + Len(s.queue[EVT]) <= MaxOwed
       /\ nd' = s.p
       /\ ndQueue' = s.queue
       /\ ndLate' = s.late
  /\ UNCHANGED ndOpen

\* A stamp that was late arrives in the error queue, at any time.
StampArrives ==
  \E l \in ndLate : /\ ndQueue' = [ndQueue EXCEPT ![l[2]] = Append(@, l[1])]
                    /\ ndLate' = ndLate \ {l}
                    /\ UNCHANGED <<nd, ndOpen>>

WireVlans == Range(Vlans) \cup {OtherVlan}

NdNext ==
  \/ NetInit
  \/ NetExit
  \/ \E vid \in IF nd.proto = "VLAN" THEN WireVlans ELSE {0}, req, sync, ann \in BOOLEAN :
       MasterPass(vid, req, sync, ann)
  \/ Issue
  \/ StampArrives

NdSpec == NdInit /\ [][NdNext]_ndVars

-----------------------------------------------------------------------------
(* Properties.                                                             *)

\* The init functions of unix and wrs "must be able to be called twice, and
\* clean-up internally": whatever fails and in whatever order ports are
\* opened and closed, the process has no socket open that its channels do not
\* name.  (bare_net_init() only shuts its socket down.)
NoSocketLeak == nd.driver # "bare" => ndOpen \subseteq {nd.fd[c] : c \in Channels}

\* A Follow_Up carries the time stamp of its own Sync, never the stamp of an
\* earlier frame that arrived late in the error queue.
FollowUpOwnStamp == nd.fup[1] = nd.fup[2]

\* Both: what a port puts into its Follow_Ups and what it leaves open.
DriverSound == FollowUpOwnStamp /\ NoSocketLeak

\* doc/ppsi-manual.in, "PPSi VLAN": a multiple-vlan master "will reply to
\* delay requests using the same vlan it receives it from".
ReplySameVlan == nd.answered \in {0, nd.asked}
=============================================================================
