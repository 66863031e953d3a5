------------------------------ MODULE RpcProofs ------------------------------
(***************************************************************************)
(* Proofs about mini-rpc over sockets: the server never waits in recv(),   *)
(* and a client gets its own answers, for any number of clients, slots and *)
(* calls.                                                                  *)
(***************************************************************************)
EXTENDS MiniRpc, FiniteSetTheorems, SequenceTheorems, TLAPS

Requests == Functions \X Nat
Answers == (Functions \cup {"EOPNOTSUPP"}) \X Nat
ConnRecs == [fd : Nat, req : Seq(Requests), rep : Seq(Answers),
             clientShut : BOOLEAN, serverShut : BOOLEAN]
ClientRecs == [pc : {"off", "ready", "waiting", "closing", "gone"}, conns : Nat, n : Nat,
               late : Nat, took : Answers \cup {<<>>}]

RpTypes ==
  /\ rpClient \in [Clients -> ClientRecs]
  /\ rpConn \in [Clients -> ConnRecs]
  /\ rpSlot \in [Slots -> Nat]
  /\ rpServer \in [pc : {"select", "slots"}, set : SUBSET Nat, slot : Nat]

(* Slots and connections name the same descriptors, each of them once.     *)
OneSlotEach ==
  /\ \A i, j \in Slots : rpSlot[i] # 0 /\ rpSlot[i] = rpSlot[j] => i = j
  /\ \A c, d \in Clients : rpConn[c].fd # 0 /\ rpConn[c].fd = rpConn[d].fd => c = d
  /\ \A i \in Slots : rpSlot[i] # 0 => \E c \in Clients : rpConn[c].fd = rpSlot[i]
  /\ \A c \in Clients : rpConn[c].fd # 0 => \E i \in Slots : rpSlot[i] = rpConn[c].fd

(* A connection that the server closed, or that has no client any more,    *)
(* has no descriptor.                                                      *)
NoFd(k, x) == k.pc = "off" \/ x.serverShut => x.fd = 0

(* What select() found ready is still ready in the slots to come.          *)
StillReady ==
  rpServer.pc = "slots" =>
    \A i \in Slots : (i >= rpServer.slot /\ rpSlot[i] # 0 /\ rpSlot[i] \in rpServer.set) =>
      \E c \in Clients : rpConn[c].fd = rpSlot[i] /\ Readable(c)

(* The requests and answers of a connection are those of its last calls,   *)
(* one by one, and no more than calls timed out and the one that waits.    *)
Waits(k) == IF k.pc = "waiting" THEN 1 ELSE 0
Numbered(s, from) == \A j \in 1..Len(s) : s[j][2] = from + j
InOrder(k, x) ==
  k.pc \in {"ready", "waiting"} =>
    /\ Len(x.req) + Len(x.rep) <= k.late + Waits(k)
    /\ Numbered(x.req, k.n - Len(x.req))
    /\ Numbered(x.rep, k.n - Len(x.req) - Len(x.rep))
    /\ k.took # <<>> => k.took[2] \in (k.n - k.late - Waits(k))..k.n

(* The inductive invariant.                                                *)
RpInv == /\ RpTypes
         /\ OneSlotEach
         /\ \A c \in Clients : NoFd(rpClient[c], rpConn[c])
         /\ StillReady
         /\ \A c \in Clients : InOrder(rpClient[c], rpConn[c])

-----------------------------------------------------------------------------
(* A nonempty set of naturals has a least member.                          *)
LEMMA LeastOf ==
  ASSUME NEW T, T \subseteq Nat, T # {}
  PROVE  Min(T) \in T
<1>1. \E x \in T : \A y \in T : ~(<<y, x>> \in OpToRel(<, Nat))
  BY NatLessThanWellFounded, WFMin
<1>2. PICK x \in T : \A y \in T : ~(<<y, x>> \in OpToRel(<, Nat))
  BY <1>1
<1>3. \A y \in T : ~(y < x)
  BY <1>2 DEF OpToRel
<1>4. \A y \in T : x =< y
  BY <1>3
<1> QED BY <1>4 DEF Min

(* The descriptor of a new connection is no other connection's: there are  *)
(* fewer slots than descriptors to choose from.                            *)
LEMMA FreshFd ==
  ASSUME RpTypes, OneSlotEach
  PROVE  /\ NewFd \in Nat \ {0}
         /\ \A c \in Clients : rpConn[c].fd # NewFd
         /\ \A i \in Slots : rpSlot[i] # NewFd
<1> DEFINE S == FirstFd..FirstFd + MaxClients + 1
           T == S \ UsedFds
<1>1. T # {}
  <2> SUFFICES ASSUME \A x \in S : x \in UsedFds
               PROVE  FALSE
    OBVIOUS
  <2>1. \A x \in S : \E i \in Slots : rpSlot[i] = x
    <3> SUFFICES ASSUME NEW x \in S PROVE \E i \in Slots : rpSlot[i] = x
      OBVIOUS
    <3>1. PICK c \in Clients : rpConn[c].fd = x /\ x # 0
      BY DEF UsedFds
    <3> QED BY <3>1 DEF OneSlotEach
  <2> DEFINE f == [x \in S |-> CHOOSE i \in Slots : rpSlot[i] = x]
  <2>2. \A x \in S : f[x] \in Slots /\ rpSlot[f[x]] = x
    BY <2>1
  <2>3. f \in [S -> Slots]
    BY <2>2
  <2>4. IsFiniteSet(S) /\ IsFiniteSet(Slots) /\ Cardinality(Slots) < Cardinality(S)
    <3> DEFINE b == FirstFd + MaxClients + 1
    <3>1. /\ FirstFd \in Int /\ b \in Int /\ 1 \in Int /\ MaxClients \in Int
          /\ ~(FirstFd > b) /\ b - FirstFd + 1 = MaxClients + 2 /\ MaxClients >= 0
      BY RpcAssumption
    <3>2. S = FirstFd..b
      OBVIOUS
    <3> HIDE DEF S, b
    <3>3. IsFiniteSet(S) /\ Cardinality(S) = MaxClients + 2
      BY <3>1, <3>2, FS_Interval
    <3>4. /\ IsFiniteSet(1..MaxClients)
          /\ Cardinality(1..MaxClients) = IF 1 > MaxClients THEN 0 ELSE MaxClients - 1 + 1
      BY <3>1, FS_Interval
    <3> QED BY <3>1, <3>3, <3>4 DEF Slots
  <2> HIDE DEF f, S
  <2>5. \E x, y \in S : x # y /\ f[x] = f[y]
    BY <2>3, <2>4, FS_PigeonHole
  <2> QED BY <2>2, <2>5
<1>2. T \subseteq Nat \ {0}
  BY RpcAssumption
<1>3. NewFd \in T
  BY <1>1, <1>2, LeastOf DEF NewFd
<1>4. NewFd \in Nat \ {0} /\ NewFd \notin UsedFds
  BY <1>2, <1>3
<1>5. \A c \in Clients : rpConn[c].fd # NewFd
  BY <1>4 DEF UsedFds
<1> QED BY <1>4, <1>5 DEF OneSlotEach

(* The connection of a descriptor in a slot.                               *)
LEMMA SlotOwner ==
  ASSUME RpTypes, OneSlotEach, NEW i \in Slots, rpSlot[i] # 0
  PROVE  /\ Of(rpSlot[i]) \in Clients /\ rpConn[Of(rpSlot[i])].fd = rpSlot[i]
         /\ \A c \in Clients : rpConn[c].fd = rpSlot[i] => c = Of(rpSlot[i])
<1>1. \E c \in Clients : rpConn[c].fd = rpSlot[i]
  BY DEF OneSlotEach
<1>2. Of(rpSlot[i]) \in Clients /\ rpConn[Of(rpSlot[i])].fd = rpSlot[i]
  BY <1>1 DEF Of
<1> QED BY <1>2 DEF OneSlotEach

(* The server does not block in a state of the invariant.                  *)
LEMMA ReadyMeansData ==
  ASSUME RpInv
  PROVE  ServerNeverBlocks
<1> SUFFICES ASSUME rpServer.pc = "slots", rpServer.slot \in Slots, SlotReady(rpServer.slot)
             PROVE  HasRequest(rpSlot[rpServer.slot]) \/ HasEnd(rpSlot[rpServer.slot])
  BY DEF ServerNeverBlocks
<1> DEFINE fd == rpSlot[rpServer.slot]
<1>1. fd # 0 /\ fd \in rpServer.set
  BY DEF SlotReady
<1>2. rpServer.slot \in Nat /\ rpServer.slot >= rpServer.slot
  BY DEF RpInv, RpTypes
<1>3. PICK c \in Clients : rpConn[c].fd = fd /\ Readable(c)
  BY <1>1, <1>2 DEF RpInv, StillReady
<1>4. Of(fd) = c
  BY <1>1, <1>3, SlotOwner DEF RpInv
<1>5. fd \in UsedFds
  BY <1>1, <1>3 DEF UsedFds
<1> QED BY <1>3, <1>4, <1>5 DEF Readable, HasRequest, HasEnd

-----------------------------------------------------------------------------
(* A step of client c, which becomes k with the connection x.              *)
LEMMA ClientKeeps ==
  ASSUME RpInv, NEW c \in Clients, NEW k \in ClientRecs, NEW x \in ConnRecs, ServerOnly,
         rpClient' = [rpClient EXCEPT ![c] = k], rpConn' = [rpConn EXCEPT ![c] = x],
         x.fd = rpConn[c].fd, NoFd(k, x), InOrder(k, x),
         x.fd # 0 /\ Readable(c) => x.req # <<>> \/ x.clientShut
  PROVE  RpInv'
<1>1. UNCHANGED <<rpSlot, rpServer>>
  BY DEF ServerOnly
<1>2. \A d \in Clients : /\ rpConn'[d] = IF d = c THEN x ELSE rpConn[d]
                         /\ rpClient'[d] = IF d = c THEN k ELSE rpClient[d]
                         /\ rpConn'[d].fd = rpConn[d].fd
  BY DEF RpInv, RpTypes
<1>3. RpTypes'
  BY <1>1 DEF RpInv, RpTypes, Slots
<1>4. OneSlotEach'
  BY <1>1, <1>2 DEF RpInv, OneSlotEach, Slots
<1>5. \A d \in Clients : NoFd(rpClient[d], rpConn[d])' /\ InOrder(rpClient[d], rpConn[d])'
  <2> SUFFICES ASSUME NEW d \in Clients
               PROVE  NoFd(rpClient'[d], rpConn'[d]) /\ InOrder(rpClient'[d], rpConn'[d])
    BY DEF NoFd, InOrder, Waits, Numbered
  <2>1. CASE d = c
    BY <1>2, <2>1
  <2>2. CASE d # c
    BY <1>2, <2>2 DEF RpInv
  <2> QED BY <2>1, <2>2
<1>6. StillReady'
  <2> SUFFICES ASSUME rpServer.pc = "slots", NEW i \in Slots, i >= rpServer.slot, rpSlot[i] # 0,
                      rpSlot[i] \in rpServer.set
               PROVE  \E d \in Clients : rpConn'[d].fd = rpSlot[i] /\ Readable(d)'
    BY <1>1 DEF StillReady, Slots
  <2>1. PICK d \in Clients : rpConn[d].fd = rpSlot[i] /\ Readable(d)
    BY DEF RpInv, StillReady
  <2>2. Readable(d)'
    <3>1. CASE d = c
      BY <1>2, <2>1, <3>1 DEF Readable
    <3>2. CASE d # c
      BY <1>2, <2>1, <3>2 DEF Readable
    <3> QED BY <3>1, <3>2
  <2> QED BY <1>2, <2>1, <2>2
<1> QED BY <1>3, <1>4, <1>5, <1>6 DEF RpInv

(* One more at the end, and the first one taken.                           *)
LEMMA NumberedAppend ==
  ASSUME NEW T, NEW s \in Seq(T), NEW a \in T, NEW from \in Int, Numbered(s, from),
         a[2] = from + Len(s) + 1
  PROVE  /\ Append(s, a) \in Seq(T) /\ Append(s, a) # <<>> /\ Len(Append(s, a)) = Len(s) + 1
         /\ Numbered(Append(s, a), from)
<1> DEFINE t == Append(s, a)
<1>1. /\ t \in Seq(T) /\ t # <<>> /\ Len(t) = Len(s) + 1 /\ Len(s) \in Nat
      /\ t[Len(s) + 1] = a /\ \A j \in 1..Len(s) : t[j] = s[j]
  BY AppendProperties, LenProperties
<1> HIDE DEF t
<1>2. ASSUME NEW j \in 1..Len(t) PROVE t[j][2] = from + j
  <2>1. CASE j = Len(s) + 1
    <3>1. t[j] = a
      BY <1>1, <2>1
    <3>2. a[2] = from + j
      BY <1>1, <2>1
    <3> QED BY <3>1, <3>2
  <2>2. CASE j # Len(s) + 1
    <3>1. j \in 1..Len(s)
      BY <1>1, <2>2
    <3>2. s[j][2] = from + j
      BY <3>1 DEF Numbered
    <3>3. t[j] = s[j]
      BY <1>1, <3>1
    <3> QED BY <3>2, <3>3
  <2> QED BY <2>1, <2>2
<1>3. Numbered(t, from)
  BY <1>2 DEF Numbered
<1> QED BY <1>1, <1>3 DEF t

(* The rest of a numbered sequence is numbered from the next number on.    *)
LEMMA NumberedTail ==
  ASSUME NEW T, NEW s \in Seq(T), NEW from \in Int, Numbered(s, from), s # <<>>
  PROVE  /\ Tail(s) \in Seq(T) /\ Len(Tail(s)) = Len(s) - 1 /\ Len(s) \in Nat /\ Len(s) > 0
         /\ Head(s) \in T /\ Head(s)[2] = from + 1
         /\ Numbered(Tail(s), from + 1)
<1> DEFINE t == Tail(s)
<1>1. /\ t \in Seq(T) /\ Len(t) = Len(s) - 1 /\ Len(s) \in Nat /\ Len(s) > 0
      /\ Head(s) = s[1] /\ Head(s) \in T
      /\ \A j \in 1..Len(s) - 1 : t[j] = s[j + 1]
  OBVIOUS
<1> HIDE DEF t
<1>2. s[1][2] = from + 1
  BY <1>1 DEF Numbered
<1>3. ASSUME NEW j \in 1..Len(t) PROVE t[j][2] = from + 1 + j
  <2>1. j + 1 \in 1..Len(s) /\ j \in 1..Len(s) - 1
    BY <1>1
  <2>2. s[j + 1][2] = from + (j + 1)
    BY <2>1 DEF Numbered
  <2>3. from + (j + 1) = from + 1 + j
    OBVIOUS
  <2>4. t[j] = s[j + 1]
    BY <1>1, <2>1
  <2> QED BY <2>2, <2>3, <2>4
<1>4. Numbered(t, from + 1)
  BY <1>3 DEF Numbered
<1> QED BY <1>1, <1>2, <1>4 DEF t

(* The calls of a client keep the invariant.                               *)
LEMMA ClientStep ==
  ASSUME RpInv, NEW c \in Clients, Call(c)
  PROVE  RpInv'
<1> DEFINE k == rpClient[c]
           x == rpConn[c]
<1>1. /\ k \in ClientRecs /\ x \in ConnRecs /\ NoFd(k, x) /\ InOrder(k, x)
      /\ rpClient \in [Clients -> ClientRecs] /\ rpConn \in [Clients -> ConnRecs]
  BY DEF RpInv, RpTypes
<1>2. /\ k.n \in Nat /\ k.late \in Nat /\ k.conns \in Nat /\ k.took \in Answers \cup {<<>>}
      /\ x.fd \in Nat /\ x.req \in Seq(Requests) /\ x.rep \in Seq(Answers)
      /\ x.clientShut \in BOOLEAN /\ x.serverShut \in BOOLEAN
  BY <1>1 DEF ClientRecs, ConnRecs
<1>2n. k.n \in Nat /\ k.late \in Nat
  BY <1>2
<1>3. rpClient = [rpClient EXCEPT ![c] = k] /\ rpConn = [rpConn EXCEPT ![c] = x]
  BY <1>1
<1>4. CASE minipc_client_create(c)
  <2> DEFINE m == [pc |-> "ready", conns |-> k.conns + 1, n |-> k.n, late |-> 0, took |-> <<>>]
  <2>1. /\ rpClient' = [rpClient EXCEPT ![c] = m] /\ rpConn' = [rpConn EXCEPT ![c] = NoConn]
        /\ ServerOnly /\ k.pc = "off"
    BY <1>4 DEF minipc_client_create
  <2>2. m \in ClientRecs
    BY <1>2 DEF ClientRecs
  <2>3. NoConn \in ConnRecs /\ NoConn.fd = 0 /\ x.fd = 0
    BY <1>1, <2>1 DEF NoConn, ConnRecs, NoFd
  <2>4. NoFd(m, NoConn) /\ InOrder(m, NoConn)
    BY <1>2 DEF NoConn, NoFd, InOrder, Waits, Numbered
  <2> HIDE DEF m, k, x
  <2> QED BY <2>1, <2>2, <2>3, <2>4, ClientKeeps DEF x
<1>5. ASSUME ClientTo(c, "closing"), UNCHANGED rpConn, ServerOnly
      PROVE  RpInv'
  <2> DEFINE m == [k EXCEPT !.pc = "closing"]
  <2>1. rpClient' = [rpClient EXCEPT ![c] = m] /\ rpConn' = [rpConn EXCEPT ![c] = x]
    BY <1>3, <1>5 DEF ClientTo
  <2>2. m \in ClientRecs /\ m.pc = "closing"
    BY <1>1 DEF ClientRecs
  <2>3. NoFd(m, x) /\ InOrder(m, x)
    BY <1>1, <2>2 DEF NoFd, InOrder
  <2> HIDE DEF m, k
  <2> QED BY <1>1, <1>5, <2>1, <2>2, <2>3, ClientKeeps DEF Readable
<1>6. ASSUME NEW f \in Functions, SendRequest(c, f) PROVE RpInv'
  <2>0. CASE x.serverShut
    BY <1>5, <1>6, <2>0 DEF SendRequest
  <2>1. CASE ~x.serverShut
    <3> DEFINE a == <<f, k.n + 1>>
               m == [k EXCEPT !.pc = "waiting", !.n = k.n + 1]
               q == Append(x.req, a)
               y == [x EXCEPT !.req = q]
    <3>1. /\ rpClient' = [rpClient EXCEPT ![c] = m] /\ rpConn' = [rpConn EXCEPT ![c] = y]
          /\ ServerOnly /\ k.pc = "ready"
      BY <1>6, <2>1 DEF SendRequest
    <3>2. /\ m \in ClientRecs /\ m.pc = "waiting" /\ m.n = k.n + 1 /\ m.late = k.late
          /\ m.took = k.took
      <4>1. k.n + 1 \in Nat
        BY <1>2
      <4> QED BY <1>1, <4>1 DEF ClientRecs
    <3>3. a \in Requests /\ a[2] = k.n + 1
      BY <1>2 DEF Requests
    <3> HIDE DEF a
    <3>4. /\ Len(x.req) \in Nat /\ Len(x.rep) \in Nat /\ Len(x.req) + Len(x.rep) <= k.late
          /\ Numbered(x.req, k.n - Len(x.req))
          /\ Numbered(x.rep, k.n - Len(x.req) - Len(x.rep))
          /\ k.took # <<>> => k.took[2] \in (k.n - k.late)..k.n
      <4>1. Len(x.req) \in Nat /\ Len(x.rep) \in Nat
        BY <1>2
      <4>2. k.late + Waits(k) = k.late /\ k.n - k.late - Waits(k) = k.n - k.late
        BY <1>2, <3>1 DEF Waits
      <4> QED BY <1>1, <3>1, <4>1, <4>2 DEF InOrder
    <3>5. /\ q \in Seq(Requests) /\ q # <<>> /\ Len(q) = Len(x.req) + 1
          /\ Numbered(q, k.n - Len(x.req))
      <4>1. k.n - Len(x.req) \in Int /\ a[2] = (k.n - Len(x.req)) + Len(x.req) + 1
        BY <1>2, <3>3, <3>4, SMTT(30)
      <4> QED BY <1>2, <3>3, <3>4, <4>1, NumberedAppend
    <3> HIDE DEF q
    <3>6. /\ y \in ConnRecs /\ y.fd = x.fd /\ y.req = q /\ y.rep = x.rep
          /\ y.serverShut = x.serverShut
      BY <1>1, <3>5 DEF ConnRecs
    <3> HIDE DEF m, y
    <3>7. NoFd(m, y)
      BY <2>1, <3>2, <3>6 DEF NoFd
    <3>8. InOrder(m, y)
      <4>0. PICK p \in Nat, r \in Nat, l \in Nat :
              /\ p = Len(x.req) /\ r = Len(x.rep) /\ l = k.late /\ p + r <= l
              /\ p + 1 = Len(y.req) /\ r = Len(y.rep)
        BY <1>2n, <3>4, <3>5, <3>6
      <4>1. Len(y.req) + Len(y.rep) <= m.late + 1
        <5>1. p + r <= l
          BY <4>0
        <5>2. (p + 1) + r <= l + 1
          BY <5>1
        <5> QED BY <3>2, <4>0, <5>2
      <4>2. /\ m.n - Len(y.req) = k.n - Len(x.req)
            /\ m.n - Len(y.req) - Len(y.rep) = k.n - Len(x.req) - Len(x.rep)
        <5>1. /\ (k.n + 1) - (p + 1) = k.n - p
              /\ (k.n + 1) - (p + 1) - r = k.n - p - r
          BY <1>2n
        <5> QED BY <3>2, <4>0, <5>1
      <4>3. m.took # <<>> => m.took[2] \in (m.n - m.late - 1)..m.n
        <5>1. (k.n - k.late)..k.n \subseteq ((k.n + 1) - k.late - 1)..(k.n + 1)
          BY <1>2n
        <5> QED BY <3>2, <3>4, <5>1
      <4> QED BY <3>2, <3>4, <3>5, <3>6, <4>1, <4>2, <4>3 DEF InOrder, Waits
    <3> QED BY <3>1, <3>2, <3>5, <3>6, <3>7, <3>8, ClientKeeps
  <2> QED BY <2>0, <2>1
<1>7. CASE TakeAnswer(c)
  <2>0. CASE x.rep = <<>>
    BY <1>5, <1>7, <2>0 DEF TakeAnswer
  <2>1. CASE x.rep # <<>>
    <3> DEFINE m == [k EXCEPT !.pc = "ready", !.took = Head(x.rep)]
               y == [x EXCEPT !.rep = Tail(x.rep)]
    <3>1. /\ rpClient' = [rpClient EXCEPT ![c] = m] /\ rpConn' = [rpConn EXCEPT ![c] = y]
          /\ ServerOnly /\ k.pc = "waiting"
      BY <1>7, <2>1 DEF TakeAnswer
    <3>2. /\ Len(x.req) \in Nat /\ Len(x.rep) \in Nat /\ Len(x.req) + Len(x.rep) <= k.late + 1
          /\ Numbered(x.req, k.n - Len(x.req))
          /\ Numbered(x.rep, k.n - Len(x.req) - Len(x.rep))
      <4>1. Len(x.req) \in Nat /\ Len(x.rep) \in Nat
        BY <1>2
      <4> QED BY <1>1, <3>1, <4>1 DEF InOrder, Waits
    <3> DEFINE from == k.n - Len(x.req) - Len(x.rep)
               t == Tail(x.rep)
               h == Head(x.rep)
    <3>3. /\ t \in Seq(Answers) /\ Len(t) = Len(x.rep) - 1 /\ Len(x.rep) > 0
          /\ h \in Answers /\ h[2] = from + 1
          /\ Numbered(t, from + 1)
      <4>1. from \in Int
        BY <1>2, <3>2
      <4> HIDE DEF from
      <4> QED BY <1>2, <2>1, <3>2, <4>1, NumberedTail DEF from
    <3> HIDE DEF t, h
    <3>4. /\ m \in ClientRecs /\ m.pc = "ready" /\ m.n = k.n /\ m.late = k.late /\ m.took = h
      BY <1>1, <3>3 DEF ClientRecs, h
    <3>5. /\ y \in ConnRecs /\ y.fd = x.fd /\ y.req = x.req /\ y.rep = t
          /\ y.serverShut = x.serverShut /\ y.clientShut = x.clientShut
      BY <1>1, <3>3 DEF ConnRecs, t
    <3> HIDE DEF m, y
    <3>6. NoFd(m, y)
      BY <1>1, <3>4, <3>5 DEF NoFd
    <3>7. InOrder(m, y)
      <4>0. PICK p \in Nat, r \in Nat, l \in Nat, n \in Nat :
              /\ l = k.late /\ n = k.n
              /\ p = Len(x.req) /\ r = Len(x.rep) /\ p + r <= l + 1 /\ r > 0
              /\ p = Len(y.req) /\ r - 1 = Len(y.rep)
        BY <1>2n, <3>2, <3>3, <3>5
      <4>00. p + r <= l + 1 /\ r > 0
        BY <4>0
      <4>1. Len(y.req) + Len(y.rep) <= m.late + 0
        <5>1. p + (r - 1) <= l + 0
          BY <4>00
        <5> QED BY <3>4, <4>0, <5>1
      <4>2. /\ m.n - Len(y.req) = k.n - Len(x.req)
            /\ m.n - Len(y.req) - Len(y.rep) = from + 1
        <5>1. k.n - p - (r - 1) = (k.n - p - r) + 1
          BY <1>2n
        <5> QED BY <3>4, <4>0, <5>1
      <4>3. m.took[2] \in (m.n - m.late - 0)..m.n
        <5>1. (n - p - r) + 1 \in (n - l - 0)..n
          BY <4>00
        <5>2. h[2] = (n - p - r) + 1
          BY <3>3, <4>0
        <5> QED BY <3>4, <4>0, <5>1, <5>2
      <4> HIDE DEF from
      <4> QED BY <3>2, <3>3, <3>4, <3>5, <4>1, <4>2, <4>3 DEF InOrder, Waits
    <3>8. Readable(c) => y.req # <<>> \/ y.clientShut
      BY <3>5 DEF Readable
    <3> QED BY <3>1, <3>4, <3>5, <3>6, <3>7, <3>8, ClientKeeps
  <2> QED BY <2>0, <2>1
<1>8. CASE TimeOut(c)
  <2> DEFINE m == [k EXCEPT !.pc = "ready", !.late = k.late + 1]
  <2>1. /\ rpClient' = [rpClient EXCEPT ![c] = m] /\ rpConn' = [rpConn EXCEPT ![c] = x]
        /\ ServerOnly /\ k.pc = "waiting"
    BY <1>3, <1>8 DEF TimeOut
  <2>2. /\ m \in ClientRecs /\ m.pc = "ready" /\ m.n = k.n /\ m.late = k.late + 1
        /\ m.took = k.took
    <3>1. k.late + 1 \in Nat
      BY <1>2
    <3> QED BY <1>1, <3>1 DEF ClientRecs
  <2> HIDE DEF m
  <2>3. NoFd(m, x) /\ InOrder(m, x)
    <3>1. NoFd(m, x)
      BY <1>1, <2>1, <2>2 DEF NoFd
    <3>2. k.n - k.late - 1 = m.n - m.late - 0 /\ k.late + 1 = m.late + 0
      BY <1>2, <2>2
    <3>3. InOrder(m, x)
      BY <1>1, <2>1, <2>2, <3>2 DEF InOrder, Waits
    <3> QED BY <3>1, <3>3
  <2> QED BY <1>1, <2>1, <2>2, <2>3, ClientKeeps DEF Readable
<1>9. CASE minipc_close(c)
  <2> DEFINE p == IF x.serverShut THEN "off" ELSE "gone"
             m == [k EXCEPT !.pc = p]
             y == [x EXCEPT !.clientShut = TRUE]
  <2>1. /\ rpClient' = [rpClient EXCEPT ![c] = m] /\ rpConn' = [rpConn EXCEPT ![c] = y]
        /\ ServerOnly
    BY <1>9 DEF minipc_close
  <2>2. m \in ClientRecs /\ m.pc = p
    BY <1>1 DEF ClientRecs
  <2>3. /\ y \in ConnRecs /\ y.fd = x.fd /\ y.clientShut /\ y.serverShut = x.serverShut
    BY <1>1 DEF ConnRecs
  <2>4. NoFd(m, y) /\ InOrder(m, y)
    BY <1>1, <2>2, <2>3 DEF NoFd, InOrder
  <2> HIDE DEF m, y
  <2> QED BY <2>1, <2>2, <2>3, <2>4, ClientKeeps
<1> QED BY <1>4, <1>6, <1>7, <1>8, <1>9 DEF Call

-----------------------------------------------------------------------------
(* A request that was answered is one less before, one more behind.        *)
LEMMA AnswerKeepsOrder ==
  ASSUME NEW k \in ClientRecs, NEW x \in ConnRecs, InOrder(k, x), x.req # <<>>
  PROVE  LET y == [x EXCEPT !.req = Tail(x.req), !.rep = Append(x.rep, Reply(Head(x.req)))]
         IN  /\ y \in ConnRecs /\ y.fd = x.fd /\ y.clientShut = x.clientShut
             /\ y.serverShut = x.serverShut /\ InOrder(k, y)
<1> DEFINE h == Head(x.req)
           a == Reply(h)
           t == Tail(x.req)
           b == Append(x.rep, a)
           y == [x EXCEPT !.req = t, !.rep = b]
<1>1. x.req \in Seq(Requests) /\ x.rep \in Seq(Answers) /\ k.n \in Nat
  BY DEF ConnRecs, ClientRecs
<1>2. h \in Requests /\ t \in Seq(Requests)
  BY <1>1
<1>3. a \in Answers /\ a[2] = h[2]
  BY <1>2 DEF Reply, Requests, Answers
<1>4. b \in Seq(Answers)
  BY <1>1, <1>3, AppendProperties
<1> HIDE DEF t, b
<1>5. /\ y \in ConnRecs /\ y.fd = x.fd /\ y.clientShut = x.clientShut
      /\ y.serverShut = x.serverShut /\ y.req = t /\ y.rep = b
  BY <1>2, <1>4 DEF ConnRecs
<1>6. ASSUME k.pc \in {"ready", "waiting"}
      PROVE  /\ Len(t) + Len(b) = Len(x.req) + Len(x.rep)
             /\ Numbered(t, k.n - Len(t))
             /\ Numbered(b, k.n - Len(t) - Len(b))
  <2>0. /\ Numbered(x.req, k.n - Len(x.req))
        /\ Numbered(x.rep, k.n - Len(x.req) - Len(x.rep))
    BY <1>6 DEF InOrder
  <2>1. PICK p \in Nat, r \in Nat, n \in Nat : p = Len(x.req) /\ r = Len(x.rep) /\ n = k.n
    BY <1>1, LenProperties
  <2>2. /\ Len(t) = p - 1 /\ h[2] = (n - p) + 1 /\ Numbered(t, (n - p) + 1)
    <3>1. n - p \in Int
      OBVIOUS
    <3> QED BY <1>1, <2>0, <2>1, <3>1, NumberedTail DEF t
  <2>3. /\ Len(b) = r + 1 /\ Numbered(b, n - p - r)
    <3>1. n - p - r \in Int /\ (n - p) + 1 = (n - p - r) + r + 1
      OBVIOUS
    <3>2. a[2] = (n - p - r) + Len(x.rep) + 1
      BY <1>3, <2>1, <2>2, <3>1
    <3> HIDE DEF a
    <3> QED BY <1>1, <1>3, <2>0, <2>1, <3>1, <3>2, NumberedAppend DEF b
  <2>4. /\ (p - 1) + (r + 1) = p + r /\ (n - p) + 1 = n - (p - 1)
        /\ n - p - r = n - (p - 1) - (r + 1)
    OBVIOUS
  <2> QED BY <2>1, <2>2, <2>3, <2>4
<1>7. InOrder(k, y)
  BY <1>5, <1>6 DEF InOrder
<1> QED BY <1>5, <1>7 DEF t, b

(* The connection as the server leaves it when it closes its end.          *)
Closed == [NoConn EXCEPT !.serverShut = TRUE]

(* A closed connection is a connection without a descriptor.               *)
LEMMA ClosedConn ==
  /\ Closed \in ConnRecs /\ Closed.fd = 0
  /\ \A k : NoFd(k, Closed)
  /\ \A k \in ClientRecs : k.pc \notin {"ready", "waiting"} => InOrder(k, Closed)
<1>1. NoConn \in ConnRecs /\ NoConn.fd = 0
  <2>1. <<>> \in Seq(Requests) /\ <<>> \in Seq(Answers)
    OBVIOUS
  <2> QED BY <2>1 DEF NoConn, ConnRecs
<1>2. Closed \in ConnRecs /\ Closed.fd = 0
  BY <1>1 DEF Closed, ConnRecs
<1>3. ASSUME NEW k PROVE NoFd(k, Closed)
  BY <1>2, Zenon DEF NoFd
<1>4. \A k \in ClientRecs : k.pc \notin {"ready", "waiting"} => InOrder(k, Closed)
  BY DEF InOrder
<1> QED BY <1>2, <1>3, <1>4

(* A connection that is turned away has no requests and no answers.        *)
LEMMA ClosedInOrder ==
  ASSUME NEW k \in ClientRecs, NEW x \in ConnRecs, InOrder(k, x)
  PROVE  InOrder(k, Closed)
<1>1. Closed.req = <<>> /\ Closed.rep = <<>>
  BY DEF Closed, NoConn
<1>2. Len(x.req) \in Nat /\ Len(x.rep) \in Nat /\ k.late \in Nat
  BY LenProperties DEF ConnRecs, ClientRecs
<1>3. \A z : Numbered(<<>>, z)
  BY DEF Numbered
<1>4. Len(<<>>) + Len(<<>>) <= k.late + Waits(k)
  BY <1>2 DEF Waits
<1> QED BY <1>1, <1>3, <1>4 DEF InOrder

(* mpc_handle_client() keeps the invariant.                                *)
LEMMA HandleClient ==
  ASSUME RpInv, mpc_handle_client
  PROVE  RpInv'
<1> DEFINE i == rpServer.slot
           c == Of(rpSlot[i])
           k == rpClient[c]
           x == rpConn[c]
<1>1. /\ rpServer.pc = "slots" /\ i \in Slots /\ i \in Nat /\ rpSlot[i] # 0
      /\ rpServer' = [rpServer EXCEPT !.slot = i + 1]
      /\ AnswerRequest(i) \/ HangUp(i)
  BY DEF mpc_handle_client, SlotReady, NextSlot, RpInv, RpTypes
<1>2. /\ c \in Clients /\ x.fd = rpSlot[i]
      /\ \A d \in Clients : rpConn[d].fd = rpSlot[i] => d = c
  BY <1>1, SlotOwner DEF RpInv
<1>3. /\ k \in ClientRecs /\ x \in ConnRecs /\ NoFd(k, x) /\ InOrder(k, x)
      /\ rpClient \in [Clients -> ClientRecs] /\ rpConn \in [Clients -> ConnRecs]
      /\ rpSlot \in [Slots -> Nat]
  BY <1>2 DEF RpInv, RpTypes
<1>4. /\ rpServer' \in [pc : {"select", "slots"}, set : SUBSET Nat, slot : Nat]
      /\ rpServer'.pc = "slots" /\ rpServer'.set = rpServer.set /\ rpServer'.slot = i + 1
  BY <1>1 DEF RpInv, RpTypes
<1> HIDE DEF c
<1>5. ASSUME NEW y \in ConnRecs, rpConn' = [rpConn EXCEPT ![c] = y],
             \A j \in Slots : rpSlot'[j] = rpSlot[j] \/ j = i
      PROVE  StillReady'
  <2> SUFFICES ASSUME NEW j \in Slots, j >= i + 1, rpSlot'[j] # 0, rpSlot'[j] \in rpServer.set
               PROVE  \E d \in Clients : rpConn'[d].fd = rpSlot'[j] /\ Readable(d)'
    BY <1>4 DEF StillReady, Slots
  <2>0. j # i /\ j >= i
    BY <1>1, RpcAssumption DEF Slots
  <2>1. rpSlot'[j] = rpSlot[j]
    BY <1>5, <2>0
  <2>2. PICK d \in Clients : rpConn[d].fd = rpSlot[j] /\ Readable(d)
    BY <1>1, <2>0, <2>1 DEF RpInv, StillReady
  <2>3. rpSlot[j] # rpSlot[i]
    BY <1>1, <2>0 DEF RpInv, OneSlotEach
  <2>4. d # c
    BY <1>2, <2>2, <2>3
  <2>5. rpConn'[d] = rpConn[d]
    BY <1>3, <1>5, <2>4
  <2> QED BY <2>1, <2>2, <2>5 DEF Readable
<1>6. CASE AnswerRequest(i) /\ ~x.clientShut
  <2> DEFINE y == [x EXCEPT !.req = Tail(x.req), !.rep = Append(x.rep, Reply(Head(x.req)))]
  <2>1. /\ rpConn' = [rpConn EXCEPT ![c] = y] /\ UNCHANGED <<rpSlot, rpClient>>
        /\ x.req # <<>>
    BY <1>6 DEF AnswerRequest, HasRequest, c
  <2>2. /\ y \in ConnRecs /\ y.fd = x.fd /\ y.serverShut = x.serverShut /\ InOrder(k, y)
    BY <1>3, <2>1, AnswerKeepsOrder
  <2> HIDE DEF y
  <2>3. \A d \in Clients : /\ rpConn'[d] = IF d = c THEN y ELSE rpConn[d]
                           /\ rpConn'[d].fd = rpConn[d].fd
    BY <1>3, <2>1, <2>2
  <2>4. RpTypes'
    BY <1>3, <1>4, <2>1, <2>2 DEF RpTypes, Slots
  <2>5. OneSlotEach'
    BY <2>1, <2>3 DEF RpInv, OneSlotEach, Slots
  <2>6. StillReady'
    BY <1>5, <2>1, <2>2
  <2>7. ASSUME NEW d \in Clients
        PROVE  NoFd(rpClient'[d], rpConn'[d]) /\ InOrder(rpClient'[d], rpConn'[d])
    <3>1. CASE d = c
      BY <1>3, <2>1, <2>2, <2>3, <3>1 DEF NoFd
    <3>2. CASE d # c
      BY <2>1, <2>3, <3>2 DEF RpInv
    <3> QED BY <3>1, <3>2
  <2>8. \A d \in Clients : NoFd(rpClient[d], rpConn[d])' /\ InOrder(rpClient[d], rpConn[d])'
    BY <2>7 DEF NoFd, InOrder, Waits, Numbered
  <2> QED BY <2>4, <2>5, <2>6, <2>8 DEF RpInv
<1>7. CASE HangUp(i) \/ (AnswerRequest(i) /\ x.clientShut)
  <2> DEFINE m == [k EXCEPT !.pc = "off"]
  <2>1. /\ rpConn' = [rpConn EXCEPT ![c] = Closed] /\ rpClient' = [rpClient EXCEPT ![c] = m]
        /\ rpSlot' = [rpSlot EXCEPT ![i] = 0]
    BY <1>7 DEF AnswerRequest, HangUp, close_client, Closed, c
  <2>2. m \in ClientRecs /\ m.pc = "off"
    BY <1>3 DEF ClientRecs
  <2>3. /\ Closed \in ConnRecs /\ Closed.fd = 0 /\ NoFd(m, Closed) /\ InOrder(m, Closed)
    BY <2>2, ClosedConn
  <2> HIDE DEF m
  <2>4. /\ \A d \in Clients : /\ rpConn'[d] = IF d = c THEN Closed ELSE rpConn[d]
                              /\ rpClient'[d] = IF d = c THEN m ELSE rpClient[d]
                              /\ rpConn'[d].fd = IF d = c THEN 0 ELSE rpConn[d].fd
        /\ \A j \in Slots : rpSlot'[j] = IF j = i THEN 0 ELSE rpSlot[j]
    BY <1>3, <2>1, <2>3
  <2>5. RpTypes'
    BY <1>3, <1>4, <2>1, <2>2, <2>3 DEF RpTypes, Slots
  <2>6. OneSlotEach'
    <3>1. \A j, l \in Slots : rpSlot'[j] # 0 /\ rpSlot'[j] = rpSlot'[l] => j = l
      BY <2>4 DEF RpInv, OneSlotEach
    <3>2. \A d, e \in Clients : rpConn'[d].fd # 0 /\ rpConn'[d].fd = rpConn'[e].fd => d = e
      BY <2>4 DEF RpInv, OneSlotEach
    <3>3. ASSUME NEW j \in Slots, rpSlot'[j] # 0
          PROVE  \E d \in Clients : rpConn'[d].fd = rpSlot'[j]
      <4>1. j # i /\ rpSlot'[j] = rpSlot[j]
        BY <2>4, <3>3
      <4>2. PICK d \in Clients : rpConn[d].fd = rpSlot[j]
        BY <3>3, <4>1 DEF RpInv, OneSlotEach
      <4>3. d # c
        BY <1>1, <1>2, <3>3, <4>1, <4>2 DEF RpInv, OneSlotEach
      <4> QED BY <2>4, <4>1, <4>2, <4>3
    <3>4. ASSUME NEW d \in Clients, rpConn'[d].fd # 0
          PROVE  \E j \in Slots : rpSlot'[j] = rpConn'[d].fd
      <4>1. d # c /\ rpConn'[d].fd = rpConn[d].fd
        BY <2>4, <3>4
      <4>2. PICK j \in Slots : rpSlot[j] = rpConn[d].fd
        BY <3>4, <4>1 DEF RpInv, OneSlotEach
      <4>3. j # i
        BY <1>2, <4>1, <4>2
      <4> QED BY <2>4, <4>1, <4>2, <4>3
    <3> QED BY <3>1, <3>2, <3>3, <3>4 DEF OneSlotEach, Slots
  <2>7. StillReady'
    BY <1>5, <2>1, <2>3, <2>4
  <2>8. ASSUME NEW d \in Clients
        PROVE  NoFd(rpClient'[d], rpConn'[d]) /\ InOrder(rpClient'[d], rpConn'[d])
    <3>1. CASE d = c
      BY <2>3, <2>4, <3>1
    <3>2. CASE d # c
      BY <2>4, <3>2 DEF RpInv
    <3> QED BY <3>1, <3>2
  <2>9. \A d \in Clients : NoFd(rpClient[d], rpConn[d])' /\ InOrder(rpClient[d], rpConn[d])'
    BY <2>8 DEF NoFd, InOrder, Waits, Numbered
  <2> QED BY <2>5, <2>6, <2>7, <2>9 DEF RpInv
<1> QED BY <1>1, <1>6, <1>7

(* mpc_handle_connection() keeps the invariant, at the end of the action.  *)
LEMMA HandleConnection ==
  ASSUME RpInv, NEW c \in Listening, mpc_handle_connection(c), rpServer' = Idle
  PROVE  RpInv'
<1> DEFINE k == rpClient[c]
           x == rpConn[c]
<1>1. c \in Clients /\ k.pc # "off" /\ x.fd = 0 /\ ~x.serverShut
  BY DEF Listening
<1>2. /\ k \in ClientRecs /\ x \in ConnRecs /\ NoFd(k, x) /\ InOrder(k, x)
      /\ rpClient \in [Clients -> ClientRecs] /\ rpConn \in [Clients -> ConnRecs]
      /\ rpSlot \in [Slots -> Nat]
  BY <1>1 DEF RpInv, RpTypes
<1>3. /\ rpServer' \in [pc : {"select", "slots"}, set : SUBSET Nat, slot : Nat]
      /\ rpServer'.pc = "select"
  BY DEF Idle
<1>4. StillReady'
  BY <1>3 DEF StillReady
<1>5. CASE \E j \in Slots : rpSlot[j] = 0
  <2> DEFINE F == {j \in Slots : rpSlot[j] = 0}
             i == Min(F)
             fd == NewFd
             y == [x EXCEPT !.fd = fd]
  <2>1. /\ rpSlot' = [rpSlot EXCEPT ![i] = fd] /\ rpConn' = [rpConn EXCEPT ![c] = y]
        /\ rpClient' = rpClient
    BY <1>5 DEF mpc_handle_connection
  <2>2. i \in Slots /\ rpSlot[i] = 0
    <3>1. F # {} /\ F \subseteq Nat
      BY <1>5, RpcAssumption DEF Slots
    <3>2. Min(F) \in F
      BY <3>1, LeastOf
    <3> QED BY <3>2
  <2>3. /\ fd \in Nat /\ fd # 0 /\ \A d \in Clients : rpConn[d].fd # fd
        /\ \A j \in Slots : rpSlot[j] # fd
    BY FreshFd DEF RpInv
  <2> HIDE DEF i, fd
  <2>4. /\ y \in ConnRecs /\ y.fd = fd /\ y.req = x.req /\ y.rep = x.rep
        /\ y.serverShut = x.serverShut
    BY <1>2, <2>3 DEF ConnRecs
  <2> HIDE DEF y
  <2>5. /\ \A d \in Clients : /\ rpConn'[d] = IF d = c THEN y ELSE rpConn[d]
                              /\ rpConn'[d].fd = IF d = c THEN fd ELSE rpConn[d].fd
        /\ \A j \in Slots : rpSlot'[j] = IF j = i THEN fd ELSE rpSlot[j]
    BY <1>1, <1>2, <2>1, <2>2, <2>4
  <2>6. RpTypes'
    BY <1>2, <1>3, <2>1, <2>3, <2>4 DEF RpTypes, Slots
  <2>7. OneSlotEach'
    <3>1. \A j, l \in Slots : rpSlot'[j] # 0 /\ rpSlot'[j] = rpSlot'[l] => j = l
      BY <2>3, <2>5 DEF RpInv, OneSlotEach
    <3>2. \A d, e \in Clients : rpConn'[d].fd # 0 /\ rpConn'[d].fd = rpConn'[e].fd => d = e
      BY <2>3, <2>5 DEF RpInv, OneSlotEach
    <3>3. ASSUME NEW j \in Slots, rpSlot'[j] # 0
          PROVE  \E d \in Clients : rpConn'[d].fd = rpSlot'[j]
      <4>1. CASE j = i
        BY <1>1, <2>5, <4>1
      <4>2. CASE j # i
        <5>1. PICK d \in Clients : rpConn[d].fd = rpSlot[j] /\ rpSlot[j] # 0
          BY <2>5, <3>3, <4>2 DEF RpInv, OneSlotEach
        <5>2. d # c
          BY <1>1, <5>1
        <5> QED BY <2>5, <4>2, <5>1, <5>2
      <4> QED BY <4>1, <4>2
    <3>4. ASSUME NEW d \in Clients, rpConn'[d].fd # 0
          PROVE  \E j \in Slots : rpSlot'[j] = rpConn'[d].fd
      <4>1. CASE d = c
        BY <2>2, <2>5, <4>1
      <4>2. CASE d # c
        <5>1. PICK j \in Slots : rpSlot[j] = rpConn[d].fd /\ rpSlot[j] # 0
          BY <2>5, <3>4, <4>2 DEF RpInv, OneSlotEach
        <5>2. j # i
          BY <2>2, <5>1
        <5> QED BY <2>5, <4>2, <5>1, <5>2
      <4> QED BY <4>1, <4>2
    <3> QED BY <3>1, <3>2, <3>3, <3>4 DEF OneSlotEach, Slots
  <2>8. ASSUME NEW d \in Clients
        PROVE  NoFd(rpClient'[d], rpConn'[d]) /\ InOrder(rpClient'[d], rpConn'[d])
    <3>1. CASE d = c
      <4>1. NoFd(k, y)
        BY <1>1, <2>4 DEF NoFd
      <4>2. InOrder(k, y)
        BY <1>2, <2>4 DEF InOrder
      <4> QED BY <2>1, <2>5, <3>1, <4>1, <4>2
    <3>2. CASE d # c
      BY <2>1, <2>5, <3>2 DEF RpInv
    <3> QED BY <3>1, <3>2
  <2>9. \A d \in Clients : NoFd(rpClient[d], rpConn[d])' /\ InOrder(rpClient[d], rpConn[d])'
    BY <2>8 DEF NoFd, InOrder, Waits, Numbered
  <2> QED BY <1>4, <2>6, <2>7, <2>9 DEF RpInv
<1>6. CASE ~\E j \in Slots : rpSlot[j] = 0
  <2> DEFINE p == IF k.pc = "gone" THEN "off" ELSE k.pc
             m == [k EXCEPT !.pc = p]
  <2>1. /\ rpSlot' = rpSlot /\ rpConn' = [rpConn EXCEPT ![c] = Closed]
        /\ rpClient' = [rpClient EXCEPT ![c] = m]
    BY <1>6 DEF mpc_handle_connection, Closed
  <2>2. /\ m \in ClientRecs /\ m.pc = p /\ m.n = k.n /\ m.late = k.late /\ m.took = k.took
    BY <1>2 DEF ClientRecs
  <2> HIDE DEF m
  <2>3. NoFd(m, Closed) /\ Closed \in ConnRecs /\ Closed.fd = 0
    BY ClosedConn
  <2>4. InOrder(m, Closed)
    <3>1. InOrder(k, Closed)
      BY <1>2, ClosedInOrder
    <3> QED BY <2>2, <3>1 DEF InOrder, Waits
  <2>5. \A d \in Clients : /\ rpConn'[d] = IF d = c THEN Closed ELSE rpConn[d]
                           /\ rpClient'[d] = IF d = c THEN m ELSE rpClient[d]
                           /\ rpConn'[d].fd = rpConn[d].fd
    BY <1>1, <1>2, <2>1, <2>3
  <2>6. RpTypes'
    BY <1>2, <1>3, <2>1, <2>2, <2>3 DEF RpTypes, Slots
  <2>7. OneSlotEach'
    BY <2>1, <2>5 DEF RpInv, OneSlotEach, Slots
  <2>8. ASSUME NEW d \in Clients
        PROVE  NoFd(rpClient'[d], rpConn'[d]) /\ InOrder(rpClient'[d], rpConn'[d])
    <3>1. CASE d = c
      BY <2>3, <2>4, <2>5, <3>1
    <3>2. CASE d # c
      BY <2>5, <3>2 DEF RpInv
    <3> QED BY <3>1, <3>2
  <2>9. \A d \in Clients : NoFd(rpClient[d], rpConn[d])' /\ InOrder(rpClient[d], rpConn[d])'
    BY <2>8 DEF NoFd, InOrder, Waits, Numbered
  <2> QED BY <1>4, <2>6, <2>7, <2>9 DEF RpInv
<1> QED BY <1>5, <1>6

(* A step that changes neither clients nor connections nor slots.          *)
LEMMA ServerMoves ==
  ASSUME RpInv, UNCHANGED <<rpClient, rpConn, rpSlot>>, StillReady',
         rpServer' \in [pc : {"select", "slots"}, set : SUBSET Nat, slot : Nat]
  PROVE  RpInv'
<1>1. RpTypes' /\ OneSlotEach'
  BY DEF RpInv, RpTypes, OneSlotEach, Slots
<1>2. \A d \in Clients : NoFd(rpClient[d], rpConn[d])' /\ InOrder(rpClient[d], rpConn[d])'
  <2> SUFFICES ASSUME NEW d \in Clients
               PROVE  NoFd(rpClient'[d], rpConn'[d]) /\ InOrder(rpClient'[d], rpConn'[d])
    BY DEF NoFd, InOrder, Waits, Numbered
  <2> QED BY DEF RpInv
<1> QED BY <1>1, <1>2 DEF RpInv

(* Every step keeps the invariant.                                         *)
LEMMA RpStep ==
  ASSUME RpInv, [RpNext]_rpVars
  PROVE  RpInv'
<1> DEFINE Server == [pc : {"select", "slots"}, set : SUBSET Nat, slot : Nat]
<1>0. rpServer \in Server /\ rpConn \in [Clients -> ConnRecs] /\ rpSlot \in [Slots -> Nat]
  BY DEF RpInv, RpTypes
<1>1. ASSUME NEW c \in Clients, Call(c) PROVE RpInv'
  BY <1>1, ClientStep
<1>2. CASE Select
  <2>1. UNCHANGED <<rpClient, rpConn, rpSlot>> /\ rpServer' = [pc |-> "slots", set |-> Ready, slot |-> 1]
    BY <1>2 DEF Select
  <2>2. Ready \subseteq Nat
    BY <1>0 DEF Ready, ConnRecs
  <2>3. rpServer' \in Server
    BY <2>1, <2>2
  <2>4. ASSUME NEW i \in Slots, rpSlot[i] # 0, rpSlot[i] \in Ready
        PROVE  \E c \in Clients : rpConn[c].fd = rpSlot[i] /\ Readable(c)
    BY <2>4 DEF Ready
  <2>5. StillReady'
    BY <2>1, <2>4 DEF StillReady, Slots, Readable
  <2> QED BY <2>1, <2>3, <2>5, ServerMoves
<1>3. CASE mpc_handle_client
  BY <1>3, HandleClient
<1>4. CASE SkipSlot
  <2>1. /\ UNCHANGED <<rpClient, rpConn, rpSlot>> /\ rpServer' = [rpServer EXCEPT !.slot = @ + 1]
        /\ rpServer.pc = "slots"
    BY <1>4 DEF SkipSlot, NextSlot
  <2>2. /\ rpServer' \in Server /\ rpServer'.set = rpServer.set
        /\ rpServer'.slot = rpServer.slot + 1 /\ rpServer.slot \in Nat
    BY <1>0, <2>1
  <2>3. ASSUME NEW i \in Slots, i >= rpServer.slot + 1 PROVE i >= rpServer.slot
    BY <2>2, <2>3, RpcAssumption DEF Slots
  <2>4. StillReady'
    BY <2>1, <2>2, <2>3 DEF RpInv, StillReady, Slots, Readable
  <2> QED BY <2>1, <2>2, <2>4, ServerMoves
<1>5. CASE EndOfAction
  <2>1. rpServer' = Idle
    BY <1>5 DEF EndOfAction
  <2>2. rpServer' \in Server /\ rpServer'.pc = "select"
    BY <2>1 DEF Idle
  <2>3. StillReady'
    BY <2>2 DEF StillReady
  <2>4. CASE 0 \in rpServer.set
    BY <1>5, <2>1, <2>4, HandleConnection DEF EndOfAction
  <2>5. CASE 0 \notin rpServer.set
    BY <1>5, <2>2, <2>3, <2>5, ServerMoves DEF EndOfAction
  <2> QED BY <2>4, <2>5
<1>6. ASSUME UNCHANGED <<rpClient, rpConn, rpSlot, rpServer>> PROVE RpInv'
  <2>1. StillReady'
    BY <1>6 DEF RpInv, StillReady, Slots, Readable
  <2> QED BY <1>0, <1>6, <2>1, ServerMoves
<1>7. ASSUME NEW f \in Functions, minipc_export(f) \/ minipc_unexport(f) PROVE RpInv'
  BY <1>6, <1>7 DEF minipc_export, minipc_unexport
<1>8. CASE UNCHANGED rpVars
  BY <1>6, <1>8 DEF rpVars
<1> QED BY <1>1, <1>2, <1>3, <1>4, <1>5, <1>7, <1>8 DEF RpNext, minipc_server_action

(* With any number of clients that call, give up, hang up and come back,   *)
(* and any number of slots: the server never waits in recv(), and every    *)
(* answer a client takes is that of its call, or of one as many calls back *)
(* as timed out on the connection (minipc_server_action(),                 *)
(* mpc_handle_client(), minipc_call()).                                    *)
THEOREM CallsAnswered == RpSpec => []RpcSound
<1>1. RpInit => RpInv
  <2> SUFFICES ASSUME RpInit PROVE RpInv
    OBVIOUS
  <2>1. RpTypes
    <3>1. NoConn \in ConnRecs
      BY DEF NoConn, ConnRecs
    <3>2. [pc |-> "off", conns |-> 0, n |-> 0, late |-> 0, took |-> <<>>] \in ClientRecs
      BY DEF ClientRecs
    <3>3. Idle \in [pc : {"select", "slots"}, set : SUBSET Nat, slot : Nat]
      BY DEF Idle
    <3> QED BY <3>1, <3>2, <3>3 DEF RpInit, RpTypes
  <2>2. /\ \A c \in Clients : rpConn[c].fd = 0 /\ rpClient[c].pc = "off"
        /\ \A i \in Slots : rpSlot[i] = 0
        /\ rpServer.pc = "select"
    BY DEF RpInit, NoConn, Idle
  <2> QED BY <2>1, <2>2 DEF RpInv, OneSlotEach, NoFd, StillReady, InOrder
<1>2. RpInv /\ [RpNext]_rpVars => RpInv'
  BY RpStep
<1>3. RpInv => RpcSound
  <2> SUFFICES ASSUME RpInv PROVE OwnAnswer
    BY ReadyMeansData DEF RpcSound
  <2> SUFFICES ASSUME NEW c \in Clients, rpClient[c].pc = "ready", rpClient[c].took # <<>>
               PROVE  rpClient[c].took[2] \in (rpClient[c].n - rpClient[c].late)..rpClient[c].n
    BY DEF OwnAnswer
  <2>1. InOrder(rpClient[c], rpConn[c]) /\ rpClient[c].n \in Nat /\ rpClient[c].late \in Nat
    BY DEF RpInv, RpTypes, ClientRecs
  <2>2. Waits(rpClient[c]) = 0
    BY DEF Waits
  <2>3. rpClient[c].took[2] \in (rpClient[c].n - rpClient[c].late - 0)..rpClient[c].n
    BY <2>1, <2>2 DEF InOrder
  <2>4. rpClient[c].n - rpClient[c].late - 0 = rpClient[c].n - rpClient[c].late
    BY <2>1
  <2> QED BY <2>3, <2>4
<1> QED BY <1>1, <1>2, <1>3, PTL DEF RpSpec
==============================================================================
