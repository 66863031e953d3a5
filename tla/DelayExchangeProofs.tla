------------------------ MODULE DelayExchangeProofs -------------------------
(***************************************************************************)
(* For any masters, in one step or two, end to end or peer to peer, and    *)
(* any number of messages, faults and changes of the parent: the servo of  *)
(* DelayExchange computes with time stamps that belong together, and with  *)
(* each Sync once only.                                                    *)
(***************************************************************************)
EXTENDS DelayExchange, TLAPS

Stamps == (Masters \cup {"zero", "incorrect", "sent"}) \X Nat

DxMsgs == [type : {"SYNC", "FOLLOW_UP", "DELAY_RESP", "PDELAY_RESP", "PDELAY_R_FUP"},
           from : Masters, seq : Nat \ {0}]

DxPortType ==
  [state : {"UNCALIBRATED", "SLAVE", "FAULTY"}, fresh : BOOLEAN, parent : Masters,
   newGM : BOOLEAN, waiting : BOOLEAN, recvSeq : Nat, t : [0..6 -> Stamps], lastSnt : Stamps,
   seq : Nat, dresp : BOOLEAN, dfup : BOOLEAN, got : BOOLEAN,
   st : [0..6 -> Stamps], used : [0..6 -> Stamps]]

DxTypeOK ==
  /\ dxMode \in DxModes
  /\ dxPort \in DxPortType
  /\ dxNet \subseteq DxMsgs
  /\ dxSyncSeq \in [Masters -> Nat]
  /\ dxReqs \subseteq Masters \X (Nat \ {0})

-----------------------------------------------------------------------------
(* The parts of the inductive invariant that are about a port p.           *)

(* While the port waits for a Follow_Up, t2 is that of the Sync it is to   *)
(* follow, and not yet in the servo.                                       *)
PairWaits(p) ==
  p.waiting =>
    /\ p.recvSeq > 0
    /\ p.t[2] # Incorrect => p.t[2][2] = p.recvSeq /\ p.t[2] # p.st[2] /\ p.t[2] # p.used[2]

(* Peer to peer, t4 and t6 are those of the last request, or missing.      *)
PeerAnswer(p) ==
  ~E2E /\ p.t[4] # Incorrect =>
    p.t[4][2] = p.seq /\ (p.t[6] # Incorrect => p.t[6][2] = p.seq)

(* What the servo has taken.                                               *)
ServoHas(p) ==
  /\ \A i \in 1..6 : p.st[i] # Incorrect
  /\ E2E /\ p.got => p.st[1][2] = p.st[2][2] /\ p.st[1][2] > 0 /\ p.st[2] # p.used[2]
  /\ ~E2E => p.st[4][2] = p.st[3][2] /\ p.st[5][2] = p.st[3][2] /\ p.st[6][2] = p.st[3][2]

(* StampsOfOneExchange of the port p.                                      *)
OneExchange(p) ==
  p.used # AllZero =>
    /\ p.used[1][2] = p.used[2][2] /\ p.used[1][2] > 0
    /\ p.used[3][2] = p.used[4][2]
    /\ ~E2E => p.used[5][2] = p.used[3][2] /\ p.used[6][2] = p.used[3][2]
    /\ E2E => p.used[3] # Zero
    /\ \A i \in 1..6 : p.used[i] # Incorrect

(* In state SLAVE, unless the parent has just changed, what the servo has  *)
(* and had came from the parent; in UNCALIBRATED it is about to be reset.  *)
OfParent(p) ==
  /\ p.state = "UNCALIBRATED" => p.fresh
  /\ p.state = "SLAVE" /\ ~p.newGM =>
       /\ p.used # AllZero => p.used[1][1] = p.parent /\ (E2E => p.used[4][1] = p.parent)
       /\ E2E /\ p.got => p.st[1][1] = p.parent

PortInv(p) ==
  p \in DxPortType /\ PairWaits(p) /\ PeerAnswer(p) /\ ServoHas(p) /\ OneExchange(p) /\ OfParent(p)

(* A Sync whose reception stamp is x has been sent.                        *)
Seen(x) == x \in {Zero, Incorrect} \/ (x[1] \in Masters /\ x[2] \in 1..dxSyncSeq[x[1]])

(* The stamps t2 that the port and its servo hold are of Syncs that were   *)
(* sent and are under way no more.                                         *)
SyncsOnce ==
  /\ Seen(dxPort.t[2]) /\ Seen(dxPort.st[2]) /\ Seen(dxPort.used[2])
  /\ \A m \in dxNet :
       m.type = "SYNC" =>
         /\ m.seq <= dxSyncSeq[m.from]
         /\ Stamp(m.from, m.seq) \notin {dxPort.t[2], dxPort.st[2], dxPort.used[2]}

(* A request of number s was sent, and when it was the last one, t3 is its *)
(* departure or missing.                                                   *)
Sent(p, s) == s <= p.seq /\ (s = p.seq => p.t[3] \in {Incorrect, Stamp("sent", p.seq)})

(* All answers under way answer requests that were sent.                   *)
AnswersSent ==
  /\ \A r \in dxReqs : Sent(dxPort, r[2])
  /\ \A m \in dxNet :
       /\ m.type \notin {"SYNC", "FOLLOW_UP"} => Sent(dxPort, m.seq)
       /\ m.type = "DELAY_RESP" => E2E

(* The inductive invariant.                                                *)
DxInv == DxTypeOK /\ PortInv(dxPort) /\ SyncsOnce /\ AnswersSent

-----------------------------------------------------------------------------
(* The servo.                                                              *)

(* What a part of a call that leaves q of p may do to the stamps of Syncs: *)
(* it moves those that are there, and computes only when a Sync waits for  *)
(* the servo, with another t2 than the last time.                          *)
Moves(p, q) ==
  /\ q.seq = p.seq /\ q.t[3] = p.t[3]
  /\ {q.t[2], q.st[2], q.used[2]} \subseteq {Zero, p.t[2], p.st[2], p.used[2]}
  /\ q.used = p.used \/ (p.got /\ q.used[2] # p.used[2])

(* What the servo and the handlers of time stamps leave alone.             *)
Besides(p, q) ==
  /\ q.state = p.state /\ q.fresh = p.fresh /\ q.parent = p.parent /\ q.newGM = p.newGM
  /\ q.seq = p.seq

(* The stamps a port starts with are stamps.                               *)
LEMMA StampTypes ==
  /\ Zero \in Stamps /\ Incorrect \in Stamps /\ AllZero \in [0..6 -> Stamps]
  /\ Zero # Incorrect /\ Zero[2] = 0 /\ Incorrect[2] = 0
  /\ \A i \in 0..6 : AllZero[i] = Zero
<1>1. Zero \in Stamps /\ Incorrect \in Stamps
  BY DEF Stamps, Zero, Incorrect
<1>2. Zero # Incorrect /\ Zero[2] = 0 /\ Incorrect[2] = 0
  BY DEF Zero, Incorrect
<1>3. (\A i \in 0..6 : AllZero[i] = Zero) /\ AllZero \in [0..6 -> Stamps]
  BY <1>1 DEF AllZero
<1> QED BY <1>1, <1>2, <1>3

(* pp_servo_got_sync(), with t1 and t2 of a Sync it has not seen.          *)
LEMMA GotSync ==
  ASSUME NEW p, PortInv(p), ~p.waiting,
         p.t[1][1] = p.parent, p.t[1][2] = p.t[2][2], p.t[2][2] > 0,
         p.t[1] # Incorrect, p.t[2] # Incorrect, p.t[2] # p.used[2],
         NEW q \in pp_servo_got_sync(p)
  PROVE  PortInv(q) /\ Moves(p, q)
<1> DEFINE st == [p.st EXCEPT ![0] = p.t[0], ![1] = p.t[1], ![2] = p.t[2]]
           r == [p EXCEPT !.st = st]
<1>1. p \in DxPortType
  BY DEF PortInv
<1>2. /\ st \in [0..6 -> Stamps]
      /\ st[0] = p.t[0] /\ st[1] = p.t[1] /\ st[2] = p.t[2]
      /\ \A i \in 3..6 : st[i] = p.st[i]
  BY <1>1 DEF DxPortType
<1> HIDE DEF st
<1>3. \/ q = [r EXCEPT !.got = TRUE] /\ (E2E \/ ~p.got)
      \/ q = [r EXCEPT !.got = FALSE] /\ ~E2E
      \/ q = [r EXCEPT !.got = FALSE, !.used = st] /\ ~E2E /\ p.got
      \/ q = [r EXCEPT !.got = FALSE, !.used = st, !.st = AllZero] /\ ~E2E /\ p.got
  BY <1>1, ZenonT(60) DEF pp_servo_got_sync, Update, pp_servo_init, DxPortType, st
<1>4. q \in DxPortType
  <2>1. r \in DxPortType
    BY <1>1, <1>2 DEF DxPortType
  <2> HIDE DEF r
  <2>2. CASE q = [r EXCEPT !.got = TRUE] \/ q = [r EXCEPT !.got = FALSE]
    BY <2>1, <2>2, ZenonT(60) DEF DxPortType
  <2>3. CASE q = [r EXCEPT !.got = FALSE, !.used = st]
    BY <1>2, <2>1, <2>3 DEF DxPortType
  <2>4. CASE q = [r EXCEPT !.got = FALSE, !.used = st, !.st = AllZero]
    BY <1>2, <2>1, <2>4, StampTypes DEF DxPortType
  <2> QED BY <1>3, <2>2, <2>3, <2>4
<1>5. Besides(p, q) /\ q.t = p.t /\ q.waiting = p.waiting
  BY <1>1, <1>3 DEF DxPortType, Besides
<1>6. \/ q.st = st /\ q.used = p.used /\ q.got
      \/ q.st = st /\ q.used = p.used /\ ~q.got /\ ~E2E
      \/ q.st \in {st, AllZero} /\ q.used = st /\ ~q.got /\ ~E2E /\ p.got
  BY <1>1, <1>3 DEF DxPortType
<1>7. PairWaits(q)
  BY <1>5 DEF PairWaits
<1>8. PeerAnswer(q)
  BY <1>5 DEF PeerAnswer, PortInv, Besides
<1>9. ServoHas(q)
  BY <1>2, <1>6, StampTypes DEF ServoHas, PortInv
<1>10. OneExchange(q)
  BY <1>2, <1>6, StampTypes DEF OneExchange, ServoHas, PortInv
<1>11. OfParent(q)
  BY <1>2, <1>5, <1>6, StampTypes DEF OfParent, PortInv, Besides
<1>12. Moves(p, q)
  BY <1>2, <1>5, <1>6, StampTypes DEF Moves, Besides
<1> QED BY <1>4, <1>7, <1>8, <1>9, <1>10, <1>11, <1>12 DEF PortInv

(* pp_servo_got_resp(), with t4 of the parent's answer to the last request.*)
LEMMA GotResp ==
  ASSUME NEW p, PortInv(p), E2E, p.seq > 0,
         p.t[4] = Stamp(p.parent, p.seq),
         p.t[3] \in {Incorrect, Stamp("sent", p.seq)},
         NEW q \in pp_servo_got_resp(p)
  PROVE  PortInv(q) /\ Moves(p, q)
<1> DEFINE st == [p.st EXCEPT ![3] = p.t[3], ![4] = p.t[4]]
<1>1. p \in DxPortType
  BY DEF PortInv
<1>2. /\ st \in [0..6 -> Stamps]
      /\ st[3] = p.t[3] /\ st[4] = p.t[4]
      /\ \A i \in {0, 1, 2, 5, 6} : st[i] = p.st[i]
  BY <1>1 DEF DxPortType
<1> HIDE DEF st
<1>3. \/ q = p
      \/ q = [p EXCEPT !.got = FALSE] /\ p.got
      \/ q = [p EXCEPT !.got = FALSE, !.st = st] /\ p.got /\ p.t[3] # Incorrect
      \/ q = [p EXCEPT !.got = FALSE, !.st = st, !.used = st] /\ p.got /\ p.t[3] # Incorrect
      \/ q = [p EXCEPT !.got = FALSE, !.st = AllZero, !.used = st] /\ p.got /\ p.t[3] # Incorrect
  <2> DEFINE r == [p EXCEPT !.got = FALSE]
             u == [r EXCEPT !.st[3] = p.t[3], !.st[4] = p.t[4]]
  <2>1. u = [p EXCEPT !.got = FALSE, !.st = st]
    BY <1>1 DEF st, DxPortType
  <2>2. p.got /\ ~bad(r, {3, 4}) => p.t[3] # Incorrect
    BY <1>1 DEF bad, DxPortType
  <2>3. q = p \/ (p.got /\ q = r) \/ (p.got /\ ~bad(r, {3, 4}) /\ q \in Update(u))
    BY DEF pp_servo_got_resp
  <2>4. q \in Update(u) => q \in {u, [u EXCEPT !.used = u.st], pp_servo_init([u EXCEPT !.used = u.st])}
    BY DEF Update
  <2> HIDE DEF u
  <2>5. [u EXCEPT !.used = u.st] = [p EXCEPT !.got = FALSE, !.st = st, !.used = st]
    BY <2>1, <1>1 DEF DxPortType
  <2>6. pp_servo_init([u EXCEPT !.used = u.st])
          = [p EXCEPT !.got = FALSE, !.st = AllZero, !.used = st]
    BY <2>5, <1>1 DEF DxPortType, pp_servo_init
  <2> QED BY <2>1, <2>2, <2>3, <2>4, <2>5, <2>6
<1>4. q \in DxPortType
  <2>1. CASE q = p
    BY <2>1, <1>1
  <2>2. CASE q = [p EXCEPT !.got = FALSE]
    BY <2>2, <1>1 DEF DxPortType
  <2>3. CASE q = [p EXCEPT !.got = FALSE, !.st = st]
    BY <2>3, <1>1, <1>2 DEF DxPortType
  <2>4. CASE q = [p EXCEPT !.got = FALSE, !.st = st, !.used = st]
    BY <2>4, <1>1, <1>2 DEF DxPortType
  <2>5. CASE q = [p EXCEPT !.got = FALSE, !.st = AllZero, !.used = st]
    BY <2>5, <1>1, <1>2, StampTypes DEF DxPortType
  <2> QED BY <2>1, <2>2, <2>3, <2>4, <2>5, <1>3
<1>5. Besides(p, q) /\ q.t = p.t /\ q.waiting = p.waiting /\ q.recvSeq = p.recvSeq
  BY <1>1, <1>3, ZenonT(60) DEF DxPortType, Besides
<1>6. \/ q.st = p.st /\ q.used = p.used /\ (q.got => p.got)
      \/ q.st = st /\ q.used = p.used /\ ~q.got /\ p.t[3] # Incorrect
      \/ q.st \in {st, AllZero} /\ q.used = st /\ ~q.got /\ p.got /\ p.t[3] # Incorrect
  BY <1>1, <1>3 DEF DxPortType
<1>7. p.t[4] # Incorrect /\ (p.t[3] # Incorrect => p.t[3] # Zero /\ p.t[3][2] = p.t[4][2])
  BY DEF Stamp, Incorrect, Zero
<1>8. PairWaits(q)
  BY <1>2, <1>5, <1>6, StampTypes DEF PairWaits, PortInv
<1>9. PeerAnswer(q)
  BY DEF PeerAnswer
<1>10. ServoHas(q)
  BY <1>2, <1>6, <1>7, StampTypes DEF ServoHas, PortInv
<1>11. OneExchange(q)
  BY <1>2, <1>6, <1>7, StampTypes DEF OneExchange, ServoHas, PortInv
<1>12. OfParent(q)
  <2>1. p.t[4][1] = p.parent
    BY DEF Stamp
  <2> QED BY <2>1, <1>2, <1>5, <1>6, StampTypes DEF OfParent, PortInv, Besides
<1>13. Moves(p, q)
  BY <1>2, <1>5, <1>6, StampTypes DEF Moves, Besides, ServoHas, PortInv
<1> QED BY <1>4, <1>8, <1>9, <1>10, <1>11, <1>12, <1>13 DEF PortInv

(* presp_call_servo(), with t5 of an answer to the last request.           *)
LEMMA GotPresp ==
  ASSUME NEW p, PortInv(p), ~E2E, p.seq > 0,
         p.t[5][2] = p.seq,
         p.t[3] \in {Incorrect, Stamp("sent", p.seq)},
         NEW q \in presp_call_servo(p)
  PROVE  PortInv(q) /\ Moves(p, q)
<1> DEFINE st == [i \in 0..6 |-> IF i >= 3 THEN p.t[i] ELSE p.st[i]]
<1>1. p \in DxPortType
  BY DEF PortInv
<1>2. /\ st \in [0..6 -> Stamps]
      /\ \A i \in 0..2 : st[i] = p.st[i]
      /\ \A i \in 3..6 : st[i] = p.t[i]
  BY <1>1 DEF DxPortType
<1> HIDE DEF st
<1>3. \/ q = p
      \/ q = [p EXCEPT !.got = TRUE, !.st = st] /\ \A i \in 3..6 : p.t[i] # Incorrect
  <2>1. [p EXCEPT !.st = [i \in 0..6 |-> IF i >= 3 THEN p.t[i] ELSE @[i]], !.got = TRUE]
          = [p EXCEPT !.got = TRUE, !.st = st]
    BY <1>1 DEF st, DxPortType
  <2>2. ~bad(p, {3, 4, 5, 6}) => \A i \in 3..6 : p.t[i] # Incorrect
    BY DEF bad
  <2> QED BY <2>1, <2>2 DEF presp_call_servo, pp_servo_got_presp
<1>4. q \in DxPortType
  BY <1>1, <1>2, <1>3 DEF DxPortType
<1>5. Besides(p, q) /\ q.t = p.t /\ q.waiting = p.waiting /\ q.recvSeq = p.recvSeq
      /\ q.used = p.used
  BY <1>1, <1>3 DEF DxPortType, Besides
<1>6. q.st = p.st \/ (q.st = st /\ \A i \in 3..6 : p.t[i] # Incorrect)
  BY <1>1, <1>3 DEF DxPortType
<1>7. p.t[3] # Incorrect => p.t[3][2] = p.seq
  BY DEF Stamp
<1>8. PairWaits(q)
  BY <1>2, <1>5, <1>6 DEF PairWaits, PortInv
<1>9. PeerAnswer(q)
  BY <1>5 DEF PeerAnswer, PortInv, Besides
<1>10. ServoHas(q)
  BY <1>2, <1>6, <1>7 DEF ServoHas, PortInv, PeerAnswer
<1>11. OneExchange(q)
  BY <1>5 DEF OneExchange, PortInv
<1>12. OfParent(q)
  BY <1>5 DEF OfParent, PortInv, Besides
<1>13. Moves(p, q)
  BY <1>2, <1>5, <1>6 DEF Moves, Besides
<1> QED BY <1>4, <1>8, <1>9, <1>10, <1>11, <1>12, <1>13 DEF PortInv

-----------------------------------------------------------------------------
(* A call of pp_slave().                                                   *)

(* The head of the call: the servo is reset, or left alone.                *)
LEMMA EnteredInv ==
  ASSUME NEW p, PortInv(p), p.state # "FAULTY"
  PROVE  /\ PortInv(Entered(p))
         /\ Entered(p).t[2] = p.t[2] /\ Entered(p).t[3] = p.t[3] /\ Entered(p).seq = p.seq
         /\ Entered(p).st[2] \in {Zero, p.st[2]} /\ Entered(p).used[2] \in {Zero, p.used[2]}
         /\ \/ Entered(p).used = p.used
            \/ Entered(p).used = AllZero /\ ~Entered(p).got
<1> DEFINE q == Entered(p)
           t == [p.t EXCEPT ![0] = Zero, ![1] = Zero]
<1>1. p \in DxPortType
  BY DEF PortInv
<1>2. t \in [0..6 -> Stamps] /\ \A i \in 2..6 : t[i] = p.t[i]
  BY <1>1, StampTypes DEF DxPortType
<1> HIDE DEF t
<1>3. CASE p.state = "UNCALIBRATED"
  <2>1. p.fresh
    BY <1>3 DEF PortInv, OfParent
  <2>2. [pp_servo_init(p) EXCEPT !.t[0] = Zero, !.t[1] = Zero, !.used = AllZero]
          = [p EXCEPT !.got = FALSE, !.st = AllZero, !.t = t, !.used = AllZero]
    BY <1>1 DEF pp_servo_init, t, DxPortType
  <2>3. q = [[p EXCEPT !.got = FALSE, !.st = AllZero, !.t = t, !.used = AllZero]
               EXCEPT !.fresh = TRUE, !.state = "SLAVE"]
    BY <1>3, <2>1, <2>2 DEF Entered
  <2> HIDE DEF q
  <2>4. q \in DxPortType
    BY <2>3, <1>1, <1>2, StampTypes DEF DxPortType
  <2>5. /\ ~q.got /\ q.st = AllZero /\ q.t = t /\ q.used = AllZero /\ q.state = "SLAVE"
        /\ q.seq = p.seq /\ q.waiting = p.waiting /\ q.recvSeq = p.recvSeq
    BY <2>3, <1>1 DEF DxPortType
  <2>6. PairWaits(q)
    BY <2>5, <1>2, StampTypes DEF PairWaits, PortInv
  <2>7. PeerAnswer(q)
    BY <2>5, <1>2 DEF PeerAnswer, PortInv
  <2>8. ServoHas(q) /\ OneExchange(q) /\ OfParent(q)
    BY <2>5, StampTypes DEF ServoHas, OneExchange, OfParent
  <2> QED BY <2>4, <2>5, <2>6, <2>7, <2>8, <1>2, StampTypes DEF PortInv, q
<1>4. CASE p.state # "UNCALIBRATED"
  <2>1. \/ q = [p EXCEPT !.newGM = FALSE, !.state = "UNCALIBRATED", !.fresh = TRUE]
        \/ q = [p EXCEPT !.fresh = FALSE]
    BY <1>4 DEF Entered
  <2> HIDE DEF q
  <2>2. q \in DxPortType
    BY <2>1, <1>1, ZenonT(60) DEF DxPortType
  <2>3. /\ q.got = p.got /\ q.st = p.st /\ q.t = p.t /\ q.used = p.used /\ q.parent = p.parent
        /\ q.seq = p.seq /\ q.waiting = p.waiting /\ q.recvSeq = p.recvSeq
        /\ \/ q.state = "UNCALIBRATED" /\ q.fresh
           \/ q.state = "SLAVE" /\ p.state = "SLAVE" /\ q.newGM = p.newGM
    BY <2>1, <1>1, <1>4 DEF DxPortType
  <2>4. PairWaits(q) /\ PeerAnswer(q) /\ ServoHas(q) /\ OneExchange(q)
    BY <2>3 DEF PairWaits, PeerAnswer, ServoHas, OneExchange, PortInv
  <2>5. OfParent(q)
    BY <2>3 DEF OfParent, PortInv
  <2> QED BY <2>2, <2>3, <2>4, <2>5 DEF PortInv, q
<1> QED BY <1>3, <1>4

(* A handler that only writes stamps of the port keeps what is said of the *)
(* servo.                                                                  *)
LEMMA OnlyStamps ==
  ASSUME NEW p, NEW q, PortInv(p), q \in DxPortType, Besides(p, q),
         q.st = p.st, q.got = p.got, q.used = p.used, PairWaits(q), PeerAnswer(q)
  PROVE  PortInv(q)
BY DEF PortInv, Besides, ServoHas, OneExchange, OfParent

(* What a handler with the reception stamp rcv may do: as Moves, and take  *)
(* rcv for t2.                                                             *)
Takes(p, q, rcv) ==
  /\ q.seq = p.seq /\ q.t[3] = p.t[3]
  /\ {q.t[2], q.st[2], q.used[2]} \subseteq {Zero, rcv, p.t[2], p.st[2], p.used[2]}
  /\ q.used = p.used \/ (p.got /\ q.used[2] # p.used[2])

(* What a message carries is a stamp.                                      *)
LEMMA MsgStamp ==
  ASSUME NEW m \in DxMsgs
  PROVE  /\ Stamp(m.from, m.seq) \in Stamps /\ Stamp(m.from, m.seq) # Incorrect
         /\ Stamp(m.from, m.seq)[1] = m.from /\ Stamp(m.from, m.seq)[2] = m.seq
         /\ m.seq \in Nat /\ m.seq > 0 /\ m.from \in Masters
BY DEF DxMsgs, Stamp, Stamps, Incorrect

(* slave_handle_sync(): a Sync that comes for the first time.              *)
LEMMA SyncInv ==
  ASSUME NEW p, PortInv(p), NEW m \in DxMsgs,
         NEW rcv \in {Incorrect, Stamp(m.from, m.seq)},
         Stamp(m.from, m.seq) \notin {p.t[2], p.st[2], p.used[2]},
         NEW q \in slave_handle_sync(p, m, rcv)
  PROVE  PortInv(q) /\ Takes(p, q, rcv)
<1> DEFINE ms == Stamp(m.from, m.seq)
           s2 == [p.t EXCEPT ![2] = rcv, ![0] = ms, ![1] = Zero]
           s1 == [p.t EXCEPT ![2] = rcv, ![0] = ms, ![1] = ms]
           two == [p EXCEPT !.t = s2, !.waiting = TRUE, !.recvSeq = m.seq]
           one == [p EXCEPT !.t = s1, !.waiting = FALSE]
<1>1. p \in DxPortType
  BY DEF PortInv
<1>2. rcv \in Stamps /\ ms \in Stamps
  BY MsgStamp, StampTypes
<1>3. /\ s1 \in [0..6 -> Stamps] /\ s2 \in [0..6 -> Stamps]
      /\ s1[2] = rcv /\ s2[2] = rcv /\ s1[1] = ms
      /\ \A i \in 3..6 : s1[i] = p.t[i] /\ s2[i] = p.t[i]
  BY <1>1, <1>2, StampTypes DEF DxPortType
<1>4. \/ q = p
      \/ q = two
      \/ q = one
      \/ q \in pp_servo_got_sync(one) /\ ~bad(one, {1, 2}) /\ m.from = p.parent
  <2> DEFINE a == [p EXCEPT !.t[2] = rcv, !.t[0] = ms]
  <2>1. [a EXCEPT !.waiting = TRUE, !.recvSeq = m.seq, !.t[1] = Zero] = two
    BY <1>1 DEF DxPortType
  <2>2. [a EXCEPT !.waiting = FALSE, !.t[1] = ms] = one
    BY <1>1 DEF DxPortType
  <2> HIDE DEF two, one
  <2> QED BY <2>1, <2>2 DEF slave_handle_sync
<1>5. CASE q = p
  BY <1>5 DEF Takes
<1>6. CASE q = two
  <2> HIDE DEF s2
  <2>1. two \in DxPortType
    BY <1>1, <1>3, MsgStamp DEF DxPortType
  <2>2. /\ Besides(p, two) /\ two.t = s2 /\ two.waiting /\ two.recvSeq = m.seq
        /\ two.st = p.st /\ two.got = p.got /\ two.used = p.used
    BY <1>1 DEF DxPortType, Besides
  <2> HIDE DEF two
  <2>3. PairWaits(two)
    BY <2>2, <1>3, MsgStamp DEF PairWaits
  <2>4. PeerAnswer(two)
    BY <2>2, <1>3 DEF PeerAnswer, PortInv, Besides
  <2>5. PortInv(two)
    BY <2>1, <2>2, <2>3, <2>4, OnlyStamps
  <2> QED BY <2>2, <2>5, <1>3, <1>6 DEF Takes, Besides
<1> HIDE DEF s1
<1>7. one \in DxPortType
  BY <1>1, <1>3 DEF DxPortType
<1>8. /\ Besides(p, one) /\ one.t = s1 /\ ~one.waiting
      /\ one.st = p.st /\ one.got = p.got /\ one.used = p.used
  BY <1>1 DEF DxPortType, Besides
<1> HIDE DEF one
<1>9. PortInv(one)
  <2>1. PairWaits(one)
    BY <1>8 DEF PairWaits
  <2>2. PeerAnswer(one)
    BY <1>8, <1>3 DEF PeerAnswer, PortInv, Besides
  <2> QED BY <1>7, <1>8, <2>1, <2>2, OnlyStamps
<1>10. Takes(p, one, rcv)
  BY <1>8, <1>3 DEF Takes, Besides
<1>11. CASE q = one
  BY <1>9, <1>10, <1>11
<1>12. CASE q \in pp_servo_got_sync(one) /\ ~bad(one, {1, 2}) /\ m.from = p.parent
  <2>1. one.t[1] = ms /\ one.t[2] = rcv /\ rcv # Incorrect
    BY <1>12, <1>8, <1>3 DEF bad
  <2>2. /\ one.t[1][1] = one.parent /\ one.t[1][2] = one.t[2][2] /\ one.t[2][2] > 0
        /\ one.t[1] # Incorrect /\ one.t[2] # Incorrect /\ one.t[2] # one.used[2]
    BY <2>1, <1>8, <1>12, MsgStamp DEF Besides
  <2>3. PortInv(q) /\ Moves(one, q)
    BY <2>2, <1>8, <1>9, <1>12, GotSync
  <2> QED BY <2>1, <2>3, <1>8, <1>3 DEF Moves, Takes, Besides
<1> QED BY <1>4, <1>5, <1>6, <1>11, <1>12

(* slave_handle_followup(): the Follow_Up of the Sync the port waits for.  *)
LEMMA FollowUpInv ==
  ASSUME NEW p, PortInv(p), NEW m \in DxMsgs, NEW q \in slave_handle_followup(p, m)
  PROVE  PortInv(q) /\ Moves(p, q)
<1> DEFINE ms == Stamp(m.from, m.seq)
           t == [p.t EXCEPT ![1] = ms]
           r == [p EXCEPT !.t = t, !.waiting = FALSE]
<1>1. p \in DxPortType
  BY DEF PortInv
<1>2. t \in [0..6 -> Stamps] /\ t[1] = ms /\ \A i \in 2..6 : t[i] = p.t[i]
  BY <1>1, MsgStamp DEF DxPortType
<1>3. \/ q = p
      \/ /\ q = r \/ (q \in pp_servo_got_sync(r) /\ ~bad(r, {1, 2}))
         /\ m.from = p.parent /\ p.waiting /\ p.recvSeq = m.seq
  <2>1. [p EXCEPT !.waiting = FALSE, !.t[1] = ms] = r
    BY <1>1 DEF DxPortType
  <2> HIDE DEF r
  <2> QED BY <2>1 DEF slave_handle_followup
<1> HIDE DEF t
<1>4. r \in DxPortType
  BY <1>1, <1>2 DEF DxPortType
<1>5. /\ Besides(p, r) /\ r.t = t /\ ~r.waiting
      /\ r.st = p.st /\ r.got = p.got /\ r.used = p.used
  BY <1>1 DEF DxPortType, Besides
<1> HIDE DEF r
<1>6. PortInv(r)
  <2>1. PairWaits(r)
    BY <1>5 DEF PairWaits
  <2>2. PeerAnswer(r)
    BY <1>5, <1>2 DEF PeerAnswer, PortInv, Besides
  <2> QED BY <1>4, <1>5, <2>1, <2>2, OnlyStamps
<1>7. Moves(p, r)
  BY <1>5, <1>2 DEF Moves, Besides
<1>8. CASE q = p
  BY <1>8 DEF Moves
<1>9. CASE q = r
  BY <1>6, <1>7, <1>9
<1>10. CASE /\ q \in pp_servo_got_sync(r) /\ ~bad(r, {1, 2})
            /\ m.from = p.parent /\ p.waiting /\ p.recvSeq = m.seq
  <2>1. r.t[1] = ms /\ r.t[2] = p.t[2] /\ p.t[2] # Incorrect
    BY <1>10, <1>5, <1>2 DEF bad
  <2>2. p.t[2][2] = m.seq /\ p.t[2] # p.used[2]
    BY <2>1, <1>10 DEF PairWaits, PortInv
  <2>3. /\ r.t[1][1] = r.parent /\ r.t[1][2] = r.t[2][2] /\ r.t[2][2] > 0
        /\ r.t[1] # Incorrect /\ r.t[2] # Incorrect /\ r.t[2] # r.used[2]
    BY <2>1, <2>2, <1>5, <1>10, MsgStamp DEF Besides
  <2>4. PortInv(q) /\ Moves(r, q)
    BY <2>3, <1>5, <1>6, <1>10, GotSync
  <2> QED BY <2>1, <2>4, <1>5, <1>2 DEF Moves, Besides
<1> QED BY <1>3, <1>8, <1>9, <1>10

(* slave_handle_response()                                                 *)
LEMMA ResponseInv ==
  ASSUME NEW p, PortInv(p), NEW m \in DxMsgs, E2E, Sent(p, m.seq),
         NEW q \in slave_handle_response(p, m)
  PROVE  PortInv(q) /\ Moves(p, q)
<1> DEFINE ms == Stamp(m.from, m.seq)
           t == [p.t EXCEPT ![4] = ms]
           r == [p EXCEPT !.t = t]
<1>1. p \in DxPortType
  BY DEF PortInv
<1>2. t \in [0..6 -> Stamps] /\ t[4] = ms /\ t[2] = p.t[2] /\ t[3] = p.t[3]
  BY <1>1, MsgStamp DEF DxPortType
<1>3. q = p \/ (q \in pp_servo_got_resp(r) /\ m.seq = p.seq /\ m.from = p.parent)
  BY <1>1 DEF slave_handle_response, DxPortType
<1> HIDE DEF t
<1>4. r \in DxPortType
  BY <1>1, <1>2 DEF DxPortType
<1>5. /\ Besides(p, r) /\ r.t = t /\ r.waiting = p.waiting /\ r.recvSeq = p.recvSeq
      /\ r.st = p.st /\ r.got = p.got /\ r.used = p.used
  BY <1>1 DEF DxPortType, Besides
<1> HIDE DEF r
<1>6. CASE q = p
  BY <1>6 DEF Moves
<1>7. CASE q \in pp_servo_got_resp(r) /\ m.seq = p.seq /\ m.from = p.parent
  <2>1. PairWaits(r)
    BY <1>5, <1>2 DEF PairWaits, PortInv
  <2>2. PeerAnswer(r)
    BY DEF PeerAnswer
  <2>3. PortInv(r)
    BY <1>4, <1>5, <2>1, <2>2, OnlyStamps
  <2>4. r.t[4] = Stamp(r.parent, r.seq) /\ r.seq > 0
    BY <1>2, <1>5, <1>7, MsgStamp DEF Besides
  <2>5. r.t[3] \in {Incorrect, Stamp("sent", r.seq)}
    BY <1>2, <1>5, <1>7 DEF Sent, Besides
  <2>6. PortInv(q) /\ Moves(r, q)
    BY <2>3, <2>4, <2>5, <1>7, GotResp
  <2> QED BY <2>6, <1>5, <1>2 DEF Moves, Besides
<1> QED BY <1>3, <1>6, <1>7

(* A port that has become faulty.                                          *)
LEMMA FaultyInv ==
  ASSUME NEW p, PortInv(p)
  PROVE  PortInv(Faulty(p)) /\ Moves(p, Faulty(p))
<1> DEFINE q == Faulty(p)
<1>1. p \in DxPortType
  BY DEF PortInv
<1>2. q = [p EXCEPT !.state = "FAULTY"]
  BY DEF Faulty
<1> HIDE DEF q
<1>3. q \in DxPortType
  BY <1>1, <1>2 DEF DxPortType
<1>4. /\ q.state = "FAULTY" /\ q.seq = p.seq /\ q.t = p.t /\ q.waiting = p.waiting
      /\ q.recvSeq = p.recvSeq /\ q.st = p.st /\ q.got = p.got /\ q.used = p.used
  BY <1>1, <1>2 DEF DxPortType
<1>5. PairWaits(q) /\ PeerAnswer(q) /\ ServoHas(q) /\ OneExchange(q)
  BY <1>4 DEF PairWaits, PeerAnswer, ServoHas, OneExchange, PortInv
<1>6. OfParent(q)
  BY <1>4 DEF OfParent
<1> QED BY <1>3, <1>4, <1>5, <1>6 DEF PortInv, Moves, q

(* st_com_peer_handle_pres()                                               *)
LEMMA PresInv ==
  ASSUME NEW p, PortInv(p), NEW m \in DxMsgs,
         NEW rcv \in {Incorrect, Stamp(m.from, m.seq)},
         NEW q \in st_com_peer_handle_pres(p, m, rcv)
  PROVE  PortInv(q) /\ Moves(p, q)
<1> DEFINE ms == Stamp(m.from, m.seq)
           t == [p.t EXCEPT ![4] = ms, ![6] = rcv]
           r == [p EXCEPT !.t = t, !.dresp = TRUE]
<1>1. p \in DxPortType
  BY DEF PortInv
<1>2. /\ t \in [0..6 -> Stamps] /\ t[4] = ms /\ t[6] = rcv
      /\ t[2] = p.t[2] /\ t[3] = p.t[3]
  BY <1>1, MsgStamp, StampTypes DEF DxPortType
<1>3. q \in {p, Faulty(p)} \/ (q = r /\ m.seq = p.seq /\ ~E2E)
  <2>1. [p EXCEPT !.dresp = TRUE, !.t[4] = ms, !.t[6] = rcv] = r
    BY <1>1 DEF DxPortType
  <2> HIDE DEF r
  <2> QED BY <2>1 DEF st_com_peer_handle_pres
<1> HIDE DEF t
<1>4. CASE q \in {p, Faulty(p)}
  BY <1>4, FaultyInv DEF Moves
<1>5. CASE q = r /\ m.seq = p.seq /\ ~E2E
  <2>1. q \in DxPortType
    BY <1>1, <1>2, <1>5 DEF DxPortType
  <2>2. /\ Besides(p, q) /\ q.t = t /\ q.waiting = p.waiting /\ q.recvSeq = p.recvSeq
        /\ q.st = p.st /\ q.got = p.got /\ q.used = p.used
    BY <1>1, <1>5 DEF DxPortType, Besides
  <2>3. PairWaits(q)
    BY <2>2, <1>2 DEF PairWaits, PortInv
  <2>4. PeerAnswer(q)
    BY <2>2, <1>2, <1>5, MsgStamp DEF PeerAnswer, Besides
  <2>5. PortInv(q)
    BY <2>1, <2>2, <2>3, <2>4, OnlyStamps
  <2> QED BY <2>2, <2>5, <1>2 DEF Moves, Besides
<1> QED BY <1>3, <1>4, <1>5

(* st_com_peer_handle_pres_followup()                                      *)
LEMMA PresFollowUpInv ==
  ASSUME NEW p, PortInv(p), NEW m \in DxMsgs, Sent(p, m.seq),
         NEW q \in st_com_peer_handle_pres_followup(p, m)
  PROVE  PortInv(q) /\ Moves(p, q)
<1> DEFINE ms == Stamp(m.from, m.seq)
           t == [p.t EXCEPT ![5] = ms]
           r == [p EXCEPT !.t = t, !.dfup = TRUE]
<1>1. p \in DxPortType
  BY DEF PortInv
<1>2. /\ t \in [0..6 -> Stamps] /\ t[5] = ms
      /\ \A i \in {2, 3, 4, 6} : t[i] = p.t[i]
  BY <1>1, MsgStamp DEF DxPortType
<1>3. q \in {p, Faulty(p)} \/ (q \in presp_call_servo(r) /\ m.seq = p.seq /\ ~E2E)
  <2>1. [p EXCEPT !.dfup = TRUE, !.t[5] = ms] = r
    BY <1>1 DEF DxPortType
  <2> HIDE DEF r
  <2> QED BY <2>1 DEF st_com_peer_handle_pres_followup
<1> HIDE DEF t
<1>4. CASE q \in {p, Faulty(p)}
  BY <1>4, FaultyInv DEF Moves
<1>5. CASE q \in presp_call_servo(r) /\ m.seq = p.seq /\ ~E2E
  <2>1. r \in DxPortType
    BY <1>1, <1>2 DEF DxPortType
  <2>2. /\ Besides(p, r) /\ r.t = t /\ r.waiting = p.waiting /\ r.recvSeq = p.recvSeq
        /\ r.st = p.st /\ r.got = p.got /\ r.used = p.used
    BY <1>1 DEF DxPortType, Besides
  <2> HIDE DEF r
  <2>3. PairWaits(r)
    BY <2>2, <1>2 DEF PairWaits, PortInv
  <2>4. PeerAnswer(r)
    BY <2>2, <1>2 DEF PeerAnswer, PortInv, Besides
  <2>5. PortInv(r)
    BY <2>1, <2>2, <2>3, <2>4, OnlyStamps
  <2>6. r.t[5][2] = r.seq /\ r.seq > 0
    BY <1>2, <2>2, <1>5, MsgStamp DEF Besides
  <2>7. r.t[3] \in {Incorrect, Stamp("sent", r.seq)}
    BY <1>2, <2>2, <1>5 DEF Sent, Besides
  <2>8. PortInv(q) /\ Moves(r, q)
    BY <2>5, <2>6, <2>7, <1>5, GotPresp
  <2> QED BY <2>8, <2>2, <1>2 DEF Moves, Besides
<1> QED BY <1>3, <1>4, <1>5

(* A message.                                                              *)
LEMMA HandleInv ==
  ASSUME NEW p, PortInv(p), NEW m \in DxMsgs,
         NEW rcv \in {Incorrect, Stamp(m.from, m.seq)},
         m.type \notin {"SYNC", "FOLLOW_UP"} => Sent(p, m.seq),
         m.type = "DELAY_RESP" => E2E,
         m.type = "SYNC" => Stamp(m.from, m.seq) \notin {p.t[2], p.st[2], p.used[2]},
         NEW q \in Handle(p, m, rcv)
  PROVE  /\ PortInv(q)
         /\ m.type = "SYNC" => Takes(p, q, rcv)
         /\ m.type # "SYNC" => Moves(p, q)
<1>1. CASE m.type = "SYNC"
  <2>1. q \in slave_handle_sync(p, m, rcv)
    BY <1>1 DEF Handle
  <2> QED BY <1>1, <2>1, SyncInv
<1>2. CASE m.type = "FOLLOW_UP"
  <2>1. q \in slave_handle_followup(p, m)
    BY <1>2 DEF Handle
  <2> QED BY <1>2, <2>1, FollowUpInv
<1>3. CASE m.type = "DELAY_RESP"
  <2>1. q \in slave_handle_response(p, m)
    BY <1>3 DEF Handle
  <2> QED BY <1>3, <2>1, ResponseInv
<1>4. CASE m.type = "PDELAY_RESP"
  <2>1. q \in st_com_peer_handle_pres(p, m, rcv)
    BY <1>4 DEF Handle
  <2> QED BY <1>4, <2>1, PresInv
<1>5. CASE m.type = "PDELAY_R_FUP"
  <2>1. q \in st_com_peer_handle_pres_followup(p, m)
    BY <1>5 DEF Handle
  <2> QED BY <1>5, <2>1, PresFollowUpInv
<1> QED BY <1>1, <1>2, <1>3, <1>4, <1>5 DEF DxMsgs

(* The timer of the requests has expired.                                  *)
LEMMA RequestInv ==
  ASSUME NEW p, PortInv(p), NEW send \in {"OK", "NO_STAMP", "ERROR"}
  PROVE  LET q == pp_lib_may_issue_request(p, send)
         IN  /\ PortInv(q)
             /\ q.seq = p.seq + 1
             /\ send # "ERROR" => q.t[3] \in {Incorrect, Stamp("sent", q.seq)}
             /\ q.t[2] = p.t[2] /\ q.st = p.st /\ q.used = p.used
<1> DEFINE snt == CASE send = "OK" -> Stamp("sent", p.seq + 1)
                    [] send = "NO_STAMP" -> Incorrect
                    [] OTHER -> p.lastSnt
           t == [p.t EXCEPT ![4] = IF E2E THEN p.t[4] ELSE Incorrect, ![3] = snt]
           q == pp_lib_may_issue_request(p, send)
<1>1. p \in DxPortType
  BY DEF PortInv
<1>2. snt \in Stamps /\ (send # "ERROR" => snt \in {Incorrect, Stamp("sent", p.seq + 1)})
  BY <1>1, StampTypes DEF DxPortType, Stamp, Stamps
<1>3. q = [p EXCEPT !.seq = p.seq + 1, !.t = t, !.lastSnt = snt,
                    !.dresp = IF E2E THEN p.dresp ELSE FALSE,
                    !.dfup = IF E2E THEN p.dfup ELSE FALSE]
  <2> DEFINE a == msg_issue_request(p)
             b == [p.t EXCEPT ![4] = IF E2E THEN p.t[4] ELSE Incorrect]
  <2>1. a = [p EXCEPT !.seq = p.seq + 1, !.t = b,
                      !.dresp = IF E2E THEN p.dresp ELSE FALSE,
                      !.dfup = IF E2E THEN p.dfup ELSE FALSE]
    BY <1>1 DEF msg_issue_request, DxPortType
  <2>2. a.seq = p.seq + 1 /\ a.t = b
    BY <2>1, <1>1 DEF DxPortType
  <2>3. q = [a EXCEPT !.lastSnt = snt, !.t[3] = snt]
    BY <2>2 DEF pp_lib_may_issue_request
  <2>4. t = [b EXCEPT ![3] = snt]
    BY <1>1 DEF DxPortType
  <2> HIDE DEF t, snt, q, b, a
  <2> QED BY <2>1, <2>2, <2>3, <2>4, <1>1 DEF DxPortType
<1> HIDE DEF snt, q
<1>4. /\ t \in [0..6 -> Stamps] /\ t[3] = snt
      /\ t[4] = (IF E2E THEN p.t[4] ELSE Incorrect) /\ t[2] = p.t[2]
  BY <1>1, <1>2, StampTypes DEF DxPortType
<1> HIDE DEF t
<1>5. q \in DxPortType
  <2> DEFINE resp == IF E2E THEN p.dresp ELSE FALSE
             fup == IF E2E THEN p.dfup ELSE FALSE
  <2>1. resp \in BOOLEAN /\ fup \in BOOLEAN
    BY <1>1 DEF DxPortType
  <2> DEFINE a == [p EXCEPT !.seq = p.seq + 1, !.t = t, !.lastSnt = snt]
  <2>2. q = [a EXCEPT !.dresp = resp, !.dfup = fup]
    BY <1>1, <1>3 DEF DxPortType
  <2>3. p.seq + 1 \in Nat /\ t \in [0..6 -> Stamps] /\ snt \in Stamps
    BY <1>1, <1>2, <1>4 DEF DxPortType
  <2> HIDE DEF resp, fup
  <2>4. a \in DxPortType
    BY <1>1, <2>3 DEF DxPortType
  <2> HIDE DEF a
  <2> QED BY <2>1, <2>2, <2>4 DEF DxPortType
<1>6. /\ q.seq = p.seq + 1 /\ q.t = t /\ q.waiting = p.waiting /\ q.recvSeq = p.recvSeq
      /\ q.st = p.st /\ q.got = p.got /\ q.used = p.used
      /\ q.state = p.state /\ q.fresh = p.fresh /\ q.parent = p.parent /\ q.newGM = p.newGM
  BY <1>1, <1>3 DEF DxPortType
<1>7. PairWaits(q)
  BY <1>4, <1>6 DEF PairWaits, PortInv
<1>8. PeerAnswer(q)
  BY <1>4, <1>6 DEF PeerAnswer
<1>9. ServoHas(q) /\ OneExchange(q) /\ OfParent(q)
  BY <1>6 DEF ServoHas, OneExchange, OfParent, PortInv
<1> QED BY <1>2, <1>4, <1>5, <1>6, <1>7, <1>8, <1>9 DEF PortInv, q

-----------------------------------------------------------------------------
(* The steps.                                                              *)

LEMMA InitInv == DxInit => DxInv
<1> SUFFICES ASSUME DxInit PROVE DxInv
  OBVIOUS
<1>1. InitialPort.parent \in Masters
  <2>1. Masters # {}
    BY DxAssumption DEF DxInit, Masters
  <2> QED BY <2>1 DEF InitialPort
<1>2. InitialPort \in DxPortType
  BY <1>1, StampTypes DEF InitialPort, DxPortType
<1>3. DxTypeOK
  BY <1>2 DEF DxInit, DxTypeOK
<1>4. PortInv(InitialPort)
  BY <1>2, StampTypes DEF PortInv, InitialPort, PairWaits, PeerAnswer, ServoHas, OneExchange, OfParent
<1>5. SyncsOnce /\ AnswersSent
  BY StampTypes DEF DxInit, InitialPort, SyncsOnce, AnswersSent, Seen
<1> QED BY <1>3, <1>4, <1>5 DEF DxInv, DxInit

(* A step without a Sync, in which stamps t2 only move.                    *)
LEMMA KeepsSyncs ==
  ASSUME DxInv, dxMode' = dxMode, dxSyncSeq' = dxSyncSeq,
         \A m \in dxNet' : m.type = "SYNC" => m \in dxNet,
         {dxPort'.t[2], dxPort'.st[2], dxPort'.used[2]}
            \subseteq {Zero, dxPort.t[2], dxPort.st[2], dxPort.used[2]}
  PROVE  SyncsOnce'
<1> DEFINE Held == {Zero, dxPort.t[2], dxPort.st[2], dxPort.used[2]}
<1>1. \A x \in Held : Seen(x)'
  BY DEF DxInv, SyncsOnce, Seen, Masters
<1>2. ASSUME NEW m \in dxNet', m.type = "SYNC"
      PROVE  m.seq <= dxSyncSeq[m.from] /\ Stamp(m.from, m.seq) \notin Held
  <2>1. m \in dxNet /\ m \in DxMsgs
    BY <1>2 DEF DxInv, DxTypeOK
  <2>2. Stamp(m.from, m.seq) # Zero
    BY <2>1, MsgStamp, StampTypes
  <2> QED BY <2>1, <2>2, <1>2 DEF DxInv, SyncsOnce
<1> HIDE DEF Held
<1>3. {dxPort'.t[2], dxPort'.st[2], dxPort'.used[2]} \subseteq Held
  BY DEF Held
<1>4. Seen(dxPort.t[2])' /\ Seen(dxPort.st[2])' /\ Seen(dxPort.used[2])'
  BY <1>1, <1>3 DEF Seen
<1>5. \A m \in dxNet' : m.type = "SYNC" =>
         /\ m.seq <= dxSyncSeq'[m.from]
         /\ Stamp(m.from, m.seq) \notin {dxPort'.t[2], dxPort'.st[2], dxPort'.used[2]}
  BY <1>2, <1>3
<1> QED BY <1>4, <1>5 DEF SyncsOnce, Stamp

(* The slave sends a Delay_Req.                                            *)
LEMMA RequestStep == DxInv /\ Request => DxInv' /\ NewPair
<1> SUFFICES ASSUME DxInv, Request PROVE DxInv' /\ NewPair
  OBVIOUS
<1> DEFINE e == Entered(dxPort)
<1>1. PICK send \in {"OK", "NO_STAMP", "ERROR"} :
        /\ dxPort' = pp_lib_may_issue_request(e, send)
        /\ dxReqs' = IF send = "ERROR" THEN dxReqs
                     ELSE dxReqs \cup {<<m, dxPort.seq + 1>> : m \in Masters}
  BY DEF Request
<1>2. dxMode' = dxMode /\ dxNet' = dxNet /\ dxSyncSeq' = dxSyncSeq
  BY DEF Request
<1>3. /\ PortInv(e)
      /\ e.t[2] = dxPort.t[2] /\ e.t[3] = dxPort.t[3] /\ e.seq = dxPort.seq
      /\ e.st[2] \in {Zero, dxPort.st[2]} /\ e.used[2] \in {Zero, dxPort.used[2]}
      /\ e.used = dxPort.used \/ e.used = AllZero
  BY EnteredInv DEF DxInv, Request, Running
<1> HIDE DEF e
<1>4. /\ PortInv(dxPort')
      /\ dxPort'.seq = e.seq + 1
      /\ send # "ERROR" => dxPort'.t[3] \in {Incorrect, Stamp("sent", dxPort'.seq)}
      /\ dxPort'.t[2] = e.t[2] /\ dxPort'.st = e.st /\ dxPort'.used = e.used
  BY <1>1, <1>3, RequestInv
<1>5. PortInv(dxPort)' /\ dxPort' \in DxPortType'
  BY <1>2, <1>4 DEF PortInv, PairWaits, PeerAnswer, ServoHas, OneExchange, OfParent, DxPortType,
        Stamps, Masters, E2E
<1>6. DxTypeOK'
  BY <1>1, <1>2, <1>5 DEF DxInv, DxTypeOK, Masters, DxMsgs, PortInv, DxPortType
<1>7. SyncsOnce'
  <2>1. /\ dxPort'.t[2] = dxPort.t[2] /\ dxPort'.st[2] \in {Zero, dxPort.st[2]}
        /\ dxPort'.used[2] \in {Zero, dxPort.used[2]}
    BY <1>3, <1>4
  <2> QED BY <1>2, <2>1, KeepsSyncs
<1>8. AnswersSent'
  BY <1>1, <1>2, <1>3, <1>4 DEF DxInv, DxTypeOK, AnswersSent, Sent, E2E, DxMsgs, DxPortType
<1>9. NewPair
  BY <1>3, <1>4 DEF NewPair
<1> QED BY <1>5, <1>6, <1>7, <1>8, <1>9 DEF DxInv

(* What is said of a port does not depend on the rest of the state, other  *)
(* than on the mode.                                                       *)
LEMMA PortInvPrime ==
  ASSUME dxMode' = dxMode, PortInv(dxPort')
  PROVE  PortInv(dxPort)' /\ dxPort' \in DxPortType'
BY DEF PortInv, PairWaits, PeerAnswer, ServoHas, OneExchange, OfParent, DxPortType,
       Stamps, Masters, E2E

(* A message is handled, by its type.                                      *)
LEMMA ReceiveStep == DxInv /\ DxReceive => DxInv' /\ NewPair
<1> SUFFICES ASSUME DxInv, DxReceive PROVE DxInv' /\ NewPair
  OBVIOUS
<1> DEFINE e == Entered(dxPort)
<1>1. PICK m \in dxNet, stamped \in BOOLEAN, again \in BOOLEAN :
        /\ again => m.type \in {"FOLLOW_UP", "DELAY_RESP", "PDELAY_R_FUP"}
        /\ dxPort' \in Handle(e, m, IF stamped THEN Stamp(m.from, m.seq) ELSE Incorrect)
        /\ dxNet' = IF again THEN dxNet ELSE dxNet \ {m}
  BY DEF DxReceive
<1>2. dxMode' = dxMode /\ dxReqs' = dxReqs /\ dxSyncSeq' = dxSyncSeq
  BY DEF DxReceive
<1>3. /\ PortInv(e)
      /\ e.t[2] = dxPort.t[2] /\ e.t[3] = dxPort.t[3] /\ e.seq = dxPort.seq
      /\ e.st[2] \in {Zero, dxPort.st[2]} /\ e.used[2] \in {Zero, dxPort.used[2]}
      /\ e.used = dxPort.used \/ (e.used = AllZero /\ ~e.got)
  BY EnteredInv DEF DxInv, DxReceive, Running
<1> HIDE DEF e
<1> DEFINE rcv == IF stamped THEN Stamp(m.from, m.seq) ELSE Incorrect
<1>4. m \in DxMsgs /\ rcv \in {Incorrect, Stamp(m.from, m.seq)} /\ dxPort' \in Handle(e, m, rcv)
  BY <1>1 DEF DxInv, DxTypeOK
<1> HIDE DEF rcv
<1>5. /\ m.type \notin {"SYNC", "FOLLOW_UP"} => Sent(e, m.seq)
      /\ m.type = "DELAY_RESP" => E2E
  BY <1>1, <1>3 DEF DxInv, AnswersSent, Sent
<1>6. m.type = "SYNC" => Stamp(m.from, m.seq) \notin {e.t[2], e.st[2], e.used[2]}
  <2>1. Stamp(m.from, m.seq) # Zero
    BY <1>4, MsgStamp, StampTypes
  <2> QED BY <2>1, <1>1, <1>3 DEF DxInv, SyncsOnce
<1>7. /\ PortInv(dxPort')
      /\ m.type = "SYNC" => Takes(e, dxPort', rcv)
      /\ m.type # "SYNC" => Moves(e, dxPort')
  BY <1>3, <1>4, <1>5, <1>6, HandleInv
<1>8. /\ dxPort'.seq = dxPort.seq /\ dxPort'.t[3] = dxPort.t[3]
      /\ dxPort'.used = e.used \/ (e.got /\ dxPort'.used[2] # e.used[2])
  BY <1>3, <1>7 DEF Takes, Moves
<1>9. PortInv(dxPort)' /\ dxPort' \in DxPortType'
  BY <1>2, <1>7, PortInvPrime
<1>10. DxTypeOK'
  BY <1>1, <1>2, <1>9 DEF DxInv, DxTypeOK, Masters, DxMsgs
<1>11. SyncsOnce'
  <2>1. CASE m.type # "SYNC"
    <3>1. {dxPort'.t[2], dxPort'.st[2], dxPort'.used[2]}
             \subseteq {Zero, dxPort.t[2], dxPort.st[2], dxPort.used[2]}
      BY <2>1, <1>3, <1>7 DEF Moves
    <3> QED BY <3>1, <1>1, <1>2, KeepsSyncs
  <2>2. CASE m.type = "SYNC"
    <3>1. dxNet' = dxNet \ {m}
      BY <1>1, <2>2
    <3> DEFINE Held == {Zero, Incorrect, Stamp(m.from, m.seq),
                        dxPort.t[2], dxPort.st[2], dxPort.used[2]}
    <3>2. {dxPort'.t[2], dxPort'.st[2], dxPort'.used[2]} \subseteq Held
      BY <2>2, <1>3, <1>4, <1>7 DEF Takes
    <3>3. Seen(Stamp(m.from, m.seq))
      BY <2>2, <1>1, <1>4, MsgStamp DEF DxInv, DxTypeOK, SyncsOnce, Seen
    <3>4. \A x \in Held : Seen(x)'
      BY <3>3, <1>2 DEF DxInv, SyncsOnce, Seen, Masters, Stamp
    <3>5. ASSUME NEW k \in dxNet', k.type = "SYNC"
          PROVE  k.seq <= dxSyncSeq[k.from] /\ Stamp(k.from, k.seq) \notin Held
      <4>1. k \in dxNet /\ k \in DxMsgs /\ k # m
        BY <3>1, <3>5 DEF DxInv, DxTypeOK
      <4>2. Stamp(k.from, k.seq) # Zero /\ Stamp(k.from, k.seq) # Incorrect
        BY <4>1, MsgStamp, StampTypes
      <4>3. Stamp(k.from, k.seq) # Stamp(m.from, m.seq)
        BY <4>1, <1>4, <2>2, <3>5 DEF Stamp, DxMsgs
      <4> QED BY <4>1, <4>2, <4>3, <3>5 DEF DxInv, SyncsOnce
    <3> HIDE DEF Held
    <3>6. Seen(dxPort.t[2])' /\ Seen(dxPort.st[2])' /\ Seen(dxPort.used[2])'
      BY <3>2, <3>4 DEF Seen
    <3>7. \A k \in dxNet' : k.type = "SYNC" =>
             /\ k.seq <= dxSyncSeq'[k.from]
             /\ Stamp(k.from, k.seq) \notin {dxPort'.t[2], dxPort'.st[2], dxPort'.used[2]}
      BY <3>2, <3>5, <1>2
    <3> QED BY <3>6, <3>7 DEF SyncsOnce, Stamp
  <2> QED BY <2>1, <2>2
<1>12. AnswersSent'
  BY <1>1, <1>2, <1>8 DEF DxInv, AnswersSent, Sent, E2E
<1>13. NewPair
  BY <1>3, <1>8 DEF NewPair
<1> QED BY <1>9, <1>10, <1>11, <1>12, <1>13 DEF DxInv

(* Another master is chosen.                                               *)
LEMMA ChangeParentStep == DxInv /\ ChangeParent => DxInv' /\ NewPair
<1> SUFFICES ASSUME DxInv, ChangeParent PROVE DxInv' /\ NewPair
  OBVIOUS
<1>1. PICK m \in Masters : dxPort' = [dxPort EXCEPT !.parent = m, !.newGM = TRUE]
  BY DEF ChangeParent
<1>2. /\ dxMode' = dxMode /\ dxNet' = dxNet /\ dxReqs' = dxReqs /\ dxSyncSeq' = dxSyncSeq
  BY DEF ChangeParent
<1>3. dxPort \in DxPortType /\ dxPort' \in DxPortType
  BY <1>1 DEF DxInv, PortInv, DxPortType
<1>4. /\ dxPort'.newGM /\ dxPort'.state = dxPort.state /\ dxPort'.fresh = dxPort.fresh
      /\ dxPort'.seq = dxPort.seq /\ dxPort'.t = dxPort.t /\ dxPort'.waiting = dxPort.waiting
      /\ dxPort'.recvSeq = dxPort.recvSeq /\ dxPort'.st = dxPort.st
      /\ dxPort'.got = dxPort.got /\ dxPort'.used = dxPort.used
  BY <1>1, <1>3 DEF DxPortType
<1>5. PortInv(dxPort')
  BY <1>3, <1>4 DEF DxInv, PortInv, PairWaits, PeerAnswer, ServoHas, OneExchange, OfParent
<1>6. PortInv(dxPort)' /\ dxPort' \in DxPortType'
  BY <1>2, <1>5, PortInvPrime
<1>7. DxTypeOK'
  BY <1>2, <1>6 DEF DxInv, DxTypeOK, Masters, DxMsgs
<1>8. SyncsOnce'
  BY <1>2, <1>4, KeepsSyncs
<1>9. AnswersSent'
  BY <1>2, <1>4 DEF DxInv, AnswersSent, Sent, E2E
<1>10. NewPair
  BY <1>4 DEF NewPair
<1> QED BY <1>6, <1>7, <1>8, <1>9, <1>10 DEF DxInv

(* The port does not move, and the messages that are new are neither Syncs *)
(* nor answers to requests nobody made.                                    *)
LEMMA NetStep ==
  ASSUME DxInv, dxMode' = dxMode, dxPort' = dxPort, dxSyncSeq' = dxSyncSeq,
         dxReqs' \subseteq dxReqs, dxNet' \subseteq DxMsgs,
         \A m \in dxNet' \ dxNet : /\ m.type \notin {"SYNC", "FOLLOW_UP"}
                                   /\ Sent(dxPort, m.seq)
                                   /\ m.type = "DELAY_RESP" => E2E
  PROVE  DxInv' /\ NewPair
<1>1. PortInv(dxPort)' /\ dxPort' \in DxPortType'
  <2>1. PortInv(dxPort')
    BY DEF DxInv
  <2> QED BY <2>1, PortInvPrime
<1>2. DxTypeOK'
  BY <1>1 DEF DxInv, DxTypeOK, Masters, DxMsgs
<1>3. SyncsOnce'
  BY KeepsSyncs
<1>4. AnswersSent'
  BY DEF DxInv, AnswersSent, Sent, E2E
<1>5. NewPair
  BY DEF NewPair
<1> QED BY <1>1, <1>2, <1>3, <1>4, <1>5 DEF DxInv

(* A message is lost or comes twice.                                       *)
LEMMA LoseStep == DxInv /\ DxLose => DxInv' /\ NewPair
BY NetStep DEF DxLose, DxInv, DxTypeOK

(* A master answers a Delay_Req.                                           *)
LEMMA AnswerStep ==
  ASSUME DxInv, NEW m \in Masters, AnswerRequest(m)
  PROVE  DxInv' /\ NewPair
<1>1. PICK r \in dxReqs :
        /\ r[1] = m
        /\ dxReqs' = dxReqs \ {r}
        /\ dxNet' = dxNet \cup (IF E2E THEN {Msg("DELAY_RESP", m, r[2])}
                                ELSE {Msg("PDELAY_RESP", m, r[2]), Msg("PDELAY_R_FUP", m, r[2])})
        /\ UNCHANGED <<dxMode, dxPort, dxSyncSeq>>
  BY DEF AnswerRequest
<1>2. r[2] \in Nat \ {0} /\ Sent(dxPort, r[2])
  BY DEF DxInv, DxTypeOK, AnswersSent
<1>3. ASSUME NEW k \in dxNet' \ dxNet
      PROVE  /\ k \in DxMsgs /\ k.type \notin {"SYNC", "FOLLOW_UP"}
             /\ Sent(dxPort, k.seq) /\ (k.type = "DELAY_RESP" => E2E)
  <2>1. \/ E2E /\ k = Msg("DELAY_RESP", m, r[2])
        \/ k = Msg("PDELAY_RESP", m, r[2])
        \/ k = Msg("PDELAY_R_FUP", m, r[2])
    BY <1>1, <1>3
  <2> QED BY <2>1, <1>2 DEF Msg, DxMsgs
<1>4. dxNet' \subseteq DxMsgs
  BY <1>3 DEF DxInv, DxTypeOK
<1> QED BY <1>1, <1>3, <1>4, NetStep

(* A master sends a Sync, and its Follow_Up.                               *)
LEMMA SyncStep ==
  ASSUME DxInv, NEW m \in Masters, msg_issue_sync_followup(m)
  PROVE  DxInv' /\ NewPair
<1> DEFINE n == dxSyncSeq[m] + 1
           sync == Msg("SYNC", m, n)
           fup == Msg("FOLLOW_UP", m, n)
<1>1. /\ dxSyncSeq' = [dxSyncSeq EXCEPT ![m] = n]
      /\ dxMode' = dxMode /\ dxPort' = dxPort /\ dxReqs' = dxReqs
      /\ dxNet' \subseteq dxNet \cup {sync, fup}
  BY DEF msg_issue_sync_followup
<1>2. n \in Nat \ {0} /\ dxSyncSeq \in [Masters -> Nat] /\ dxSyncSeq' \in [Masters -> Nat]
  BY <1>1 DEF DxInv, DxTypeOK
<1>3. /\ sync \in DxMsgs /\ fup \in DxMsgs /\ sync.type = "SYNC" /\ fup.type = "FOLLOW_UP"
      /\ sync.from = m /\ sync.seq = n
  BY <1>2 DEF Msg, DxMsgs
<1> HIDE DEF sync, fup
<1>4. PortInv(dxPort)' /\ dxPort' \in DxPortType'
  <2>1. PortInv(dxPort')
    BY <1>1 DEF DxInv
  <2> QED BY <2>1, <1>1, PortInvPrime
<1>5. DxTypeOK'
  BY <1>1, <1>2, <1>3, <1>4 DEF DxInv, DxTypeOK, Masters, DxMsgs
<1>6. \A x : Seen(x) => Seen(x)' /\ x # Stamp(m, n)
  <2>1. \A k \in Masters : dxSyncSeq[k] \in Nat /\ dxSyncSeq'[k] \in Nat /\ dxSyncSeq[k] <= dxSyncSeq'[k]
    BY <1>1, <1>2
  <2>2. ASSUME NEW x, Seen(x) PROVE Seen(x)'
    BY <2>1, <2>2, <1>1 DEF Seen, Masters
  <2>3. ASSUME NEW x, Seen(x) PROVE x # Stamp(m, n)
    BY <2>3, <1>2 DEF Seen, Stamp, Zero, Incorrect
  <2> QED BY <2>2, <2>3
<1>7. SyncsOnce'
  <2>1. Seen(dxPort.t[2])' /\ Seen(dxPort.st[2])' /\ Seen(dxPort.used[2])'
    <3>1. Seen(dxPort.t[2]) /\ Seen(dxPort.st[2]) /\ Seen(dxPort.used[2])
      BY DEF DxInv, SyncsOnce
    <3> QED BY <3>1, <1>1, <1>6 DEF Seen
  <2>2. ASSUME NEW k \in dxNet', k.type = "SYNC"
        PROVE  /\ k.seq <= dxSyncSeq'[k.from]
               /\ Stamp(k.from, k.seq) \notin {dxPort.t[2], dxPort.st[2], dxPort.used[2]}
    <3>1. CASE k \in dxNet
      <4>1. /\ k \in DxMsgs /\ k.seq <= dxSyncSeq[k.from]
            /\ Stamp(k.from, k.seq) \notin {dxPort.t[2], dxPort.st[2], dxPort.used[2]}
        BY <3>1, <2>2 DEF DxInv, DxTypeOK, SyncsOnce
      <4> QED BY <4>1, <1>1, <1>2 DEF DxMsgs
    <3>2. CASE k = sync
      BY <3>2, <1>1, <1>2, <1>3, <1>6 DEF DxInv, SyncsOnce
    <3> QED BY <3>1, <3>2, <2>2, <1>1, <1>3
  <2> QED BY <2>1, <2>2, <1>1 DEF SyncsOnce, Stamp
<1>8. AnswersSent'
  BY <1>1, <1>3 DEF DxInv, AnswersSent, Sent, E2E
<1>9. NewPair
  BY <1>1 DEF NewPair
<1> QED BY <1>4, <1>5, <1>7, <1>8, <1>9 DEF DxInv

(* Every step keeps the invariant, and gives the servo a new Sync.         *)
LEMMA NextInv == DxInv /\ [DxNext]_dxVars => DxInv' /\ [NewPair]_dxVars
<1> SUFFICES ASSUME DxInv, [DxNext]_dxVars PROVE DxInv' /\ [NewPair]_dxVars
  OBVIOUS
<1>1. CASE Request
  BY <1>1, RequestStep
<1>2. CASE DxReceive
  BY <1>2, ReceiveStep
<1>3. CASE ChangeParent
  BY <1>3, ChangeParentStep
<1>4. CASE DxLose
  BY <1>4, LoseStep
<1>5. ASSUME NEW m \in Masters, msg_issue_sync_followup(m) \/ AnswerRequest(m)
      PROVE  DxInv' /\ NewPair
  BY <1>5, SyncStep, AnswerStep
<1>6. CASE UNCHANGED dxVars
  <2>1. DxInv'
    BY <1>6 DEF dxVars, DxInv, DxTypeOK, DxPortType, Stamps, DxMsgs, PortInv, PairWaits, PeerAnswer,
          ServoHas, OneExchange, OfParent, SyncsOnce, Seen, AnswersSent, Sent, Masters, E2E
  <2> QED BY <2>1, <1>6, SMTT(30)
<1> QED BY <1>1, <1>2, <1>3, <1>4, <1>5, <1>6 DEF DxNext

-----------------------------------------------------------------------------
(* The servo of a slave port never mixes exchanges, whichever messages are *)
(* lost, late, doubled or without a time stamp, in either delay mechanism, *)
(* and however often the parent changes: t1 and t2 are of one Sync, t3 to  *)
(* t6 of one request, all of the present parent (slave_handle_followup(),  *)
(* slave_handle_response(), st_com_peer_handle_pres()).                    *)
THEOREM StampsBelongTogether == DxSpec => []StampsBelong
<1>1. DxInv => StampsBelong
  BY DEF DxInv, PortInv, OneExchange, OfParent, StampsBelong, StampsOfOneExchange, StampsOfParent,
         Running
<1> QED BY <1>1, InitInv, NextInv, PTL DEF DxSpec

(* No two computations of the servo share a Sync (pp_servo_got_sync(),     *)
(* pp_servo_got_resp()).                                                   *)
THEOREM SyncUsedOnce == DxSpec => FreshSyncEachTime
BY InitInv, NextInv, PTL DEF DxSpec, FreshSyncEachTime
=============================================================================
