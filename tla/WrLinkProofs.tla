---------------------------- MODULE WrLinkProofs ----------------------------
(***************************************************************************)
(* Proofs about the White Rabbit handshake of WrLink.                      *)
(***************************************************************************)
EXTENDS WrLink, TLAPS

Roles == {"NONE", "MASTER", "SLAVE"}

(* A port; in the middle of Reopened its state is DISABLED.                *)
WrPorts ==
  [pp : {"LISTENING", "UNCALIBRATED", "SLAVE", "MASTER", "DISABLED"}, isNew : BOOLEAN,
   wst : WrStates, wnext : WrStates, ext : {"ACTIVE", "PTP"}, role : Roles, on : BOOLEAN,
   parentWr : BOOLEAN, parentOn : BOOLEAN, detect : {"NO", "WR", "NOT_WR"},
   restart : BOOLEAN, gap : BOOLEAN, lock : {"off", "enabled", "locked"},
   retry : 0..R, fallback : BOOLEAN, wr : BOOLEAN]

-----------------------------------------------------------------------------
(* What the operations on a port do to it, field by field.                 *)

(* The fields that the operations of common-fun.c leave alone.             *)
Kept(x, y) ==
  /\ y.pp = x.pp /\ y.isNew = x.isNew /\ y.wst = x.wst /\ y.detect = x.detect
  /\ y.gap = x.gap /\ y.lock = x.lock
  /\ y.fallback = x.fallback /\ y.wr = x.wr

(* wr_reset_process() ends WR mode and forgets the parent, unless the role *)
(* is SLAVE.                                                               *)
LEMMA ResetFields ==
  ASSUME NEW x \in WrPorts, NEW role \in Roles
  PROVE  LET y == wr_reset_process(x, role)
         IN  /\ y \in WrPorts /\ Kept(x, y) /\ y.wnext = x.wnext /\ y.ext = x.ext
             /\ y.restart = x.restart /\ y.role = role /\ ~y.on
             /\ y.parentWr = (x.parentWr /\ role = "SLAVE")
             /\ y.parentOn = (x.parentOn /\ role = "SLAVE")
             /\ role # "SLAVE" => ~y.parentOn
<1> DEFINE pw == x.parentWr /\ role = "SLAVE"
           po == x.parentOn /\ role = "SLAVE"
           y == wr_reset_process(x, role)
<1>1. pw \in BOOLEAN /\ po \in BOOLEAN
  OBVIOUS
<1>2. y = [x EXCEPT !.role = role, !.on = FALSE, !.parentWr = pw, !.parentOn = po]
  BY DEF wr_reset_process
<1> HIDE DEF pw, po, y
<1>3. y \in WrPorts
  BY <1>1, <1>2 DEF WrPorts
<1>4. /\ Kept(x, y) /\ y.wnext = x.wnext /\ y.ext = x.ext /\ y.restart = x.restart
      /\ y.role = role /\ ~y.on /\ y.parentWr = pw /\ y.parentOn = po
  BY <1>2 DEF WrPorts, Kept
<1> QED BY <1>3, <1>4 DEF y, pw, po

(* pdstate_enable_extension() changes the extension only.                  *)
LEMMA EnableFields ==
  ASSUME NEW x \in WrPorts
  PROVE  LET y == pdstate_enable_extension(x)
         IN  /\ y \in WrPorts /\ Kept(x, y) /\ y.wnext = x.wnext /\ y.ext = "ACTIVE"
             /\ y.restart = x.restart /\ y.role = x.role /\ y.on = x.on
             /\ y.parentWr = x.parentWr /\ y.parentOn = x.parentOn
BY DEF WrPorts, Kept, pdstate_enable_extension

(* pdstate_disable_extension() ends WR mode if the extension was active.   *)
LEMMA DisableFields ==
  ASSUME NEW x \in WrPorts
  PROVE  LET y == pdstate_disable_extension(x)
         IN  /\ y \in WrPorts /\ Kept(x, y) /\ y.wnext = x.wnext /\ y.ext = "PTP"
             /\ y.restart = x.restart
             /\ x.ext = "ACTIVE" => ~y.on /\ y.role = "NONE" /\ ~y.parentOn
             /\ x.ext = "PTP" => y = x
<1> DEFINE a == wr_reset_process(x, "NONE")
           y == pdstate_disable_extension(x)
<1>1. /\ a \in WrPorts /\ Kept(x, a) /\ a.wnext = x.wnext /\ a.restart = x.restart
      /\ a.role = "NONE" /\ ~a.on /\ ~a.parentOn
  BY ResetFields DEF Roles
<1>2. y = IF x.ext = "ACTIVE" THEN [a EXCEPT !.ext = "PTP"] ELSE x
  BY DEF pdstate_disable_extension
<1> HIDE DEF a, y
<1> QED BY <1>1, <1>2 DEF WrPorts, Kept, y

-----------------------------------------------------------------------------
(* What a WR state does.                                                   *)

WrFrames == Frames \cup {Nothing}

(* The handshake goes on, y for x, with the same mode and the same role.   *)
Alike(x, y) == y.ext = x.ext /\ y.on = x.on /\ y.role = x.role /\ y.parentOn = x.parentOn

(* The handshake has failed.                                               *)
Failed(x, y) ==
  /\ y.wnext = "IDLE" /\ (y.on => x.on) /\ (y.parentOn => x.parentOn)
  /\ Alike(x, y) \/ (y.ext = "PTP" /\ ~y.on /\ y.role = "NONE")

(* wr_handshake_fail() leads back to IDLE, in no mode the port was not in. *)
LEMMA FailedFields ==
  ASSUME NEW x \in WrPorts, x.ext = "ACTIVE"
  PROVE  LET y == wr_handshake_fail(x)
         IN  y \in WrPorts /\ Kept(x, y) /\ Failed(x, y)
<1> DEFINE a == [x EXCEPT !.wnext = "IDLE", !.restart = FALSE]
           b == [x EXCEPT !.wnext = "IDLE", !.restart = TRUE]
           c == wr_reset_process(a, "NONE")
           y == wr_handshake_fail(x)
<1>1. /\ a \in WrPorts /\ Kept(x, a) /\ a.wnext = "IDLE" /\ a.ext = "ACTIVE"
      /\ b \in WrPorts /\ Kept(x, b) /\ b.wnext = "IDLE" /\ Alike(x, b)
  BY DEF WrPorts, Kept, WrStates, Alike
<1>2. y = IF x.fallback THEN [c EXCEPT !.ext = "PTP"] ELSE b
  BY <1>1 DEF wr_handshake_fail, pdstate_disable_extension
<1>3. /\ c \in WrPorts /\ Kept(a, c) /\ c.wnext = "IDLE" /\ c.role = "NONE" /\ ~c.on
  BY <1>1, ResetFields DEF Roles
<1>4. c.parentOn = FALSE
  BY DEF wr_reset_process, WrPorts
<1> HIDE DEF a, b, c, y
<1>5. CASE x.fallback
  <2>1. y = [c EXCEPT !.ext = "PTP"]
    BY <1>2, <1>5
  <2>2. /\ y \in WrPorts /\ Kept(a, y) /\ y.wnext = "IDLE" /\ y.ext = "PTP" /\ ~y.on
        /\ y.role = "NONE" /\ y.parentOn = FALSE
    BY <2>1, <1>3, <1>4 DEF WrPorts, Kept
  <2>3. Kept(x, y)
    BY <2>2, <1>1 DEF Kept
  <2> QED BY <2>2, <2>3 DEF Failed, y
<1>6. CASE ~x.fallback
  BY <1>1, <1>2, <1>6 DEF Failed, Alike, y
<1> QED BY <1>5, <1>6

(* A result that keeps x but for the time.                                 *)
Goes(x, r) == r.x \in WrPorts /\ Kept(x, r.x) /\ r.next = x.pp

(* A period is over: the message is sent again, or the handshake fails.    *)
LEMMA CheckTimeFields ==
  ASSUME NEW x \in WrPorts, x.ext = "ACTIVE", NEW tick \in BOOLEAN, NEW msg
  PROVE  LET r == CheckTime(x, tick, msg)
         IN  /\ Goes(x, r)
             /\ \/ Alike(x, r.x) /\ r.x.wnext = x.wnext /\ r.send \in {Nothing, msg}
                \/ Failed(x, r.x) /\ r.send = Nothing
<1> DEFINE r == CheckTime(x, tick, msg)
           d == [x EXCEPT !.retry = @ - 1]
           y == wr_handshake_fail(x)
<1>1. x.retry # 0 => d \in WrPorts /\ Kept(x, d) /\ Alike(x, d) /\ d.wnext = x.wnext /\ d.pp = x.pp
  BY RetryAssumption DEF WrPorts, Kept, Alike
<1>2. y \in WrPorts /\ Kept(x, y) /\ Failed(x, y)
  BY FailedFields
<1>3. \/ r.x = x /\ r.send = Nothing /\ r.next = x.pp
      \/ r.x = y /\ r.send = Nothing /\ r.next = y.pp
      \/ r.x = d /\ r.send = msg /\ r.next = d.pp /\ x.retry # 0
  BY DEF CheckTime, Result
<1> HIDE DEF r, d, y
<1>4. y.pp = x.pp /\ Kept(x, x) /\ Alike(x, x)
  BY <1>2 DEF Kept, Alike
<1>5. Goes(x, r)
  BY <1>1, <1>2, <1>3, <1>4 DEF Goes
<1>6. \/ Alike(x, r.x) /\ r.x.wnext = x.wnext /\ r.send \in {Nothing, msg}
      \/ Failed(x, r.x) /\ r.send = Nothing
  BY <1>1, <1>2, <1>3, <1>4
<1> QED BY <1>5, <1>6 DEF r

(* A waiting state stays, goes on with the message it expects, or fails.   *)
LEMMA WaitFields ==
  ASSUME NEW x \in WrPorts, x.ext = "ACTIVE", NEW new \in BOOLEAN, NEW f \in WrFrames,
         NEW tick \in BOOLEAN, NEW msg, NEW expected, NEW to \in WrStates
  PROVE  LET r == SendAndWait(x, new, f, tick, msg, expected, to)
         IN  /\ Goes(x, r)
             /\ \/ Alike(x, r.x) /\ r.x.wnext = x.wnext /\ r.send \in {Nothing, msg}
                \/ /\ Alike(x, r.x) /\ r.x.wnext = to /\ r.send = Nothing
                   /\ f.kind = "signaling" /\ f.id = expected
                \/ Failed(x, r.x) /\ r.send = Nothing
<1> DEFINE r == SendAndWait(x, new, f, tick, msg, expected, to)
           a == [x EXCEPT !.retry = R]
           b == [x EXCEPT !.wnext = to]
           c == CheckTime(x, tick, msg)
<1>1. /\ a \in WrPorts /\ Kept(x, a) /\ Alike(x, a) /\ a.wnext = x.wnext /\ a.pp = x.pp
      /\ b \in WrPorts /\ Kept(x, b) /\ Alike(x, b) /\ b.wnext = to /\ b.pp = x.pp
      /\ Kept(x, x) /\ Alike(x, x)
  BY RetryAssumption DEF WrPorts, Kept, Alike
<1>2. \/ r.x = a /\ r.send = msg /\ r.next = a.pp
      \/ r.x = b /\ r.send = Nothing /\ r.next = b.pp /\ f.kind = "signaling" /\ f.id = expected
      \/ r.x = x /\ r.send = Nothing /\ r.next = x.pp
      \/ r = c
  BY DEF SendAndWait, Result, StartWait
<1>3. /\ Goes(x, c)
      /\ \/ Alike(x, c.x) /\ c.x.wnext = x.wnext /\ c.send \in {Nothing, msg}
         \/ Failed(x, c.x) /\ c.send = Nothing
  BY CheckTimeFields
<1> HIDE DEF r, a, b, c
<1>4. Goes(x, r)
  BY <1>1, <1>2, <1>3 DEF Goes
<1>5. \/ Alike(x, r.x) /\ r.x.wnext = x.wnext /\ r.send \in {Nothing, msg}
      \/ /\ Alike(x, r.x) /\ r.x.wnext = to /\ r.send = Nothing
         /\ f.kind = "signaling" /\ f.id = expected
      \/ Failed(x, r.x) /\ r.send = Nothing
  BY <1>1, <1>2, <1>3
<1> QED BY <1>4, <1>5 DEF r

-----------------------------------------------------------------------------
(* A call of the extension's state machine in a handshake, as a step from  *)
(* one WR state to another: what is read, and what is sent.                *)

Is(f, id) == f.kind = "signaling" /\ f.id = id
Quiet(f)  == f.kind = "none"

(* The message that a state sends, and sends again.                        *)
Says(s, g) ==
  \/ Quiet(g)
  \/ s = "PRESENT" /\ Is(g, "SLAVE_PRESENT")
  \/ s = "M_LOCK" /\ Is(g, "LOCK")
  \/ s = "LOCKED" /\ Is(g, "LOCKED")
  \/ s = "CALIBRATED" /\ Is(g, "CALIBRATED")

(* From state s to state to, with frame f read and frame g sent.           *)
Moves(s, role, f, to, g) ==
  \/ s = "PRESENT" /\ to = "S_LOCK" /\ Is(f, "LOCK") /\ Quiet(g)
  \/ s = "M_LOCK" /\ to = "CALIBRATION" /\ Is(f, "LOCKED") /\ Quiet(g)
  \/ s = "S_LOCK" /\ to = "LOCKED" /\ Quiet(g)
  \/ s = "LOCKED" /\ to = "RESP_CALIB_REQ" /\ Is(f, "CALIBRATE") /\ Quiet(g)
  \/ s = "CALIBRATION" /\ to = "CALIBRATED" /\ Is(g, "CALIBRATE")
  \/ s = "CALIBRATED" /\ role = "MASTER" /\ to = "RESP_CALIB_REQ" /\ Is(f, "CALIBRATE") /\ Quiet(g)
  \/ s = "CALIBRATED" /\ role = "SLAVE" /\ to = "WR_LINK_ON" /\ Is(f, "WR_MODE_ON") /\ Quiet(g)
  \/ s = "RESP_CALIB_REQ" /\ role = "MASTER" /\ to = "WR_LINK_ON" /\ Is(f, "CALIBRATED") /\ Quiet(g)
  \/ s = "RESP_CALIB_REQ" /\ role # "MASTER" /\ to = "CALIBRATION" /\ Is(f, "CALIBRATED") /\ Quiet(g)

(* WR mode, the role and the extension in a call that does not end the     *)
(* handshake well.                                                         *)
Eases(x, y) ==
  /\ y.on => x.on
  /\ y.parentOn => x.parentOn
  /\ y.role \in {x.role, "NONE"} \/ (x.wnext = "M_LOCK" /\ y.role = "MASTER")
  /\ y.ext = x.ext \/ (y.ext = "PTP" /\ ~y.on /\ y.wnext = "IDLE")

(* What a call leaves alone.                                               *)
Remains(x, y) ==
  /\ y.pp = x.pp /\ y.isNew = x.isNew /\ y.wst = x.wst /\ y.gap = x.gap
  /\ y.fallback = x.fallback /\ y.wr = x.wr

(* The handshake in state x.wnext.                                         *)
Shakes(x, f, r) ==
  /\ r.x \in WrPorts /\ r.send \in WrFrames /\ r.next = x.pp
  /\ Remains(x, r.x) /\ r.x.detect = x.detect
  /\ x.wnext # "S_LOCK" => r.x.lock = x.lock
  /\ \/ /\ Eases(x, r.x) /\ r.x.wnext = x.wnext /\ Says(x.wnext, r.send)
        /\ x.wnext = "WR_LINK_ON" => x.role = "MASTER"
     \/ Eases(x, r.x) /\ r.x.wnext = "IDLE" /\ Quiet(r.send)
     \/ /\ Eases(x, r.x) /\ Moves(x.wnext, x.role, f, r.x.wnext, r.send)
        /\ x.wnext = "S_LOCK" => r.x.lock = "locked"
     \/ /\ x.wnext = "WR_LINK_ON" /\ r.x.wnext = "IDLE"
        /\ r.x.on /\ r.x.role = x.role /\ r.x.ext = x.ext
        /\ x.role = "MASTER" => Is(r.send, "WR_MODE_ON")
        /\ x.role # "MASTER" => Quiet(r.send)

(* The frames are frames, and Nothing is none.                             *)
LEMMA FrameFacts ==
  /\ Quiet(Nothing) /\ Nothing \in WrFrames
  /\ \A id : Is(Sig(id), id)
  /\ \A id \in Signals : Sig(id) \in WrFrames
BY DEF Quiet, Nothing, Is, Sig, WrFrames, Frames

(* A signaling message has one of the six identifiers.                     *)
LEMMA FrameIds == \A f \in WrFrames : f.kind = "signaling" => f.id \in Signals
<1> SUFFICES ASSUME NEW f \in WrFrames, f.kind = "signaling" PROVE f.id \in Signals
  OBVIOUS
<1>1. CASE f \in {Sig(id) : id \in Signals}
  <2>1. PICK id \in Signals : f = Sig(id)
    BY <1>1
  <2> QED BY <2>1 DEF Sig
<1>2. CASE f \in [kind : {"announce"}, wr : BOOLEAN, on : BOOLEAN]
  BY <1>2
<1>3. CASE f = Nothing
  BY <1>3 DEF Nothing
<1> QED BY <1>1, <1>2, <1>3 DEF WrFrames, Frames

(* A state that sends msg and waits for the message to go on with.         *)
LEMMA WaitShakes ==
  ASSUME NEW x \in WrPorts, x.ext = "ACTIVE", NEW new \in BOOLEAN, NEW f \in WrFrames,
         NEW tick \in BOOLEAN, NEW msg \in WrFrames, NEW expected, NEW to \in WrStates,
         Says(x.wnext, msg), x.wnext \notin {"S_LOCK", "WR_LINK_ON"},
         Is(f, expected) => Moves(x.wnext, x.role, f, to, Nothing)
  PROVE  Shakes(x, f, SendAndWait(x, new, f, tick, msg, expected, to))
<1> DEFINE r == SendAndWait(x, new, f, tick, msg, expected, to)
<1>1. /\ Goes(x, r)
      /\ \/ Alike(x, r.x) /\ r.x.wnext = x.wnext /\ r.send \in {Nothing, msg}
         \/ /\ Alike(x, r.x) /\ r.x.wnext = to /\ r.send = Nothing
            /\ f.kind = "signaling" /\ f.id = expected
         \/ Failed(x, r.x) /\ r.send = Nothing
  BY WaitFields
<1> HIDE DEF r
<1>2. /\ r.x \in WrPorts /\ r.next = x.pp /\ Remains(x, r.x) /\ r.x.detect = x.detect
      /\ r.x.lock = x.lock
  BY <1>1 DEF Goes, Kept, Remains
<1>3. r.send \in WrFrames
  BY <1>1, FrameFacts
<1>4. CASE Alike(x, r.x) /\ r.x.wnext = x.wnext /\ r.send \in {Nothing, msg}
  <2>1. Eases(x, r.x)
    BY <1>4 DEF Alike, Eases
  <2>2. Says(x.wnext, r.send)
    BY <1>4, FrameFacts DEF Says
  <2> QED BY <1>2, <1>3, <1>4, <2>1, <2>2 DEF Shakes, r
<1>5. CASE /\ Alike(x, r.x) /\ r.x.wnext = to /\ r.send = Nothing
           /\ f.kind = "signaling" /\ f.id = expected
  <2>1. Eases(x, r.x)
    BY <1>5 DEF Alike, Eases
  <2>2. Moves(x.wnext, x.role, f, r.x.wnext, r.send)
    BY <1>5 DEF Is
  <2> QED BY <1>2, <1>3, <2>1, <2>2 DEF Shakes, r
<1>6. CASE Failed(x, r.x) /\ r.send = Nothing
  <2>1. Eases(x, r.x) /\ r.x.wnext = "IDLE"
    BY <1>6 DEF Failed, Alike, Eases
  <2> QED BY <1>2, <1>3, <1>6, <2>1, FrameFacts DEF Shakes, r
<1> QED BY <1>1, <1>4, <1>5, <1>6

(* The port as a WR state finds it.                                        *)
Entered(x0, x, s) ==
  /\ x \in WrPorts /\ x.wst = s /\ x.wnext = s
  /\ x.pp = x0.pp /\ x.isNew = x0.isNew /\ x.detect = x0.detect /\ x.gap = x0.gap
  /\ x.lock = x0.lock /\ x.fallback = x0.fallback /\ x.wr = x0.wr
  /\ x.ext = x0.ext /\ x.on = x0.on /\ x.role = x0.role /\ x.parentOn = x0.parentOn

(* wr_present(): the slave offers itself until it is told to lock.         *)
LEMMA PresentShakes ==
  ASSUME NEW x \in WrPorts, x.ext = "ACTIVE", x.wnext = "PRESENT", NEW new \in BOOLEAN,
         NEW f \in WrFrames, NEW tick \in BOOLEAN
  PROVE  Shakes(x, f, wr_present(x, new, f, tick))
<1> DEFINE a == [x EXCEPT !.restart = FALSE]
           b == IF new THEN a ELSE x
           msg == Sig("SLAVE_PRESENT")
           r == SendAndWait(b, new, f, tick, msg, "LOCK", "S_LOCK")
<1>1. /\ a \in WrPorts /\ a.ext = "ACTIVE" /\ a.wnext = "PRESENT" /\ Alike(x, a)
      /\ Remains(x, a) /\ a.detect = x.detect /\ a.lock = x.lock
  BY DEF WrPorts, Alike, Remains
<1> HIDE DEF a
<1>2. /\ b \in WrPorts /\ b.ext = "ACTIVE" /\ b.wnext = "PRESENT" /\ Alike(x, b)
      /\ Remains(x, b) /\ b.detect = x.detect /\ b.lock = x.lock
  BY <1>1 DEF Alike, Remains
<1> HIDE DEF b
<1>3. msg \in WrFrames /\ Is(msg, "SLAVE_PRESENT")
  BY FrameFacts DEF Signals
<1>4. Says(b.wnext, msg)
  BY <1>2, <1>3 DEF Says
<1>5. Is(f, "LOCK") => Moves(b.wnext, b.role, f, "S_LOCK", Nothing)
  BY <1>2, FrameFacts DEF Moves
<1>6. "S_LOCK" \in WrStates
  BY DEF WrStates
<1> HIDE DEF msg
<1>7. Shakes(b, f, r)
  BY <1>2, <1>3, <1>4, <1>5, <1>6, WaitShakes
<1> HIDE DEF r
<1>8. Shakes(x, f, r)
  BY <1>2, <1>7 DEF Shakes, Alike, Remains, Eases
<1> QED BY <1>8 DEF wr_present, r, b, a, msg

(* wr_m_lock(): the master takes its role and waits for the lock.          *)
LEMMA MLockShakes ==
  ASSUME NEW x \in WrPorts, x.ext = "ACTIVE", x.wnext = "M_LOCK", NEW new \in BOOLEAN,
         NEW f \in WrFrames, NEW tick \in BOOLEAN
  PROVE  Shakes(x, f, wr_m_lock(x, new, f, tick))
<1> DEFINE a == wr_reset_process(x, "MASTER")
           b == IF new THEN a ELSE x
           msg == Sig("LOCK")
           r == SendAndWait(b, new, f, tick, msg, "LOCKED", "CALIBRATION")
<1>1. /\ a \in WrPorts /\ Kept(x, a) /\ a.wnext = "M_LOCK" /\ a.ext = "ACTIVE"
      /\ a.role = "MASTER" /\ ~a.on
  BY ResetFields DEF Roles
<1>2. a.parentOn = FALSE
  BY DEF wr_reset_process, WrPorts
<1> HIDE DEF a
<1>3. /\ b \in WrPorts /\ Kept(x, b) /\ b.ext = "ACTIVE" /\ b.wnext = "M_LOCK"
      /\ b.role \in {x.role, "MASTER"} /\ (b.on => x.on) /\ (b.parentOn => x.parentOn)
  BY <1>1, <1>2 DEF Kept
<1> HIDE DEF b
<1>4. msg \in WrFrames /\ Is(msg, "LOCK")
  BY FrameFacts DEF Signals
<1>5. Says(b.wnext, msg)
  BY <1>3, <1>4 DEF Says
<1>6. Is(f, "LOCKED") => Moves(b.wnext, b.role, f, "CALIBRATION", Nothing)
  BY <1>3, FrameFacts DEF Moves
<1>7. "CALIBRATION" \in WrStates
  BY DEF WrStates
<1> HIDE DEF msg
<1>8. Shakes(b, f, r)
  BY <1>3, <1>4, <1>5, <1>6, <1>7, WaitShakes
<1> HIDE DEF r
<1>9. ASSUME NEW to, NEW g PROVE Moves("M_LOCK", b.role, f, to, g) = Moves("M_LOCK", x.role, f, to, g)
  BY DEF Moves
<1>10. Eases(b, r.x) => Eases(x, r.x)
  BY <1>3 DEF Eases
<1>11. /\ r.x \in WrPorts /\ r.send \in WrFrames /\ r.next = x.pp
       /\ Remains(x, r.x) /\ r.x.detect = x.detect /\ r.x.lock = x.lock
  BY <1>3, <1>8 DEF Shakes, Kept, Remains
<1>12. \/ Eases(b, r.x) /\ r.x.wnext = "M_LOCK" /\ Says("M_LOCK", r.send)
       \/ Eases(b, r.x) /\ r.x.wnext = "IDLE" /\ Quiet(r.send)
       \/ Eases(b, r.x) /\ Moves("M_LOCK", b.role, f, r.x.wnext, r.send)
  BY <1>3, <1>8 DEF Shakes
<1>13. Shakes(x, f, r)
  BY <1>9, <1>10, <1>11, <1>12 DEF Shakes
<1> QED BY <1>13 DEF wr_m_lock, r, b, a, msg

(* wr_locked(): the slave tells that it has locked.                        *)
LEMMA LockedShakes ==
  ASSUME NEW x \in WrPorts, x.ext = "ACTIVE", x.wnext = "LOCKED", NEW new \in BOOLEAN,
         NEW f \in WrFrames, NEW tick \in BOOLEAN
  PROVE  Shakes(x, f, wr_locked(x, new, f, tick))
<1> DEFINE msg == Sig("LOCKED")
<1>1. msg \in WrFrames /\ Is(msg, "LOCKED")
  BY FrameFacts DEF Signals
<1>2. Says(x.wnext, msg)
  BY <1>1 DEF Says
<1>3. Is(f, "CALIBRATE") => Moves(x.wnext, x.role, f, "RESP_CALIB_REQ", Nothing)
  BY FrameFacts DEF Moves
<1>4. "RESP_CALIB_REQ" \in WrStates
  BY DEF WrStates
<1> HIDE DEF msg
<1>5. Shakes(x, f, SendAndWait(x, new, f, tick, msg, "CALIBRATE", "RESP_CALIB_REQ"))
  BY <1>1, <1>2, <1>3, <1>4, WaitShakes
<1> QED BY <1>5 DEF wr_locked, msg

(* wr_calibrated(): what comes next depends on the role.                   *)
LEMMA CalibratedShakes ==
  ASSUME NEW x \in WrPorts, x.ext = "ACTIVE", x.wnext = "CALIBRATED", NEW new \in BOOLEAN,
         NEW f \in WrFrames, NEW tick \in BOOLEAN
  PROVE  Shakes(x, f, wr_calibrated(x, new, f, tick))
<1> DEFINE msg == Sig("CALIBRATED")
           exp == IF x.role = "SLAVE" THEN "WR_MODE_ON" ELSE ""
<1>1. msg \in WrFrames /\ Is(msg, "CALIBRATED")
  BY FrameFacts DEF Signals
<1>2. Says(x.wnext, msg)
  BY <1>1 DEF Says
<1>3. "RESP_CALIB_REQ" \in WrStates /\ "WR_LINK_ON" \in WrStates
  BY DEF WrStates
<1>4. CASE x.role = "MASTER"
  <2>1. Is(f, "CALIBRATE") => Moves(x.wnext, x.role, f, "RESP_CALIB_REQ", Nothing)
    BY <1>4, FrameFacts DEF Moves
  <2> HIDE DEF msg
  <2>2. Shakes(x, f, SendAndWait(x, new, f, tick, msg, "CALIBRATE", "RESP_CALIB_REQ"))
    BY <1>1, <1>2, <1>3, <2>1, WaitShakes
  <2> QED BY <2>2, <1>4 DEF wr_calibrated, msg
<1>5. CASE x.role # "MASTER"
  <2>1. ~Is(f, "")
    BY FrameIds DEF Is, Signals
  <2>2. Is(f, exp) => Moves(x.wnext, x.role, f, "WR_LINK_ON", Nothing)
    BY <2>1, FrameFacts DEF Moves
  <2> HIDE DEF msg, exp
  <2>3. Shakes(x, f, SendAndWait(x, new, f, tick, msg, exp, "WR_LINK_ON"))
    BY <1>1, <1>2, <1>3, <2>2, WaitShakes
  <2> QED BY <2>3, <1>5 DEF wr_calibrated, msg, exp
<1> QED BY <1>4, <1>5

(* wr_s_lock(): the only state that locks the PLL.                         *)
LEMMA SLockShakes ==
  ASSUME NEW x \in WrPorts, x.ext = "ACTIVE", x.wnext = "S_LOCK", NEW new \in BOOLEAN,
         NEW f \in WrFrames, NEW tick \in BOOLEAN, NEW locked \in BOOLEAN
  PROVE  Shakes(x, f, wr_s_lock(x, new, tick, locked))
<1> DEFINE a == [x EXCEPT !.retry = R, !.lock = "enabled"]
           b == [x EXCEPT !.wnext = "LOCKED", !.lock = "locked"]
           lk == IF x.retry = 0 THEN "off" ELSE "enabled"
           c == [x EXCEPT !.lock = lk]
           d == IF tick THEN c ELSE x
           q == CheckTime(d, tick, Nothing)
           r == wr_s_lock(x, new, tick, locked)
<1>1. /\ a \in WrPorts /\ Alike(x, a) /\ Remains(x, a) /\ a.detect = x.detect
      /\ a.wnext = "S_LOCK" /\ a.pp = x.pp
  <2>1. R \in 0..R
    BY RetryAssumption
  <2>2. a \in WrPorts
    BY <2>1 DEF WrPorts
  <2> QED BY <2>2 DEF WrPorts, Alike, Remains
<1>2. /\ b \in WrPorts /\ Alike(x, b) /\ Remains(x, b) /\ b.detect = x.detect
      /\ b.wnext = "LOCKED" /\ b.lock = "locked" /\ b.pp = x.pp
  BY DEF WrPorts, Alike, Remains, WrStates
<1>3. lk \in {"off", "enabled", "locked"}
  OBVIOUS
<1> HIDE DEF lk
<1>4. /\ c \in WrPorts /\ Alike(x, c) /\ Remains(x, c) /\ c.detect = x.detect
      /\ c.wnext = "S_LOCK" /\ c.ext = "ACTIVE" /\ c.pp = x.pp
  BY <1>3 DEF WrPorts, Alike, Remains
<1>5. \/ r.x = a /\ r.send = Nothing /\ r.next = a.pp
      \/ r.x = b /\ r.send = Nothing /\ r.next = b.pp
      \/ r = q
  BY DEF wr_s_lock, Result, StartWait, lk
<1> HIDE DEF a, b, c
<1>6. /\ d \in WrPorts /\ Alike(x, d) /\ Remains(x, d) /\ d.detect = x.detect
      /\ d.wnext = "S_LOCK" /\ d.ext = "ACTIVE" /\ d.pp = x.pp
  BY <1>4 DEF Alike, Remains
<1> HIDE DEF d
<1>7. /\ Goes(d, q)
      /\ \/ Alike(d, q.x) /\ q.x.wnext = d.wnext /\ q.send \in {Nothing, Nothing}
         \/ Failed(d, q.x) /\ q.send = Nothing
  BY <1>6, CheckTimeFields
<1> HIDE DEF q, r
<1>8. /\ q.x \in WrPorts /\ q.next = x.pp /\ Remains(x, q.x) /\ q.x.detect = x.detect
      /\ q.send = Nothing /\ Eases(x, q.x) /\ q.x.wnext \in {"S_LOCK", "IDLE"}
  BY <1>6, <1>7 DEF Goes, Kept, Remains, Alike, Failed, Eases
<1>9. Eases(x, a) /\ Eases(x, b)
  BY <1>1, <1>2 DEF Alike, Eases
<1>10. Moves("S_LOCK", x.role, f, "LOCKED", Nothing) /\ Says("S_LOCK", Nothing)
  BY FrameFacts DEF Moves, Says
<1>11. CASE r.x = a /\ r.send = Nothing /\ r.next = a.pp
  BY <1>1, <1>9, <1>10, <1>11, FrameFacts DEF Shakes, r
<1>12. CASE r.x = b /\ r.send = Nothing /\ r.next = b.pp
  BY <1>2, <1>9, <1>10, <1>12, FrameFacts DEF Shakes, r
<1>13. CASE r = q
  BY <1>8, <1>10, <1>13, FrameFacts DEF Shakes, r
<1> QED BY <1>5, <1>11, <1>12, <1>13

(* wr_calibration() takes one call.                                        *)
LEMMA CalibrationShakes ==
  ASSUME NEW x \in WrPorts, x.ext = "ACTIVE", x.wnext = "CALIBRATION", NEW f \in WrFrames
  PROVE  Shakes(x, f, wr_calibration(x))
<1> DEFINE a == [x EXCEPT !.wnext = "CALIBRATED"]
           msg == Sig("CALIBRATE")
           r == wr_calibration(x)
<1>1. /\ a \in WrPorts /\ Eases(x, a) /\ Remains(x, a) /\ a.detect = x.detect
      /\ a.wnext = "CALIBRATED" /\ a.lock = x.lock /\ a.pp = x.pp
  BY DEF WrPorts, Eases, Remains, WrStates
<1>2. r.x = a /\ r.send = msg /\ r.next = a.pp
  BY DEF wr_calibration, Result
<1>3. msg \in WrFrames /\ Is(msg, "CALIBRATE")
  BY FrameFacts DEF Signals
<1> HIDE DEF a, msg, r
<1>4. Moves("CALIBRATION", x.role, f, "CALIBRATED", msg)
  BY <1>3 DEF Moves
<1> QED BY <1>1, <1>2, <1>3, <1>4 DEF Shakes, r

(* wr_resp_calib_req(): the other end has calibrated.                      *)
LEMMA RespCalibReqShakes ==
  ASSUME NEW x \in WrPorts, x.ext = "ACTIVE", x.wnext = "RESP_CALIB_REQ", NEW new \in BOOLEAN,
         NEW f \in WrFrames, NEW tick \in BOOLEAN
  PROVE  Shakes(x, f, wr_resp_calib_req(x, new, f, tick))
<1> DEFINE a == [x EXCEPT !.retry = R]
           y == IF new THEN a ELSE x
           to == IF x.role = "MASTER" THEN "WR_LINK_ON" ELSE "CALIBRATION"
           z == [y EXCEPT !.wnext = to]
           q == CheckTime(y, tick, Nothing)
           r == wr_resp_calib_req(x, new, f, tick)
<1>1. /\ a \in WrPorts /\ Alike(x, a) /\ Remains(x, a) /\ a.detect = x.detect
      /\ a.wnext = "RESP_CALIB_REQ" /\ a.lock = x.lock /\ a.pp = x.pp /\ a.ext = "ACTIVE"
  BY RetryAssumption DEF WrPorts, Alike, Remains
<1>2. \/ r.x = y /\ r.send = Nothing /\ r.next = y.pp
      \/ r.x = z /\ r.send = Nothing /\ r.next = z.pp /\ Is(f, "CALIBRATED")
      \/ r = q
  BY DEF wr_resp_calib_req, Result, StartWait, Is
<1> HIDE DEF a
<1>3. /\ y \in WrPorts /\ Alike(x, y) /\ Remains(x, y) /\ y.detect = x.detect
      /\ y.wnext = "RESP_CALIB_REQ" /\ y.lock = x.lock /\ y.pp = x.pp /\ y.ext = "ACTIVE"
  BY <1>1 DEF Alike, Remains
<1>4. to \in WrStates
  BY DEF WrStates
<1>5. Is(f, "CALIBRATED") => Moves("RESP_CALIB_REQ", x.role, f, to, Nothing)
  BY FrameFacts DEF Moves
<1> HIDE DEF y, to
<1>6. /\ z \in WrPorts /\ Alike(y, z) /\ Remains(y, z) /\ z.detect = y.detect
      /\ z.wnext = to /\ z.lock = y.lock /\ z.pp = y.pp
  BY <1>3, <1>4 DEF WrPorts, Alike, Remains
<1>7. /\ Goes(y, q)
      /\ \/ Alike(y, q.x) /\ q.x.wnext = y.wnext /\ q.send \in {Nothing, Nothing}
         \/ Failed(y, q.x) /\ q.send = Nothing
  BY <1>3, CheckTimeFields
<1> HIDE DEF z, q, r
<1>8. /\ q.x \in WrPorts /\ q.next = x.pp /\ Remains(x, q.x) /\ q.x.detect = x.detect
      /\ q.x.lock = x.lock
      /\ q.send = Nothing /\ Eases(x, q.x) /\ q.x.wnext \in {"RESP_CALIB_REQ", "IDLE"}
  BY <1>3, <1>7 DEF Goes, Kept, Remains, Alike, Failed, Eases
<1>9. Eases(x, y)
  BY <1>3 DEF Alike, Eases
<1>10. /\ Eases(x, z) /\ Remains(x, z) /\ z.detect = x.detect /\ z.lock = x.lock /\ z.pp = x.pp
  BY <1>3, <1>6 DEF Alike, Eases, Remains
<1>11. Says("RESP_CALIB_REQ", Nothing)
  BY FrameFacts DEF Says
<1>12. CASE r.x = y /\ r.send = Nothing /\ r.next = y.pp
  BY <1>3, <1>9, <1>11, <1>12, FrameFacts DEF Shakes, r
<1>13. CASE r.x = z /\ r.send = Nothing /\ r.next = z.pp /\ Is(f, "CALIBRATED")
  BY <1>5, <1>6, <1>10, <1>13, FrameFacts DEF Shakes, r
<1>14. CASE r = q
  BY <1>8, <1>11, <1>14, FrameFacts DEF Shakes, r
<1> QED BY <1>2, <1>12, <1>13, <1>14

(* wr_link_on(): WR mode begins here only.                                 *)
LEMMA LinkOnShakes ==
  ASSUME NEW x \in WrPorts, x.ext = "ACTIVE", x.wnext = "WR_LINK_ON", NEW f \in WrFrames,
         NEW err \in BOOLEAN
  PROVE  Shakes(x, f, wr_link_on(x, err))
<1> DEFINE a == [x EXCEPT !.on = TRUE, !.parentOn = TRUE, !.wnext = "IDLE"]
           msg == IF x.role = "MASTER" THEN Sig("WR_MODE_ON") ELSE Nothing
           r == wr_link_on(x, err)
<1>1. /\ a \in WrPorts /\ Remains(x, a) /\ a.detect = x.detect /\ a.lock = x.lock /\ a.pp = x.pp
      /\ a.wnext = "IDLE" /\ a.on /\ a.role = x.role /\ a.ext = x.ext
  BY DEF WrPorts, Remains, WrStates
<1>2. \/ r.x = x /\ r.send = Nothing /\ r.next = x.pp /\ x.role = "MASTER"
      \/ r.x = a /\ r.send = msg /\ r.next = a.pp
  BY DEF wr_link_on, Result
<1>3. /\ msg \in WrFrames
      /\ x.role = "MASTER" => Is(msg, "WR_MODE_ON")
      /\ x.role # "MASTER" => Quiet(msg)
  BY FrameFacts DEF Signals
<1>4. Says("WR_LINK_ON", Nothing) /\ Eases(x, x) /\ Remains(x, x)
  BY FrameFacts DEF Says, Eases, Remains
<1> HIDE DEF a, msg, r
<1>5. CASE r.x = x /\ r.send = Nothing /\ r.next = x.pp /\ x.role = "MASTER"
  BY <1>4, <1>5, FrameFacts DEF Shakes, r
<1>6. CASE r.x = a /\ r.send = msg /\ r.next = a.pp
  BY <1>1, <1>3, <1>6 DEF Shakes, r
<1> QED BY <1>2, <1>5, <1>6

-----------------------------------------------------------------------------
(* A call of the extension's state machine.                                *)

(* The state it runs.                                                      *)
StateOf(x) == IF x.ext = "ACTIVE" THEN x.wnext ELSE "IDLE"

(* The call in WR_IDLE.                                                    *)
IdleCall(x, f, r) ==
  /\ r.x \in WrPorts /\ r.send = Nothing
  /\ Remains(x, r.x) /\ r.x.lock = x.lock
  /\ \/ /\ x.pp = "MASTER" /\ r.next = x.pp /\ r.x.detect = x.detect
        /\ r.x.on = x.on /\ r.x.role = x.role /\ r.x.ext \in {x.ext, "ACTIVE"}
        /\ \/ r.x.wnext = "IDLE"
           \/ r.x.wnext = "M_LOCK" /\ Is(f, "SLAVE_PRESENT") /\ r.x.ext = "ACTIVE"
     \/ /\ x.pp # "MASTER" /\ x.detect = "NO" /\ r.next = x.pp /\ r.x.detect = "NO"
        /\ Alike(x, r.x) /\ r.x.wnext = "IDLE"
     \/ /\ x.pp # "MASTER" /\ x.detect = "WR" /\ r.x.wnext = "PRESENT"
        /\ r.next = IF x.pp = "SLAVE" THEN "UNCALIBRATED" ELSE x.pp
        /\ r.x.ext = "ACTIVE" /\ r.x.role = "SLAVE" /\ ~r.x.on /\ (r.x.parentOn => x.parentOn)
     \/ /\ x.pp # "MASTER" /\ x.detect = "NOT_WR" /\ r.x.wnext = "IDLE"
        /\ r.next = IF x.pp = "SLAVE" THEN "UNCALIBRATED" ELSE x.pp
        /\ r.x.ext = "PTP" /\ (x.ext = "PTP" => Alike(x, r.x))
        /\ x.ext = "ACTIVE" => r.x.role = "NONE" /\ ~r.x.on /\ ~r.x.parentOn

(* wr_idle(), for a master, and for a port with a new parent or none.      *)
LEMMA IdleFields ==
  ASSUME NEW x \in WrPorts, x.wnext = "IDLE", NEW f \in WrFrames
  PROVE  IdleCall(x, f, wr_idle(x, f))
<1> DEFINE r == wr_idle(x, f)
           e == pdstate_enable_extension(x)
           k == [e EXCEPT !.wnext = "M_LOCK"]
           y == [x EXCEPT !.detect = "NO"]
           a == pdstate_enable_extension(y)
           b == wr_reset_process(a, "SLAVE")
           w == [b EXCEPT !.wnext = "PRESENT"]
           d == pdstate_disable_extension(y)
<1>1. x.detect \in {"NO", "WR", "NOT_WR"}
  BY DEF WrPorts
<1>2. CASE x.pp = "MASTER"
  <2>1. /\ e \in WrPorts /\ Kept(x, e) /\ e.wnext = "IDLE" /\ e.ext = "ACTIVE"
        /\ e.role = x.role /\ e.on = x.on
    BY EnableFields
  <2>2. \/ r.x = x /\ r.send = Nothing /\ r.next = x.pp
        \/ r.x = e /\ r.send = Nothing /\ r.next = e.pp
        \/ r.x = k /\ r.send = Nothing /\ r.next = k.pp /\ Is(f, "SLAVE_PRESENT")
    BY <1>2, FrameFacts DEF wr_idle, Result
  <2> HIDE DEF e, r
  <2>3. /\ k \in WrPorts /\ Kept(x, k) /\ k.wnext = "M_LOCK" /\ k.ext = "ACTIVE"
        /\ k.role = x.role /\ k.on = x.on
    BY <2>1 DEF WrPorts, Kept, WrStates
  <2> HIDE DEF k
  <2>4. Kept(x, x)
    BY DEF Kept
  <2>5. /\ r.x \in WrPorts /\ r.send = Nothing /\ Kept(x, r.x) /\ r.next = x.pp
        /\ r.x.role = x.role /\ r.x.on = x.on /\ r.x.ext \in {x.ext, "ACTIVE"}
        /\ \/ r.x.wnext = "IDLE"
           \/ r.x.wnext = "M_LOCK" /\ Is(f, "SLAVE_PRESENT") /\ r.x.ext = "ACTIVE"
    BY <2>1, <2>2, <2>3, <2>4 DEF Kept
  <2> QED BY <1>2, <2>5 DEF IdleCall, Kept, Remains, r
<1>3. CASE x.pp # "MASTER"
  <2>1. /\ y \in WrPorts /\ y.wnext = "IDLE" /\ Remains(x, y) /\ y.lock = x.lock
        /\ Alike(x, y) /\ y.detect = "NO" /\ y.parentOn = x.parentOn
    BY DEF WrPorts, Remains, Alike
  <2>2. r.send = Nothing /\ r.next = IF x.detect # "NO" /\ x.pp = "SLAVE" THEN "UNCALIBRATED" ELSE x.pp
    BY <1>3 DEF wr_idle, Result
  <2>3. /\ x.detect = "NO" => r.x = x
        /\ x.detect = "WR" => r.x = w
        /\ x.detect = "NOT_WR" => r.x = d
    BY <1>3 DEF wr_idle, Result
  <2> HIDE DEF r, y
  <2>4. CASE x.detect = "NO"
    <3>1. Alike(x, x) /\ Remains(x, x)
      BY DEF Alike, Remains
    <3> QED BY <1>3, <2>2, <2>3, <2>4, <3>1 DEF IdleCall, r
  <2>5. CASE x.detect = "WR"
    <3>1. a \in WrPorts /\ Kept(y, a) /\ a.ext = "ACTIVE" /\ a.parentOn = y.parentOn
      BY <2>1, EnableFields
    <3> HIDE DEF a
    <3>2. /\ b \in WrPorts /\ Kept(a, b) /\ b.ext = "ACTIVE" /\ b.role = "SLAVE" /\ ~b.on
          /\ b.parentOn => y.parentOn
      BY <3>1, ResetFields DEF Roles
    <3> HIDE DEF b
    <3>3. /\ w \in WrPorts /\ Kept(b, w) /\ w.ext = "ACTIVE" /\ w.role = "SLAVE" /\ ~w.on
          /\ w.wnext = "PRESENT" /\ w.parentOn = b.parentOn
      BY <3>2 DEF WrPorts, Kept, WrStates
    <3> HIDE DEF w
    <3>4. Remains(x, w) /\ w.lock = x.lock /\ (w.parentOn => x.parentOn)
      BY <2>1, <3>1, <3>2, <3>3 DEF Kept, Remains
    <3> QED BY <1>3, <2>2, <2>3, <2>5, <3>3, <3>4 DEF IdleCall, r
  <2>6. CASE x.detect = "NOT_WR"
    <3>1. /\ d \in WrPorts /\ Kept(y, d) /\ d.wnext = "IDLE" /\ d.ext = "PTP"
          /\ y.ext = "ACTIVE" => ~d.on /\ d.role = "NONE" /\ ~d.parentOn
          /\ y.ext = "PTP" => d = y
      BY <2>1, DisableFields
    <3> HIDE DEF d
    <3>2. Remains(x, d) /\ d.lock = x.lock
      BY <2>1, <3>1 DEF Kept, Remains
    <3>3. /\ x.ext = "ACTIVE" => ~d.on /\ d.role = "NONE" /\ ~d.parentOn
          /\ x.ext = "PTP" => Alike(x, d)
      BY <2>1, <3>1 DEF Alike
    <3> QED BY <1>3, <2>2, <2>3, <2>6, <3>1, <3>2, <3>3 DEF IdleCall, r
  <2> QED BY <1>1, <2>4, <2>5, <2>6
<1> QED BY <1>2, <1>3

(* Any call.                                                               *)
LEMMA RunFields ==
  ASSUME NEW x0 \in WrPorts, NEW f \in WrFrames, NEW tick \in BOOLEAN,
         NEW locked \in BOOLEAN, NEW err \in BOOLEAN
  PROVE  LET r == wr_run_state_machine(x0, f, tick, locked, err)
             s == StateOf(x0)
         IN  \E x : /\ Entered(x0, x, s)
                    /\ s = "IDLE" => IdleCall(x, f, r)
                    /\ s # "IDLE" => x.ext = "ACTIVE" /\ Shakes(x, f, r)
<1> DEFINE r == wr_run_state_machine(x0, f, tick, locked, err)
           s == StateOf(x0)
           new == x0.wst # s
           a == [x0 EXCEPT !.wst = s, !.wnext = s]
           b == [x0 EXCEPT !.wst = s, !.wnext = s, !.retry = 0]
           x == IF s \in Waiting THEN a ELSE b
<1>1. s \in WrStates /\ (s # "IDLE" => x0.ext = "ACTIVE")
  BY DEF StateOf, WrPorts, WrStates
<1>2. /\ s = "IDLE" => r = wr_idle(x, f)
      /\ s = "PRESENT" => r = wr_present(x, new, f, tick)
      /\ s = "M_LOCK" => r = wr_m_lock(x, new, f, tick)
      /\ s = "S_LOCK" => r = wr_s_lock(x, new, tick, locked)
      /\ s = "LOCKED" => r = wr_locked(x, new, f, tick)
      /\ s = "CALIBRATION" => r = wr_calibration(x)
      /\ s = "CALIBRATED" => r = wr_calibrated(x, new, f, tick)
      /\ s = "RESP_CALIB_REQ" => r = wr_resp_calib_req(x, new, f, tick)
      /\ s = "WR_LINK_ON" => r = wr_link_on(x, err)
  BY DEF wr_run_state_machine, StateOf
<1> HIDE DEF s, r
<1>3. Entered(x0, a, s)
  BY <1>1 DEF Entered, WrPorts
<1>4. 0 \in 0..R
  BY RetryAssumption
<1>5. Entered(x0, b, s)
  <2>1. b \in WrPorts
    BY <1>1, <1>4 DEF WrPorts
  <2> QED BY <2>1 DEF Entered, WrPorts
<1> HIDE DEF a, b
<1>6. Entered(x0, x, s)
  BY <1>3, <1>5
<1>7. x \in WrPorts /\ x.wnext = s /\ (s # "IDLE" => x.ext = "ACTIVE") /\ new \in BOOLEAN
  BY <1>1, <1>6 DEF Entered
<1> HIDE DEF x, new
<1>8. s = "IDLE" => IdleCall(x, f, r)
  BY <1>2, <1>7, IdleFields
<1>9. ASSUME s # "IDLE" PROVE Shakes(x, f, r)
  <2>1. CASE s = "PRESENT"
    BY <2>1, <1>2, <1>7, PresentShakes
  <2>2. CASE s = "M_LOCK"
    BY <2>2, <1>2, <1>7, MLockShakes
  <2>3. CASE s = "S_LOCK"
    BY <2>3, <1>2, <1>7, SLockShakes
  <2>4. CASE s = "LOCKED"
    BY <2>4, <1>2, <1>7, LockedShakes
  <2>5. CASE s = "CALIBRATION"
    BY <2>5, <1>2, <1>7, CalibrationShakes
  <2>6. CASE s = "CALIBRATED"
    BY <2>6, <1>2, <1>7, CalibratedShakes
  <2>7. CASE s = "RESP_CALIB_REQ"
    BY <2>7, <1>2, <1>7, RespCalibReqShakes
  <2>8. CASE s = "WR_LINK_ON"
    BY <2>8, <1>2, <1>7, LinkOnShakes
  <2> QED BY <1>1, <1>9, <2>1, <2>2, <2>3, <2>4, <2>5, <2>6, <2>7, <2>8 DEF WrStates
<1> QED BY <1>6, <1>7, <1>8, <1>9 DEF r, s

-----------------------------------------------------------------------------
(* A change of the port's state.                                           *)

PpStates == {"LISTENING", "UNCALIBRATED", "SLAVE", "MASTER", "DISABLED"}

(* What the extension does about it; y is z but for the lock.              *)
Changes(x, z, next) ==
  /\ Kept(x, z)
  /\ z.on => x.on /\ x.pp \notin {"SLAVE", "MASTER"} /\ next \notin {"MASTER", "LISTENING"}
  /\ z.on => z.ext = "ACTIVE" \/ x.ext = "PTP"
  /\ z.parentOn => x.parentOn
  /\ \/ z.role \in {x.role, "NONE"}
     \/ next = "MASTER" /\ z.role = "MASTER"
     \/ next = "UNCALIBRATED" /\ x.pp = "SLAVE" /\ z.role = "SLAVE"
  /\ \/ z.ext = x.ext
     \/ next = "UNCALIBRATED" /\ x.pp = "SLAVE" /\ z.ext = "ACTIVE"
     \/ next = "UNCALIBRATED" /\ x.pp # "SLAVE" /\ z.ext = "PTP" /\ z.wnext = "IDLE"
  /\ \/ z.wnext = x.wnext
     \/ next = "MASTER" /\ z.wnext = "IDLE"
     \/ next = "UNCALIBRATED" /\ x.pp = "SLAVE" /\ z.wnext = "PRESENT" /\ z.ext = "ACTIVE"
     \/ next = "UNCALIBRATED" /\ x.pp # "SLAVE" /\ z.wnext = "IDLE"
  /\ next = "MASTER" /\ x.ext = "ACTIVE" => z.wnext = "IDLE"
  /\ next = "LISTENING" => z.role = "NONE" /\ ~z.parentOn
  /\ next = "SLAVE" /\ x.pp = "UNCALIBRATED" /\ x.ext = "ACTIVE" => Alike(x, z)
  /\ x.ext = "PTP" /\ z.ext = "PTP" => ~z.on /\ z.wnext = x.wnext

(* wr_state_change() for any two states.                                   *)
LEMMA ChangeFields ==
  ASSUME NEW x \in WrPorts, NEW next \in PpStates
  PROVE  \E z \in WrPorts :
           /\ Changes(x, z, next)
           /\ wr_state_change(x, next) = [z EXCEPT !.lock = IF x.pp = "SLAVE" THEN "off" ELSE @]
<1> DEFINE e == IF x.pp = "SLAVE" /\ next = "UNCALIBRATED" /\ x.parentWr
                THEN pdstate_enable_extension(x) ELSE x
           n == wr_reset_process(e, "NONE")
           g == IF e.on /\ e.pp \in {"SLAVE", "MASTER"} THEN n ELSE e
           m == wr_reset_process(g, "MASTER")
           m2 == [m EXCEPT !.wnext = "IDLE"]
           s == wr_reset_process(g, "SLAVE")
           s2 == [s EXCEPT !.wnext = "PRESENT"]
           h == wr_handshake_fail(g)
           l == wr_reset_process(g, "NONE")
           z == CASE e.ext # "ACTIVE" -> n
                  [] e.ext = "ACTIVE" /\ next = "MASTER" -> m2
                  [] e.ext = "ACTIVE" /\ next = "UNCALIBRATED" /\ e.pp = "SLAVE" /\ g.parentWr -> s2
                  [] e.ext = "ACTIVE" /\ next = "UNCALIBRATED" /\ e.pp # "SLAVE" /\ ~g.parentWr -> h
                  [] e.ext = "ACTIVE" /\ next = "LISTENING" -> l
                  [] OTHER -> g
<1>1. /\ e \in WrPorts /\ Kept(x, e) /\ e.wnext = x.wnext /\ e.on = x.on /\ e.role = x.role
      /\ e.parentOn = x.parentOn
      /\ e.ext = x.ext \/ (x.pp = "SLAVE" /\ next = "UNCALIBRATED" /\ e.ext = "ACTIVE")
  BY EnableFields DEF Kept
<1>2. e.pp = x.pp
  BY <1>1 DEF Kept
<1>3. wr_state_change(x, next) = [z EXCEPT !.lock = IF x.pp = "SLAVE" THEN "off" ELSE @]
  BY <1>2, Zenon DEF wr_state_change
<1> HIDE DEF e
<1>4. /\ n \in WrPorts /\ Kept(e, n) /\ n.wnext = e.wnext /\ n.ext = e.ext /\ n.role = "NONE"
      /\ ~n.on /\ ~n.parentOn
  BY <1>1, ResetFields DEF Roles
<1> HIDE DEF n
<1>5. /\ g \in WrPorts /\ Kept(e, g) /\ g.wnext = e.wnext /\ g.ext = e.ext
      /\ g.role \in {e.role, "NONE"} /\ (g.parentOn => e.parentOn)
      /\ g.on => e.on /\ e.pp \notin {"SLAVE", "MASTER"}
      /\ e.pp \notin {"SLAVE", "MASTER"} => Alike(e, g)
  <2>1. CASE e.on /\ e.pp \in {"SLAVE", "MASTER"}
    BY <1>4, <2>1
  <2>2. CASE ~(e.on /\ e.pp \in {"SLAVE", "MASTER"})
    BY <1>1, <2>2 DEF Kept, Alike
  <2> QED BY <2>1, <2>2
<1> HIDE DEF g
<1>6. /\ m \in WrPorts /\ Kept(g, m) /\ m.wnext = g.wnext /\ m.ext = g.ext /\ m.role = "MASTER"
      /\ ~m.on /\ ~m.parentOn
  <2>1. g \in WrPorts
    BY <1>5
  <2> QED BY <2>1, ResetFields DEF Roles
<1>7. /\ s \in WrPorts /\ Kept(g, s) /\ s.wnext = g.wnext /\ s.ext = g.ext /\ s.role = "SLAVE"
      /\ ~s.on /\ (s.parentOn => g.parentOn)
  <2>1. g \in WrPorts
    BY <1>5
  <2> QED BY <2>1, ResetFields DEF Roles
<1>8. /\ l \in WrPorts /\ Kept(g, l) /\ l.wnext = g.wnext /\ l.ext = g.ext /\ l.role = "NONE"
      /\ ~l.on /\ ~l.parentOn
  <2>1. g \in WrPorts
    BY <1>5
  <2> QED BY <2>1, ResetFields DEF Roles
<1>9. g.ext = "ACTIVE" => h \in WrPorts /\ Kept(g, h) /\ Failed(g, h)
  BY <1>5, FailedFields
<1> HIDE DEF m, s, l, h
<1>10. /\ m2 \in WrPorts /\ Kept(g, m2) /\ m2.wnext = "IDLE" /\ m2.ext = g.ext
       /\ m2.role = "MASTER" /\ ~m2.on /\ ~m2.parentOn
  BY <1>6 DEF WrPorts, Kept, WrStates
<1>11. /\ s2 \in WrPorts /\ Kept(g, s2) /\ s2.wnext = "PRESENT" /\ s2.ext = g.ext
       /\ s2.role = "SLAVE" /\ ~s2.on /\ (s2.parentOn => g.parentOn)
  BY <1>7 DEF WrPorts, Kept, WrStates
<1> HIDE DEF m2, s2
<1>12. z \in WrPorts /\ Changes(x, z, next)
  <2>1. CASE e.ext # "ACTIVE"
    <3>1. z = n
      BY <2>1
    <3>2. Kept(x, n)
      BY <1>1, <1>4 DEF Kept
    <3>3. e.ext = "PTP" /\ x.ext = "PTP"
      BY <1>1, <2>1 DEF WrPorts
    <3> HIDE DEF z
    <3> QED BY <3>1, <3>2, <3>3, <1>1, <1>4 DEF Changes
  <2>2. CASE e.ext = "ACTIVE" /\ next = "MASTER"
    <3>1. z = m2
      BY <2>2
    <3>2. Kept(x, m2)
      BY <1>1, <1>5, <1>10 DEF Kept
    <3> HIDE DEF z
    <3> QED BY <3>1, <3>2, <2>2, <1>1, <1>5, <1>10 DEF Changes
  <2>3. CASE e.ext = "ACTIVE" /\ next = "UNCALIBRATED" /\ e.pp = "SLAVE" /\ g.parentWr
    <3>1. z = s2
      BY <2>3
    <3>2. Kept(x, s2)
      BY <1>1, <1>5, <1>11 DEF Kept
    <3> HIDE DEF z
    <3> QED BY <3>1, <3>2, <2>3, <1>1, <1>2, <1>5, <1>11 DEF Changes
  <2>4. CASE e.ext = "ACTIVE" /\ next = "UNCALIBRATED" /\ e.pp # "SLAVE" /\ ~g.parentWr
    <3>1. z = h
      BY <2>4
    <3>2. h \in WrPorts /\ Failed(g, h) /\ Kept(x, h)
      BY <1>1, <1>5, <1>9, <2>4 DEF Kept
    <3>3. x.ext = "ACTIVE"
      BY <1>1, <1>2, <2>4
    <3> HIDE DEF z
    <3> QED BY <3>1, <3>2, <3>3, <2>4, <1>1, <1>2, <1>5 DEF Changes, Failed, Alike
  <2>5. CASE e.ext = "ACTIVE" /\ next = "LISTENING"
    <3>1. z = l
      BY <2>5
    <3>2. Kept(x, l)
      BY <1>1, <1>5, <1>8 DEF Kept
    <3> HIDE DEF z
    <3> QED BY <3>1, <3>2, <2>5, <1>1, <1>5, <1>8 DEF Changes
  <2>6. CASE /\ e.ext = "ACTIVE" /\ next \notin {"MASTER", "LISTENING"}
             /\ ~(next = "UNCALIBRATED" /\ e.pp = "SLAVE" /\ g.parentWr)
             /\ ~(next = "UNCALIBRATED" /\ e.pp # "SLAVE" /\ ~g.parentWr)
    <3>1. z = g
      BY <2>6
    <3>2. Kept(x, g)
      BY <1>1, <1>5 DEF Kept
    <3> HIDE DEF z
    <3> QED BY <3>1, <3>2, <2>6, <1>1, <1>2, <1>5 DEF Changes, Alike
  <2> QED BY <2>1, <2>2, <2>3, <2>4, <2>5, <2>6
<1> QED BY <1>3, <1>12, SMTT(30)

(* The port in its new state.                                              *)
Leaves(x, y, next) ==
  /\ y \in WrPorts /\ y.pp = next /\ y.wst = x.wst /\ y.detect = x.detect /\ y.wr = x.wr
  /\ y.lock = IF x.pp = "SLAVE" THEN "off" ELSE x.lock
  /\ \E z \in WrPorts : /\ Changes(x, z, next)
                        /\ Alike(z, y) /\ y.wnext = z.wnext

(* pp_leave_current_state() for any two states.                            *)
LEMMA LeaveFields ==
  ASSUME NEW x \in WrPorts, NEW next \in PpStates
  PROVE  Leaves(x, pp_leave_current_state(x, next), next)
<1>1. PICK z \in WrPorts :
        /\ Changes(x, z, next)
        /\ wr_state_change(x, next) = [z EXCEPT !.lock = IF x.pp = "SLAVE" THEN "off" ELSE @]
  BY ChangeFields
<1> DEFINE lk == IF x.pp = "SLAVE" THEN "off" ELSE z.lock
           y == pp_leave_current_state(x, next)
<1>2. lk \in {"off", "enabled", "locked"}
  BY DEF WrPorts
<1>3. y = [z EXCEPT !.lock = lk, !.pp = next, !.isNew = TRUE]
  BY <1>1 DEF pp_leave_current_state, WrPorts
<1> HIDE DEF lk, y
<1>4. y \in WrPorts
  BY <1>2, <1>3 DEF WrPorts, PpStates
<1>5. /\ y.pp = next /\ y.lock = lk /\ Alike(z, y) /\ y.wnext = z.wnext
      /\ y.wst = z.wst /\ y.detect = z.detect /\ y.wr = z.wr
  BY <1>3 DEF WrPorts, Alike
<1>6. z.wst = x.wst /\ z.detect = x.detect /\ z.wr = x.wr /\ z.lock = x.lock
  BY <1>1 DEF Changes, Kept
<1> QED BY <1>1, <1>4, <1>5, <1>6 DEF Leaves, lk, y

-----------------------------------------------------------------------------
(* The slave's end.                                                        *)

(* The states of a handshake past the lock.                                *)
Past == {"LOCKED", "RESP_CALIB_REQ", "CALIBRATION", "CALIBRATED", "WR_LINK_ON"}

(* What holds of the slave's port between two calls.                       *)
SlaveLocal(x) ==
  /\ x.pp \in {"LISTENING", "UNCALIBRATED", "SLAVE"}
  /\ x.wnext # "M_LOCK" /\ x.role # "MASTER"
  /\ x.ext = "PTP" => x.wnext = "IDLE" /\ ~x.on
  /\ x.pp = "SLAVE" => x.wnext = "IDLE" /\ (x.ext = "ACTIVE" => x.on)
  /\ x.on => x.wnext = "IDLE"
  /\ x.on \/ x.wnext \in Past => x.lock = "locked"
  /\ x.wnext = "WR_LINK_ON" => x.wst # "WR_LINK_ON"

(* A call as a step of the handshake: it goes on or ends, it begins, it    *)
(* moves, or it ends well.                                                 *)
SlaveShakes(x, y, f, g) ==
  \/ /\ y.wnext \in {x.wnext, "IDLE"} /\ (y.on => x.on)
     /\ Quiet(g) \/ (y.wnext = x.wnext /\ Says(x.wnext, g))
  \/ y.wnext = "PRESENT" /\ ~y.on /\ Quiet(g)
  \/ y.pp = x.pp /\ ~y.on /\ x.role # "MASTER" /\ Moves(x.wnext, x.role, f, y.wnext, g)
  \/ y.pp = x.pp /\ x.wnext = "WR_LINK_ON" /\ y.wnext = "IDLE" /\ y.on /\ Quiet(g)

(* The end of a call, from the protocol detection timer on.                *)
SlaveRan(x, y, f, g) ==
  /\ y \in WrPorts /\ g \in WrFrames
  /\ SlaveLocal(y) /\ SlaveShakes(x, y, f, g)
  /\ y.parentOn => x.parentOn \/ x.wnext = "WR_LINK_ON"
  /\ y.pp = x.pp \/ (x.pp = "SLAVE" /\ y.pp = "UNCALIBRATED")

(* The slave's end stays in order in a call of the extension's state       *)
(* machine.                                                                *)
LEMMA SlaveRun ==
  ASSUME NEW x \in WrPorts, SlaveLocal(x), NEW f \in WrFrames, NEW tick \in BOOLEAN,
         NEW expired \in BOOLEAN, expired => x.ext = "ACTIVE",
         NEW locked \in BOOLEAN, NEW err \in BOOLEAN
  PROVE  LET x1 == IF expired THEN pdstate_disable_extension(x) ELSE x
             r == wr_run_state_machine(x1, f, tick, locked, err)
             y == IF r.next = x.pp THEN r.x ELSE pp_leave_current_state(r.x, r.next)
         IN  SlaveRan(x, y, f, r.send)
<1> DEFINE x1 == IF expired THEN pdstate_disable_extension(x) ELSE x
           r == wr_run_state_machine(x1, f, tick, locked, err)
           y == IF r.next = x.pp THEN r.x ELSE pp_leave_current_state(r.x, r.next)
<1> SUFFICES SlaveRan(x, y, f, r.send)
  OBVIOUS
<1>1. /\ x1 \in WrPorts /\ Kept(x, x1) /\ x1.wnext = x.wnext
      /\ x1.ext = "ACTIVE" => ~expired /\ x1 = x
      /\ x1.on => x1 = x
      /\ x1.parentOn => x.parentOn
      /\ x1.role \in {x.role, "NONE"}
      /\ x1.ext = "PTP" => ~x1.on
  <2>1. CASE expired
    <3>1. /\ x1 \in WrPorts /\ Kept(x, x1) /\ x1.wnext = x.wnext /\ x1.ext = "PTP"
          /\ ~x1.on /\ x1.role = "NONE" /\ ~x1.parentOn
      BY <2>1, DisableFields
    <3> QED BY <3>1
  <2>2. CASE ~expired
    <3>1. x1 = x
      BY <2>2
    <3> QED BY <2>2, <3>1 DEF Kept, SlaveLocal
  <2> QED BY <2>1, <2>2
<1> HIDE DEF x1
<1>2. PICK xe : /\ Entered(x1, xe, StateOf(x1))
                /\ StateOf(x1) = "IDLE" => IdleCall(xe, f, r)
                /\ StateOf(x1) # "IDLE" => xe.ext = "ACTIVE" /\ Shakes(xe, f, r)
  BY <1>1, RunFields
<1> HIDE DEF r
<1>3. /\ xe \in WrPorts /\ xe.wnext = StateOf(x1) /\ xe.wst = StateOf(x1) /\ xe.pp = x.pp
      /\ xe.lock = x.lock /\ xe.ext = x1.ext /\ xe.on = x1.on /\ xe.role = x1.role
      /\ xe.parentOn = x1.parentOn
  BY <1>1, <1>2 DEF Entered, Kept
<1>4. /\ x.pp \in {"LISTENING", "UNCALIBRATED", "SLAVE"} /\ x.role # "MASTER"
      /\ x.on \/ x.wnext \in Past => x.lock = "locked"
      /\ x1.role # "MASTER" /\ x1.ext \in {"ACTIVE", "PTP"}
      /\ xe.on => x.on /\ x1 = x
  BY <1>1, <1>3 DEF SlaveLocal, WrPorts
<1>5. CASE StateOf(x1) = "IDLE"
  <2>1. IdleCall(xe, f, r) /\ Quiet(r.send) /\ r.send \in WrFrames
    BY <1>2, <1>5, FrameFacts DEF IdleCall
  <2>2. r.x \in WrPorts /\ r.x.wst = "IDLE" /\ r.x.pp = x.pp /\ r.x.lock = x.lock
    BY <2>1, <1>3, <1>5 DEF IdleCall, Remains
  <2>3. CASE r.next = x.pp
    <3>1. y = r.x
      BY <2>3
    <3> HIDE DEF y
    <3>2. CASE Alike(xe, r.x) /\ r.x.wnext = "IDLE"
      <4>1. r.x.on => x.on /\ x1 = x
        BY <3>2, <1>3, <1>4 DEF Alike
      <4>2. r.x.ext = x1.ext /\ r.x.role = x1.role /\ r.x.on = x1.on /\ r.x.parentOn = x1.parentOn
        BY <3>2, <1>3 DEF Alike
      <4>3. x.pp = "SLAVE" /\ r.x.ext = "ACTIVE" => r.x.on
        BY <4>2, <1>1 DEF SlaveLocal
      <4>4. SlaveLocal(r.x)
        BY <2>2, <3>2, <4>1, <4>2, <4>3, <1>1, <1>4 DEF SlaveLocal, Past
      <4> QED BY <2>1, <2>2, <3>1, <3>2, <4>1, <4>2, <4>4, <1>1 DEF SlaveRan, SlaveShakes
    <3>3. CASE ~Alike(xe, r.x) \/ r.x.wnext # "IDLE"
      <4>1. x.pp # "SLAVE" /\ r.x.role # "MASTER" /\ ~r.x.on /\ (r.x.parentOn => x.parentOn)
        BY <2>1, <2>3, <3>3, <1>1, <1>3, <1>4 DEF IdleCall
      <4>2. \/ r.x.wnext = "PRESENT" /\ r.x.ext = "ACTIVE"
            \/ r.x.wnext = "IDLE"
        BY <2>1, <3>3, <1>3, <1>4 DEF IdleCall
      <4>3. SlaveLocal(r.x)
        BY <2>2, <4>1, <4>2, <1>4 DEF SlaveLocal, Past
      <4> QED BY <2>1, <2>2, <3>1, <4>1, <4>2, <4>3 DEF SlaveRan, SlaveShakes
    <3> QED BY <3>2, <3>3
  <2>4. CASE r.next # x.pp
    <3>1. /\ x.pp = "SLAVE" /\ r.next = "UNCALIBRATED"
          /\ r.x.wnext = "IDLE" \/ (r.x.wnext = "PRESENT" /\ r.x.ext = "ACTIVE")
          /\ r.x.role # "MASTER" /\ (r.x.parentOn => x.parentOn)
      BY <2>1, <2>4, <1>1, <1>3, <1>4 DEF IdleCall, Alike
    <3>2. Leaves(r.x, y, "UNCALIBRATED")
      BY <2>2, <2>4, <3>1, LeaveFields DEF PpStates
    <3> HIDE DEF y
    <3>3. PICK z \in WrPorts : Changes(r.x, z, "UNCALIBRATED") /\ Alike(z, y) /\ y.wnext = z.wnext
      BY <3>2 DEF Leaves
    <3>4. /\ y \in WrPorts /\ y.pp = "UNCALIBRATED" /\ y.wst = "IDLE"
      BY <2>2, <3>2 DEF Leaves
    <3>5. /\ ~z.on /\ (z.parentOn => r.x.parentOn) /\ z.role # "MASTER"
          /\ z.wnext = "IDLE" \/ (z.wnext = "PRESENT" /\ z.ext = "ACTIVE")
      BY <2>2, <3>1, <3>3 DEF Changes
    <3>6. /\ ~y.on /\ (y.parentOn => x.parentOn) /\ y.role # "MASTER"
          /\ y.wnext = "IDLE" \/ (y.wnext = "PRESENT" /\ y.ext = "ACTIVE")
      BY <3>1, <3>3, <3>5 DEF Alike
    <3>7. SlaveLocal(y)
      BY <3>4, <3>6 DEF SlaveLocal, Past
    <3> QED BY <2>1, <3>1, <3>4, <3>6, <3>7 DEF SlaveRan, SlaveShakes
  <2> QED BY <2>3, <2>4
<1>6. CASE StateOf(x1) # "IDLE"
  <2>1. x1.ext = "ACTIVE" /\ x1 = x /\ StateOf(x1) = x.wnext
    BY <1>1, <1>6 DEF StateOf
  <2>2. Shakes(xe, f, r) /\ xe.wnext = x.wnext /\ x.wnext # "IDLE"
    BY <1>2, <1>3, <1>6, <2>1
  <2>3. /\ r.x \in WrPorts /\ r.send \in WrFrames /\ r.next = x.pp /\ r.x.pp = x.pp
        /\ r.x.wst = x.wnext
        /\ x.wnext # "S_LOCK" => r.x.lock = x.lock
    BY <1>3, <2>1, <2>2 DEF Shakes, Remains
  <2>4. y = r.x
    BY <2>3
  <2> HIDE DEF y
  <2>5. x.pp # "SLAVE" /\ ~x.on /\ x.wnext # "M_LOCK" /\ x.ext = "ACTIVE"
    BY <2>1, <2>2 DEF SlaveLocal
  <2>6. /\ xe.role = x.role /\ xe.on = x.on /\ xe.ext = "ACTIVE" /\ xe.parentOn = x.parentOn
    BY <1>3, <2>1
  <2>7. CASE Eases(xe, r.x) /\ r.x.wnext = x.wnext /\ Says(x.wnext, r.send)
             /\ x.wnext # "WR_LINK_ON"
    <3>1. /\ ~r.x.on /\ (r.x.parentOn => x.parentOn) /\ r.x.role # "MASTER" /\ r.x.ext = "ACTIVE"
      BY <2>2, <2>5, <2>6, <2>7, <1>4 DEF Eases
    <3>2. SlaveLocal(r.x)
      BY <2>3, <2>5, <2>7, <3>1, <1>4 DEF SlaveLocal, Past
    <3> QED BY <2>3, <2>4, <2>7, <3>1, <3>2 DEF SlaveRan, SlaveShakes
  <2>8. CASE Eases(xe, r.x) /\ r.x.wnext = "IDLE" /\ Quiet(r.send)
    <3>1. /\ ~r.x.on /\ (r.x.parentOn => x.parentOn) /\ r.x.role # "MASTER"
      BY <2>2, <2>5, <2>6, <2>8, <1>4 DEF Eases
    <3>2. SlaveLocal(r.x)
      BY <2>3, <2>5, <2>8, <3>1, <1>4 DEF SlaveLocal, Past
    <3> QED BY <2>3, <2>4, <2>8, <3>1, <3>2 DEF SlaveRan, SlaveShakes
  <2>9. CASE /\ Eases(xe, r.x) /\ Moves(x.wnext, x.role, f, r.x.wnext, r.send)
             /\ x.wnext = "S_LOCK" => r.x.lock = "locked"
    <3>1. r.x.wnext \notin {"IDLE", "M_LOCK"} /\ (r.x.wnext = "WR_LINK_ON" => x.wnext # "WR_LINK_ON")
      BY <2>9 DEF Moves
    <3>2. /\ ~r.x.on /\ (r.x.parentOn => x.parentOn) /\ r.x.role # "MASTER" /\ r.x.ext = "ACTIVE"
      BY <2>2, <2>5, <2>6, <2>9, <3>1, <1>4 DEF Eases
    <3>3. r.x.wnext \in Past => r.x.lock = "locked"
      BY <2>3, <2>5, <2>9, <1>4 DEF Moves, Past
    <3>4. SlaveLocal(r.x)
      BY <2>3, <2>5, <3>1, <3>2, <3>3, <1>4 DEF SlaveLocal
    <3> QED BY <2>3, <2>4, <2>9, <3>2, <3>4, <1>4 DEF SlaveRan, SlaveShakes
  <2>10. CASE /\ x.wnext = "WR_LINK_ON" /\ r.x.wnext = "IDLE"
              /\ r.x.on /\ r.x.role = xe.role /\ r.x.ext = xe.ext /\ Quiet(r.send)
    <3>1. SlaveLocal(r.x)
      BY <2>3, <2>5, <2>6, <2>10, <1>4 DEF SlaveLocal, Past
    <3> QED BY <2>3, <2>4, <2>10, <3>1 DEF SlaveRan, SlaveShakes
  <2> QED BY <2>2, <2>6, <2>7, <2>8, <2>9, <2>10, <1>4 DEF Shakes
<1> QED BY <1>5, <1>6

(* A port whose handshake and mode are those of x.                         *)
SameMode(x, z) ==
  /\ z \in WrPorts /\ z.pp = x.pp /\ z.wst = x.wst /\ z.wnext = x.wnext /\ z.ext = x.ext
  /\ z.on = x.on /\ z.role = x.role /\ z.lock = x.lock

AnnounceOn(f) == f.kind = "announce" /\ f.on

(* The flags of an Announce are Boolean.                                   *)
LEMMA FrameOn == \A f \in WrFrames : f.kind = "announce" => f.wr \in BOOLEAN /\ f.on \in BOOLEAN
<1> SUFFICES ASSUME NEW f \in WrFrames, f.kind = "announce" PROVE f.wr \in BOOLEAN /\ f.on \in BOOLEAN
  OBVIOUS
<1>1. CASE f \in {Sig(id) : id \in Signals}
  <2>1. PICK id \in Signals : f = Sig(id)
    BY <1>1
  <2> QED BY <2>1 DEF Sig
<1>2. CASE f \in [kind : {"announce"}, wr : BOOLEAN, on : BOOLEAN]
  BY <1>2
<1>3. CASE f = Nothing
  BY <1>3 DEF Nothing
<1> QED BY <1>1, <1>2, <1>3 DEF WrFrames, Frames

(* wr_bmca_s1() copies the flags of the parent and starts no handshake     *)
(* itself.                                                                 *)
LEMMA BmcaFields ==
  ASSUME NEW x \in WrPorts, NEW f \in WrFrames, f.kind = "announce"
  PROVE  SameMode(x, wr_bmca_s1(x, f)) /\ (wr_bmca_s1(x, f).parentOn => AnnounceOn(f))
<1> DEFINE d == IF ~(x.restart \/ x.gap) THEN x.detect ELSE IF f.wr THEN "WR" ELSE "NOT_WR"
           y == wr_bmca_s1(x, f)
<1>1. d \in {"NO", "WR", "NOT_WR"} /\ f.wr \in BOOLEAN /\ f.on \in BOOLEAN
  BY FrameOn DEF WrPorts
<1>2. y = [x EXCEPT !.restart = FALSE, !.gap = FALSE, !.parentWr = f.wr, !.parentOn = f.on,
                    !.detect = d]
  BY DEF wr_bmca_s1
<1> HIDE DEF d, y
<1>3. y \in WrPorts
  BY <1>1, <1>2 DEF WrPorts
<1>4. /\ y.pp = x.pp /\ y.wst = x.wst /\ y.wnext = x.wnext /\ y.ext = x.ext
      /\ y.on = x.on /\ y.role = x.role /\ y.lock = x.lock /\ y.parentOn = f.on
  BY <1>2 DEF WrPorts
<1> QED BY <1>3, <1>4 DEF SameMode, AnnounceOn, y

(* What pp_slave() hands on.                                               *)
LEMMA HeardFields ==
  ASSUME NEW x \in WrPorts, NEW f \in WrFrames
  PROVE  LET y == IF x.pp = "UNCALIBRATED" /\ x.isNew THEN wr_new_slave(x) ELSE x
             z == [IF f.kind = "announce" THEN wr_bmca_s1(y, f) ELSE y EXCEPT !.isNew = FALSE]
         IN  SameMode(x, z) /\ (z.parentOn => x.parentOn \/ AnnounceOn(f))
<1> DEFINE y == IF x.pp = "UNCALIBRATED" /\ x.isNew THEN wr_new_slave(x) ELSE x
           b == wr_bmca_s1(y, f)
           a == IF f.kind = "announce" THEN b ELSE y
           z == [a EXCEPT !.isNew = FALSE]
<1> SUFFICES SameMode(x, z) /\ (z.parentOn => x.parentOn \/ AnnounceOn(f))
  OBVIOUS
<1>1. SameMode(x, y) /\ y.parentOn = x.parentOn
  <2> DEFINE n == [x EXCEPT !.restart = TRUE]
  <2>1. y = n \/ y = x
    BY DEF wr_new_slave
  <2>2. SameMode(x, n) /\ n.parentOn = x.parentOn /\ SameMode(x, x)
    BY DEF SameMode, WrPorts
  <2> HIDE DEF n, y
  <2> QED BY <2>1, <2>2
<1> HIDE DEF y
<1>2. y \in WrPorts
  BY <1>1 DEF SameMode
<1>3. f.kind = "announce" => SameMode(y, b) /\ (b.parentOn => AnnounceOn(f))
  BY <1>2, BmcaFields
<1> HIDE DEF b
<1>4. SameMode(x, a) /\ (a.parentOn => x.parentOn \/ AnnounceOn(f))
  BY <1>1, <1>3 DEF SameMode
<1> HIDE DEF a
<1>5. SameMode(a, z) /\ z.parentOn = a.parentOn
  BY <1>4 DEF SameMode, WrPorts
<1> QED BY <1>4, <1>5 DEF SameMode

(* A call of pp_state_machine() on the slave's end.                        *)
SlavePp(x, y, f) ==
  \/ y.pp = x.pp
  \/ y.pp = "LISTENING"
  \/ /\ x.pp = "LISTENING" /\ y.pp = "UNCALIBRATED"
     /\ f.kind = "announce" /\ y.wnext # "WR_LINK_ON"
  \/ x.pp = "SLAVE" /\ y.pp = "UNCALIBRATED"
  \/ x.pp = "UNCALIBRATED" /\ y.pp = "SLAVE" /\ (y.on => x.on /\ x.parentOn)

SlaveStep(x, y, f, g) ==
  /\ y \in WrPorts /\ g \in WrFrames
  /\ SlaveLocal(y) /\ SlaveShakes(x, y, f, g) /\ SlavePp(x, y, f)
  /\ \/ ~y.parentOn
     \/ AnnounceOn(f)
     \/ x.parentOn /\ x.pp # "LISTENING"
     \/ y.pp = "LISTENING"
     \/ x.wnext = "WR_LINK_ON"

(* The extension at the end of a call.                                     *)
LEMMA SlaveExtension ==
  ASSUME NEW x \in WrPorts, NEW z \in WrPorts, SlaveLocal(x), SameMode(x, z),
         NEW f \in WrFrames, z.parentOn => x.parentOn \/ AnnounceOn(f),
         NEW q, NEW tick \in BOOLEAN, RunExtension("S", z, q, f, tick)
  PROVE  \E y, g : Step("S", y, q, g) /\ SlaveStep(x, y, f, g)
<1>1. SlaveLocal(z)
  BY DEF SlaveLocal, SameMode
<1>2. PICK expired \in BOOLEAN, locked \in BOOLEAN, err \in BOOLEAN :
        /\ expired => z.ext = "ACTIVE"
        /\ LET x1 == IF expired THEN pdstate_disable_extension(z) ELSE z
               r == wr_run_state_machine(x1, f, tick, locked, err)
           IN  Step("S", IF r.next = z.pp THEN r.x ELSE pp_leave_current_state(r.x, r.next), q, r.send)
  BY DEF RunExtension
<1> DEFINE x1 == IF expired THEN pdstate_disable_extension(z) ELSE z
           r == wr_run_state_machine(x1, f, tick, locked, err)
           y == IF r.next = z.pp THEN r.x ELSE pp_leave_current_state(r.x, r.next)
           g == r.send
<1>3. SlaveRan(z, y, f, g)
  BY <1>1, <1>2, SlaveRun
<1>4. Step("S", y, q, g)
  BY <1>2
<1> HIDE DEF y, g
<1>5. /\ y \in WrPorts /\ g \in WrFrames /\ SlaveLocal(y) /\ SlaveShakes(z, y, f, g)
      /\ y.parentOn => z.parentOn \/ z.wnext = "WR_LINK_ON"
      /\ y.pp = z.pp \/ (z.pp = "SLAVE" /\ y.pp = "UNCALIBRATED")
  BY <1>3 DEF SlaveRan
<1>6. SlaveShakes(x, y, f, g)
  BY <1>5 DEF SlaveShakes, SameMode
<1>7. SlavePp(x, y, f)
  BY <1>5 DEF SlavePp, SameMode
<1>8. \/ ~y.parentOn
      \/ AnnounceOn(f)
      \/ x.parentOn /\ x.pp # "LISTENING"
      \/ y.pp = "LISTENING"
      \/ x.wnext = "WR_LINK_ON"
  BY <1>5 DEF SameMode
<1>9. SlaveStep(x, y, f, g)
  BY <1>5, <1>6, <1>7, <1>8 DEF SlaveStep
<1> QED BY <1>4, <1>9

(* pp_slave() is a step of the slave.                                      *)
LEMMA SlaveCalls ==
  ASSUME port["S"] \in WrPorts, SlaveLocal(port["S"]), NEW f \in WrFrames, NEW q,
         NEW tick \in BOOLEAN, SlaveCall(q, f, tick)
  PROVE  \E y, g : Step("S", y, q, g) /\ SlaveStep(port["S"], y, f, g)
<1> DEFINE x == port["S"]
           h == IF x.pp = "UNCALIBRATED" /\ x.isNew THEN wr_new_slave(x) ELSE x
           z == [IF f.kind = "announce" THEN wr_bmca_s1(h, f) ELSE h EXCEPT !.isNew = FALSE]
<1>1. SameMode(x, z) /\ (z.parentOn => x.parentOn \/ AnnounceOn(f))
  BY HeardFields
<1>2. /\ x.pp \in {"UNCALIBRATED", "SLAVE"}
      /\ \/ /\ x.pp = "UNCALIBRATED" /\ wr_ready_for_slave(x)
            /\ Step("S", pp_leave_current_state(z, "SLAVE"), q, Nothing)
         \/ RunExtension("S", z, q, f, tick)
         \/ x.pp = "SLAVE" /\ Step("S", pp_leave_current_state(z, "UNCALIBRATED"), q, Nothing)
         \/ Step("S", pp_leave_current_state(z, "LISTENING"), q, Nothing)
  BY DEF SlaveCall
<1>3. x \in WrPorts /\ SlaveLocal(x)
  OBVIOUS
<1> HIDE DEF x, z
<1>4. z \in WrPorts
  BY <1>1 DEF SameMode
<1>5. /\ z.pp = x.pp /\ z.wst = x.wst /\ z.wnext = x.wnext /\ z.ext = x.ext
      /\ z.on = x.on /\ z.role = x.role /\ z.lock = x.lock
  BY <1>1 DEF SameMode
<1>6. Quiet(Nothing) /\ Nothing \in WrFrames
  BY FrameFacts
<1>7. CASE /\ x.pp = "UNCALIBRATED" /\ wr_ready_for_slave(x)
           /\ Step("S", pp_leave_current_state(z, "SLAVE"), q, Nothing)
  <2> DEFINE y == pp_leave_current_state(z, "SLAVE")
  <2>1. Leaves(z, y, "SLAVE")
    BY <1>4, LeaveFields DEF PpStates
  <2> HIDE DEF y
  <2>2. PICK c \in WrPorts : Changes(z, c, "SLAVE") /\ Alike(c, y) /\ y.wnext = c.wnext
    BY <2>1 DEF Leaves
  <2>3. y \in WrPorts /\ y.pp = "SLAVE" /\ y.wst = x.wst /\ y.lock = x.lock
    BY <2>1, <1>5, <1>7 DEF Leaves
  <2>4. /\ y.ext = x.ext /\ y.wnext = x.wnext /\ y.role # "MASTER" /\ (y.on => x.on)
        /\ y.parentOn => x.parentOn \/ AnnounceOn(f)
        /\ x.ext = "ACTIVE" => y.on = x.on
        /\ x.ext = "PTP" => ~y.on
    BY <2>2, <1>1, <1>3, <1>5, <1>7 DEF Changes, Alike, SlaveLocal
  <2>5. x.ext = "ACTIVE" => x.on /\ x.parentOn
    BY <1>7 DEF wr_ready_for_slave
  <2>6. x.ext \in {"ACTIVE", "PTP"}
    BY <1>3 DEF WrPorts
  <2>7. x.wnext = "IDLE"
    BY <1>3, <2>5, <2>6 DEF SlaveLocal
  <2>8. SlaveLocal(y)
    BY <1>3, <2>3, <2>4, <2>5, <2>6, <2>7 DEF SlaveLocal, Past
  <2>9. SlaveStep(x, y, f, Nothing)
    BY <1>6, <1>7, <2>3, <2>4, <2>5, <2>6, <2>8 DEF SlaveStep, SlaveShakes, SlavePp
  <2> QED BY <1>7, <2>9 DEF y, x
<1>8. CASE RunExtension("S", z, q, f, tick)
  <2>1. \E y, g : Step("S", y, q, g) /\ SlaveStep(x, y, f, g)
    BY <1>1, <1>3, <1>4, <1>8, SlaveExtension
  <2> QED BY <2>1 DEF x
<1>9. CASE x.pp = "SLAVE" /\ Step("S", pp_leave_current_state(z, "UNCALIBRATED"), q, Nothing)
  <2> DEFINE y == pp_leave_current_state(z, "UNCALIBRATED")
  <2>1. Leaves(z, y, "UNCALIBRATED")
    BY <1>4, LeaveFields DEF PpStates
  <2> HIDE DEF y
  <2>2. PICK c \in WrPorts : Changes(z, c, "UNCALIBRATED") /\ Alike(c, y) /\ y.wnext = c.wnext
    BY <2>1 DEF Leaves
  <2>3. y \in WrPorts /\ y.pp = "UNCALIBRATED" /\ y.wst = x.wst
    BY <2>1, <1>5, <1>9 DEF Leaves
  <2>4. x.wnext = "IDLE"
    BY <1>3, <1>9 DEF SlaveLocal
  <2>5. /\ ~c.on /\ c.role # "MASTER" /\ (c.parentOn => z.parentOn)
        /\ c.wnext = "IDLE" \/ (c.wnext = "PRESENT" /\ c.ext = "ACTIVE")
    BY <2>2, <2>4, <1>3, <1>5, <1>9 DEF Changes, SlaveLocal
  <2>6. /\ ~y.on /\ y.role # "MASTER" /\ (y.parentOn => x.parentOn \/ AnnounceOn(f))
        /\ y.wnext = "IDLE" \/ (y.wnext = "PRESENT" /\ y.ext = "ACTIVE")
    BY <2>2, <2>5, <1>1 DEF Alike
  <2>7. SlaveLocal(y)
    BY <2>3, <2>6 DEF SlaveLocal, Past
  <2>8. SlaveStep(x, y, f, Nothing)
    BY <1>6, <1>9, <2>3, <2>4, <2>6, <2>7 DEF SlaveStep, SlaveShakes, SlavePp
  <2> QED BY <1>9, <2>8 DEF y, x
<1>10. CASE Step("S", pp_leave_current_state(z, "LISTENING"), q, Nothing)
  <2> DEFINE y == pp_leave_current_state(z, "LISTENING")
  <2>1. Leaves(z, y, "LISTENING")
    BY <1>4, LeaveFields DEF PpStates
  <2> HIDE DEF y
  <2>2. PICK c \in WrPorts : Changes(z, c, "LISTENING") /\ Alike(c, y) /\ y.wnext = c.wnext
    BY <2>1 DEF Leaves
  <2>3. /\ y \in WrPorts /\ y.pp = "LISTENING" /\ y.wst = x.wst
        /\ x.pp # "SLAVE" => y.lock = x.lock
    BY <2>1, <1>5, <1>10 DEF Leaves
  <2>4. ~y.on /\ y.role = "NONE" /\ y.wnext = x.wnext /\ y.ext = x.ext
    BY <2>2, <1>5 DEF Changes, Alike
  <2>5. SlaveLocal(y)
    BY <1>3, <2>3, <2>4 DEF SlaveLocal, Past
  <2>6. SlaveStep(x, y, f, Nothing)
    BY <1>6, <2>3, <2>4, <2>5 DEF SlaveStep, SlaveShakes, SlavePp
  <2> QED BY <1>10, <2>6 DEF y, x
<1> QED BY <1>2, <1>7, <1>8, <1>9, <1>10

(* pp_listening() is a step of the slave.                                  *)
LEMMA ListeningCalls ==
  ASSUME port["S"] \in WrPorts, SlaveLocal(port["S"]), NEW f \in WrFrames, NEW q,
         NEW tick \in BOOLEAN, ListeningCall(q, f, tick)
  PROVE  \E y, g : Step("S", y, q, g) /\ SlaveStep(port["S"], y, f, g)
<1> DEFINE x0 == port["S"]
           x == [x0 EXCEPT !.isNew = FALSE]
<1>1. /\ x.pp = "LISTENING"
      /\ \/ \E gap \in {x.gap, x.gap \/ f.kind = "announce"} :
              RunExtension("S", [x EXCEPT !.gap = gap], q, f, tick)
         \/ /\ f.kind = "announce" /\ x.wst = x.wnext
            /\ Step("S", pp_leave_current_state(wr_bmca_s1(x, f), "UNCALIBRATED"), q, Nothing)
  BY DEF ListeningCall
<1>2. x0 \in WrPorts /\ SlaveLocal(x0)
  OBVIOUS
<1> HIDE DEF x0
<1>3. SameMode(x0, x) /\ x.parentOn = x0.parentOn
  BY <1>2 DEF SameMode, WrPorts
<1> HIDE DEF x
<1>4. /\ x \in WrPorts /\ x.pp = x0.pp /\ x.wst = x0.wst /\ x.wnext = x0.wnext /\ x.ext = x0.ext
      /\ x.on = x0.on /\ x.role = x0.role /\ x.lock = x0.lock
  BY <1>3 DEF SameMode
<1>5. Quiet(Nothing) /\ Nothing \in WrFrames
  BY FrameFacts
<1>6. ASSUME NEW gap \in BOOLEAN, RunExtension("S", [x EXCEPT !.gap = gap], q, f, tick)
      PROVE  \E y, g : Step("S", y, q, g) /\ SlaveStep(x0, y, f, g)
  <2> DEFINE z == [x EXCEPT !.gap = gap]
  <2>1. SameMode(x0, z) /\ z.parentOn = x0.parentOn /\ z \in WrPorts
    BY <1>3, <1>4 DEF SameMode, WrPorts
  <2>2. RunExtension("S", z, q, f, tick)
    BY <1>6
  <2> HIDE DEF z
  <2> QED BY <1>2, <2>1, <2>2, SlaveExtension
<1>7. CASE \E gap \in {x.gap, x.gap \/ f.kind = "announce"} :
             RunExtension("S", [x EXCEPT !.gap = gap], q, f, tick)
  <2>1. x.gap \in BOOLEAN /\ (x.gap \/ f.kind = "announce") \in BOOLEAN
    BY <1>4 DEF WrPorts
  <2>2. \E y, g : Step("S", y, q, g) /\ SlaveStep(x0, y, f, g)
    BY <1>6, <1>7, <2>1
  <2> QED BY <2>2 DEF x0
<1>8. CASE /\ f.kind = "announce" /\ x.wst = x.wnext
           /\ Step("S", pp_leave_current_state(wr_bmca_s1(x, f), "UNCALIBRATED"), q, Nothing)
  <2> DEFINE b == wr_bmca_s1(x, f)
             y == pp_leave_current_state(b, "UNCALIBRATED")
  <2>1. SameMode(x, b) /\ (b.parentOn => AnnounceOn(f))
    BY <1>4, <1>8, BmcaFields
  <2>2. b \in WrPorts
    BY <2>1 DEF SameMode
  <2>3. Step("S", y, q, Nothing)
    BY <1>8
  <2>4. Leaves(b, y, "UNCALIBRATED")
    BY <2>2, LeaveFields DEF PpStates
  <2> HIDE DEF b, y
  <2>5. /\ b.pp = "LISTENING" /\ b.wst = x0.wst /\ b.wnext = x0.wnext /\ b.ext = x0.ext
        /\ b.on = x0.on /\ b.role = x0.role /\ b.lock = x0.lock
    BY <2>1, <1>1, <1>4 DEF SameMode
  <2>6. PICK c \in WrPorts : Changes(b, c, "UNCALIBRATED") /\ Alike(c, y) /\ y.wnext = c.wnext
    BY <2>4 DEF Leaves
  <2>7. y \in WrPorts /\ y.pp = "UNCALIBRATED" /\ y.wst = x0.wst /\ y.lock = x0.lock
    BY <2>4, <2>5 DEF Leaves
  <2>8. /\ y.on => x0.on
        /\ y.on => y.ext = "ACTIVE" \/ x0.ext = "PTP"
        /\ y.parentOn => AnnounceOn(f)
        /\ y.role \in {x0.role, "NONE"} /\ y.wnext \in {x0.wnext, "IDLE"}
        /\ y.ext = x0.ext \/ (y.ext = "PTP" /\ y.wnext = "IDLE")
        /\ x0.ext = "PTP" /\ y.ext = "PTP" => ~y.on
    BY <2>1, <2>5, <2>6 DEF Changes, Alike
  <2>9. x0.wnext # "WR_LINK_ON" /\ x0.pp = "LISTENING"
    BY <1>1, <1>2, <1>4, <1>8 DEF SlaveLocal
  <2>10. x0.ext \in {"ACTIVE", "PTP"}
    BY <1>2 DEF WrPorts
  <2>11. SlaveLocal(y)
    BY <1>2, <2>7, <2>8, <2>9, <2>10 DEF SlaveLocal, Past
  <2>12. SlaveStep(x0, y, f, Nothing)
    BY <1>5, <1>8, <2>7, <2>8, <2>9, <2>11 DEF SlaveStep, SlaveShakes, SlavePp
  <2> QED BY <2>3, <2>12 DEF x0
<1> QED BY <1>1, <1>7, <1>8

-----------------------------------------------------------------------------
(* The master's end.                                                       *)

(* Whatever the call does, the port is a port and the frame a frame.       *)
LEMMA RunTypes ==
  ASSUME NEW e, NEW x \in WrPorts, NEW f \in WrFrames, NEW q, NEW tick \in BOOLEAN,
         RunExtension(e, x, q, f, tick)
  PROVE  \E y \in WrPorts, g \in WrFrames : Step(e, y, q, g)
<1>1. PICK expired \in BOOLEAN, locked \in BOOLEAN, err \in BOOLEAN :
        LET x1 == IF expired THEN pdstate_disable_extension(x) ELSE x
            r == wr_run_state_machine(x1, f, tick, locked, err)
        IN  Step(e, IF r.next = x.pp THEN r.x ELSE pp_leave_current_state(r.x, r.next), q, r.send)
  BY DEF RunExtension
<1> DEFINE x1 == IF expired THEN pdstate_disable_extension(x) ELSE x
           r == wr_run_state_machine(x1, f, tick, locked, err)
           y == IF r.next = x.pp THEN r.x ELSE pp_leave_current_state(r.x, r.next)
<1>2. x1 \in WrPorts
  BY DisableFields
<1> HIDE DEF x1
<1>3. PICK xe : /\ Entered(x1, xe, StateOf(x1))
                /\ StateOf(x1) = "IDLE" => IdleCall(xe, f, r)
                /\ StateOf(x1) # "IDLE" => xe.ext = "ACTIVE" /\ Shakes(xe, f, r)
  BY <1>2, RunFields
<1>4. Step(e, y, q, r.send)
  BY <1>1 DEF x1
<1> HIDE DEF r
<1>5. r.x \in WrPorts /\ r.send \in WrFrames /\ r.next \in {xe.pp, "UNCALIBRATED"} /\ xe.pp \in PpStates
  BY <1>3, FrameFacts DEF IdleCall, Shakes, Entered, WrPorts, PpStates
<1>6. pp_leave_current_state(r.x, r.next) \in WrPorts
  BY <1>5, LeaveFields DEF Leaves, PpStates
<1>7. y \in WrPorts
  BY <1>5, <1>6
<1> QED BY <1>4, <1>5, <1>7

(* Any call of the master leaves a port and sends a frame.                 *)
LEMMA MasterTypes ==
  ASSUME port["M"] \in WrPorts, NEW f \in WrFrames, NEW q, NEW tick \in BOOLEAN,
         MasterCall(q, f, tick)
  PROVE  \E y \in WrPorts, g \in WrFrames : Step("M", y, q, g)
<1>1. CASE RunExtension("M", port["M"], q, f, tick)
  BY <1>1, RunTypes
<1>2. CASE Step("M", pp_leave_current_state(port["M"], "MASTER"), q, Nothing)
  BY <1>2, LeaveFields, FrameFacts DEF Leaves, PpStates
<1>3. CASE Step("M", port["M"], q, Nothing)
  BY <1>3, FrameFacts
<1> QED BY <1>1, <1>2, <1>3 DEF MasterCall

(* What holds of the master's port between two calls, when its PROT_STATE  *)
(* timer does not expire.                                                  *)
MasterLocal(x) ==
  /\ x.pp \in {"LISTENING", "MASTER"} /\ x.detect = "NO"
  /\ x.role # "SLAVE" /\ x.wnext \notin {"PRESENT", "S_LOCK", "LOCKED"}
  /\ x.ext = "PTP" => x.wnext = "IDLE"

(* A call as a step of the handshake.                                      *)
MasterStep(x, y, f, g) ==
  /\ y \in WrPorts /\ g \in WrFrames /\ MasterLocal(y)
  /\ y.pp = x.pp \/ (x.pp = "LISTENING" /\ y.pp = "MASTER" /\ y.wnext = "IDLE" /\ Quiet(g))
  /\ \/ /\ y.wnext \in {x.wnext, "IDLE"}
        /\ Quiet(g) \/ (y.wnext = x.wnext /\ Says(x.wnext, g))
        /\ x.wnext = "IDLE" /\ y.pp = x.pp => y.on = x.on
     \/ y.wnext = "M_LOCK" /\ x.wnext = "IDLE" /\ Is(f, "SLAVE_PRESENT") /\ Quiet(g)
     \/ Moves(x.wnext, x.role, f, y.wnext, g)
     \/ /\ x.wnext = "WR_LINK_ON" /\ y.wnext = "IDLE" /\ y.on
        /\ Quiet(g) \/ Is(g, "WR_MODE_ON")

(* A call of the master is a step of the master.                           *)
LEMMA MasterCalls ==
  ASSUME "M" \notin Expires, port["M"] \in WrPorts, MasterLocal(port["M"]), NEW f \in WrFrames,
         NEW q, NEW tick \in BOOLEAN, MasterCall(q, f, tick)
  PROVE  \E y, g : Step("M", y, q, g) /\ MasterStep(port["M"], y, f, g)
<1> DEFINE x == port["M"]
<1>1. \/ RunExtension("M", x, q, f, tick)
      \/ x.pp = "LISTENING" /\ Step("M", pp_leave_current_state(x, "MASTER"), q, Nothing)
      \/ Step("M", x, q, Nothing)
  BY DEF MasterCall
<1>2. x \in WrPorts /\ MasterLocal(x)
  OBVIOUS
<1>3. Quiet(Nothing) /\ Nothing \in WrFrames
  BY FrameFacts
<1> SUFFICES \E y, g : Step("M", y, q, g) /\ MasterStep(x, y, f, g)
  OBVIOUS
<1> HIDE DEF x
<1>4. x.ext \in {"ACTIVE", "PTP"}
  BY <1>2 DEF WrPorts
<1>5. CASE RunExtension("M", x, q, f, tick)
  <2>1. PICK locked \in BOOLEAN, err \in BOOLEAN :
          LET r == wr_run_state_machine(x, f, tick, locked, err)
          IN  Step("M", IF r.next = x.pp THEN r.x ELSE pp_leave_current_state(r.x, r.next), q, r.send)
    BY <1>5 DEF RunExtension
  <2> DEFINE r == wr_run_state_machine(x, f, tick, locked, err)
             y == IF r.next = x.pp THEN r.x ELSE pp_leave_current_state(r.x, r.next)
  <2>2. Step("M", y, q, r.send)
    BY <2>1
  <2>3. PICK xe : /\ Entered(x, xe, StateOf(x))
                  /\ StateOf(x) = "IDLE" => IdleCall(xe, f, r)
                  /\ StateOf(x) # "IDLE" => xe.ext = "ACTIVE" /\ Shakes(xe, f, r)
    BY <1>2, RunFields
  <2> HIDE DEF r
  <2>4. /\ xe.wnext = StateOf(x) /\ xe.pp = x.pp /\ xe.ext = x.ext /\ xe.on = x.on
        /\ xe.role = x.role /\ xe.detect = "NO"
    BY <1>2, <2>3 DEF Entered, MasterLocal
  <2>5. StateOf(x) = x.wnext
    BY <1>2, <1>4 DEF StateOf, MasterLocal
  <2>6. CASE x.wnext = "IDLE"
    <3>1. IdleCall(xe, f, r) /\ Quiet(r.send) /\ r.send \in WrFrames
      BY <1>3, <2>3, <2>5, <2>6 DEF IdleCall
    <3>2. /\ r.x \in WrPorts /\ r.next = x.pp /\ r.x.pp = x.pp /\ r.x.detect = "NO"
          /\ r.x.role = x.role /\ r.x.on = x.on
      BY <2>4, <3>1 DEF IdleCall, Remains, Alike
    <3>3. y = r.x
      BY <3>2
    <3> HIDE DEF y
    <3>4. \/ r.x.wnext = "IDLE"
          \/ r.x.wnext = "M_LOCK" /\ Is(f, "SLAVE_PRESENT") /\ r.x.ext = "ACTIVE"
      BY <2>4, <3>1 DEF IdleCall
    <3>5. MasterLocal(r.x)
      BY <1>2, <3>2, <3>4 DEF MasterLocal
    <3>6. MasterStep(x, r.x, f, r.send)
      BY <2>6, <3>1, <3>2, <3>4, <3>5 DEF MasterStep
    <3> QED BY <2>2, <3>3, <3>6
  <2>7. CASE x.wnext # "IDLE"
    <3>1. Shakes(xe, f, r) /\ xe.wnext = x.wnext /\ x.ext = "ACTIVE"
      BY <1>2, <1>4, <2>3, <2>4, <2>5, <2>7 DEF MasterLocal
    <3>2. /\ r.x \in WrPorts /\ r.send \in WrFrames /\ r.next = x.pp /\ r.x.pp = x.pp
          /\ r.x.detect = "NO"
      BY <2>4, <3>1 DEF Shakes, Remains
    <3>3. y = r.x
      BY <3>2
    <3> HIDE DEF y
    <3>4. /\ r.x.role # "SLAVE"
          /\ r.x.ext = "PTP" => r.x.wnext = "IDLE"
      BY <1>2, <2>4, <3>1 DEF Shakes, Eases, MasterLocal
    <3>5. x.wnext \notin {"PRESENT", "S_LOCK", "LOCKED"} /\ x.role # "SLAVE"
      BY <1>2 DEF MasterLocal
    <3>6. r.x.wnext \notin {"PRESENT", "S_LOCK", "LOCKED"}
      BY <3>1, <3>5 DEF Shakes, Moves
    <3>7. MasterLocal(r.x)
      BY <1>2, <3>2, <3>4, <3>6 DEF MasterLocal
    <3>8. \/ r.x.wnext = x.wnext /\ Says(x.wnext, r.send)
          \/ r.x.wnext = "IDLE" /\ Quiet(r.send)
          \/ Moves(x.wnext, x.role, f, r.x.wnext, r.send)
          \/ /\ x.wnext = "WR_LINK_ON" /\ r.x.wnext = "IDLE" /\ r.x.on
             /\ Quiet(r.send) \/ Is(r.send, "WR_MODE_ON")
      BY <2>4, <3>1 DEF Shakes
    <3>9. MasterStep(x, r.x, f, r.send)
      BY <2>7, <3>2, <3>7, <3>8 DEF MasterStep
    <3> QED BY <2>2, <3>3, <3>9
  <2> QED BY <2>6, <2>7
<1>6. CASE x.pp = "LISTENING" /\ Step("M", pp_leave_current_state(x, "MASTER"), q, Nothing)
  <2> DEFINE y == pp_leave_current_state(x, "MASTER")
  <2>1. Leaves(x, y, "MASTER")
    BY <1>2, LeaveFields DEF PpStates
  <2> HIDE DEF y
  <2>2. PICK c \in WrPorts : Changes(x, c, "MASTER") /\ Alike(c, y) /\ y.wnext = c.wnext
    BY <2>1 DEF Leaves
  <2>3. y \in WrPorts /\ y.pp = "MASTER" /\ y.detect = "NO"
    BY <2>1, <1>2 DEF Leaves, MasterLocal
  <2>4. c.wnext = "IDLE" /\ c.role # "SLAVE"
    BY <2>2, <1>2, <1>4 DEF Changes, MasterLocal
  <2>5. y.wnext = "IDLE" /\ y.role # "SLAVE"
    BY <2>2, <2>4 DEF Alike
  <2>6. MasterLocal(y)
    BY <2>3, <2>5 DEF MasterLocal
  <2>7. MasterStep(x, y, f, Nothing)
    BY <1>3, <1>6, <2>3, <2>5, <2>6 DEF MasterStep
  <2> QED BY <1>6, <2>7 DEF y
<1>7. CASE Step("M", x, q, Nothing)
  <2>1. MasterStep(x, x, f, Nothing)
    BY <1>2, <1>3 DEF MasterStep
  <2> QED BY <1>7, <2>1
<1> QED BY <1>1, <1>5, <1>6, <1>7

-----------------------------------------------------------------------------
(* The two ends and the frames between them: x and m are the ports of the  *)
(* slave and the master, gs and gm the frames on their way to them.        *)

(* The slave is not in a handshake, or at its very start.                  *)
Back(x) == x.wnext \in {"IDLE", "PRESENT"}

(* A slave has a parent, and only a MASTER sends Announces.                *)
ParentIsMaster(x, m, gs) ==
  x.pp # "LISTENING" \/ gs.kind = "announce" => m.pp = "MASTER"

(* A slave in WR mode, or about to be: the master has finished and nothing *)
(* under way makes it begin again.                                         *)
SlaveOn(x, m, gs, gm) ==
  x.on =>
    /\ m.wnext = "IDLE" /\ ~Is(gm, "SLAVE_PRESENT")
    /\ x.pp # "LISTENING" /\ x.parentOn => m.on
    /\ AnnounceOn(gs) => m.on
    /\ x.pp = "SLAVE" => m.on
SlaveLinkOn(x, m, gs, gm) ==
  x.wnext = "WR_LINK_ON" =>
    /\ m.wnext = "IDLE" /\ ~Is(gm, "SLAVE_PRESENT")
    /\ x.pp # "LISTENING" => m.on
    /\ AnnounceOn(gs) => m.on

(* A WR_MODE_ON under way is of this handshake.                            *)
ModeOnComing(x, m, gs, gm) ==
  Is(gs, "WR_MODE_ON") =>
    \/ Back(x)
    \/ /\ x.wnext = "CALIBRATED" /\ m.wnext = "IDLE" /\ ~Is(gm, "SLAVE_PRESENT")
       /\ x.pp # "LISTENING" => m.on

(* The master past its calibration: the slave has calibrated or given up.  *)
MasterResponds(x, m, gs, gm) ==
  m.wnext \in {"RESP_CALIB_REQ", "WR_LINK_ON"} =>
    /\ ~Is(gs, "LOCK")
    /\ Back(x) \/ (x.wnext = "CALIBRATED" /\ ~Is(gm, "SLAVE_PRESENT"))
CalibrateComing(x, m, gs, gm) ==
  Is(gm, "CALIBRATE") /\ m.wnext = "CALIBRATED" =>
    ~Is(gs, "LOCK") /\ (Back(x) \/ x.wnext = "CALIBRATED")
BothCalibrate(x, m, gs) ==
  x.wnext = "CALIBRATION" /\ m.wnext = "CALIBRATED" => ~Is(gs, "LOCK")

(* The slave does not calibrate before the master has.                     *)
Early(x, gs) ==
  x.wnext = "CALIBRATION" \/ (x.wnext = "RESP_CALIB_REQ" /\ Is(gs, "CALIBRATED"))
MasterFirst(x, m, gs, gm) ==
  /\ m.wnext = "CALIBRATION" => ~Is(gm, "CALIBRATE") /\ ~Early(x, gs)
  /\ m.wnext = "M_LOCK" /\ Is(gm, "LOCKED") => ~Early(x, gs)

Agree(x, m, gs, gm) ==
  /\ ParentIsMaster(x, m, gs) /\ SlaveOn(x, m, gs, gm) /\ SlaveLinkOn(x, m, gs, gm)
  /\ ModeOnComing(x, m, gs, gm) /\ MasterResponds(x, m, gs, gm)
  /\ CalibrateComing(x, m, gs, gm) /\ BothCalibrate(x, m, gs) /\ MasterFirst(x, m, gs, gm)

(* A call takes the frame f, or none; the other direction has the frame it *)
(* had, or the one that is sent.                                           *)
Takes(f, gs, hs) == (f = gs /\ Quiet(hs)) \/ (Quiet(f) /\ hs = gs)

(* A step of the slave keeps the two ends in agreement.                    *)
LEMMA SlaveAgree ==
  ASSUME NEW x \in WrPorts, NEW y \in WrPorts, NEW m \in WrPorts, NEW gs, NEW gm, NEW hs, NEW hm,
         NEW f, NEW g, SlaveLocal(x), MasterLocal(m), Agree(x, m, gs, gm),
         SlaveStep(x, y, f, g), Takes(f, gs, hs), hm = gm \/ hm = g
  PROVE  Agree(y, m, hs, hm)
<1> USE DEF Quiet, Is, AnnounceOn, Back
<1>1. /\ x.wnext # "M_LOCK" /\ (x.on => x.wnext = "IDLE") /\ (x.pp = "SLAVE" => x.wnext = "IDLE")
      /\ y.wnext # "M_LOCK" /\ (y.on => y.wnext = "IDLE") /\ (y.pp = "SLAVE" => y.wnext = "IDLE")
      /\ x.pp \in {"LISTENING", "UNCALIBRATED", "SLAVE"} /\ x.role # "MASTER"
      /\ y.pp \in {"LISTENING", "UNCALIBRATED", "SLAVE"}
      /\ m.wnext \notin {"PRESENT", "S_LOCK", "LOCKED"}
  BY DEF SlaveStep, SlaveLocal, MasterLocal
<1>2. ParentIsMaster(y, m, hs)
  BY DEF Agree, ParentIsMaster, Takes, SlaveStep, SlavePp
<1>3. SlaveOn(y, m, hs, hm)
  <2> SUFFICES ASSUME y.on PROVE SlaveOn(y, m, hs, hm)
    BY DEF SlaveOn
  <2>1. x.on \/ x.wnext = "WR_LINK_ON"
    BY DEF SlaveStep, SlaveShakes
  <2>2. m.wnext = "IDLE" /\ ~Is(gm, "SLAVE_PRESENT") /\ (AnnounceOn(gs) => m.on)
    BY <2>1 DEF Agree, SlaveOn, SlaveLinkOn
  <2>3. ~Is(hm, "SLAVE_PRESENT") /\ (AnnounceOn(hs) => m.on) /\ (AnnounceOn(f) => m.on)
    BY <1>1, <2>1, <2>2 DEF SlaveStep, SlaveShakes, Takes, Says, Moves
  <2>4. y.pp # "LISTENING" /\ y.parentOn => m.on
    BY <1>1, <2>1, <2>3 DEF SlaveStep, SlavePp, SlaveShakes, Agree, SlaveOn, SlaveLinkOn
  <2>5. y.pp = "SLAVE" => m.on
    BY <1>1, <2>1 DEF SlaveStep, SlavePp, SlaveShakes, Agree, SlaveOn, SlaveLinkOn
  <2> QED BY <2>2, <2>3, <2>4, <2>5 DEF SlaveOn
<1>4. SlaveLinkOn(y, m, hs, hm)
  <2> SUFFICES ASSUME y.wnext = "WR_LINK_ON" PROVE SlaveLinkOn(y, m, hs, hm)
    BY DEF SlaveLinkOn
  <2>1. CASE x.wnext = "WR_LINK_ON"
    <3>1. Quiet(g) /\ (y.pp # "LISTENING" => x.pp # "LISTENING")
      BY <1>1, <2>1 DEF SlaveStep, SlaveShakes, SlavePp, Says, Moves
    <3> QED BY <2>1, <3>1 DEF Agree, SlaveLinkOn, Takes
  <2>2. CASE x.wnext # "WR_LINK_ON"
    <3>1. x.wnext = "CALIBRATED" /\ Is(f, "WR_MODE_ON") /\ Quiet(g) /\ y.pp = x.pp
      BY <1>1, <2>2 DEF SlaveStep, SlaveShakes, Moves
    <3>2. f = gs /\ Quiet(hs)
      BY <3>1 DEF Takes
    <3> QED BY <3>1, <3>2 DEF Agree, ModeOnComing, SlaveLinkOn
  <2> QED BY <2>1, <2>2
<1>5. ModeOnComing(y, m, hs, hm)
  <2> SUFFICES ASSUME Is(hs, "WR_MODE_ON"), ~Back(y) PROVE ModeOnComing(y, m, hs, hm)
    BY DEF ModeOnComing
  <2>1. Quiet(f) /\ hs = gs
    BY DEF Takes
  <2>2. CASE Back(x)
    BY <1>1, <2>1, <2>2 DEF SlaveStep, SlaveShakes, Moves
  <2>3. CASE ~Back(x)
    <3>1. x.wnext = "CALIBRATED" /\ m.wnext = "IDLE" /\ ~Is(gm, "SLAVE_PRESENT")
          /\ (x.pp # "LISTENING" => m.on)
      BY <2>1, <2>3 DEF Agree, ModeOnComing
    <3>2. y.wnext = "CALIBRATED" /\ (Quiet(g) \/ Is(g, "CALIBRATED"))
      BY <2>1, <3>1 DEF SlaveStep, SlaveShakes, Moves, Says
    <3>3. y.pp # "LISTENING" => x.pp # "LISTENING"
      BY <2>1 DEF SlaveStep, SlavePp
    <3> QED BY <3>1, <3>2, <3>3 DEF ModeOnComing
  <2> QED BY <2>2, <2>3
<1>6. MasterResponds(y, m, hs, hm)
  <2> SUFFICES ASSUME m.wnext \in {"RESP_CALIB_REQ", "WR_LINK_ON"} PROVE MasterResponds(y, m, hs, hm)
    BY DEF MasterResponds
  <2>1. /\ ~Is(gs, "LOCK")
        /\ Back(x) \/ (x.wnext = "CALIBRATED" /\ ~Is(gm, "SLAVE_PRESENT"))
    BY DEF Agree, MasterResponds
  <2>2. ~Is(hs, "LOCK") /\ ~Is(f, "LOCK")
    BY <2>1 DEF Takes
  <2>3. ~Is(f, "WR_MODE_ON") \/ Back(x)
    BY <2>1 DEF Agree, ModeOnComing, Takes
  <2>4. Back(y) \/ (y.wnext = "CALIBRATED" /\ ~Is(hm, "SLAVE_PRESENT"))
    BY <1>1, <2>1, <2>2, <2>3 DEF SlaveStep, SlaveShakes, Moves, Says
  <2> QED BY <2>2, <2>4 DEF MasterResponds
<1>7. CalibrateComing(y, m, hs, hm)
  <2> SUFFICES ASSUME Is(hm, "CALIBRATE"), m.wnext = "CALIBRATED" PROVE CalibrateComing(y, m, hs, hm)
    BY DEF CalibrateComing
  <2>1. CASE Is(gm, "CALIBRATE")
    <3>1. ~Is(gs, "LOCK") /\ (Back(x) \/ x.wnext = "CALIBRATED")
      BY <2>1 DEF Agree, CalibrateComing
    <3>2. ~Is(hs, "LOCK") /\ ~Is(f, "LOCK")
      BY <3>1 DEF Takes
    <3>3. ~Is(f, "WR_MODE_ON") \/ Back(x)
      BY <3>1 DEF Agree, ModeOnComing, Takes
    <3> QED BY <1>1, <3>1, <3>2, <3>3 DEF SlaveStep, SlaveShakes, Moves, CalibrateComing
  <2>2. CASE Is(g, "CALIBRATE")
    <3>1. x.wnext = "CALIBRATION" /\ y.wnext = "CALIBRATED"
      BY <2>2 DEF SlaveStep, SlaveShakes, Moves, Says
    <3>2. ~Is(gs, "LOCK")
      BY <3>1 DEF Agree, BothCalibrate
    <3> QED BY <3>1, <3>2 DEF Takes, CalibrateComing
  <2> QED BY <2>1, <2>2
<1>8. BothCalibrate(y, m, hs)
  <2> SUFFICES ASSUME y.wnext = "CALIBRATION", m.wnext = "CALIBRATED" PROVE ~Is(hs, "LOCK")
    BY DEF BothCalibrate
  <2>1. CASE x.wnext = "CALIBRATION"
    BY <2>1 DEF Agree, BothCalibrate, Takes
  <2>2. CASE x.wnext # "CALIBRATION"
    <3>1. Is(f, "CALIBRATED")
      BY <1>1, <2>2 DEF SlaveStep, SlaveShakes, Moves
    <3> QED BY <3>1 DEF Takes
  <2> QED BY <2>1, <2>2
<1>9. Early(y, hs) => Early(x, gs)
  BY <1>1 DEF SlaveStep, SlaveShakes, Moves, Early, Takes
<1>10. MasterFirst(y, m, hs, hm)
  <2>1. CASE Early(x, gs)
    <3>1. m.wnext # "CALIBRATION" /\ ~(m.wnext = "M_LOCK" /\ Is(gm, "LOCKED"))
      BY <2>1 DEF Agree, MasterFirst
    <3>2. ~Is(g, "LOCKED")
      BY <2>1 DEF SlaveStep, SlaveShakes, Moves, Says, Early
    <3> QED BY <3>1, <3>2 DEF MasterFirst
  <2>2. CASE ~Early(x, gs)
    <3>1. ~Early(y, hs)
      BY <1>9, <2>2
    <3>2. ~Is(g, "CALIBRATE")
      BY <2>2 DEF SlaveStep, SlaveShakes, Moves, Says, Early
    <3> QED BY <3>1, <3>2 DEF MasterFirst, Agree
  <2> QED BY <2>1, <2>2
<1> QED BY <1>2, <1>3, <1>4, <1>5, <1>6, <1>7, <1>8, <1>10 DEF Agree

(* A step of the master keeps the two ends in agreement.                   *)
LEMMA MasterAgree ==
  ASSUME NEW x \in WrPorts, NEW m \in WrPorts, NEW n \in WrPorts, NEW gs, NEW gm, NEW hs, NEW hm,
         NEW f, NEW g, SlaveLocal(x), MasterLocal(m), Agree(x, m, gs, gm),
         MasterStep(m, n, f, g), Takes(f, gm, hm), hs = gs \/ hs = g
  PROVE  Agree(x, n, hs, hm)
<1> USE DEF Quiet, Is, AnnounceOn, Back
<1>1. /\ m.role # "SLAVE" /\ m.wnext \notin {"PRESENT", "S_LOCK", "LOCKED"}
      /\ n.wnext \notin {"PRESENT", "S_LOCK", "LOCKED"}
      /\ x.wnext # "M_LOCK" /\ (x.on => x.wnext = "IDLE")
      /\ m.pp \in {"LISTENING", "MASTER"} /\ n.pp \in {"LISTENING", "MASTER"}
  BY DEF MasterStep, SlaveLocal, MasterLocal
<1>2. g.kind # "announce" /\ ~Is(g, "SLAVE_PRESENT")
  BY <1>1 DEF MasterStep, Moves, Says
<1>3. ParentIsMaster(x, n, hs)
  BY <1>2 DEF Agree, ParentIsMaster, MasterStep
<1>4. ASSUME m.wnext = "IDLE", ~Is(gm, "SLAVE_PRESENT")
      PROVE  /\ n.wnext = "IDLE" /\ Quiet(g) /\ ~Is(hm, "SLAVE_PRESENT")
             /\ m.pp = "MASTER" /\ m.on => n.on
  BY <1>1, <1>4 DEF MasterStep, Moves, Says, Takes
<1>5. SlaveOn(x, n, hs, hm)
  <2> SUFFICES ASSUME x.on PROVE SlaveOn(x, n, hs, hm)
    BY DEF SlaveOn
  <2>1. m.wnext = "IDLE" /\ ~Is(gm, "SLAVE_PRESENT")
    BY DEF Agree, SlaveOn
  <2>2. AnnounceOn(hs) => AnnounceOn(gs) /\ m.pp = "MASTER"
    BY <1>2 DEF Agree, ParentIsMaster
  <2>3. x.pp # "LISTENING" => m.pp = "MASTER"
    BY DEF Agree, ParentIsMaster
  <2> QED BY <1>4, <2>1, <2>2, <2>3 DEF Agree, SlaveOn
<1>6. SlaveLinkOn(x, n, hs, hm)
  <2> SUFFICES ASSUME x.wnext = "WR_LINK_ON" PROVE SlaveLinkOn(x, n, hs, hm)
    BY DEF SlaveLinkOn
  <2>1. m.wnext = "IDLE" /\ ~Is(gm, "SLAVE_PRESENT")
    BY DEF Agree, SlaveLinkOn
  <2>2. AnnounceOn(hs) => AnnounceOn(gs) /\ m.pp = "MASTER"
    BY <1>2 DEF Agree, ParentIsMaster
  <2>3. x.pp # "LISTENING" => m.pp = "MASTER"
    BY DEF Agree, ParentIsMaster
  <2> QED BY <1>4, <2>1, <2>2, <2>3 DEF Agree, SlaveLinkOn
<1>7. ModeOnComing(x, n, hs, hm)
  <2> SUFFICES ASSUME Is(hs, "WR_MODE_ON"), ~Back(x) PROVE ModeOnComing(x, n, hs, hm)
    BY DEF ModeOnComing
  <2>1. x.pp # "LISTENING" => m.pp = "MASTER"
    BY DEF Agree, ParentIsMaster
  <2>2. CASE hs = gs
    BY <1>4, <2>1, <2>2 DEF Agree, ModeOnComing
  <2>3. CASE hs = g
    <3>1. m.wnext = "WR_LINK_ON" /\ n.wnext = "IDLE" /\ n.on
      BY <1>1, <2>3 DEF MasterStep, Moves, Says
    <3>2. x.wnext = "CALIBRATED" /\ ~Is(gm, "SLAVE_PRESENT")
      BY <3>1 DEF Agree, MasterResponds
    <3> QED BY <3>1, <3>2 DEF Takes, ModeOnComing
  <2> QED BY <2>2, <2>3
<1>8. MasterResponds(x, n, hs, hm)
  <2> SUFFICES ASSUME n.wnext \in {"RESP_CALIB_REQ", "WR_LINK_ON"} PROVE MasterResponds(x, n, hs, hm)
    BY DEF MasterResponds
  <2>1. CASE m.wnext \in {"RESP_CALIB_REQ", "WR_LINK_ON"}
    <3>1. Quiet(g)
      BY <1>1, <2>1 DEF MasterStep, Moves, Says
    <3> QED BY <2>1, <3>1 DEF Agree, MasterResponds, Takes
  <2>2. CASE m.wnext \notin {"RESP_CALIB_REQ", "WR_LINK_ON"}
    <3>1. m.wnext = "CALIBRATED" /\ Is(f, "CALIBRATE") /\ Quiet(g)
      BY <1>1, <2>2 DEF MasterStep, Moves
    <3>2. f = gm /\ Quiet(hm)
      BY <3>1 DEF Takes
    <3> QED BY <3>1, <3>2 DEF Agree, CalibrateComing, MasterResponds
  <2> QED BY <2>1, <2>2
<1>9. CalibrateComing(x, n, hs, hm)
  <2> SUFFICES ASSUME Is(hm, "CALIBRATE"), n.wnext = "CALIBRATED" PROVE CalibrateComing(x, n, hs, hm)
    BY DEF CalibrateComing
  <2>1. Quiet(f) /\ hm = gm
    BY DEF Takes
  <2>2. m.wnext # "CALIBRATION"
    BY <2>1 DEF Agree, MasterFirst
  <2>3. m.wnext = "CALIBRATED" /\ ~Is(g, "LOCK")
    BY <1>1, <2>1, <2>2 DEF MasterStep, Moves, Says
  <2> QED BY <2>1, <2>3 DEF Agree, CalibrateComing
<1>10. BothCalibrate(x, n, hs)
  <2> SUFFICES ASSUME x.wnext = "CALIBRATION", n.wnext = "CALIBRATED" PROVE ~Is(hs, "LOCK")
    BY DEF BothCalibrate
  <2>1. m.wnext # "CALIBRATION"
    BY DEF Agree, MasterFirst, Early
  <2>2. m.wnext = "CALIBRATED" /\ ~Is(g, "LOCK")
    BY <1>1, <2>1 DEF MasterStep, Moves, Says
  <2> QED BY <2>2 DEF Agree, BothCalibrate
<1>11. ASSUME n.wnext \in {"CALIBRATION", "M_LOCK"} PROVE Early(x, hs) => Early(x, gs)
  <2>1. ~Is(g, "CALIBRATED")
    BY <1>1, <1>11 DEF MasterStep, Moves, Says
  <2> QED BY <2>1 DEF Early
<1>12. ASSUME n.wnext = "CALIBRATION" PROVE ~Is(hm, "CALIBRATE") /\ ~Early(x, hs)
  <2>1. CASE m.wnext = "CALIBRATION"
    BY <1>11, <1>12, <2>1 DEF Agree, MasterFirst, Takes
  <2>2. CASE m.wnext = "M_LOCK"
    <3>1. Is(f, "LOCKED")
      BY <1>1, <1>12, <2>2 DEF MasterStep, Moves
    <3>2. f = gm /\ Quiet(hm)
      BY <3>1 DEF Takes
    <3> QED BY <1>11, <1>12, <2>2, <3>1, <3>2 DEF Agree, MasterFirst
  <2>3. CASE m.wnext \notin {"CALIBRATION", "M_LOCK"}
    <3>1. m.wnext = "RESP_CALIB_REQ" /\ Is(f, "CALIBRATED") /\ Quiet(g)
      BY <1>1, <1>12, <2>3 DEF MasterStep, Moves
    <3>2. Quiet(hm)
      BY <3>1 DEF Takes
    <3>3. Back(x) \/ x.wnext = "CALIBRATED"
      BY <3>1 DEF Agree, MasterResponds
    <3> QED BY <3>2, <3>3 DEF Early
  <2> QED BY <2>1, <2>2, <2>3
<1>13. ASSUME n.wnext = "M_LOCK", Is(hm, "LOCKED") PROVE ~Early(x, hs)
  <2>1. Quiet(f) /\ hm = gm
    BY <1>13 DEF Takes
  <2>2. m.wnext = "M_LOCK"
    BY <1>1, <1>13, <2>1 DEF MasterStep, Moves
  <2> QED BY <1>11, <1>13, <2>1, <2>2 DEF Agree, MasterFirst
<1>14. MasterFirst(x, n, hs, hm)
  BY <1>12, <1>13 DEF MasterFirst
<1> QED BY <1>3, <1>5, <1>6, <1>7, <1>8, <1>9, <1>10, <1>14 DEF Agree

(* A frame is lost, or was never there.                                    *)
LEMMA LossAgrees ==
  ASSUME NEW x, NEW m, NEW gs, NEW gm, NEW hs, NEW hm, Agree(x, m, gs, gm),
         hs = gs \/ Quiet(hs), hm = gm \/ Quiet(hm)
  PROVE  Agree(x, m, hs, hm)
<1> USE DEF Quiet, Is, AnnounceOn, Back
<1>1. ParentIsMaster(x, m, hs)
  BY DEF Agree, ParentIsMaster
<1>2. SlaveOn(x, m, hs, hm)
  BY DEF Agree, SlaveOn
<1>3. SlaveLinkOn(x, m, hs, hm)
  BY DEF Agree, SlaveLinkOn
<1>4. ModeOnComing(x, m, hs, hm)
  BY DEF Agree, ModeOnComing
<1>5. MasterResponds(x, m, hs, hm)
  BY DEF Agree, MasterResponds
<1>6. CalibrateComing(x, m, hs, hm)
  BY DEF Agree, CalibrateComing
<1>7. BothCalibrate(x, m, hs)
  BY DEF Agree, BothCalibrate
<1>8. MasterFirst(x, m, hs, hm)
  BY DEF Agree, MasterFirst, Early
<1> QED BY <1>1, <1>2, <1>3, <1>4, <1>5, <1>6, <1>7, <1>8 DEF Agree

(* An Announce of a master.                                                *)
LEMMA AnnounceAgrees ==
  ASSUME NEW x, NEW m, NEW gs, NEW gm, NEW hs, Agree(x, m, gs, gm),
         m.pp = "MASTER", hs.kind = "announce", hs.on => m.on
  PROVE  Agree(x, m, hs, gm)
<1> USE DEF Is, AnnounceOn, Back
<1>1. ParentIsMaster(x, m, hs) /\ ModeOnComing(x, m, hs, gm) /\ BothCalibrate(x, m, hs)
  BY DEF ParentIsMaster, ModeOnComing, BothCalibrate
<1>2. SlaveOn(x, m, hs, gm)
  BY DEF Agree, SlaveOn
<1>3. SlaveLinkOn(x, m, hs, gm)
  BY DEF Agree, SlaveLinkOn
<1>4. MasterResponds(x, m, hs, gm)
  BY DEF Agree, MasterResponds
<1>5. CalibrateComing(x, m, hs, gm)
  BY DEF Agree, CalibrateComing
<1>6. MasterFirst(x, m, hs, gm)
  BY DEF Agree, MasterFirst, Early
<1> QED BY <1>1, <1>2, <1>3, <1>4, <1>5, <1>6 DEF Agree

(* The link has been down.                                                 *)
LEMMA FlapAgrees ==
  ASSUME NEW x, NEW m, NEW y, NEW n, NEW gs, NEW gm, NEW hs, NEW hm, Agree(x, m, gs, gm),
         SlaveLocal(x), y.pp = "LISTENING", y.wnext = x.wnext, ~y.on, n.wnext = m.wnext,
         Quiet(hs), Quiet(hm)
  PROVE  Agree(y, n, hs, hm)
<1> USE DEF Quiet, Is, AnnounceOn, Back
<1>1. /\ ParentIsMaster(y, n, hs) /\ SlaveOn(y, n, hs, hm) /\ ModeOnComing(y, n, hs, hm)
      /\ CalibrateComing(y, n, hs, hm) /\ BothCalibrate(y, n, hs)
  BY DEF ParentIsMaster, SlaveOn, ModeOnComing, CalibrateComing, BothCalibrate
<1>2. SlaveLinkOn(y, n, hs, hm)
  BY DEF Agree, SlaveLinkOn
<1>3. MasterResponds(y, n, hs, hm)
  BY DEF Agree, MasterResponds
<1>4. MasterFirst(y, n, hs, hm)
  BY DEF Agree, MasterFirst, Early
<1> QED BY <1>1, <1>2, <1>3, <1>4 DEF Agree

-----------------------------------------------------------------------------
(* The steps.                                                              *)

LEMMA ReopenedFields ==
  ASSUME NEW x \in WrPorts
  PROVE  LET y == Reopened(x)
         IN  /\ y \in WrPorts /\ y.pp = "LISTENING" /\ y.wnext = x.wnext /\ y.wst = x.wst
             /\ y.ext = "ACTIVE" /\ ~y.on /\ y.role = "NONE" /\ y.detect = x.detect
             /\ x.pp # "SLAVE" => y.lock = x.lock
<1> DEFINE a == pp_leave_current_state(x, "DISABLED")
           b == [a EXCEPT !.ext = "ACTIVE"]
           c == wr_reset_process(b, "NONE")
           d == pp_leave_current_state(c, "LISTENING")
           rs == d.restart \/ x.pp \in {"UNCALIBRATED", "SLAVE"}
           y == Reopened(x)
<1>1. y = [d EXCEPT !.restart = rs]
  BY DEF Reopened
<1>2. Leaves(x, a, "DISABLED")
  BY LeaveFields DEF PpStates
<1> HIDE DEF a
<1>3. /\ a \in WrPorts /\ a.pp = "DISABLED" /\ a.wnext = x.wnext /\ a.wst = x.wst
      /\ a.detect = x.detect /\ (x.pp # "SLAVE" => a.lock = x.lock)
  BY <1>2 DEF Leaves, Changes
<1>4. /\ b \in WrPorts /\ b.pp = "DISABLED" /\ b.wnext = x.wnext /\ b.wst = x.wst
      /\ b.detect = x.detect /\ b.lock = a.lock /\ b.ext = "ACTIVE"
  BY <1>3 DEF WrPorts
<1> HIDE DEF b
<1>5. /\ c \in WrPorts /\ Kept(b, c) /\ c.wnext = b.wnext /\ c.ext = "ACTIVE"
  BY <1>4, ResetFields DEF Roles
<1> HIDE DEF c
<1>6. Leaves(c, d, "LISTENING")
  BY <1>5, LeaveFields DEF PpStates
<1> HIDE DEF d
<1>7. PICK z \in WrPorts : Changes(c, z, "LISTENING") /\ Alike(z, d) /\ d.wnext = z.wnext
  BY <1>6 DEF Leaves
<1>8. z.wnext = c.wnext /\ z.ext = "ACTIVE" /\ ~z.on /\ z.role = "NONE"
  BY <1>5, <1>7 DEF Changes
<1>9. /\ d \in WrPorts /\ d.pp = "LISTENING" /\ d.wst = c.wst /\ d.detect = c.detect
      /\ d.lock = c.lock
  BY <1>4, <1>5, <1>6 DEF Leaves, Kept
<1>10. d.wnext = x.wnext /\ d.ext = "ACTIVE" /\ ~d.on /\ d.role = "NONE"
  BY <1>4, <1>5, <1>7, <1>8 DEF Alike
<1>11. rs \in BOOLEAN
  OBVIOUS
<1> HIDE DEF rs, y
<1>12. y \in WrPorts
  BY <1>1, <1>9, <1>11 DEF WrPorts
<1>13. /\ y.pp = d.pp /\ y.wnext = d.wnext /\ y.wst = d.wst /\ y.ext = d.ext /\ y.on = d.on
       /\ y.role = d.role /\ y.detect = d.detect /\ y.lock = d.lock
  BY <1>1, <1>9 DEF WrPorts
<1>14. d.wst = x.wst /\ d.detect = x.detect /\ (x.pp # "SLAVE" => d.lock = x.lock)
  BY <1>3, <1>4, <1>5, <1>9 DEF Kept
<1> QED BY <1>9, <1>10, <1>12, <1>13, <1>14 DEF y

(* The ports and the frames are what they should be, and the slave's end   *)
(* is in order: this holds whatever the bounds and the timers.             *)
Base ==
  /\ port \in [End -> WrPorts] /\ net \in [End -> Seq(Frames)]
  /\ SlaveLocal(port["S"])

(* What Step does to the two ends.                                         *)
LEMMA StepFields ==
  ASSUME Base, NEW e \in End, NEW y \in WrPorts, NEW g \in WrFrames, NEW q \in Seq(Frames),
         Step(e, y, q, g)
  PROVE  /\ port' \in [End -> WrPorts] /\ net' \in [End -> Seq(Frames)]
         /\ port'[e] = y /\ port'[Peer(e)] = port[Peer(e)]
         /\ net'[e] = q /\ net'[Peer(e)] = Sent(net[Peer(e)], g)
<1>1. Peer(e) \in End /\ Peer(e) # e
  BY DEF Peer, End
<1>2. /\ port \in [End -> WrPorts] /\ net \in [End -> Seq(Frames)]
      /\ port' = [port EXCEPT ![e] = y]
      /\ net' = [net EXCEPT ![e] = q, ![Peer(e)] = Sent(@, g)]
  BY DEF Step, Base
<1>3. net[Peer(e)] \in Seq(Frames)
  BY <1>1, <1>2
<1>4. Sent(net[Peer(e)], g) \in Seq(Frames)
  BY <1>3 DEF Sent, WrFrames
<1> QED BY <1>1, <1>2, <1>4

(* A call keeps the ports and frames, and the slave in order.              *)
LEMMA CallBase ==
  ASSUME Base, NEW e \in End, NEW q \in Seq(Frames), NEW f \in WrFrames, NEW tick \in BOOLEAN,
         Call(e, q, f, tick)
  PROVE  Base'
<1>1. port["S"] \in WrPorts /\ port["M"] \in WrPorts /\ SlaveLocal(port["S"])
  BY DEF Base, End
<1>2. CASE e = "M"
  <2>1. MasterCall(q, f, tick)
    BY <1>2 DEF Call
  <2>2. PICK y \in WrPorts, g \in WrFrames : Step("M", y, q, g)
    BY <1>1, <2>1, MasterTypes
  <2>3. /\ port' \in [End -> WrPorts] /\ net' \in [End -> Seq(Frames)]
        /\ port'[Peer("M")] = port[Peer("M")]
    BY <1>2, <2>2, StepFields
  <2> QED BY <1>1, <2>3 DEF Base, Peer
<1>3. CASE e = "S"
  <2>1. SlaveCall(q, f, tick) \/ ListeningCall(q, f, tick)
    BY <1>3 DEF Call
  <2>2. PICK y, g : Step("S", y, q, g) /\ SlaveStep(port["S"], y, f, g)
    BY <1>1, <2>1, SlaveCalls, ListeningCalls
  <2>3. y \in WrPorts /\ g \in WrFrames /\ SlaveLocal(y)
    BY <2>2 DEF SlaveStep
  <2>4. /\ port' \in [End -> WrPorts] /\ net' \in [End -> Seq(Frames)] /\ port'["S"] = y
    BY <1>3, <2>2, <2>3, StepFields
  <2> QED BY <2>3, <2>4 DEF Base
<1> QED BY <1>2, <1>3 DEF End

(* The calls of Idle, Receive and Tick, in one form.                       *)
Calls(e, q, f) ==
  \/ q = net[e] /\ f = Nothing
  \/ net[e] # <<>> /\ q = Tail(net[e]) /\ f = Head(net[e])

(* Idle, Receive and Tick are calls with the next frame or without.        *)
LEMMA CallForms ==
  ASSUME Base, NEW e \in End, Idle(e) \/ Receive(e) \/ Tick(e)
  PROVE  \E q \in Seq(Frames), f \in WrFrames, tick \in BOOLEAN :
           Calls(e, q, f) /\ Call(e, q, f, tick)
<1>1. net[e] \in Seq(Frames)
  BY DEF Base
<1>2. CASE Idle(e)
  BY <1>1, <1>2, FrameFacts DEF Idle, Calls
<1>3. CASE Tick(e)
  BY <1>1, <1>3, FrameFacts DEF Tick, Calls
<1>4. CASE Receive(e)
  <2>1. net[e] # <<>> /\ Call(e, Tail(net[e]), Head(net[e]), FALSE)
    BY <1>4 DEF Receive
  <2>2. Tail(net[e]) \in Seq(Frames) /\ Head(net[e]) \in Frames
    BY <1>1, <2>1
  <2> QED BY <2>1, <2>2 DEF Calls, WrFrames
<1> QED BY <1>2, <1>3, <1>4

(* The frames and the flags that the other actions change.                 *)
LEMMA AnnounceFrame ==
  ASSUME Base, Announce
  PROVE  \E f \in Frames :
           /\ f.kind = "announce" /\ (f.on => port["M"].on) /\ port["M"].pp = "MASTER"
           /\ Len(net["S"]) < Cap /\ net' = [net EXCEPT !["S"] = Append(@, f)]
           /\ port' = port
<1> DEFINE m == port["M"]
           f == [kind |-> "announce", wr |-> m.wr, on |-> m.wr /\ m.on]
<1>1. m \in WrPorts
  BY DEF Base, End
<1>2. m.wr \in BOOLEAN /\ (m.wr /\ m.on) \in BOOLEAN
  BY <1>1 DEF WrPorts
<1>3. f \in Frames /\ f.kind = "announce" /\ (f.on => m.on)
  BY <1>2 DEF Frames
<1>4. /\ m.pp = "MASTER" /\ Len(net["S"]) < Cap
      /\ net' = [net EXCEPT !["S"] = Append(@, f)] /\ port' = port
  BY DEF Announce
<1> HIDE DEF f
<1> QED BY <1>3, <1>4

(* Gap changes a flag of the slave's port and takes an Announce.           *)
LEMMA GapFields ==
  ASSUME Base, Gap
  PROVE  /\ net["S"] # <<>> /\ net' = [net EXCEPT !["S"] = Tail(@)]
         /\ port'["M"] = port["M"] /\ SameMode(port["S"], port'["S"])
         /\ port'["S"].parentOn = port["S"].parentOn /\ port' \in [End -> WrPorts]
<1> DEFINE x == port["S"]
           y == [x EXCEPT !.gap = TRUE]
<1>1. x \in WrPorts /\ port \in [End -> WrPorts]
  BY DEF Base, End
<1>2. /\ net["S"] # <<>> /\ net' = [net EXCEPT !["S"] = Tail(@)]
      /\ port' = [port EXCEPT !["S"] = y]
  BY DEF Gap
<1>3. SameMode(x, y) /\ y.parentOn = x.parentOn /\ y \in WrPorts
  BY <1>1 DEF SameMode, WrPorts
<1> HIDE DEF y
<1>4. port'["S"] = y /\ port'["M"] = port["M"] /\ port' \in [End -> WrPorts]
  BY <1>1, <1>2, <1>3 DEF End
<1> QED BY <1>2, <1>3, <1>4

(* PllUnlocked changes a flag of the slave's port.                         *)
LEMMA PllFields ==
  ASSUME Base, PllUnlocked
  PROVE  /\ net' = net
         /\ port'["M"] = port["M"] /\ SameMode(port["S"], port'["S"])
         /\ port'["S"].parentOn = port["S"].parentOn /\ port' \in [End -> WrPorts]
<1> DEFINE x == port["S"]
           y == [x EXCEPT !.restart = TRUE]
<1>1. x \in WrPorts /\ port \in [End -> WrPorts]
  BY DEF Base, End
<1>2. net' = net /\ port' = [port EXCEPT !["S"] = y]
  BY DEF PllUnlocked
<1>3. SameMode(x, y) /\ y.parentOn = x.parentOn /\ y \in WrPorts
  BY <1>1 DEF SameMode, WrPorts
<1> HIDE DEF y
<1>4. port'["S"] = y /\ port'["M"] = port["M"] /\ port' \in [End -> WrPorts]
  BY <1>1, <1>2, <1>3 DEF End
<1> QED BY <1>2, <1>3, <1>4

(* After Flap both ends listen, out of WR mode, and nothing is under way.  *)
LEMMA FlapFields ==
  ASSUME Base, Flap
  PROVE  /\ net' = [e \in End |-> <<>>] /\ port' \in [End -> WrPorts]
         /\ \A e \in End : /\ port'[e].pp = "LISTENING" /\ port'[e].wnext = port[e].wnext
                           /\ port'[e].wst = port[e].wst /\ port'[e].ext = "ACTIVE"
                           /\ ~port'[e].on /\ port'[e].role = "NONE"
                           /\ port'[e].detect = port[e].detect
                           /\ port[e].pp # "SLAVE" => port'[e].lock = port[e].lock
<1>1. PICK wr \in WrNodes, gap \in {port["S"].gap, TRUE} :
        port' = [e \in End |-> IF e = "M" THEN [Reopened(port[e]) EXCEPT !.wr = wr]
                               ELSE [Reopened(port[e]) EXCEPT !.gap = gap]]
  BY DEF Flap
<1>2. port["S"] \in WrPorts /\ port["M"] \in WrPorts
  BY DEF Base, End
<1>3. wr \in BOOLEAN /\ gap \in BOOLEAN
  BY <1>2, LinkAssumption DEF WrPorts
<1> DEFINE Y(e) == Reopened(port[e])
           Z(e) == IF e = "M" THEN [Y(e) EXCEPT !.wr = wr] ELSE [Y(e) EXCEPT !.gap = gap]
           Fits(x, y) == /\ y \in WrPorts /\ y.pp = "LISTENING" /\ y.wnext = x.wnext /\ y.wst = x.wst
                         /\ y.ext = "ACTIVE" /\ ~y.on /\ y.role = "NONE" /\ y.detect = x.detect
                         /\ x.pp # "SLAVE" => y.lock = x.lock
<1>4. Fits(port["S"], Y("S")) /\ Fits(port["M"], Y("M"))
  BY <1>2, ReopenedFields
<1> HIDE DEF Y
<1>5. Fits(port["M"], Z("M"))
  <2> DEFINE v == Y("M")
             z == [v EXCEPT !.wr = wr]
  <2>1. v \in WrPorts
    BY <1>4
  <2>2. /\ z \in WrPorts /\ z.pp = v.pp /\ z.wnext = v.wnext /\ z.wst = v.wst /\ z.ext = v.ext
        /\ z.on = v.on /\ z.role = v.role /\ z.detect = v.detect /\ z.lock = v.lock
    BY <1>3, <2>1 DEF WrPorts
  <2>3. Z("M") = z
    OBVIOUS
  <2> HIDE DEF z, Z
  <2> QED BY <1>4, <2>2, <2>3
<1>6. Fits(port["S"], Z("S"))
  <2> DEFINE v == Y("S")
             z == [v EXCEPT !.gap = gap]
  <2>1. v \in WrPorts
    BY <1>4
  <2>2. /\ z \in WrPorts /\ z.pp = v.pp /\ z.wnext = v.wnext /\ z.wst = v.wst /\ z.ext = v.ext
        /\ z.on = v.on /\ z.role = v.role /\ z.detect = v.detect /\ z.lock = v.lock
    BY <1>3, <2>1 DEF WrPorts
  <2>3. Z("S") = z
    OBVIOUS
  <2> HIDE DEF z, Z
  <2> QED BY <1>4, <2>2, <2>3
<1>7. port' = [e \in End |-> Z(e)]
  BY <1>1 DEF Y
<1> HIDE DEF Z
<1>8. port'["S"] = Z("S") /\ port'["M"] = Z("M") /\ port' \in [End -> WrPorts]
  BY <1>5, <1>6, <1>7 DEF End
<1>9. net' = [e \in End |-> <<>>]
  BY DEF Flap
<1>10. Fits(port["S"], port'["S"]) /\ Fits(port["M"], port'["M"])
  BY <1>5, <1>6, <1>8
<1> QED BY <1>8, <1>9, <1>10 DEF End

(* The slave is in order at first.                                         *)
LEMMA BaseInit == Init => Base
<1> SUFFICES ASSUME Init PROVE Base
  OBVIOUS
<1>1. PICK fb \in Fallbacks, wr \in WrNodes :
        port = [e \in End |->
                 [pp |-> "LISTENING", isNew |-> TRUE, wst |-> "IDLE", wnext |-> "IDLE",
                  ext |-> "ACTIVE", role |-> "NONE", on |-> FALSE,
                  parentWr |-> FALSE, parentOn |-> FALSE, detect |-> "NO",
                  restart |-> FALSE, gap |-> TRUE, lock |-> "off", retry |-> 0,
                  fallback |-> fb, wr |-> e = "S" \/ wr]]
  BY DEF Init
<1> DEFINE P(w) == [pp |-> "LISTENING", isNew |-> TRUE, wst |-> "IDLE", wnext |-> "IDLE",
                  ext |-> "ACTIVE", role |-> "NONE", on |-> FALSE,
                  parentWr |-> FALSE, parentOn |-> FALSE, detect |-> "NO",
                  restart |-> FALSE, gap |-> TRUE, lock |-> "off", retry |-> 0,
                  fallback |-> fb, wr |-> w]
<1>2. fb \in BOOLEAN /\ wr \in BOOLEAN
  BY LinkAssumption
<1>3. \A w \in BOOLEAN : P(w) \in WrPorts
  BY <1>2, RetryAssumption DEF WrPorts, WrStates, Roles
<1>4. port = [e \in End |-> P(e = "S" \/ wr)]
  BY <1>1
<1>5. \A w : P(w).pp = "LISTENING" /\ P(w).wnext = "IDLE" /\ P(w).role = "NONE" /\ P(w).on = FALSE
             /\ P(w).ext = "ACTIVE"
  OBVIOUS
<1> HIDE DEF P
<1>6. \A e \in End : (e = "S" \/ wr) \in BOOLEAN
  BY <1>2
<1>7. port \in [End -> WrPorts]
  BY <1>3, <1>4, <1>6
<1>8. port["S"] = P("S" = "S" \/ wr)
  BY <1>4 DEF End
<1>9. SlaveLocal(port["S"])
  BY <1>5, <1>8 DEF SlaveLocal, Past
<1>10. net \in [End -> Seq(Frames)]
  BY DEF Init
<1> QED BY <1>7, <1>9, <1>10 DEF Base

(* Every step keeps the slave in order.                                    *)
LEMMA BaseStep == Base /\ [Next]_vars => Base'
<1> SUFFICES ASSUME Base, [Next]_vars PROVE Base'
  OBVIOUS
<1>1. port \in [End -> WrPorts] /\ net \in [End -> Seq(Frames)] /\ SlaveLocal(port["S"])
  BY DEF Base
<1>2. ASSUME NEW e \in End, Idle(e) \/ Receive(e) \/ Tick(e) PROVE Base'
  BY <1>2, CallForms, CallBase
<1>3. ASSUME NEW e \in End, Lose(e) PROVE Base'
  BY <1>1, <1>3 DEF Lose, Base
<1>4. CASE Announce
  <2>1. PICK f \in Frames : net' = [net EXCEPT !["S"] = Append(@, f)] /\ port' = port
    BY <1>4, AnnounceFrame
  <2>2. Append(net["S"], f) \in Seq(Frames)
    BY <1>1 DEF End
  <2>3. net' \in [End -> Seq(Frames)]
    BY <1>1, <2>1, <2>2
  <2> QED BY <1>1, <2>1, <2>3 DEF Base
<1>5. CASE Gap
  <2>1. net' \in [End -> Seq(Frames)]
    <3>1. net["S"] # <<>> /\ net' = [net EXCEPT !["S"] = Tail(@)]
      BY <1>5, GapFields
    <3>2. Tail(net["S"]) \in Seq(Frames)
      BY <1>1, <3>1 DEF End
    <3> QED BY <1>1, <3>1, <3>2
  <2>2. port' \in [End -> WrPorts] /\ SameMode(port["S"], port'["S"])
    BY <1>5, GapFields
  <2>3. SlaveLocal(port'["S"])
    BY <1>1, <2>2 DEF SlaveLocal, SameMode
  <2> QED BY <2>1, <2>2, <2>3 DEF Base
<1>6. CASE PllUnlocked
  <2>1. net' = net /\ port' \in [End -> WrPorts] /\ SameMode(port["S"], port'["S"])
    BY <1>6, PllFields
  <2>2. SlaveLocal(port'["S"])
    BY <1>1, <2>1 DEF SlaveLocal, SameMode
  <2> QED BY <1>1, <2>1, <2>2 DEF Base
<1>7. CASE Flap
  <2>1. net' = [e \in End |-> <<>>] /\ port' \in [End -> WrPorts]
    BY <1>7, FlapFields
  <2>2. /\ port'["S"].pp = "LISTENING" /\ port'["S"].wnext = port["S"].wnext
        /\ port'["S"].wst = port["S"].wst /\ port'["S"].ext = "ACTIVE"
        /\ ~port'["S"].on /\ port'["S"].role = "NONE"
        /\ port["S"].pp # "SLAVE" => port'["S"].lock = port["S"].lock
    BY <1>7, FlapFields DEF End
  <2>3. SlaveLocal(port'["S"])
    BY <1>1, <2>2 DEF SlaveLocal, Past
  <2>4. net' \in [End -> Seq(Frames)]
    BY <2>1
  <2> QED BY <2>1, <2>3, <2>4 DEF Base
<1>8. CASE UNCHANGED vars
  BY <1>1, <1>8 DEF Base, vars
<1> QED BY <1>2, <1>3, <1>4, <1>5, <1>6, <1>7, <1>8 DEF Next

(* A slave in WR mode has its PLL locked, and with the extension active it *)
(* is a slave in WR mode only: for any number of retries and faults, any   *)
(* queue of frames, and whichever timers expire (wr_s_lock(),              *)
(* wr_ready_for_slave(), wr_state_change()).                               *)
THEOREM WrModeIsLocked == Spec => [](WrModeLocked /\ SlaveInWrMode)
<1>1. Base => WrModeLocked /\ SlaveInWrMode
  BY DEF Base, SlaveLocal, WrModeLocked, SlaveInWrMode
<1> QED BY <1>1, BaseInit, BaseStep, PTL DEF Spec

-----------------------------------------------------------------------------
(* One frame under way in each direction, as the states have it: they send *)
(* one message and wait for the answer.                                    *)

First(q) == IF q = <<>> THEN Nothing ELSE Head(q)

Ends(p, n) == Agree(p["S"], p["M"], First(n["S"]), First(n["M"]))

Linked ==
  /\ Base /\ MasterLocal(port["M"])
  /\ Len(net["S"]) <= 1 /\ Len(net["M"]) <= 1
  /\ Ends(port, net)

(* A call takes the one frame under way, or none.                          *)
LEMMA FirstTaken ==
  ASSUME Base, NEW e \in End, Len(net[e]) <= 1, NEW q, NEW f, Calls(e, q, f)
  PROVE  Takes(f, First(net[e]), First(q)) /\ Len(q) <= 1
<1>1. net[e] \in Seq(Frames)
  BY DEF Base
<1>2. CASE q = net[e] /\ f = Nothing
  BY <1>1, <1>2, FrameFacts DEF Takes
<1>3. CASE net[e] # <<>> /\ q = Tail(net[e]) /\ f = Head(net[e])
  <2>1. q = <<>>
    BY <1>1, <1>3
  <2> QED BY <1>3, <2>1, FrameFacts DEF Takes, First
<1> QED BY <1>2, <1>3 DEF Calls

(* A frame that is sent is the one under way, or is lost.                  *)
LEMMA FirstSent ==
  ASSUME Cap = 1, NEW q \in Seq(Frames), Len(q) <= 1, NEW g
  PROVE  LET p == Sent(q, g) IN (First(p) = First(q) \/ First(p) = g) /\ Len(p) <= 1
<1>1. CASE g = Nothing \/ Len(q) = Cap
  BY <1>1 DEF Sent
<1>2. CASE ~(g = Nothing \/ Len(q) = Cap)
  <2>1. q = <<>>
    <3>1. Len(q) # 1 /\ Len(q) \in Nat
      BY <1>2
    <3>2. Len(q) = 0
      BY <3>1
    <3> QED BY <3>2
  <2>2. Sent(q, g) = Append(q, g)
    BY <1>2 DEF Sent
  <2>3. Sent(q, g) = <<g>>
    BY <2>1, <2>2
  <2> QED BY <2>3 DEF First
<1> QED BY <1>1, <1>2

(* A call of either end keeps the agreement.                               *)
LEMMA CallLinked ==
  ASSUME Cap = 1, "M" \notin Expires, Linked, NEW e \in End, NEW q \in Seq(Frames),
         NEW f \in WrFrames, NEW tick \in BOOLEAN, Calls(e, q, f), Call(e, q, f, tick)
  PROVE  Linked'
<1>1. /\ Base /\ MasterLocal(port["M"]) /\ Len(net["S"]) <= 1 /\ Len(net["M"]) <= 1
      /\ Agree(port["S"], port["M"], First(net["S"]), First(net["M"]))
  BY DEF Linked, Ends
<1>2. /\ port["S"] \in WrPorts /\ port["M"] \in WrPorts /\ SlaveLocal(port["S"])
      /\ net["S"] \in Seq(Frames) /\ net["M"] \in Seq(Frames)
  BY <1>1 DEF Base, End
<1>3. Base'
  BY <1>1, CallBase
<1>4. Peer("M") = "S" /\ Peer("S") = "M"
  BY DEF Peer
<1>5. CASE e = "M"
  <2>1. MasterCall(q, f, tick)
    BY <1>5 DEF Call
  <2>2. PICK y, g : Step("M", y, q, g) /\ MasterStep(port["M"], y, f, g)
    BY <1>1, <1>2, <2>1, MasterCalls
  <2>3. y \in WrPorts /\ g \in WrFrames /\ MasterLocal(y)
    BY <2>2 DEF MasterStep
  <2>4. port'["M"] = y /\ port'["S"] = port["S"] /\ net'["M"] = q /\ net'["S"] = Sent(net["S"], g)
    BY <1>1, <1>4, <1>5, <2>2, <2>3, StepFields
  <2>5. Takes(f, First(net["M"]), First(q)) /\ Len(q) <= 1
    BY <1>1, <1>5, FirstTaken
  <2>6. /\ First(net'["S"]) = First(net["S"]) \/ First(net'["S"]) = g
        /\ Len(net'["S"]) <= 1
    BY <1>1, <1>2, <2>4, FirstSent
  <2>7. Agree(port["S"], y, First(net'["S"]), First(q))
    BY <1>1, <1>2, <2>2, <2>3, <2>5, <2>6, MasterAgree
  <2> QED BY <1>3, <2>3, <2>4, <2>5, <2>6, <2>7 DEF Linked, Ends
<1>6. CASE e = "S"
  <2>1. SlaveCall(q, f, tick) \/ ListeningCall(q, f, tick)
    BY <1>6 DEF Call
  <2>2. PICK y, g : Step("S", y, q, g) /\ SlaveStep(port["S"], y, f, g)
    BY <1>2, <2>1, SlaveCalls, ListeningCalls
  <2>3. y \in WrPorts /\ g \in WrFrames
    BY <2>2 DEF SlaveStep
  <2>4. port'["S"] = y /\ port'["M"] = port["M"] /\ net'["S"] = q /\ net'["M"] = Sent(net["M"], g)
    BY <1>1, <1>4, <1>6, <2>2, <2>3, StepFields
  <2>5. Takes(f, First(net["S"]), First(q)) /\ Len(q) <= 1
    BY <1>1, <1>6, FirstTaken
  <2>6. /\ First(net'["M"]) = First(net["M"]) \/ First(net'["M"]) = g
        /\ Len(net'["M"]) <= 1
    BY <1>1, <1>2, <2>4, FirstSent
  <2>7. Agree(y, port["M"], First(q), First(net'["M"]))
    BY <1>1, <1>2, <2>2, <2>3, <2>5, <2>6, SlaveAgree
  <2> QED BY <1>1, <1>3, <2>4, <2>5, <2>6, <2>7 DEF Linked, Ends
<1> QED BY <1>5, <1>6 DEF End

(* Ends whose mode has not changed, and a frame the less.                  *)
LEMMA QuietLinked ==
  ASSUME Linked, Base', SameMode(port["S"], port'["S"]),
         port'["S"].parentOn = port["S"].parentOn, port'["M"] = port["M"],
         \A e \in End : net'[e] = net[e] \/ net'[e] = <<>>
  PROVE  Linked'
<1> DEFINE hs == First(net'["S"])
           hm == First(net'["M"])
<1>1. /\ Base /\ MasterLocal(port["M"]) /\ Len(net["S"]) <= 1 /\ Len(net["M"]) <= 1
      /\ Agree(port["S"], port["M"], First(net["S"]), First(net["M"]))
  BY DEF Linked, Ends
<1>2. /\ hs = First(net["S"]) \/ Quiet(hs)
      /\ hm = First(net["M"]) \/ Quiet(hm)
      /\ Len(net'["S"]) <= 1 /\ Len(net'["M"]) <= 1
  BY <1>1, FrameFacts DEF First, End
<1> HIDE DEF hs, hm
<1>3. Agree(port["S"], port["M"], hs, hm)
  BY <1>1, <1>2, LossAgrees
<1>4. Agree(port'["S"], port["M"], hs, hm)
  BY <1>3 DEF Agree, SameMode, ParentIsMaster, SlaveOn, SlaveLinkOn, ModeOnComing, MasterResponds,
              CalibrateComing, BothCalibrate, MasterFirst, Early, Back
<1> QED BY <1>1, <1>2, <1>4 DEF Linked, Ends, hs, hm

(* The two ends agree at first.                                            *)
LEMMA LinkedInit == Init => Linked
<1> SUFFICES ASSUME Init PROVE Linked
  OBVIOUS
<1>1. Base
  BY BaseInit
<1>2. /\ port["S"].pp = "LISTENING" /\ port["S"].wnext = "IDLE" /\ port["S"].on = FALSE
      /\ port["M"].pp = "LISTENING" /\ port["M"].wnext = "IDLE" /\ port["M"].detect = "NO"
      /\ port["M"].role = "NONE"
  BY DEF Init, End
<1>3. net["S"] = <<>> /\ net["M"] = <<>>
  BY DEF Init, End
<1>4. First(net["S"]) = Nothing /\ First(net["M"]) = Nothing
  BY <1>3 DEF First
<1>5. Nothing.kind = "none"
  BY DEF Nothing
<1>6. Agree(port["S"], port["M"], Nothing, Nothing)
  BY <1>2, <1>5 DEF Agree, ParentIsMaster, SlaveOn, SlaveLinkOn, ModeOnComing, MasterResponds,
                    CalibrateComing, BothCalibrate, MasterFirst, Early, Back, Is
<1>7. MasterLocal(port["M"])
  BY <1>2 DEF MasterLocal
<1> QED BY <1>1, <1>3, <1>4, <1>6, <1>7 DEF Linked, Ends

(* Every step keeps the agreement.                                         *)
LEMMA LinkedStep ==
  ASSUME Cap = 1, "M" \notin Expires, Linked, [Next]_vars
  PROVE  Linked'
<1>1. /\ Base /\ MasterLocal(port["M"]) /\ Len(net["S"]) <= 1 /\ Len(net["M"]) <= 1
      /\ Agree(port["S"], port["M"], First(net["S"]), First(net["M"]))
      /\ port["S"] \in WrPorts /\ port["M"] \in WrPorts /\ SlaveLocal(port["S"])
      /\ net["S"] \in Seq(Frames) /\ net["M"] \in Seq(Frames)
      /\ net \in [End -> Seq(Frames)]
  BY DEF Linked, Ends, Base, End
<1>2. Base'
  BY <1>1, BaseStep
<1>3. \A e \in End : net[e] # <<>> => Tail(net[e]) = <<>>
  BY <1>1 DEF End
<1>4. ASSUME NEW e \in End, Idle(e) \/ Receive(e) \/ Tick(e) PROVE Linked'
  <2>1. PICK q \in Seq(Frames), f \in WrFrames, tick \in BOOLEAN :
          Calls(e, q, f) /\ Call(e, q, f, tick)
    BY <1>1, <1>4, CallForms
  <2> QED BY <2>1, CallLinked
<1>5. ASSUME port' = port, \A e \in End : net'[e] = net[e] \/ net'[e] = <<>> PROVE Linked'
  <2>1. SameMode(port["S"], port'["S"])
    BY <1>1, <1>5 DEF SameMode
  <2> QED BY <1>2, <1>5, <2>1, QuietLinked
<1>6. ASSUME NEW e \in End, Lose(e) PROVE Linked'
  <2>1. port' = port /\ net[e] # <<>> /\ net' = [net EXCEPT ![e] = Tail(@)]
    BY <1>6 DEF Lose
  <2>2. \A d \in End : net'[d] = net[d] \/ net'[d] = <<>>
    BY <1>1, <1>3, <2>1
  <2> QED BY <1>5, <2>1, <2>2
<1>7. CASE Announce
  <2>1. PICK f \in Frames :
           /\ f.kind = "announce" /\ (f.on => port["M"].on) /\ port["M"].pp = "MASTER"
           /\ Len(net["S"]) < Cap /\ net' = [net EXCEPT !["S"] = Append(@, f)]
           /\ port' = port
    BY <1>1, <1>7, AnnounceFrame
  <2>2. net["S"] = <<>>
    BY <1>1, <2>1
  <2>3. net'["S"] = <<f>> /\ net'["M"] = net["M"]
    BY <1>1, <2>1, <2>2 DEF End
  <2>4. First(net'["S"]) = f /\ Len(net'["S"]) <= 1
    BY <2>3 DEF First
  <2>5. Agree(port["S"], port["M"], f, First(net["M"]))
    BY <1>1, <2>1, AnnounceAgrees
  <2> QED BY <1>1, <1>2, <2>1, <2>3, <2>4, <2>5 DEF Linked, Ends
<1>8. CASE Gap
  <2>1. /\ net["S"] # <<>> /\ net' = [net EXCEPT !["S"] = Tail(@)]
        /\ port'["M"] = port["M"] /\ SameMode(port["S"], port'["S"])
        /\ port'["S"].parentOn = port["S"].parentOn
    BY <1>1, <1>8, GapFields
  <2>2. \A d \in End : net'[d] = net[d] \/ net'[d] = <<>>
    BY <1>1, <1>3, <2>1 DEF End
  <2> QED BY <1>2, <2>1, <2>2, QuietLinked
<1>9. CASE PllUnlocked
  <2>1. /\ net' = net /\ port'["M"] = port["M"] /\ SameMode(port["S"], port'["S"])
        /\ port'["S"].parentOn = port["S"].parentOn
    BY <1>1, <1>9, PllFields
  <2> QED BY <1>2, <2>1, QuietLinked
<1>10. CASE Flap
  <2>1. net' = [e \in End |-> <<>>]
    BY <1>1, <1>10, FlapFields
  <2>2. net'["S"] = <<>> /\ net'["M"] = <<>>
    BY <2>1 DEF End
  <2>3. Quiet(First(net'["S"])) /\ Quiet(First(net'["M"]))
    BY <2>2, FrameFacts DEF First
  <2>4. /\ port'["S"].pp = "LISTENING" /\ port'["S"].wnext = port["S"].wnext /\ ~port'["S"].on
        /\ port'["M"].pp = "LISTENING" /\ port'["M"].wnext = port["M"].wnext
        /\ port'["M"].ext = "ACTIVE" /\ port'["M"].role = "NONE"
        /\ port'["M"].detect = port["M"].detect
    BY <1>1, <1>10, FlapFields DEF End
  <2>5. MasterLocal(port'["M"])
    BY <1>1, <2>4 DEF MasterLocal
  <2>6. Agree(port'["S"], port'["M"], First(net'["S"]), First(net'["M"]))
    BY <1>1, <2>3, <2>4, FlapAgrees
  <2> QED BY <1>2, <2>2, <2>5, <2>6 DEF Linked, Ends
<1>11. CASE UNCHANGED vars
  BY <1>5, <1>11 DEF vars
<1> QED BY <1>4, <1>6, <1>7, <1>8, <1>9, <1>10, <1>11 DEF Next

(* A slave in WR mode has a master in WR mode as well: for any number of   *)
(* retries and of faults of the link and the PLL, whichever frames are     *)
(* lost, and whether or not the slave's PROT_STATE timer expires.  The two *)
(* hypotheses are those of the links run; README.md says what becomes of   *)
(* the claim without them.                                                 *)
THEOREM WrModeIsSound ==
  ASSUME Cap = 1, "M" \notin Expires
  PROVE  Spec => []WrModeSound
<1>1. Linked => WrModeSound
  BY DEF Linked, Ends, Agree, SlaveOn, Base, SlaveLocal,
         WrModeSound, WrModeAgreed, WrModeLocked, SlaveInWrMode
<1>2. Linked /\ [Next]_vars => Linked'
  BY LinkedStep
<1> QED BY <1>1, <1>2, LinkedInit, PTL DEF Spec
=============================================================================
