------------------------------ MODULE ShmProofs ------------------------------
(***************************************************************************)
(* Proof that the shared memory of one writer implements the store of      *)
(* whole values: the sequence number makes two words, written and read one *)
(* by one, a cell that is replaced and read at one instant.                *)
(***************************************************************************)
EXTENDS Shm, TLAPS

WriterPcs == {"off", "probed", "opened", "fields", "version", "clear1", "clear2", "run", "lock",
              "store1", "store2", "unlock1", "unlock2", "dead"}
ReaderPcs == {"closed", "begin", "version", "copy1", "copy2", "retry"}

Early   == {"off", "probed", "opened"}
Locked  == {"fields", "version", "clear1", "clear2", "store1", "store2", "unlock1", "unlock2"}
Reading == {"version", "copy1", "copy2", "retry"}

WriterRecs == [pc : WriterPcs, n : 0..MaxUpdates]
ReaderRecs == [pc : ReaderPcs, start : Nat, copy : Snapshots]

ShTypes ==
  /\ shSeq \in Nat
  /\ shWords \in Snapshots /\ shCell \in Snapshots
  /\ shWriter \in [Writers -> WriterRecs]
  /\ shReader \in [ShReaders -> ReaderRecs]
  /\ shGot \in [ShReaders -> Snapshots]

(* The number is odd while the writer is between the two ends of an update *)
(* and even between two updates.                                           *)
SeqOfPc(w) ==
  /\ shWriter[w].pc \in Early => shSeq = 0
  /\ shWriter[w].pc \in Locked => Odd(shSeq)
  /\ shWriter[w].pc \in {"run", "lock"} => ~Odd(shSeq)
  /\ shWriter[w].pc = "lock" => shWriter[w].n < MaxUpdates

(* With an even number the words are those of the last publication.        *)
EvenIsWhole == ~Odd(shSeq) => shWords = shCell

(* A reader that began at an even number: the number has not gone back     *)
(* behind it, and will not when the writer clears the lowest bit; and as   *)
(* long as it is the same, what was copied is of the last publication.     *)
ReaderSound(w, r) ==
  (shReader[r].pc \in Reading /\ ~Odd(shReader[r].start)) =>
    /\ shReader[r].start <= shSeq
    /\ shWriter[w].pc = "unlock2" => shReader[r].start < shSeq - 1
    /\ shReader[r].start = shSeq =>
         /\ shReader[r].pc \in {"copy2", "retry"} => shReader[r].copy[1] = shCell[1]
         /\ shReader[r].pc = "retry" => shReader[r].copy[2] = shCell[2]

(* The inductive invariant.                                                *)
ShInv(w) == /\ ShTypes
            /\ SeqOfPc(w)
            /\ EvenIsWhole
            /\ \A r \in ShReaders : ReaderSound(w, r)

-----------------------------------------------------------------------------
(* Parity of the numbers the code makes.                                   *)
LEMMA Parity ==
  ASSUME NEW n \in Nat
  PROVE  /\ Odd(n + 2) <=> Odd(n)
         /\ Odd(n) => n - 1 \in Nat /\ ~Odd(n - 1)
         /\ ~Odd(n) => Odd(n + 1)
         /\ LockBit(n) \in Nat /\ Odd(LockBit(n)) /\ LockBit(n) >= n
         /\ ~Odd(0) /\ Odd(1)
BY DEF Odd, LockBit

(* An even number is below the odd one that is not below it.               *)
LEMMA EvenBelowOdd ==
  ASSUME NEW m \in Nat, NEW n \in Nat, ~Odd(m), Odd(n), m <= n
  PROVE  m < n
BY DEF Odd

(* WriterTo() moves one writer.                                            *)
LEMMA WriterMoves ==
  ASSUME NEW w \in Writers, shWriter \in [Writers -> WriterRecs], NEW pc \in WriterPcs,
         WriterTo(w, pc)
  PROVE  /\ shWriter' \in [Writers -> WriterRecs]
         /\ shWriter'[w].pc = pc /\ shWriter'[w].n = shWriter[w].n
<1>1. shWriter[w] \in WriterRecs
  OBVIOUS
<1>2. shWriter' = [shWriter EXCEPT ![w] = [shWriter[w] EXCEPT !.pc = pc]]
  BY DEF WriterTo
<1>3. /\ [shWriter[w] EXCEPT !.pc = pc] \in WriterRecs
      /\ [shWriter[w] EXCEPT !.pc = pc].pc = pc
      /\ [shWriter[w] EXCEPT !.pc = pc].n = shWriter[w].n
  BY <1>1 DEF WriterRecs
<1> QED BY <1>2, <1>3

(* What a step of the writer has to do for the readers to stay sound: the  *)
(* number does not go back, but for its lowest bit, and while it is the    *)
(* same the publication is.                                                *)
LEMMA ReadersStaySound ==
  ASSUME NEW w, ShTypes, shSeq' \in Nat, shReader' = shReader,
         \A r \in ShReaders : ReaderSound(w, r),
         \/ /\ shSeq' >= shSeq /\ shCell' = shCell
            /\ shWriter'[w].pc = "unlock2" => Odd(shSeq) /\ shSeq' = shSeq + 2
         \/ /\ shWriter[w].pc = "unlock2" /\ shWriter'[w].pc # "unlock2"
            /\ shSeq' = shSeq - 1
  PROVE  \A r \in ShReaders : ReaderSound(w, r)'
<1> SUFFICES ASSUME NEW r \in ShReaders, shReader[r].pc \in Reading, ~Odd(shReader[r].start)
             PROVE  ReaderSound(w, r)'
  BY DEF ReaderSound
<1>1. shReader[r].start \in Nat /\ shSeq \in Nat
  BY DEF ShTypes, ReaderRecs
<1>2. ReaderSound(w, r)
  OBVIOUS
<1>3. Odd(shSeq) => shReader[r].start < shSeq
  BY <1>1, <1>2, EvenBelowOdd DEF ReaderSound
<1> QED BY <1>1, <1>2, <1>3 DEF ReaderSound

(* A step that moves the writer only.                                      *)
LEMMA OnlyMoves ==
  ASSUME NEW w, Writers = {w}, ShInv(w), NEW pc \in WriterPcs, WriterTo(w, pc),
         UNCHANGED shHeader, WriterOnly,
         \/ pc = "dead" \/ (shWriter[w].pc \in Early /\ pc \in Early)
  PROVE  ShInv(w)' /\ UNCHANGED <<shCell, shGot>>
<1>1. w \in Writers
  OBVIOUS
<1>2. /\ shWriter' \in [Writers -> WriterRecs] /\ shWriter'[w].pc = pc
  BY <1>1, WriterMoves DEF ShInv, ShTypes
<1>3. ShTypes' /\ UNCHANGED <<shSeq, shCell, shWords, shGot, shReader>>
  BY <1>2 DEF ShInv, ShTypes, shHeader, WriterOnly
<1>4. SeqOfPc(w)' /\ EvenIsWhole'
  BY <1>2, <1>3 DEF ShInv, SeqOfPc, EvenIsWhole, Early, Locked
<1>5. \A r \in ShReaders : ReaderSound(w, r)'
  <2>1. pc # "unlock2"
    BY DEF Early
  <2> QED BY <1>2, <1>3, <2>1, ReadersStaySound DEF ShInv, ShTypes
<1> QED BY <1>3, <1>4, <1>5 DEF ShInv

(* A step of the writer keeps the invariant; it publishes or is not seen.  *)
LEMMA WriterStep ==
  ASSUME NEW w, Writers = {w}, ShInv(w), Write(w)
  PROVE  /\ ShInv(w)' /\ shGot' = shGot
         /\ shCell' \in Snapshots
<1> USE DEF ShInv
<1>w. w \in Writers /\ shWriter[w] \in WriterRecs /\ shSeq \in Nat
  BY DEF ShTypes
<1>1. CASE Probe(w)
  BY <1>1, OnlyMoves DEF Probe, At, Early, WriterPcs, ShTypes
<1>2. CASE OpenToWrite(w)
  BY <1>2, OnlyMoves DEF OpenToWrite, At, Early, WriterPcs, ShTypes
<1>3. CASE Crash(w)
  BY <1>3, OnlyMoves DEF Crash, WriterPcs, ShTypes
<1>4. CASE SetHeader(w)
  <2>1. /\ shWriter' \in [Writers -> WriterRecs] /\ shWriter'[w].pc = "fields"
    BY <1>w, <1>4, WriterMoves DEF SetHeader, ShTypes, WriterPcs
  <2>2. /\ shSeq' = 1 /\ shSeq = 0
        /\ UNCHANGED <<shWords, shCell, shReader, shGot>>
    BY <1>4 DEF SetHeader, WriterOnly, At, SeqOfPc, Early
  <2>3. Odd(shSeq')
    BY <2>2 DEF Odd
  <2>4. ShTypes' /\ SeqOfPc(w)' /\ EvenIsWhole'
    BY <2>1, <2>2, <2>3 DEF ShTypes, SeqOfPc, EvenIsWhole, Early, Locked
  <2>5. \A r \in ShReaders : ReaderSound(w, r)'
    BY <2>1, <2>2, ReadersStaySound
  <2> QED BY <2>2, <2>4, <2>5 DEF ShTypes
<1>5. CASE SetPid(w) \/ SetVersion(w)
  <2>1. PICK pc \in {"version", "clear1"} : WriterTo(w, pc)
    BY <1>5 DEF SetPid, SetVersion
  <2>2. /\ shWriter' \in [Writers -> WriterRecs] /\ shWriter'[w].pc = pc
    BY <1>w, <2>1, WriterMoves DEF ShTypes, WriterPcs
  <2>3. /\ UNCHANGED <<shSeq, shWords, shCell, shReader, shGot>> /\ Odd(shSeq)
    BY <1>5 DEF SetPid, SetVersion, WriterOnly, At, SeqOfPc, Locked
  <2>4. ShTypes' /\ SeqOfPc(w)' /\ EvenIsWhole'
    BY <2>2, <2>3 DEF ShTypes, SeqOfPc, EvenIsWhole, Early, Locked
  <2>5. \A r \in ShReaders : ReaderSound(w, r)'
    BY <1>w, <2>2, <2>3, ReadersStaySound
  <2> QED BY <2>3, <2>4, <2>5 DEF ShTypes
<1>6. ASSUME NEW i \in 1..2, NEW from \in Locked, NEW to \in Locked \ {"unlock2"},
             NEW v \in 0..MaxUpdates, Store(w, i, from, to, v)
      PROVE  /\ ShInv(w)' /\ shGot' = shGot
             /\ shCell' \in Snapshots
  <2>1. /\ shWriter' \in [Writers -> WriterRecs] /\ shWriter'[w].pc = to
    BY <1>w, <1>6, WriterMoves DEF Store, ShTypes, WriterPcs, Locked
  <2>2. /\ UNCHANGED <<shSeq, shCell, shReader, shGot>> /\ Odd(shSeq)
    BY <1>6 DEF Store, WriterOnly, At, SeqOfPc
  <2>3. shWords' \in Snapshots
    BY <1>6 DEF Store, ShTypes, Snapshots
  <2>4. ShTypes' /\ SeqOfPc(w)' /\ EvenIsWhole'
    BY <2>1, <2>2, <2>3 DEF ShTypes, SeqOfPc, EvenIsWhole, Early, Locked
  <2>5. \A r \in ShReaders : ReaderSound(w, r)'
    BY <1>w, <2>1, <2>2, ReadersStaySound
  <2> QED BY <2>2, <2>4, <2>5 DEF ShTypes
<1>7. ASSUME NEW i \in 1..2, NEW from \in Locked, NEW to \in Locked \ {"unlock2"},
             Alloc(w, i, from, to)
      PROVE  /\ ShInv(w)' /\ shGot' = shGot
             /\ shCell' \in Snapshots
  <2>1. CASE shPid = w
    BY <1>6, <1>7, <2>1, UpdatesAssumption DEF Alloc
  <2>2. CASE shPid # w
    BY <1>7, <2>2, OnlyMoves DEF Alloc, WriterPcs, ShTypes
  <2> QED BY <2>1, <2>2
<1>8. CASE Begin(w) \/ Bump(w, "unlock1", "unlock2")
  <2>1. PICK pc \in {"lock", "unlock2"} : WriterTo(w, pc) /\
            IF pc = "lock" THEN shWriter[w].pc = "run" /\ shWriter[w].n < MaxUpdates
            ELSE shWriter[w].pc = "unlock1"
    BY <1>8 DEF Begin, Bump, At
  <2>2. /\ shWriter' \in [Writers -> WriterRecs] /\ shWriter'[w].pc = pc
        /\ shWriter'[w].n = shWriter[w].n
    BY <1>w, <2>1, WriterMoves DEF ShTypes, WriterPcs
  <2>3. shSeq' = shSeq + 2 /\ UNCHANGED <<shWords, shCell, shReader, shGot>>
    BY <1>8 DEF Begin, Bump, WriterOnly
  <2>4. (Odd(shSeq') <=> Odd(shSeq)) /\ (pc = "unlock2" <=> Odd(shSeq))
    BY <1>w, <2>1, <2>3, Parity DEF SeqOfPc, Locked
  <2>5. ShTypes' /\ SeqOfPc(w)' /\ EvenIsWhole'
    BY <1>w, <2>1, <2>2, <2>3, <2>4 DEF ShTypes, SeqOfPc, EvenIsWhole, Early, Locked
  <2>6. \A r \in ShReaders : ReaderSound(w, r)'
    BY <1>w, <2>2, <2>3, <2>4, <2>5, ReadersStaySound DEF ShTypes
  <2> QED BY <2>3, <2>5, <2>6 DEF ShTypes
<1>9. CASE Lock(w)
  <2>1. shWriter[w].pc = "lock" /\ shWriter[w].n < MaxUpdates /\ shWriter[w].n \in Nat
    BY <1>w, <1>9, UpdatesAssumption DEF Lock, At, SeqOfPc, WriterRecs
  <2>2. [pc |-> "store1", n |-> shWriter[w].n + 1] \in WriterRecs
    BY <2>1, UpdatesAssumption DEF WriterRecs, WriterPcs
  <2>3. shWriter' \in [Writers -> WriterRecs] /\ shWriter'[w].pc = "store1"
    BY <1>w, <1>9, <2>2 DEF Lock, ShTypes
  <2>4. /\ shSeq' \in Nat /\ Odd(shSeq') /\ shSeq' >= shSeq
        /\ UNCHANGED <<shWords, shCell, shReader, shGot>>
    BY <1>w, <1>9, Parity DEF Lock, WriterOnly
  <2>5. ShTypes' /\ SeqOfPc(w)' /\ EvenIsWhole'
    BY <2>3, <2>4 DEF ShTypes, SeqOfPc, EvenIsWhole, Early, Locked
  <2>6. \A r \in ShReaders : ReaderSound(w, r)'
    BY <2>3, <2>4, ReadersStaySound
  <2> QED BY <2>4, <2>5, <2>6 DEF ShTypes
<1>10. CASE Unlock(w)
  <2>1. shWriter[w].pc = "unlock2" /\ Odd(shSeq)
    BY <1>10 DEF Unlock, At, SeqOfPc, Locked
  <2>2. /\ shSeq' = shSeq - 1 /\ shSeq' \in Nat /\ ~Odd(shSeq') /\ shCell' = shWords
        /\ UNCHANGED <<shWords, shReader, shGot>>
    BY <1>w, <1>10, <2>1, Parity DEF Unlock, WriterOnly
  <2>3. shWriter' \in [Writers -> WriterRecs] /\ shWriter'[w].pc = "run"
    BY <1>w, <1>10, WriterMoves DEF Unlock, ShTypes, WriterPcs
  <2>4. ShTypes' /\ SeqOfPc(w)' /\ EvenIsWhole'
    BY <2>2, <2>3 DEF ShTypes, SeqOfPc, EvenIsWhole, Early, Locked
  <2>5. \A r \in ShReaders : ReaderSound(w, r)'
    BY <2>1, <2>2, <2>3, ReadersStaySound
  <2> QED BY <2>2, <2>4, <2>5 DEF ShTypes
<1>11. CASE Store(w, 1, "store1", "store2", Value(w)) \/ Store(w, 2, "store2", "unlock1", Value(w))
  <2>1. Value(w) \in 0..MaxUpdates
    BY <1>w DEF Value, WriterRecs
  <2> QED BY <1>6, <1>11, <2>1 DEF Locked
<1>12. CASE Alloc(w, 1, "clear1", "clear2") \/ Alloc(w, 2, "clear2", "unlock1")
  BY <1>7, <1>12 DEF Locked
<1> QED
  BY <1>1, <1>2, <1>3, <1>4, <1>5, <1>8, <1>9, <1>10, <1>11, <1>12 DEF Write, wrs_shm_write

-----------------------------------------------------------------------------
(* A reader that moved to the record x, and changed nothing but what it    *)
(* has accepted, keeps the invariant if x is sound.                        *)
LEMMA ReaderMoves ==
  ASSUME NEW w, ShInv(w), NEW r \in ShReaders, ReaderOnly, NEW x \in ReaderRecs,
         shReader' = [shReader EXCEPT ![r] = x], shGot' \in [ShReaders -> Snapshots],
         (x.pc \in Reading /\ ~Odd(x.start)) =>
            /\ x.start <= shSeq
            /\ shWriter[w].pc = "unlock2" => x.start < shSeq - 1
            /\ x.start = shSeq =>
                 /\ x.pc \in {"copy2", "retry"} => x.copy[1] = shCell[1]
                 /\ x.pc = "retry" => x.copy[2] = shCell[2]
  PROVE  ShInv(w)'
<1>1. UNCHANGED <<shSeq, shWords, shCell, shWriter>>
  BY DEF ReaderOnly, shHeader
<1>2. ShTypes' /\ SeqOfPc(w)' /\ EvenIsWhole'
  BY <1>1 DEF ShInv, ShTypes, SeqOfPc, EvenIsWhole
<1>3. ASSUME NEW q \in ShReaders PROVE ReaderSound(w, q)'
  <2>1. CASE q = r
    <3>1. shReader'[q] = x
      BY <2>1 DEF ShInv, ShTypes
    <3> QED BY <1>1, <3>1 DEF ReaderSound
  <2>2. CASE q # r
    <3>1. shReader'[q] = shReader[q]
      BY <2>2 DEF ShInv, ShTypes
    <3> QED BY <1>1, <3>1 DEF ShInv, ReaderSound
  <2> QED BY <2>1, <2>2
<1> QED BY <1>2, <1>3 DEF ShInv

(* A step of a reader keeps the invariant; what the reader accepts is the  *)
(* publication of this moment.                                             *)
LEMMA ReaderStep ==
  ASSUME NEW w, ShInv(w), NEW r \in ShReaders, Read(r)
  PROVE  /\ ShInv(w)' /\ shCell' = shCell
         /\ shGot' = shGot \/ shGot' = [shGot EXCEPT ![r] = shCell]
<1> DEFINE x == shReader[r]
<1>1. /\ x \in ReaderRecs /\ x.pc \in ReaderPcs /\ x.start \in Nat /\ x.copy \in Snapshots
      /\ shSeq \in Nat /\ shGot \in [ShReaders -> Snapshots] /\ shWords \in Snapshots
      /\ ReaderSound(w, r) /\ shReader \in [ShReaders -> ReaderRecs]
  BY DEF ShInv, ShTypes, ReaderRecs
<1>2. ASSUME NEW pc \in ReaderPcs, ReaderTo(r, pc), ReaderOnly, UNCHANGED shGot,
             pc \in {"begin", "closed"} \/ (x.pc = "version" /\ pc = "copy1")
      PROVE  ShInv(w)'
  <2> DEFINE y == [x EXCEPT !.pc = pc]
  <2>1. shReader' = [shReader EXCEPT ![r] = y]
    BY <1>2 DEF ReaderTo
  <2>2. y \in ReaderRecs /\ y.pc = pc /\ y.start = x.start /\ y.copy = x.copy
    BY <1>1 DEF ReaderRecs
  <2>3. (pc \in Reading /\ ~Odd(x.start)) =>
            /\ x.start <= shSeq
            /\ shWriter[w].pc = "unlock2" => x.start < shSeq - 1
            /\ pc = "copy1"
    BY <1>1, <1>2 DEF ReaderSound, Reading
  <2> HIDE DEF x, y
  <2> QED BY <1>1, <1>2, <2>1, <2>2, <2>3, ReaderMoves
<1>3. CASE \E b \in BOOLEAN : OpenToRead(r, b)
  BY <1>2, <1>3 DEF OpenToRead, ReaderPcs, ReaderOnly, shHeader
<1>4. CASE wrs_shm_seqbegin(r)
  <2> DEFINE y == [x EXCEPT !.pc = "version", !.start = shSeq]
  <2>1. shReader' = [shReader EXCEPT ![r] = y] /\ ReaderOnly /\ shGot' = shGot
    BY <1>4 DEF wrs_shm_seqbegin
  <2>2. y \in ReaderRecs /\ y.pc = "version" /\ y.start = shSeq
    BY <1>1 DEF ReaderRecs, ReaderPcs
  <2>3. ~Odd(shSeq) => shWriter[w].pc # "unlock2"
    BY DEF ShInv, SeqOfPc, Locked
  <2> HIDE DEF x, y
  <2>4. shGot' \in [ShReaders -> Snapshots]
    BY <1>1, <2>1
  <2>5. ~Odd(y.start) => /\ y.start <= shSeq
                         /\ shWriter[w].pc # "unlock2"
                         /\ y.pc \notin {"copy2", "retry"}
    BY <1>1, <2>2, <2>3
  <2>6. ShInv(w)'
    BY <2>1, <2>2, <2>4, <2>5, ReaderMoves
  <2> QED BY <2>1, <2>6 DEF ReaderOnly, shHeader
<1>5. CASE ReadVersion(r)
  BY <1>2, <1>5 DEF ReadVersion, ReaderPcs, ReaderOnly, shHeader, ReaderAt
<1>6. ASSUME NEW i \in 1..2, NEW from \in Reading, NEW to \in Reading, CopyWord(r, i, from, to),
             \/ i = 1 /\ from = "copy1" /\ to = "copy2"
             \/ i = 2 /\ from = "copy2" /\ to = "retry"
      PROVE  ShInv(w)'
  <2> DEFINE c == [x.copy EXCEPT ![i] = shWords[i]]
             y == [x EXCEPT !.pc = to, !.copy = c]
  <2>1. shReader' = [shReader EXCEPT ![r] = y] /\ ReaderOnly /\ shGot' = shGot /\ x.pc = from
    BY <1>6 DEF CopyWord, ReaderAt
  <2>2. /\ c \in Snapshots /\ c[i] = shWords[i]
        /\ \A j \in 1..2 : j # i => c[j] = x.copy[j]
    BY <1>1 DEF Snapshots
  <2> HIDE DEF c
  <2>3. y \in ReaderRecs /\ y.pc = to /\ y.start = x.start /\ y.copy = c
    BY <1>1, <2>2 DEF ReaderRecs, ReaderPcs, Reading
  <2>4. ~Odd(shSeq) => shWords = shCell
    BY DEF ShInv, EvenIsWhole
  <2>5. ~Odd(x.start) =>
            /\ x.start <= shSeq
            /\ shWriter[w].pc = "unlock2" => x.start < shSeq - 1
            /\ x.start = shSeq =>
                 /\ to \in {"copy2", "retry"} => c[1] = shCell[1]
                 /\ to = "retry" => c[2] = shCell[2]
    BY <1>1, <1>6, <2>1, <2>2, <2>4 DEF ReaderSound
  <2> HIDE DEF x, y
  <2> QED BY <1>1, <2>1, <2>3, <2>5, ReaderMoves
<1>7. CASE CopyWord(r, 1, "copy1", "copy2") \/ CopyWord(r, 2, "copy2", "retry")
  <2>1. shCell' = shCell /\ shGot' = shGot
    BY <1>7 DEF CopyWord, ReaderOnly, shHeader
  <2> QED BY <1>6, <1>7, <2>1 DEF Reading
<1>8. CASE wrs_shm_seqretry(r)
  <2>1. x.pc = "retry" /\ ReaderOnly
    BY <1>8 DEF wrs_shm_seqretry, ReaderAt
  <2>2. CASE MustRetry(x.start)
    <3>1. ReaderTo(r, "begin") /\ UNCHANGED shGot
      BY <1>8, <2>2 DEF wrs_shm_seqretry
    <3> QED BY <1>2, <2>1, <3>1 DEF ReaderPcs, ReaderOnly, shHeader
  <2>3. CASE ~MustRetry(x.start)
    <3> DEFINE y == [pc |-> "closed", start |-> 0, copy |-> <<0, 0>>]
    <3>1. /\ shGot' = [shGot EXCEPT ![r] = x.copy]
          /\ shReader' = [shReader EXCEPT ![r] = y]
      BY <1>8, <2>3 DEF wrs_shm_seqretry
    <3>2. x.copy[1] = shCell[1] /\ x.copy[2] = shCell[2]
      BY <1>1, <2>1, <2>3 DEF MustRetry, ReaderSound, Reading
    <3>3. x.copy = shCell
      <4>1. shCell \in Snapshots
        BY DEF ShInv, ShTypes
      <4>2. \A j \in 1..2 : x.copy[j] = shCell[j]
        BY <3>2
      <4> QED BY <1>1, <4>1, <4>2 DEF Snapshots
    <3>4. y \in ReaderRecs /\ y.pc = "closed"
      BY UpdatesAssumption DEF ReaderRecs, ReaderPcs, Snapshots
    <3>5. shGot' \in [ShReaders -> Snapshots]
      BY <1>1, <3>1
    <3> HIDE DEF x, y
    <3>6. ShInv(w)'
      BY <2>1, <3>1, <3>4, <3>5, ReaderMoves DEF Reading
    <3> QED BY <2>1, <3>1, <3>3, <3>6 DEF ReaderOnly, shHeader
  <2> QED BY <2>2, <2>3
<1> QED BY <1>3, <1>4, <1>5, <1>7, <1>8 DEF Read

-----------------------------------------------------------------------------
(* The memory as it was created satisfies the invariant.                   *)
LEMMA ShStart ==
  ASSUME NEW w, Writers = {w}, ShInit
  PROVE  ShInv(w)
<1>1. <<0, 0>> \in Snapshots
  BY UpdatesAssumption DEF Snapshots
<1>2. ShTypes
  <2>1. [pc |-> "off", n |-> 0] \in WriterRecs
    BY UpdatesAssumption DEF WriterRecs, WriterPcs
  <2>2. [pc |-> "closed", start |-> 0, copy |-> <<0, 0>>] \in ReaderRecs
    BY <1>1 DEF ReaderRecs, ReaderPcs
  <2> QED BY <1>1, <2>1, <2>2 DEF ShInit, ShTypes
<1>3. shWriter[w].pc = "off"
  BY DEF ShInit
<1> QED BY <1>2, <1>3 DEF ShInit, ShInv, SeqOfPc, EvenIsWhole, ReaderSound, Early, Locked, Reading

(* With one writer, which may die at any point, and any number of readers, *)
(* whether they waited for the writer or not, the shared memory implements *)
(* the store of whole values: what a reader accepts is the one publication *)
(* that is current (wrs_shm_write(), wrs_shm_seqbegin(),                   *)
(* wrs_shm_seqretry()).                                                    *)
THEOREM ShmIsSnapshotStore ==
  ASSUME NEW w, Writers = {w}
  PROVE  ShSpec => SnapshotsOnly
<1>1. ShInit => ShInv(w)
  BY ShStart
<1>2. ShInv(w) /\ [ShNext]_shVars => ShInv(w)' /\ [Store_!Next]_<<shCell, shGot>>
  <2> SUFFICES ASSUME ShInv(w), [ShNext]_shVars
               PROVE  ShInv(w)' /\ [Store_!Next]_<<shCell, shGot>>
    OBVIOUS
  <2>1. CASE Write(w)
    <3>1. /\ ShInv(w)' /\ shGot' = shGot /\ shCell' \in Snapshots
      BY <2>1, WriterStep
    <3> QED BY <3>1 DEF Store_!Next, Store_!Publish
  <2>2. ASSUME NEW r \in ShReaders, Read(r) PROVE ShInv(w)' /\ [Store_!Next]_<<shCell, shGot>>
    <3>1. /\ ShInv(w)' /\ shCell' = shCell
          /\ shGot' = shGot \/ shGot' = [shGot EXCEPT ![r] = shCell]
      BY <2>2, ReaderStep
    <3> QED BY <3>1 DEF Store_!Next, Store_!Obtain
  <2>3. CASE UNCHANGED shVars
    BY <2>3 DEF shVars, ShInv, ShTypes, SeqOfPc, EvenIsWhole, ReaderSound
  <2> QED BY <2>1, <2>2, <2>3 DEF ShNext
<1>3. ShInv(w) => Store_!Init
  BY DEF ShInv, ShTypes, Store_!Init, Store_!TypeOK
<1> QED BY <1>1, <1>2, <1>3, PTL DEF ShSpec, SnapshotsOnly, Store_!Spec
==============================================================================
