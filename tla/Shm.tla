-------------------------------- MODULE Shm --------------------------------
(***************************************************************************)
(* The shared memory of arch-wrs/shmem.c between ppsi, which writes it,    *)
(* and the tools that read it.  The header holds the sequence number, the  *)
(* pid of the writer and the version; the data are two words that belong   *)
(* together, such as two time stamps of one servo update.  Every load and  *)
(* store of the header and of a word is a step of its own.                 *)
(*                                                                         *)
(* A writer goes through wrs-startup.c: look for another instance twice,   *)
(* open for writing, fill in, unlock; then it updates the data between     *)
(* WRITE_BEGIN and WRITE_END.  It may die at any point, and the file stays *)
(* with what it holds.                                                     *)
(***************************************************************************)
EXTENDS Integers

CONSTANTS
  Writers,      \* processes that may be started as ppsi
  ShReaders,    \* processes that read
  MaxUpdates    \* updates of one writer, a bound

ASSUME UpdatesAssumption == MaxUpdates \in Nat

VARIABLES
  shSeq,        \* head->sequence
  shPid,        \* head->pid, "none" for 0
  shVersion,    \* head->version is set
  shWords,      \* the two words of data
  shWriter,     \* of each writer: pc, value written last, updates
  shReader,     \* of each reader: pc, sequence at begin, words copied
  shGot,        \* what each reader has accepted last
  shCell        \* history: the words when the sequence was last made even

shVars == <<shSeq, shPid, shVersion, shWords, shWriter, shReader, shGot, shCell>>
shHeader == <<shSeq, shPid, shVersion, shWords, shCell>>

Odd(n) == n % 2 = 1
Dead == {"off", "dead"}
Alive(pid) == pid # "none" /\ shWriter[pid].pc \notin Dead      \* kill(pid, 0)

ShInit ==
  /\ shSeq = 0 /\ shPid = "none" /\ shVersion = FALSE
  /\ shWords = <<0, 0>> /\ shCell = <<0, 0>>
  /\ shWriter = [w \in Writers |-> [pc |-> "off", n |-> 0]]
  /\ shReader = [r \in ShReaders |-> [pc |-> "closed", start |-> 0, copy |-> <<0, 0>>]]
  /\ shGot = [r \in ShReaders |-> <<0, 0>>]

-----------------------------------------------------------------------------
(* The writer.  Values written by different writers differ.                *)

At(w, pc) == shWriter[w].pc = pc
WriterTo(w, pc) == shWriter' = [shWriter EXCEPT ![w].pc = pc]
WriterOnly == UNCHANGED <<shReader, shGot>>

(* main() opens for reading and gives up if the pid in the header lives.   *)
Probe(w) ==
  /\ At(w, "off")
  /\ WriterTo(w, IF Alive(shPid) THEN "dead" ELSE "probed")
  /\ UNCHANGED shHeader /\ WriterOnly

(* wrs_shm_get() for writing looks once more: EBUSY and exit, or go on.    *)
OpenToWrite(w) ==
  /\ At(w, "probed")
  /\ WriterTo(w, IF Alive(shPid) THEN "dead" ELSE "opened")
  /\ UNCHANGED shHeader /\ WriterOnly

SetHeader(w) ==
  /\ At(w, "opened")
  /\ WriterTo(w, "fields")
  /\ shSeq' = 1
  /\ UNCHANGED <<shPid, shVersion, shWords, shCell>> /\ WriterOnly

SetPid(w) ==
  /\ At(w, "fields")
  /\ WriterTo(w, "version")
  /\ shPid' = w
  /\ UNCHANGED <<shSeq, shVersion, shWords, shCell>> /\ WriterOnly

SetVersion(w) ==
  /\ At(w, "version")
  /\ WriterTo(w, "clear1")
  /\ shVersion' = TRUE
  /\ UNCHANGED <<shSeq, shPid, shWords, shCell>> /\ WriterOnly

(* Store word i, and what comes after it.                                  *)
Store(w, i, from, to, value) ==
  /\ At(w, from)
  /\ WriterTo(w, to)
  /\ shWords' = [shWords EXCEPT ![i] = value]
  /\ UNCHANGED <<shSeq, shPid, shVersion, shCell>> /\ WriterOnly

(* wrs_shm_alloc() clears what it returns.  If the header now names        *)
(* another process it returns NULL, which main() does not survive.         *)
Alloc(w, i, from, to) ==
  IF shPid = w THEN Store(w, i, from, to, 0)
  ELSE At(w, from) /\ WriterTo(w, "dead") /\ UNCHANGED shHeader /\ WriterOnly

(* wrs_shm_write(): the number goes up by two, then its lowest bit is set  *)
(* or cleared.                                                             *)
Bump(w, from, to) ==
  /\ At(w, from)
  /\ WriterTo(w, to)
  /\ shSeq' = shSeq + 2
  /\ UNCHANGED <<shPid, shVersion, shWords, shCell>> /\ WriterOnly

LockBit(seq) == IF Odd(seq) THEN seq ELSE seq + 1

Lock(w) ==
  /\ At(w, "lock")
  /\ shSeq' = LockBit(shSeq)
  /\ shWriter' = [shWriter EXCEPT ![w] = [pc |-> "store1", n |-> @.n + 1]]
  /\ UNCHANGED <<shPid, shVersion, shWords, shCell>> /\ WriterOnly

Unlock(w) ==
  /\ At(w, "unlock2")
  /\ WriterTo(w, "run")
  /\ shSeq' = IF Odd(shSeq) THEN shSeq - 1 ELSE shSeq
  /\ shCell' = shWords
  /\ UNCHANGED <<shPid, shVersion, shWords>> /\ WriterOnly

Value(w) == shWriter[w].n

Begin(w) == shWriter[w].n < MaxUpdates /\ Bump(w, "run", "lock")

wrs_shm_write(w) ==
  \/ Begin(w)
  \/ Lock(w)
  \/ Store(w, 1, "store1", "store2", Value(w))
  \/ Store(w, 2, "store2", "unlock1", Value(w))
  \/ Bump(w, "unlock1", "unlock2")
  \/ Unlock(w)

Crash(w) ==
  /\ shWriter[w].pc \notin Dead
  /\ WriterTo(w, "dead")
  /\ UNCHANGED shHeader /\ WriterOnly

-----------------------------------------------------------------------------
(* A reader: open, then seqbegin, copy, seqretry.                          *)

ReaderTo(r, pc) == shReader' = [shReader EXCEPT ![r].pc = pc]
ReaderAt(r, pc) == shReader[r].pc = pc
ReaderOnly == UNCHANGED <<shHeader, shWriter>>

(* wrs_shm_get() with WRS_SHM_LOCKED waits for a writer; the wait may time *)
(* out, which leaves the reader where it was.  With the flag ignored it    *)
(* opens at once.                                                          *)
OpenToRead(r, ignoreLocked) ==
  /\ ReaderAt(r, "closed")
  /\ ignoreLocked \/ Alive(shPid)
  /\ ReaderTo(r, "begin")
  /\ ReaderOnly /\ UNCHANGED shGot

wrs_shm_seqbegin(r) ==
  /\ ReaderAt(r, "begin")
  /\ shReader' = [shReader EXCEPT ![r].pc = "version", ![r].start = shSeq]
  /\ ReaderOnly /\ UNCHANGED shGot

CopyWord(r, i, from, to) ==
  /\ ReaderAt(r, from)
  /\ shReader' = [shReader EXCEPT ![r].pc = to, ![r].copy[i] = shWords[i]]
  /\ ReaderOnly /\ UNCHANGED shGot

(* No version: the data are not there, wrs_shm_get_and_check() closes.     *)
ReadVersion(r) ==
  /\ ReaderAt(r, "version")
  /\ ReaderTo(r, IF shVersion THEN "copy1" ELSE "closed")
  /\ ReaderOnly /\ UNCHANGED shGot

(* Mutant: an odd number at the start is no reason to read again.          *)
MustRetry_OddStart(start) == shSeq # start

MustRetry(start) == Odd(start) \/ shSeq # start

wrs_shm_seqretry(r) ==
  /\ ReaderAt(r, "retry")
  /\ IF MustRetry(shReader[r].start)
     THEN ReaderTo(r, "begin") /\ UNCHANGED shGot
     ELSE /\ shGot' = [shGot EXCEPT ![r] = shReader[r].copy]
          /\ shReader' = [shReader EXCEPT ![r] = [pc |-> "closed", start |-> 0, copy |-> <<0, 0>>]]
  /\ ReaderOnly

Read(r) ==
  \/ \E b \in BOOLEAN : OpenToRead(r, b)
  \/ wrs_shm_seqbegin(r)
  \/ ReadVersion(r)
  \/ CopyWord(r, 1, "copy1", "copy2")
  \/ CopyWord(r, 2, "copy2", "retry")
  \/ wrs_shm_seqretry(r)

Write(w) ==
  \/ Probe(w)
  \/ OpenToWrite(w)
  \/ SetHeader(w)
  \/ SetPid(w)
  \/ SetVersion(w)
  \/ Alloc(w, 1, "clear1", "clear2")
  \/ Alloc(w, 2, "clear2", "unlock1")
  \/ wrs_shm_write(w)
  \/ Crash(w)

ShNext == (\E w \in Writers : Write(w)) \/ (\E r \in ShReaders : Read(r))

ShSpec == ShInit /\ [][ShNext]_shVars

-----------------------------------------------------------------------------
Snapshots == [1..2 -> 0..MaxUpdates]

Store_ == INSTANCE SnapshotStore WITH
            Readers <- ShReaders, Values <- Snapshots, cell <- shCell, got <- shGot

(* A reader that accepts what it copied has the words of one publication,  *)
(* the current one: the sequence number turns the two words into one cell, *)
(* also when the writer dies half way and when the reader did not wait for *)
(* it ("A reader can rely on the sequence number", shmem.c).               *)
SnapshotsOnly == Store_!Spec
=============================================================================
