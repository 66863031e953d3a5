--------------------------- MODULE SnapshotStore ---------------------------
(***************************************************************************)
(* What the shared memory promises: a cell that the writer replaces as a   *)
(* whole and of which a reader gets a whole value, at one instant.         *)
(***************************************************************************)
CONSTANTS Readers, Values

VARIABLES
  cell,   \* the value published last
  got     \* what each reader obtained last

TypeOK == /\ cell \in Values
          /\ got \in [Readers -> Values]

Init == TypeOK

Publish == /\ cell' \in Values
           /\ UNCHANGED got

Obtain(r) == /\ got' = [got EXCEPT ![r] = cell]
             /\ UNCHANGED cell

Next == Publish \/ \E r \in Readers : Obtain(r)

Spec == Init /\ [][Next]_<<cell, got>>
=============================================================================
