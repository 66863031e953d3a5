------------------------------ MODULE MCClocks ------------------------------
(***************************************************************************)
(* A slave-only clock that hears more masters on a port than its table     *)
(* holds, with a link that comes and goes; and tables of any contents, for *)
(* the selection loops.  kind says which of the two a behaviour is of.     *)
(***************************************************************************)
EXTENDS MCPtpClock

CONSTANT MaxLen    \* longest table, a bound

VARIABLES kind, table

-----------------------------------------------------------------------------
(* Tables of foreign masters: two grand masters, each with one quality,    *)
(* that differ in clockAccuracy and the other way round in priority2,      *)
(* heard over different paths.                                             *)
GmQuality == << <<128, 6, 33, 0, 1>>, <<128, 6, 32, 0, 2>> >>

Paths == {<< <<3, 2>>, <<5, 1>> >>, << <<3, 2>>, <<5, 2>> >>, << <<4, 1>>, <<5, 1>> >>}

Pool == {[src |-> p[1], rx |-> p[2], gm |-> g, q |-> GmQuality[g], steps |-> n,
          qualified |-> b] :
           p \in Paths, g \in {1, 2}, n \in {0, 1, 3}, b \in BOOLEAN}

(* The reference: the standard's ranking as one lexicographic order.       *)
Rank(r) == r.q \o <<r.gm, r.steps>> \o r.src \o r.rx

Precedes(a, b) ==
  \E i \in 1..Len(Rank(a)) : /\ Rank(a)[i] < Rank(b)[i]
                             /\ \A j \in 1..(i - 1) : Rank(a)[j] = Rank(b)[j]

EbestSources == {{}} \cup {{r.src} : r \in ToSet(table)}

(* Swapping the arguments of bmc_dataset_cmp() swaps the verdict, also for *)
(* records that are not qualified: otherwise two clocks comparing each     *)
(* other's records could both think they won.                              *)
Antisymmetric ==
  Len(table) = 2 => \A eb \in EbestSources : \A a, b \in ToSet(table) :
     bmc_dataset_cmp(a, b, eb) = -bmc_dataset_cmp(b, a, eb)

(* bmc_update_erbest_inst() finds a qualified record whenever there is     *)
(* one, and no qualified record of the table ranks before it, wherever in  *)
(* the table it lies and however the unqualified ones are mixed in.        *)
ErbestIsBest ==
  \A eb \in EbestSources :
    LET fit == {i \in 1..Len(table) : is_qualified(table[i], eb)}
        e   == Erbest(table, eb)
    IN  IF fit = {} THEN e = 0
        ELSE e \in fit /\ \A i \in fit : ~Precedes(table[i], table[e])

(* The record bmc_add_frgn_master() is ready to replace in a full table is *)
(* one that no other ranks behind, qualified or not.                       *)
WorstIsWorst ==
  table # << >> => \A i \in 1..Len(table) : ~Precedes(table[Worst(table)], table[i])

AddRecord == \/ Len(table) < MaxLen /\ \E r \in Pool : table' = Append(table, r)
             \/ Len(table) = MaxLen /\ table' = << >>

-----------------------------------------------------------------------------
ClocksInit == Init /\ table = << >> /\ kind \in {"clock", "selection"}

ClocksNext ==
  /\ UNCHANGED kind
  /\ \/ kind = "clock" /\ Next /\ UNCHANGED table
     \/ kind = "selection" /\ AddRecord /\ UNCHANGED vars

ClocksSpec == ClocksInit /\ [][ClocksNext]_<<vars, kind, table>>

-----------------------------------------------------------------------------
(* The selection loops of bmc.c pick the best qualified record and the     *)
(* worst one of any table, with a comparison that is antisymmetric.        *)
SelectionRight == kind = "selection" => Antisymmetric /\ ErbestIsBest /\ WorstIsWorst
=============================================================================
