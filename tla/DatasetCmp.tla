----------------------------- MODULE DatasetCmp -----------------------------
(***************************************************************************)
(* The data set comparison of proto-standard/bmc.c: which of two Announce  *)
(* records describes the better clock, and the loops that use it to pick   *)
(* Erbest, Ebest and the worst record of a table.                          *)
(*                                                                         *)
(* A record r (struct pp_frgn_master) has the fields                       *)
(*   src, rx    sourcePortIdentity and receivePortIdentity, <<clock, port>>*)
(*   gm         grandmasterIdentity                                        *)
(*   q          <<priority1, clockClass, clockAccuracy,                    *)
(*                offsetScaledLogVariance, priority2>>                     *)
(*   steps      stepsRemoved                                               *)
(*   qualified  the record's own qualification flag                        *)
(* An identity is a number: memcmp orders the eight octets as one.  Every  *)
(* caller of the comparisons looks only at the sign of the result, so they *)
(* return -1, 0 or 1.  ebsrc is the set of sources is_ebest() recognises:  *)
(* the source of the record Ebest points at, or nothing.                   *)
(***************************************************************************)
EXTENDS Integers, Sequences

Identity     == Nat
PortIdentity == Identity \X Nat
Quality      == Nat \X Nat \X Nat \X Nat \X Nat
Width16      == 65536
UInteger16   == 0..(Width16 - 1)

Inc16(n) == (n + 1) % Width16

Cmp(x, y) == IF x < y THEN -1 ELSE IF x > y THEN 1 ELSE 0

bmc_idcmp(a, b) == Cmp(a, b)

bmc_pidcmp(a, b) ==
  LET ret == bmc_idcmp(a[1], b[1])
  IN  IF ret # 0 THEN ret ELSE Cmp(a[2], b[2])

is_qualified(r, ebsrc) == r.qualified \/ r.src \in ebsrc

(* Mutant: two records that are not qualified do not tie.                  *)
QualifiedVerdict_NoTie(a, b, ebsrc) == IF is_qualified(a, ebsrc) THEN -1 ELSE 1

(* What are_qualified() leaves in *ret when it returns 0: a record that is *)
(* not qualified loses, two of them tie.                                   *)
QualifiedVerdict(a, b, ebsrc) ==
  Cmp(IF is_qualified(b, ebsrc) THEN 1 ELSE 0,
      IF is_qualified(a, ebsrc) THEN 1 ELSE 0)

are_qualified(a, b, ebsrc) == is_qualified(a, ebsrc) /\ is_qualified(b, ebsrc)

(* The six fields bmc_gm_cmp() compares, in its order.                     *)
GmField(r, i) == IF i = 6 THEN r.gm ELSE r.q[i]

Differing(a, b) == {i \in 1..6 : GmField(a, i) # GmField(b, i)}

First(S) == CHOOSE i \in S : \A j \in S : i <= j

bmc_gm_cmp(a, b, ebsrc) ==
  IF ~are_qualified(a, b, ebsrc) THEN QualifiedVerdict(a, b, ebsrc)
  ELSE IF Differing(a, b) = {} THEN 0
  ELSE LET i == First(Differing(a, b)) IN Cmp(GmField(a, i), GmField(b, i))

(* The port that transmitted a record also received it: "Error 1".         *)
SelfSent(r) == bmc_pidcmp(r.src, r.rx) = 0

(* Mutant: the receiving ports are not compared.                           *)
bmc_topology_cmp_NoRx(a, b, ebsrc) ==
  LET diff == a.steps - b.steps
  IN  IF ~are_qualified(a, b, ebsrc) THEN QualifiedVerdict(a, b, ebsrc)
      ELSE IF diff # 0 THEN Cmp(diff, 0)
      ELSE bmc_pidcmp(a.src, b.src)

bmc_topology_cmp(a, b, ebsrc) ==
  LET diff == a.steps - b.steps
      tx   == bmc_pidcmp(a.src, b.src)
  IN  IF ~are_qualified(a, b, ebsrc) THEN QualifiedVerdict(a, b, ebsrc)
      ELSE IF diff = 1 THEN IF SelfSent(a) THEN 0 ELSE 1
      ELSE IF diff = -1 THEN IF SelfSent(b) THEN 0 ELSE -1
      ELSE IF diff # 0 THEN Cmp(diff, 0)
      ELSE IF tx # 0 THEN tx
      ELSE bmc_pidcmp(a.rx, b.rx)

(* < 0 : a wins, > 0 : b wins.                                             *)
bmc_dataset_cmp(a, b, ebsrc) ==
  IF bmc_idcmp(a.gm, b.gm) = 0 THEN bmc_topology_cmp(a, b, ebsrc)
                               ELSE bmc_gm_cmp(a, b, ebsrc)

-----------------------------------------------------------------------------
(***************************************************************************)
(* The shape shared by the three selection loops of bmc.c: keep the index  *)
(* of the champion so far, starting with 1, and replace it by i whenever i *)
(* beats it.  beats is the set of pairs <<challenger, champion>> for which *)
(* the challenger takes over.                                              *)
(***************************************************************************)
Champion(n, beats) ==
  LET champ[i \in 1..n] == IF i = 1 THEN 1
                           ELSE IF <<i, champ[i - 1]>> \in beats THEN i
                           ELSE champ[i - 1]
  IN  champ[n]

(* Pairs of positions of tbl for which the first record is better.         *)
Better(tbl, ebsrc) ==
  {ij \in (1..Len(tbl)) \X (1..Len(tbl)) :
      bmc_dataset_cmp(tbl[ij[1]], tbl[ij[2]], ebsrc) < 0}

(* The loop of bmc_update_erbest_inst(): the best record of a table, or 0  *)
(* when the table is empty or its best record is not qualified.            *)
Erbest(tbl, ebsrc) ==
  IF tbl = << >> THEN 0
  ELSE LET best == Champion(Len(tbl), Better(tbl, ebsrc))
       IN  IF is_qualified(tbl[best], ebsrc) THEN best ELSE 0

(* The loop of bmc_add_frgn_master() over a full table: every record is    *)
(* compared as if it were qualified.                                       *)
Qualified(r) == [r EXCEPT !.qualified = TRUE]

Worst(tbl) ==
  Champion(Len(tbl),
           {ij \in (1..Len(tbl)) \X (1..Len(tbl)) :
              bmc_dataset_cmp(Qualified(tbl[ij[1]]), Qualified(tbl[ij[2]]), {}) > 0})
=============================================================================
