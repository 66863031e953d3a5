------------------------ MODULE ForeignMastersProofs ------------------------
(***************************************************************************)
(* The selection loops of DatasetCmp find a best record, and what the      *)
(* table operations of ForeignMasters preserve, for tables of any length.  *)
(***************************************************************************)
EXTENDS ForeignMasters, WellFoundedInduction, SequenceTheorems, TLAPS

-----------------------------------------------------------------------------
(* The selection loops of DatasetCmp.                                      *)

(* A nonempty set of naturals has a least member.  This is the induction   *)
(* of the lemmas below, in a form without an operator parameter.           *)
LEMMA LeastNatural ==
  ASSUME NEW T, T \subseteq Nat, T # {}
  PROVE  \E m \in T : \A k \in T : m <= k
<1>1. \E x \in T : \A y \in T : ~(<<y, x>> \in OpToRel(<, Nat))
  BY NatLessThanWellFounded, WFMin
<1>2. PICK x \in T : \A y \in T : ~(<<y, x>> \in OpToRel(<, Nat))
  BY <1>1
<1>3. \A y \in T : ~(y < x)
  BY <1>2 DEF OpToRel
<1> QED BY <1>3, SMT

(* The recursion of Champion has a solution: the loop over candidates 1 to *)
(* n is well defined for every relation beats.                             *)
LEMMA ChampionExists ==
  ASSUME NEW n \in Nat, NEW beats
  PROVE  \E f \in [1..n -> 1..n] :
            f = [i \in 1..n |-> IF i = 1 THEN 1
                                ELSE IF <<i, f[i - 1]>> \in beats THEN i
                                ELSE f[i - 1]]
<1> DEFINE Good(m) == \E f \in [1..m -> 1..m] :
                        \A i \in 1..m : f[i] = IF i = 1 THEN 1
                                             ELSE IF <<i, f[i - 1]>> \in beats THEN i
                                             ELSE f[i - 1]
           Bad == {m \in Nat : ~Good(m)}
<1>1. ASSUME NEW m \in Nat, m # 0, Good(m - 1)
      PROVE  Good(m)
  <2>1. PICK g \in [1..(m-1) -> 1..(m-1)] :
           \A i \in 1..(m-1) : g[i] = IF i = 1 THEN 1
                                     ELSE IF <<i, g[i - 1]>> \in beats THEN i
                                     ELSE g[i - 1]
    BY <1>1
  <2> DEFINE last == IF m = 1 THEN 1 ELSE IF <<m, g[m-1]>> \in beats THEN m ELSE g[m-1]
             h == [i \in 1..m |-> IF i < m THEN g[i] ELSE last]
  <2>2. ASSUME NEW i \in 1..(m-1) PROVE g[i] \in 1..m
    <3>1. g[i] \in 1..(m-1)
      OBVIOUS
    <3> QED BY <3>1, <1>1
  <2>3. last \in 1..m
    <3>1. CASE m = 1
      BY <3>1
    <3>2. CASE m # 1
      <4>1. m - 1 \in 1..(m-1)
        BY <3>2, <1>1
      <4> QED BY <4>1, <2>2, <1>1
    <3> QED BY <3>1, <3>2
  <2>4. h \in [1..m -> 1..m]
    <3> HIDE DEF last
    <3>1. ASSUME NEW i \in 1..m PROVE (IF i < m THEN g[i] ELSE last) \in 1..m
      <4>1. i < m => i \in 1..(m-1)
        BY <1>1
      <4> QED BY <4>1, <2>2, <2>3
    <3> QED BY <3>1
  <2>5. ASSUME NEW i \in 1..m
        PROVE  h[i] = IF i = 1 THEN 1
                      ELSE IF <<i, h[i - 1]>> \in beats THEN i
                      ELSE h[i - 1]
    <3>1. CASE i < m
      <4>1. i \in 1..(m-1) /\ h[i] = g[i]
        BY <3>1, <2>5, <1>1
      <4>2. CASE i = 1
        BY <4>1, <4>2, <2>1
      <4>3. CASE i # 1
        <5>1. i - 1 \in 1..m /\ i - 1 < m
          BY <4>3, <3>1, <2>5, <1>1
        <5>2. h[i - 1] = g[i - 1]
          BY <5>1
        <5> QED BY <4>1, <5>2, <2>1, <4>3
      <4> QED BY <4>2, <4>3
    <3>2. CASE i = m
      <4>1. h[i] = last
        BY <3>2, <2>5, <1>1
      <4>2. CASE m = 1
        BY <4>1, <3>2, <4>2
      <4>3. CASE m # 1
        <5>1. i - 1 \in 1..m /\ i - 1 < m
          BY <4>3, <3>2, <2>5, <1>1
        <5>2. h[i - 1] = g[m - 1]
          BY <5>1, <3>2
        <5> QED BY <4>1, <5>2, <4>3, <3>2
      <4> QED BY <4>2, <4>3
    <3> QED BY <3>1, <3>2, <2>5, <1>1
  <2> HIDE DEF h
  <2> QED BY <2>4, <2>5
<1>2. Good(0)
  <2>1. [i \in 1..0 |-> 1] \in [1..0 -> 1..0]
    OBVIOUS
  <2>2. 1..0 = {}
    OBVIOUS
  <2> QED BY <2>1, <2>2
<1> HIDE DEF Good
<1>3. Bad = {}
  <2>1. SUFFICES ASSUME Bad # {} PROVE FALSE
    OBVIOUS
  <2>2. PICK m \in Bad : \A k \in Bad : m <= k
    BY <2>1, LeastNatural
  <2>3. m \in Nat /\ ~Good(m)
    BY <2>2
  <2>4. m # 0
    BY <2>3, <1>2
  <2>5. m - 1 \in Nat /\ m - 1 \notin Bad
    BY <2>2, <2>3, <2>4
  <2> QED BY <2>3, <2>4, <2>5, <1>1
<1>4. Good(n)
  BY <1>3
<1> QED BY <1>4 DEF Good

(* So it has the values the loop computes, one after the other.            *)
LEMMA ChampionLoop ==
  ASSUME NEW n \in Nat \ {0}, NEW beats
  PROVE  \E F : /\ Champion(n, beats) = F[n]
               /\ \A i \in 1..n : F[i] = IF i = 1 THEN 1
                                         ELSE IF <<i, F[i - 1]>> \in beats THEN i
                                         ELSE F[i - 1]
<1> DEFINE P(f) == f = [i \in 1..n |-> IF i = 1 THEN 1
                                       ELSE IF <<i, f[i - 1]>> \in beats THEN i
                                       ELSE f[i - 1]]
           F == CHOOSE f : P(f)
<1>1. Champion(n, beats) = F[n]
  BY DEF Champion
<1>2. \E f : P(f)
  <2>1. n \in Nat
    OBVIOUS
  <2>2. \E f \in [1..n -> 1..n] : P(f)
    BY <2>1, ChampionExists
  <2> QED BY <2>2
<1>3. P(F)
  <2> HIDE DEF P
  <2> QED BY <1>2
<1> HIDE DEF F
<1>4. F = [i \in 1..n |-> IF i = 1 THEN 1
                          ELSE IF <<i, F[i - 1]>> \in beats THEN i
                          ELSE F[i - 1]]
  BY <1>3
<1>5. \A i \in 1..n : F[i] = IF i = 1 THEN 1
                             ELSE IF <<i, F[i - 1]>> \in beats THEN i
                             ELSE F[i - 1]
  BY <1>4
<1> QED BY <1>1, <1>5

(* What a selection loop returns is one of the candidates it looped over.  *)
LEMMA ChampionInRange ==
  ASSUME NEW n \in Nat \ {0}, NEW beats
  PROVE  Champion(n, beats) \in 1..n
<1>1. PICK F : /\ Champion(n, beats) = F[n]
               /\ \A i \in 1..n : F[i] = IF i = 1 THEN 1
                                         ELSE IF <<i, F[i - 1]>> \in beats THEN i
                                         ELSE F[i - 1]
  BY ChampionLoop
<1> DEFINE Out == {i \in 1..n : F[i] \notin 1..i}
<1>2. Out = {}
  <2>1. SUFFICES ASSUME Out # {} PROVE FALSE
    OBVIOUS
  <2>2. PICK m \in Out : \A k \in Out : m <= k
    <3>1. Out \subseteq Nat
      OBVIOUS
    <3> HIDE DEF Out
    <3> QED BY <2>1, <3>1, LeastNatural
  <2>3. m \in 1..n /\ F[m] \notin 1..m
    BY <2>2
  <2>4. F[m] = IF m = 1 THEN 1 ELSE IF <<m, F[m - 1]>> \in beats THEN m ELSE F[m - 1]
    BY <1>1, <2>3
  <2>5. m # 1
    BY <2>3, <2>4
  <2>6. m - 1 \in 1..n /\ m - 1 \notin Out
    BY <2>2, <2>3, <2>5
  <2>7. F[m - 1] \in 1..(m-1)
    BY <2>6
  <2> QED BY <2>7, <2>4, <2>3, <2>5
<1>3. n \in 1..n /\ n \notin Out
  BY <1>2
<1> QED BY <1>1, <1>3

(* No candidate beats the one the loop ends with, when beating is          *)
(* transitive and nobody beats himself.                                    *)
LEMMA ChampionUnbeaten ==
  ASSUME NEW n \in Nat \ {0}, NEW beats,
         \A i \in 1..n : <<i, i>> \notin beats,
         \A i, j, k \in 1..n :
           <<i, j>> \in beats /\ <<j, k>> \in beats => <<i, k>> \in beats
  PROVE  \A i \in 1..n : <<i, Champion(n, beats)>> \notin beats
<1>1. PICK F : /\ Champion(n, beats) = F[n]
               /\ \A i \in 1..n : F[i] = IF i = 1 THEN 1
                                         ELSE IF <<i, F[i - 1]>> \in beats THEN i
                                         ELSE F[i - 1]
  BY ChampionLoop
<1> DEFINE Wins(m) == F[m] \in 1..m /\ \A i \in 1..m : <<i, F[m]>> \notin beats
           Out == {m \in 1..n : ~Wins(m)}
<1>2. ASSUME NEW m \in 1..n, m # 1, Wins(m - 1) PROVE Wins(m)
  <2>1. m - 1 \in 1..n /\ F[m - 1] \in 1..(m - 1) /\ F[m - 1] \in 1..n
    BY <1>2
  <2>2. F[m] = IF <<m, F[m - 1]>> \in beats THEN m ELSE F[m - 1]
    BY <1>1, <1>2
  <2>3. CASE <<m, F[m - 1]>> \in beats
    <3>1. F[m] = m
      BY <2>2, <2>3
    <3>2. ASSUME NEW i \in 1..m PROVE <<i, m>> \notin beats
      <4>1. CASE i = m
        BY <4>1
      <4>2. CASE i # m
        <5>1. i \in 1..(m - 1) /\ i \in 1..n
          BY <4>2
        <5>2. <<i, F[m - 1]>> \notin beats
          BY <5>1, <1>2
        <5> DEFINE c == F[m - 1]
        <5>3. c \in 1..n /\ <<m, c>> \in beats /\ <<i, c>> \notin beats
          BY <2>1, <2>3, <5>2
        <5> HIDE DEF c
        <5> QED BY <5>1, <5>3
      <4> QED BY <4>1, <4>2
    <3> QED BY <3>1, <3>2
  <2>4. CASE <<m, F[m - 1]>> \notin beats
    <3>1. F[m] = F[m - 1]
      BY <2>2, <2>4
    <3>2. \A i \in 1..m : i = m \/ i \in 1..(m - 1)
      OBVIOUS
    <3> QED BY <3>1, <3>2, <2>1, <2>4, <1>2
  <2> QED BY <2>3, <2>4
<1>3. Wins(1)
  <2>1. 1 \in 1..n
    OBVIOUS
  <2>2. F[1] = 1
    BY <1>1, <2>1, Zenon
  <2> QED BY <2>2
<1> HIDE DEF Wins
<1>4. Out = {}
  <2>1. SUFFICES ASSUME Out # {} PROVE FALSE
    OBVIOUS
  <2>2. PICK m \in Out : \A k \in Out : m <= k
    <3>1. Out \subseteq Nat
      OBVIOUS
    <3> HIDE DEF Out
    <3> QED BY <2>1, <3>1, LeastNatural
  <2>3. m \in 1..n /\ ~Wins(m) /\ m # 1
    BY <2>2, <1>3
  <2>4. m - 1 \in 1..n /\ m - 1 \notin Out
    BY <2>2, <2>3
  <2> QED BY <2>3, <2>4, <1>2
<1>5. Wins(n)
  BY <1>4
<1> QED BY <1>1, <1>5 DEF Wins

-----------------------------------------------------------------------------
(* The table of foreign masters.                                           *)

(* RemoveAt (bmc_remove_foreign_master): one record less, the ones behind  *)
(* it move up.                                                             *)
LEMMA RemoveAtFacts ==
  ASSUME NEW S, NEW s \in Seq(S), NEW i \in 1..Len(s)
  PROVE  /\ RemoveAt(s, i) \in Seq(S)
         /\ Len(RemoveAt(s, i)) = Len(s) - 1
         /\ \A j \in 1..(Len(s) - 1) :
              RemoveAt(s, i)[j] = IF j < i THEN s[j] ELSE s[j + 1]
<1> DEFINE a == SubSeq(s, 1, i - 1)
           b == SubSeq(s, i + 1, Len(s))
<1>1. /\ a \in Seq(S) /\ Len(a) = i - 1
      /\ \A j \in 1..(i - 1) : a[j] = s[j]
  OBVIOUS
<1>2. /\ b \in Seq(S) /\ Len(b) = Len(s) - i
      /\ \A j \in 1..(Len(s) - i) : b[j] = s[i + j]
  OBVIOUS
<1> HIDE DEF a, b
<1>3. RemoveAt(s, i) = a \o b
  BY DEF RemoveAt, a, b
<1>4. a \o b \in Seq(S) /\ Len(a \o b) = Len(s) - 1
  <2>1. a \o b \in Seq(S)
    BY <1>1, <1>2
  <2>2. Len(a \o b) = Len(a) + Len(b)
    BY <1>1, <1>2, ConcatProperties
  <2> QED BY <2>1, <2>2, <1>1, <1>2
<1>5. ASSUME NEW j \in 1..(Len(s) - 1)
      PROVE  (a \o b)[j] = IF j < i THEN s[j] ELSE s[j + 1]
  <2>1. CASE j < i
    BY <2>1, <1>1, <1>2
  <2>2. CASE ~(j < i)
    <3>1. (a \o b)[j] = b[j - (i - 1)]
      BY <2>2, <1>1, <1>2
    <3>2. j - (i - 1) \in 1..(Len(s) - i)
      BY <2>2
    <3> QED BY <3>1, <3>2, <1>2, <2>2
  <2> QED BY <2>1, <2>2
<1> QED BY <1>3, <1>4, <1>5

(* Put replaces a record or appends one.                                   *)
LEMMA PutFacts ==
  ASSUME NEW S, NEW s \in Seq(S), NEW i \in 1..(Len(s) + 1), NEW r \in S
  PROVE  /\ Put(s, i, r) \in Seq(S)
         /\ Len(Put(s, i, r)) = IF i > Len(s) THEN Len(s) + 1 ELSE Len(s)
         /\ \A j \in 1..Len(Put(s, i, r)) :
              Put(s, i, r)[j] = IF j = i THEN r ELSE s[j]
<1> DEFINE n == IF i > Len(s) THEN i ELSE Len(s)
<1>1. n \in Nat
  OBVIOUS
<1>2. n = IF i > Len(s) THEN Len(s) + 1 ELSE Len(s)
  OBVIOUS
<1>3. \A j \in 1..n : j = i \/ j \in 1..Len(s)
  OBVIOUS
<1>4. Put(s, i, r) = [j \in 1..n |-> IF j = i THEN r ELSE s[j]]
  BY DEF Put
<1> HIDE DEF n
<1>5. \A j \in 1..n : (IF j = i THEN r ELSE s[j]) \in S
  BY <1>3
<1>6. Put(s, i, r) \in Seq(S) /\ Len(Put(s, i, r)) = n
  BY <1>1, <1>4, <1>5
<1> QED BY <1>2, <1>4, <1>6

(* First picks a member of a set of positions.                             *)
LEMMA FirstInSet ==
  ASSUME NEW T, T \subseteq Nat, T # {}
  PROVE  First(T) \in T
<1>1. \E i \in T : \A j \in T : i <= j
  BY LeastNatural
<1> QED BY <1>1 DEF First

(* The slot for a new source: none, a used one or the first free one, and  *)
(* never beyond the end of frgn_master[].                                  *)
LEMMA NewSlotInRange ==
  ASSUME NEW tbl \in Seq(Record), Len(tbl) <= NR, NEW r
  PROVE  NewSlot(tbl, r) \in 0..(Len(tbl) + 1) /\ NewSlot(tbl, r) <= NR
<1>1. NR \in Nat /\ NR >= 1 /\ Len(tbl) \in Nat
  BY NRAssumption
<1>2. CASE SingleFmaster
  BY <1>1, <1>2 DEF NewSlot
<1>3. CASE ~SingleFmaster /\ Len(tbl) < NR
  BY <1>1, <1>3 DEF NewSlot
<1>4. CASE ~SingleFmaster /\ ~(Len(tbl) < NR)
  <2>1. Len(tbl) \in Nat \ {0} /\ Len(tbl) = NR
    BY <1>1, <1>4
  <2>2. Worst(tbl) \in 1..Len(tbl)
    BY <2>1, ChampionInRange DEF Worst
  <2>3. NewSlot(tbl, r) \in {0, Worst(tbl)}
    BY <1>4 DEF NewSlot
  <2> QED BY <2>1, <2>2, <2>3
<1> QED BY <1>2, <1>3, <1>4

(* The update of a known record (bmc_add_frgn_master) is a record again.   *)
LEMMA UpdatedType ==
  ASSUME NEW old \in Record, NEW new \in Record, NEW inSeq \in BOOLEAN
  PROVE  Updated(old, new, inSeq) \in Record /\ Updated(old, new, inSeq).src = new.src
<1>1. (IF inSeq THEN ~old.aged ELSE old.qualified) \in BOOLEAN
  BY DEF Record
<1>2. (~inSeq /\ old.aged) \in BOOLEAN
  OBVIOUS
<1> QED BY <1>1, <1>2 DEF Updated, Record

(* Storing an Announce (bmc_add_frgn_master): the table keeps its type and *)
(* its bound and does not shrink, and the slot returned is one of it.      *)
LEMMA StoredType ==
  ASSUME NEW tbl \in Seq(Record), Len(tbl) <= NR, NEW r \in Record, NEW inSeq \in BOOLEAN
  PROVE  /\ Stored(tbl, r, inSeq).tbl \in Seq(Record)
         /\ Len(Stored(tbl, r, inSeq).tbl) <= NR
         /\ Len(tbl) <= Len(Stored(tbl, r, inSeq).tbl)
         /\ Stored(tbl, r, inSeq).sel \in 0..Len(Stored(tbl, r, inSeq).tbl)
<1>0. NR \in Nat /\ Len(tbl) \in Nat
  BY NRAssumption
<1>1. CASE Known(tbl, r.src) # {}
  <2> DEFINE i == First(Known(tbl, r.src))
  <2>1. i \in 1..Len(tbl)
    <3>1. Known(tbl, r.src) \subseteq Nat
      BY DEF Known
    <3>2. i \in Known(tbl, r.src)
      BY <1>1, <3>1, FirstInSet
    <3> QED BY <3>2 DEF Known
  <2>2. Stored(tbl, r, inSeq) = [tbl |-> Put(tbl, i, Updated(tbl[i], r, inSeq)), sel |-> 0]
    BY <1>1 DEF Stored
  <2> HIDE DEF i
  <2>3. tbl[i] \in Record /\ i \in 1..(Len(tbl) + 1)
    BY <2>1
  <2>4. Updated(tbl[i], r, inSeq) \in Record
    BY <2>3, UpdatedType
  <2>5. /\ Put(tbl, i, Updated(tbl[i], r, inSeq)) \in Seq(Record)
        /\ Len(Put(tbl, i, Updated(tbl[i], r, inSeq))) = Len(tbl)
    BY <2>1, <2>3, <2>4, PutFacts
  <2> QED BY <2>2, <2>5, <1>0
<1>2. CASE Known(tbl, r.src) = {}
  <2> DEFINE i == NewSlot(tbl, r)
  <2>1. i \in 0..(Len(tbl) + 1) /\ i <= NR
    BY NewSlotInRange
  <2>2. Stored(tbl, r, inSeq) = [tbl |-> IF i = 0 THEN tbl ELSE Put(tbl, i, r), sel |-> i]
    BY <1>2 DEF Stored
  <2> HIDE DEF i
  <2>3. CASE i = 0
    BY <2>2, <2>3, <1>0
  <2>4. CASE i # 0
    <3>1. i \in 1..(Len(tbl) + 1)
      BY <2>1, <2>4
    <3>2. /\ Put(tbl, i, r) \in Seq(Record)
          /\ Len(Put(tbl, i, r)) = IF i > Len(tbl) THEN Len(tbl) + 1 ELSE Len(tbl)
      BY <3>1, PutFacts
    <3> QED BY <2>1, <2>2, <2>4, <3>1, <3>2, <1>0
  <2> QED BY <2>3, <2>4
<1> QED BY <1>1, <1>2

Unique(tbl) == \A i, j \in 1..Len(tbl) : tbl[i].src = tbl[j].src => i = j

(* Storing an Announce leaves one record per source, and every record is   *)
(* an old one's successor or the new one.                                  *)
LEMMA StoredSources ==
  ASSUME NEW tbl \in Seq(Record), Len(tbl) <= NR, NEW r \in Record, NEW inSeq \in BOOLEAN
  PROVE  /\ Unique(tbl) => Unique(Stored(tbl, r, inSeq).tbl)
         /\ \A j \in 1..Len(Stored(tbl, r, inSeq).tbl) :
              \/ Stored(tbl, r, inSeq).tbl[j].src = r.src
              \/ j \in 1..Len(tbl) /\ Stored(tbl, r, inSeq).tbl[j].src = tbl[j].src
<1>0. NR \in Nat /\ Len(tbl) \in Nat
  BY NRAssumption
<1>1. CASE Known(tbl, r.src) # {}
  <2> DEFINE i == First(Known(tbl, r.src))
             u == Updated(tbl[i], r, inSeq)
  <2>1. i \in 1..Len(tbl) /\ tbl[i].src = r.src
    <3>1. Known(tbl, r.src) \subseteq Nat
      BY DEF Known
    <3>2. i \in Known(tbl, r.src)
      BY <1>1, <3>1, FirstInSet
    <3> QED BY <3>2 DEF Known
  <2>2. Stored(tbl, r, inSeq).tbl = Put(tbl, i, u)
    BY <1>1 DEF Stored
  <2> HIDE DEF i
  <2>3. tbl[i] \in Record /\ i \in 1..(Len(tbl) + 1)
    BY <2>1
  <2>4. u \in Record /\ u.src = r.src
    BY <2>3, UpdatedType
  <2> HIDE DEF u
  <2>5. /\ Len(Put(tbl, i, u)) = Len(tbl)
        /\ \A j \in 1..Len(tbl) : Put(tbl, i, u)[j] = IF j = i THEN u ELSE tbl[j]
    BY <2>1, <2>3, <2>4, PutFacts
  <2>6. \A j \in 1..Len(tbl) : Put(tbl, i, u)[j].src = tbl[j].src
    BY <2>5, <2>4, <2>1
  <2> QED BY <2>2, <2>5, <2>6 DEF Unique
<1>2. CASE Known(tbl, r.src) = {}
  <2> DEFINE i == NewSlot(tbl, r)
  <2>1. i \in 0..(Len(tbl) + 1)
    BY NewSlotInRange
  <2>2. Stored(tbl, r, inSeq).tbl = IF i = 0 THEN tbl ELSE Put(tbl, i, r)
    BY <1>2 DEF Stored
  <2>3. \A j \in 1..Len(tbl) : tbl[j].src # r.src
    BY <1>2 DEF Known
  <2> HIDE DEF i
  <2>4. CASE i = 0
    BY <2>2, <2>4
  <2>5. CASE i # 0
    <3>1. i \in 1..(Len(tbl) + 1)
      BY <2>1, <2>5
    <3>2. /\ Len(Put(tbl, i, r)) = IF i > Len(tbl) THEN Len(tbl) + 1 ELSE Len(tbl)
          /\ \A j \in 1..Len(Put(tbl, i, r)) : Put(tbl, i, r)[j] = IF j = i THEN r ELSE tbl[j]
      BY <3>1, PutFacts
    <3>3. \A j \in 1..Len(Put(tbl, i, r)) : j = i \/ j \in 1..Len(tbl)
      BY <3>1, <3>2
    <3>4. \A j \in 1..Len(Put(tbl, i, r)) :
            IF j = i THEN Put(tbl, i, r)[j].src = r.src
                     ELSE j \in 1..Len(tbl) /\ Put(tbl, i, r)[j].src = tbl[j].src
      BY <3>2, <3>3
    <3> QED BY <2>2, <2>5, <3>4, <2>3 DEF Unique
  <2> QED BY <2>4, <2>5
<1> QED BY <1>1, <1>2

(* Removing a record keeps sources unique and adds none.                   *)
LEMMA RemoveAtSources ==
  ASSUME NEW tbl \in Seq(Record), NEW i \in 1..Len(tbl)
  PROVE  /\ Unique(tbl) => Unique(RemoveAt(tbl, i))
         /\ \A j \in 1..Len(RemoveAt(tbl, i)) :
              \E k \in 1..Len(tbl) : RemoveAt(tbl, i)[j] = tbl[k]
<1>1. /\ Len(RemoveAt(tbl, i)) = Len(tbl) - 1
      /\ \A j \in 1..(Len(tbl) - 1) :
           RemoveAt(tbl, i)[j] = IF j < i THEN tbl[j] ELSE tbl[j + 1]
  BY RemoveAtFacts
<1>2. \A j \in 1..(Len(tbl) - 1) : j \in 1..Len(tbl) /\ j + 1 \in 1..Len(tbl)
  OBVIOUS
<1>3. ASSUME Unique(tbl), NEW j \in 1..(Len(tbl) - 1), NEW k \in 1..(Len(tbl) - 1),
             RemoveAt(tbl, i)[j].src = RemoveAt(tbl, i)[k].src
      PROVE  j = k
  <2>1. (IF j < i THEN j ELSE j + 1) = (IF k < i THEN k ELSE k + 1)
    BY <1>1, <1>2, <1>3 DEF Unique
  <2> QED BY <2>1
<1> QED BY <1>1, <1>2, <1>3 DEF Unique

(* Flushing Erbest (bmc_flush_erbest) does both of these, or nothing.      *)
LEMMA FlushErbestFacts ==
  ASSUME NEW tbl \in Seq(Record), NEW b \in Nat
  PROVE  /\ FlushErbest(tbl, b) \in Seq(Record)
         /\ Len(FlushErbest(tbl, b)) <= Len(tbl)
         /\ Unique(tbl) => Unique(FlushErbest(tbl, b))
         /\ \A j \in 1..Len(FlushErbest(tbl, b)) :
              \E k \in 1..Len(tbl) : FlushErbest(tbl, b)[j] = tbl[k]
<1>1. CASE b # 0 /\ b <= Len(tbl)
  <2>1. b \in 1..Len(tbl) /\ FlushErbest(tbl, b) = RemoveAt(tbl, b)
    BY <1>1 DEF FlushErbest
  <2>2. RemoveAt(tbl, b) \in Seq(Record) /\ Len(RemoveAt(tbl, b)) = Len(tbl) - 1
    BY <2>1, RemoveAtFacts
  <2> QED BY <2>1, <2>2, RemoveAtSources
<1>2. CASE ~(b # 0 /\ b <= Len(tbl))
  BY <1>2 DEF FlushErbest
<1> QED BY <1>1, <1>2

(* The best record of a table is one of it, or 0.                          *)
LEMMA ErbestInRange ==
  ASSUME NEW tbl \in Seq(Record), NEW ebsrc
  PROVE  Erbest(tbl, ebsrc) \in 0..Len(tbl)
<1>1. CASE tbl = << >>
  BY <1>1 DEF Erbest
<1>2. CASE tbl # << >>
  <2>1. Len(tbl) \in Nat \ {0}
    BY <1>2
  <2>2. Champion(Len(tbl), Better(tbl, ebsrc)) \in 1..Len(tbl)
    BY <2>1, ChampionInRange
  <2> QED BY <1>2, <2>1, <2>2 DEF Erbest
<1> QED BY <1>1, <1>2

(* The types of the fields of a record.                                    *)
LEMMA RecordFields ==
  ASSUME NEW r \in Record
  PROVE  /\ r.src \in PortIdentity /\ r.gm \in Identity /\ r.q \in Quality
         /\ r.steps \in UInteger16
BY DEF Record

(* 16-bit numbers are the naturals below a positive number.                *)
LEMMA Width16Type == Width16 \in Nat /\ Width16 > 0
BY SMT DEF Width16

(* Zero is a 16-bit number.                                                *)
LEMMA Zero16 == 0 \in UInteger16
BY Width16Type, SMT DEF UInteger16

(* stepsRemoved + 1, stored in 16 bits, is a 16-bit number.                *)
LEMMA Inc16Type ==
  ASSUME NEW n \in UInteger16
  PROVE  Inc16(n) \in UInteger16
BY Width16Type, SMT DEF Inc16, UInteger16

-----------------------------------------------------------------------------
(* The comparison of two records.                                          *)

(* What the comparison of two port identities tells.                       *)
LEMMA PidCmp ==
  ASSUME NEW a \in PortIdentity, NEW b \in PortIdentity
  PROVE  bmc_pidcmp(a, b) = 0 <=> a = b
<1>1. a = <<a[1], a[2]>> /\ b = <<b[1], b[2]>> /\ {a[1], a[2], b[1], b[2]} \subseteq Nat
  BY DEF PortIdentity, Identity
<1> QED BY <1>1 DEF bmc_pidcmp, bmc_idcmp, Cmp

(* bmc_topology_cmp() tells any two qualified records apart that were sent *)
(* or received by different ports, unless the one that is a step further   *)
(* was received by the port that sent it.                                  *)
LEMMA TopologyDecides ==
  ASSUME NEW a \in Record, NEW b \in Record, NEW ebsrc, are_qualified(a, b, ebsrc),
         a.src # b.src \/ a.rx # b.rx,
         a.steps = b.steps + 1 => ~SelfSent(a),
         b.steps = a.steps + 1 => ~SelfSent(b)
  PROVE  bmc_topology_cmp(a, b, ebsrc) # 0
<1>1. a.steps \in Int /\ b.steps \in Int
  BY DEF Record, UInteger16
<1>2. /\ bmc_pidcmp(a.src, b.src) # 0 \/ bmc_pidcmp(a.rx, b.rx) # 0
  BY PidCmp DEF Record
<1> DEFINE tx == bmc_pidcmp(a.src, b.src)
           rx == bmc_pidcmp(a.rx, b.rx)
<1>3. tx # 0 \/ rx # 0
  BY <1>2
<1>4. bmc_topology_cmp(a, b, ebsrc) =
        IF a.steps - b.steps = 1 THEN IF SelfSent(a) THEN 0 ELSE 1
        ELSE IF a.steps - b.steps = -1 THEN IF SelfSent(b) THEN 0 ELSE -1
        ELSE IF a.steps - b.steps # 0 THEN Cmp(a.steps - b.steps, 0)
        ELSE IF tx # 0 THEN tx ELSE rx
  BY DEF bmc_topology_cmp
<1> HIDE DEF tx, rx
<1> QED BY <1>1, <1>3, <1>4 DEF Cmp

(* bmc_gm_cmp() tells two qualified records of different grand masters     *)
(* apart.                                                                  *)
LEMMA GmDecides ==
  ASSUME NEW a \in Record, NEW b \in Record, NEW ebsrc, are_qualified(a, b, ebsrc),
         a.gm # b.gm
  PROVE  bmc_gm_cmp(a, b, ebsrc) # 0
<1>1. ASSUME NEW r \in Record, NEW i \in 1..6 PROVE GmField(r, i) \in Nat
  BY DEF GmField, Record, Quality, Identity
<1>2. 6 \in Differing(a, b)
  BY DEF Differing, GmField
<1> DEFINE i == First(Differing(a, b))
<1>3. i \in Differing(a, b)
  <2>1. Differing(a, b) \subseteq Nat
    BY DEF Differing
  <2> QED BY <1>2, <2>1, FirstInSet
<1>4. bmc_gm_cmp(a, b, ebsrc) = Cmp(GmField(a, i), GmField(b, i))
  BY <1>2 DEF bmc_gm_cmp
<1> HIDE DEF i
<1>5. GmField(a, i) # GmField(b, i) /\ GmField(a, i) \in Nat /\ GmField(b, i) \in Nat
  BY <1>1, <1>3 DEF Differing
<1> QED BY <1>4, <1>5 DEF Cmp

(* So bmc_dataset_cmp() decides.                                           *)
LEMMA DatasetDecides ==
  ASSUME NEW a \in Record, NEW b \in Record, NEW ebsrc, are_qualified(a, b, ebsrc),
         a.src # b.src \/ a.rx # b.rx,
         a.steps = b.steps + 1 => ~SelfSent(a),
         b.steps = a.steps + 1 => ~SelfSent(b)
  PROVE  bmc_dataset_cmp(a, b, ebsrc) # 0
<1>1. a.gm \in Nat /\ b.gm \in Nat
  BY DEF Record, Identity
<1>2. CASE a.gm = b.gm
  <2>1. bmc_idcmp(a.gm, b.gm) = 0
    BY <1>1, <1>2 DEF bmc_idcmp, Cmp
  <2> QED BY <2>1, TopologyDecides DEF bmc_dataset_cmp
<1>3. CASE a.gm # b.gm
  <2>1. bmc_idcmp(a.gm, b.gm) # 0
    BY <1>1, <1>3 DEF bmc_idcmp, Cmp
  <2> QED BY <2>1, <1>3, GmDecides DEF bmc_dataset_cmp
<1> QED BY <1>2, <1>3

(* A qualified record beats one that is not, in every comparison.          *)
LEMMA UnqualifiedLoses ==
  ASSUME NEW a, NEW b, NEW ebsrc, is_qualified(a, ebsrc), ~is_qualified(b, ebsrc)
  PROVE  bmc_gm_cmp(a, b, ebsrc) = -1 /\ bmc_dataset_cmp(a, b, ebsrc) = -1
<1>1. ~are_qualified(a, b, ebsrc) /\ QualifiedVerdict(a, b, ebsrc) = -1
  BY DEF are_qualified, QualifiedVerdict, Cmp
<1> QED BY <1>1 DEF bmc_gm_cmp, bmc_topology_cmp, bmc_dataset_cmp

(* The verdict on the qualification of two records is turned round with    *)
(* them.                                                                   *)
LEMMA CmpTurned ==
  ASSUME NEW x \in Int, NEW y \in Int
  PROVE  Cmp(y, x) = -Cmp(x, y)
BY DEF Cmp

(* So is the comparison of two port identities.                            *)
LEMMA PidTurned ==
  ASSUME NEW a \in PortIdentity, NEW b \in PortIdentity
  PROVE  bmc_pidcmp(b, a) = -bmc_pidcmp(a, b)
<1>1. {a[1], a[2], b[1], b[2]} \subseteq Int
  BY DEF PortIdentity, Identity
<1> QED BY <1>1 DEF bmc_pidcmp, bmc_idcmp, Cmp

(* The comparison of grand masters, as one lexicographic order.            *)
GmLess(a, b) ==
  \E i \in 1..6 : /\ GmField(a, i) < GmField(b, i)
                 /\ \A j \in 1..6 : j < i => GmField(a, j) = GmField(b, j)

(* The fields that bmc_gm_cmp() compares are numbers.                      *)
LEMMA GmFieldType ==
  ASSUME NEW r \in Record, NEW i \in 1..6
  PROVE  GmField(r, i) \in Nat
BY DEF GmField, Record, Quality, Identity

(* bmc_gm_cmp() of two qualified records, in terms of that order.          *)
LEMMA GmCmpOrder ==
  ASSUME NEW a \in Record, NEW b \in Record, NEW ebsrc, are_qualified(a, b, ebsrc)
  PROVE  /\ bmc_gm_cmp(a, b, ebsrc) < 0 => GmLess(a, b)
         /\ bmc_gm_cmp(a, b, ebsrc) > 0 => GmLess(b, a)
         /\ bmc_gm_cmp(a, b, ebsrc) = 0 => Differing(a, b) = {}
         /\ bmc_gm_cmp(a, b, ebsrc) \in {-1, 0, 1}
<1>1. CASE Differing(a, b) = {}
  <2>1. bmc_gm_cmp(a, b, ebsrc) = 0
    BY <1>1 DEF bmc_gm_cmp
  <2> QED BY <1>1, <2>1
<1>2. CASE Differing(a, b) # {}
  <2> DEFINE i == First(Differing(a, b))
  <2>1. i \in Differing(a, b) /\ \A j \in Differing(a, b) : i <= j
    <3>1. Differing(a, b) \subseteq Nat
      BY DEF Differing
    <3>2. \E m \in Differing(a, b) : \A k \in Differing(a, b) : m <= k
      BY <1>2, <3>1, LeastNatural
    <3> QED BY <3>2 DEF First
  <2>2. bmc_gm_cmp(a, b, ebsrc) = Cmp(GmField(a, i), GmField(b, i))
    BY <1>2 DEF bmc_gm_cmp
  <2> HIDE DEF i
  <2>3. i \in 1..6 /\ GmField(a, i) # GmField(b, i)
    BY <2>1 DEF Differing
  <2>4. \A j \in 1..6 : j < i => GmField(a, j) = GmField(b, j)
    BY <2>1, <2>3 DEF Differing
  <2>5. GmField(a, i) \in Nat /\ GmField(b, i) \in Nat
    BY <2>3, GmFieldType
  <2>6. CASE GmField(a, i) < GmField(b, i)
    <3>1. GmLess(a, b)
      BY <2>3, <2>4, <2>6 DEF GmLess
    <3> QED BY <2>2, <2>5, <2>6, <3>1 DEF Cmp
  <2>7. CASE GmField(b, i) < GmField(a, i)
    <3>1. GmLess(b, a)
      BY <2>3, <2>4, <2>7 DEF GmLess
    <3> QED BY <2>2, <2>5, <2>7, <3>1 DEF Cmp
  <2> QED BY <2>3, <2>5, <2>6, <2>7
<1> QED BY <1>1, <1>2

(* The order is transitive and never holds both ways.                      *)
LEMMA GmLessOrder ==
  ASSUME NEW a \in Record, NEW b \in Record, NEW c \in Record, GmLess(a, b)
  PROVE  /\ GmLess(b, c) => GmLess(a, c)
         /\ ~GmLess(b, a)
         /\ Differing(a, b) # {}
<1> DEFINE A(i) == GmField(a, i)
           B(i) == GmField(b, i)
           C(i) == GmField(c, i)
<1>0. \A i \in 1..6 : A(i) \in Nat /\ B(i) \in Nat /\ C(i) \in Nat
  BY GmFieldType
<1>1. PICK i \in 1..6 : A(i) < B(i) /\ \A j \in 1..6 : j < i => A(j) = B(j)
  BY DEF GmLess
<1>2. ASSUME GmLess(b, c) PROVE GmLess(a, c)
  <2>1. PICK k \in 1..6 : B(k) < C(k) /\ \A j \in 1..6 : j < k => B(j) = C(j)
    BY <1>2 DEF GmLess
  <2> HIDE DEF A, B, C
  <2> DEFINE m == IF i < k THEN i ELSE k
  <2>2. m \in 1..6 /\ A(m) < C(m) /\ \A j \in 1..6 : j < m => A(j) = C(j)
    BY <1>0, <1>1, <2>1
  <2> HIDE DEF m
  <2> USE DEF A, C
  <2> QED BY <2>2 DEF GmLess
<1>3. ASSUME GmLess(b, a) PROVE FALSE
  <2>1. PICK k \in 1..6 : B(k) < A(k) /\ \A j \in 1..6 : j < k => B(j) = A(j)
    BY <1>3 DEF GmLess
  <2> HIDE DEF A, B
  <2> QED BY <1>0, <1>1, <2>1
<1>4. i \in Differing(a, b)
  <2>1. A(i) # B(i)
    BY <1>0, <1>1
  <2> QED BY <2>1 DEF Differing
<1> QED BY <1>2, <1>3, <1>4

(* The comparison of paths, as one lexicographic order.                    *)
PathLess(a, b) ==
  \/ a.steps < b.steps
  \/ /\ a.steps = b.steps
     /\ \/ bmc_pidcmp(a.src, b.src) < 0
        \/ a.src = b.src /\ bmc_pidcmp(a.rx, b.rx) < 0

(* The order of port identities is transitive.                             *)
LEMMA PidTransitive ==
  ASSUME NEW a \in PortIdentity, NEW b \in PortIdentity, NEW c \in PortIdentity,
         bmc_pidcmp(a, b) < 0, bmc_pidcmp(b, c) < 0
  PROVE  bmc_pidcmp(a, c) < 0
<1>1. {a[1], a[2], b[1], b[2], c[1], c[2]} \subseteq Nat
  BY DEF PortIdentity, Identity
<1> QED BY <1>1 DEF bmc_pidcmp, bmc_idcmp, Cmp

(* bmc_topology_cmp() of two qualified records, in terms of that order.    *)
LEMMA TopologyOrder ==
  ASSUME NEW a \in Record, NEW b \in Record, NEW ebsrc, are_qualified(a, b, ebsrc),
         ~SelfSent(a), ~SelfSent(b)
  PROVE  bmc_topology_cmp(a, b, ebsrc) < 0 <=> PathLess(a, b)
<1> DEFINE tx == bmc_pidcmp(a.src, b.src)
           rx == bmc_pidcmp(a.rx, b.rx)
<1>1. a.steps \in Int /\ b.steps \in Int
  BY DEF Record, UInteger16
<1>2. tx = 0 <=> a.src = b.src
  BY PidCmp DEF Record
<1>3. tx \in Int /\ rx \in Int
  BY DEF bmc_pidcmp, bmc_idcmp, Cmp
<1>4. bmc_topology_cmp(a, b, ebsrc) =
        IF a.steps - b.steps = 1 THEN 1
        ELSE IF a.steps - b.steps = -1 THEN -1
        ELSE IF a.steps - b.steps # 0 THEN Cmp(a.steps - b.steps, 0)
        ELSE IF tx # 0 THEN tx ELSE rx
  BY DEF bmc_topology_cmp
<1>5. PathLess(a, b) <=> \/ a.steps < b.steps
                         \/ a.steps = b.steps /\ (tx < 0 \/ (a.src = b.src /\ rx < 0))
  BY DEF PathLess
<1> HIDE DEF tx, rx
<1> QED BY <1>1, <1>2, <1>3, <1>4, <1>5 DEF Cmp

(* It is transitive.                                                       *)
LEMMA PathTransitive ==
  ASSUME NEW a \in Record, NEW b \in Record, NEW c \in Record, PathLess(a, b), PathLess(b, c)
  PROVE  PathLess(a, c)
<1>1. /\ a.steps \in Int /\ b.steps \in Int /\ c.steps \in Int
      /\ {a.src, b.src, c.src, a.rx, b.rx, c.rx} \subseteq PortIdentity
  BY DEF Record, UInteger16
<1> DEFINE L(x, y) == bmc_pidcmp(x, y) < 0
<1>2. /\ L(a.src, b.src) /\ L(b.src, c.src) => L(a.src, c.src)
      /\ L(a.rx, b.rx) /\ L(b.rx, c.rx) => L(a.rx, c.rx)
  BY <1>1, PidTransitive
<1> HIDE DEF L
<1>3. \A x, y \in {a, b, c} :
        PathLess(x, y) <=> \/ x.steps < y.steps
                           \/ /\ x.steps = y.steps
                              /\ L(x.src, y.src) \/ (x.src = y.src /\ L(x.rx, y.rx))
  BY DEF PathLess, L
<1> QED BY <1>1, <1>2, <1>3

(* Swapping two records swaps the verdict of bmc_dataset_cmp(), qualified  *)
(* or not: of two clocks that compare the same two records no more than    *)
(* one prefers each.                                                       *)
THEOREM ComparisonAntisymmetric ==
  ASSUME NEW a \in Record, NEW b \in Record, NEW ebsrc
  PROVE  bmc_dataset_cmp(b, a, ebsrc) = -bmc_dataset_cmp(a, b, ebsrc)
<1>0. /\ a.gm \in Nat /\ b.gm \in Nat /\ a.steps \in Int /\ b.steps \in Int
      /\ {a.src, b.src, a.rx, b.rx} \subseteq PortIdentity
  BY DEF Record, Identity, UInteger16
<1>1. CASE ~are_qualified(a, b, ebsrc)
  <2>1. ~are_qualified(b, a, ebsrc) /\ QualifiedVerdict(b, a, ebsrc) = -QualifiedVerdict(a, b, ebsrc)
    BY <1>1 DEF are_qualified, QualifiedVerdict, Cmp
  <2> QED BY <1>1, <2>1 DEF bmc_dataset_cmp, bmc_topology_cmp, bmc_gm_cmp
<1>2. CASE are_qualified(a, b, ebsrc)
  <2>0. are_qualified(b, a, ebsrc)
    BY <1>2 DEF are_qualified
  <2>1. CASE a.gm = b.gm
    <3>1. bmc_idcmp(a.gm, b.gm) = 0 /\ bmc_idcmp(b.gm, a.gm) = 0
      BY <1>0, <2>1 DEF bmc_idcmp, Cmp
    <3> DEFINE tx == bmc_pidcmp(a.src, b.src)
               rx == bmc_pidcmp(a.rx, b.rx)
    <3>2. /\ bmc_pidcmp(b.src, a.src) = -tx /\ bmc_pidcmp(b.rx, a.rx) = -rx
          /\ tx \in Int /\ rx \in Int
      <4>1. tx \in Int /\ rx \in Int
        BY DEF bmc_pidcmp, bmc_idcmp, Cmp
      <4> QED BY <1>0, <4>1, PidTurned
    <3>3. bmc_topology_cmp(a, b, ebsrc) =
            IF a.steps - b.steps = 1 THEN IF SelfSent(a) THEN 0 ELSE 1
            ELSE IF a.steps - b.steps = -1 THEN IF SelfSent(b) THEN 0 ELSE -1
            ELSE IF a.steps - b.steps # 0 THEN Cmp(a.steps - b.steps, 0)
            ELSE IF tx # 0 THEN tx ELSE rx
      BY <1>2 DEF bmc_topology_cmp
    <3>4. bmc_topology_cmp(b, a, ebsrc) =
            IF b.steps - a.steps = 1 THEN IF SelfSent(b) THEN 0 ELSE 1
            ELSE IF b.steps - a.steps = -1 THEN IF SelfSent(a) THEN 0 ELSE -1
            ELSE IF b.steps - a.steps # 0 THEN Cmp(b.steps - a.steps, 0)
            ELSE IF -tx # 0 THEN -tx ELSE -rx
      BY <2>0, <3>2 DEF bmc_topology_cmp
    <3> HIDE DEF tx, rx
    <3>5. bmc_topology_cmp(b, a, ebsrc) = -bmc_topology_cmp(a, b, ebsrc)
      BY <1>0, <3>2, <3>3, <3>4 DEF Cmp
    <3> QED BY <3>1, <3>5 DEF bmc_dataset_cmp
  <2>2. CASE a.gm # b.gm
    <3>1. bmc_idcmp(a.gm, b.gm) # 0 /\ bmc_idcmp(b.gm, a.gm) # 0
      BY <1>0, <2>2 DEF bmc_idcmp, Cmp
    <3> DEFINE x == bmc_gm_cmp(a, b, ebsrc)
               y == bmc_gm_cmp(b, a, ebsrc)
    <3>2. x # 0 /\ y # 0
      BY <1>2, <2>0, <2>2, GmDecides
    <3>3. /\ x < 0 => GmLess(a, b)
          /\ x > 0 => GmLess(b, a)
          /\ y < 0 => GmLess(b, a)
          /\ y > 0 => GmLess(a, b)
          /\ x \in {-1, 0, 1} /\ y \in {-1, 0, 1}
      BY <1>2, <2>0, GmCmpOrder
    <3>4. ~(GmLess(a, b) /\ GmLess(b, a))
      BY GmLessOrder
    <3> HIDE DEF x, y
    <3>5. y = -x
      BY <3>2, <3>3, <3>4
    <3> QED BY <3>1, <3>5 DEF bmc_dataset_cmp, x, y
  <2> QED BY <2>1, <2>2
<1> QED BY <1>1, <1>2

-----------------------------------------------------------------------------
(* The selection of the best record.                                       *)

(* Records of one grand master agree on its quality.                       *)
OneQuality(tbl) ==
  \A i, j \in 1..Len(tbl) : tbl[i].gm = tbl[j].gm => tbl[i].q = tbl[j].q

(* a is strictly better than b.                                            *)
Beats(a, b, ebsrc) == bmc_dataset_cmp(a, b, ebsrc) < 0

(* Records that agree on the quality of a grand master are alike to        *)
(* bmc_gm_cmp().                                                           *)
LEMMA SameGm ==
  ASSUME NEW a \in Record, NEW b \in Record, NEW c \in Record, a.gm = b.gm, a.q = b.q
  PROVE  /\ GmLess(a, c) <=> GmLess(b, c)
         /\ GmLess(c, a) <=> GmLess(c, b)
<1>1. \A i \in 1..6 : GmField(a, i) = GmField(b, i)
  BY DEF GmField
<1> QED BY <1>1 DEF GmLess

(* What it means for one record to beat another.                           *)
LEMMA BeatsMeans ==
  ASSUME NEW a \in Record, NEW b \in Record, NEW ebsrc, ~SelfSent(a), ~SelfSent(b)
  PROVE  Beats(a, b, ebsrc) <=>
           /\ is_qualified(a, ebsrc)
           /\ is_qualified(b, ebsrc) =>
                IF a.gm = b.gm THEN PathLess(a, b) ELSE GmLess(a, b)
<1>0. a.gm \in Nat /\ b.gm \in Nat
  BY DEF Record, Identity
<1>1. CASE ~are_qualified(a, b, ebsrc)
  <2>1. bmc_dataset_cmp(a, b, ebsrc) = QualifiedVerdict(a, b, ebsrc)
    BY <1>1 DEF bmc_dataset_cmp, bmc_topology_cmp, bmc_gm_cmp
  <2>2. QualifiedVerdict(a, b, ebsrc) < 0 <=> is_qualified(a, ebsrc) /\ ~is_qualified(b, ebsrc)
    BY DEF QualifiedVerdict, Cmp
  <2> QED BY <1>1, <2>1, <2>2 DEF Beats, are_qualified
<1>2. CASE are_qualified(a, b, ebsrc) /\ a.gm = b.gm
  <2>1. bmc_idcmp(a.gm, b.gm) = 0
    BY <1>0, <1>2 DEF bmc_idcmp, Cmp
  <2> QED BY <1>2, <2>1, TopologyOrder DEF Beats, bmc_dataset_cmp, are_qualified
<1>3. CASE are_qualified(a, b, ebsrc) /\ a.gm # b.gm
  <2>1. bmc_idcmp(a.gm, b.gm) # 0
    BY <1>0, <1>3 DEF bmc_idcmp, Cmp
  <2> DEFINE x == bmc_gm_cmp(a, b, ebsrc)
  <2>2. /\ x < 0 => GmLess(a, b)
        /\ x > 0 => GmLess(b, a)
        /\ x # 0 /\ x \in {-1, 0, 1}
    BY <1>3, GmCmpOrder, GmDecides
  <2>3. ~(GmLess(a, b) /\ GmLess(b, a))
    BY GmLessOrder
  <2>4. bmc_dataset_cmp(a, b, ebsrc) = x
    BY <2>1 DEF bmc_dataset_cmp
  <2> HIDE DEF x
  <2> QED BY <1>3, <2>2, <2>3, <2>4 DEF Beats, are_qualified
<1> QED BY <1>1, <1>2, <1>3

(* Beating is transitive.                                                  *)
LEMMA BeatsTransitive ==
  ASSUME NEW a \in Record, NEW b \in Record, NEW c \in Record, NEW ebsrc,
         ~SelfSent(a), ~SelfSent(b), ~SelfSent(c),
         a.gm = b.gm => a.q = b.q, b.gm = c.gm => b.q = c.q, a.gm = c.gm => a.q = c.q,
         Beats(a, b, ebsrc), Beats(b, c, ebsrc)
  PROVE  Beats(a, c, ebsrc)
<1>1. /\ is_qualified(a, ebsrc) /\ is_qualified(b, ebsrc)
      /\ IF a.gm = b.gm THEN PathLess(a, b) ELSE GmLess(a, b)
  BY BeatsMeans
<1>2. CASE ~is_qualified(c, ebsrc)
  BY <1>1, <1>2, BeatsMeans
<1>3. CASE is_qualified(c, ebsrc)
  <2>1. IF b.gm = c.gm THEN PathLess(b, c) ELSE GmLess(b, c)
    BY <1>3, BeatsMeans
  <2>2. CASE a.gm = b.gm /\ b.gm = c.gm
    BY <1>1, <2>1, <2>2, PathTransitive, BeatsMeans
  <2>3. CASE a.gm = b.gm /\ b.gm # c.gm
    BY <1>1, <2>1, <2>3, SameGm, BeatsMeans
  <2>4. CASE a.gm # b.gm /\ b.gm = c.gm
    BY <1>1, <2>1, <2>4, SameGm, BeatsMeans
  <2>5. CASE a.gm # b.gm /\ b.gm # c.gm /\ a.gm # c.gm
    BY <1>1, <2>1, <2>5, GmLessOrder, BeatsMeans
  <2>6. CASE a.gm # b.gm /\ b.gm # c.gm /\ a.gm = c.gm
    <3>1. GmLess(a, b) /\ GmLess(b, a)
      BY <1>1, <2>1, <2>6, SameGm
    <3> QED BY <3>1, GmLessOrder
  <2> QED BY <2>2, <2>3, <2>4, <2>5, <2>6
<1> QED BY <1>2, <1>3

(* No record beats itself.                                                 *)
LEMMA BeatsIrreflexive ==
  ASSUME NEW a \in Record, NEW ebsrc
  PROVE  ~Beats(a, a, ebsrc)
<1>1. bmc_dataset_cmp(a, a, ebsrc) = -bmc_dataset_cmp(a, a, ebsrc)
  BY ComparisonAntisymmetric
<1>2. bmc_dataset_cmp(a, a, ebsrc) \in Int
  <2>1. \A x, y : Cmp(x, y) \in Int
    BY DEF Cmp
  <2>2. \A x, y : bmc_pidcmp(x, y) \in Int
    BY <2>1 DEF bmc_pidcmp, bmc_idcmp
  <2>3. bmc_topology_cmp(a, a, ebsrc) \in Int
    BY <2>1, <2>2 DEF bmc_topology_cmp, QualifiedVerdict
  <2>4. bmc_gm_cmp(a, a, ebsrc) \in Int
    BY <2>1 DEF bmc_gm_cmp, QualifiedVerdict
  <2> QED BY <2>3, <2>4 DEF bmc_dataset_cmp
<1> QED BY <1>1, <1>2 DEF Beats

(* The loop of bmc_update_erbest_inst() over a table of any size finds a   *)
(* qualified record when there is one, and no record beats the one found,  *)
(* wherever it lies and however unqualified records are mixed in; provided *)
(* that the records of one grand master agree on its quality and that none *)
(* was received by the port that sent it.                                  *)
THEOREM BestIsSelected ==
  ASSUME NEW tbl \in Seq(Record), NEW ebsrc, OneQuality(tbl),
         \A i \in 1..Len(tbl) : ~SelfSent(tbl[i])
  PROVE  LET e   == Erbest(tbl, ebsrc)
             fit == {i \in 1..Len(tbl) : is_qualified(tbl[i], ebsrc)}
         IN  IF fit = {} THEN e = 0
             ELSE e \in fit /\ \A i \in 1..Len(tbl) : ~Beats(tbl[i], tbl[e], ebsrc)
<1> DEFINE n     == Len(tbl)
           beats == Better(tbl, ebsrc)
           c     == Champion(n, beats)
<1>1. CASE tbl = << >>
  BY <1>1 DEF Erbest
<1>2. CASE tbl # << >>
  <2>1. n \in Nat \ {0}
    BY <1>2
  <2>2. \A i \in 1..n : tbl[i] \in Record
    OBVIOUS
  <2>3. \A i, j \in 1..n : <<i, j>> \in beats <=> Beats(tbl[i], tbl[j], ebsrc)
    BY DEF Better, Beats
  <2> HIDE DEF n, beats
  <2>4. \A i \in 1..n : <<i, i>> \notin beats
    BY <2>2, <2>3, BeatsIrreflexive
  <2>5. \A i, j, k \in 1..n : <<i, j>> \in beats /\ <<j, k>> \in beats => <<i, k>> \in beats
    BY <2>2, <2>3, BeatsTransitive DEF OneQuality, n
  <2>6. c \in 1..n /\ \A i \in 1..n : <<i, c>> \notin beats
    BY <2>1, <2>4, <2>5, ChampionUnbeaten, ChampionInRange
  <2> HIDE DEF c
  <2>7. \A i \in 1..n : ~Beats(tbl[i], tbl[c], ebsrc)
    BY <2>3, <2>6
  <2>8. Erbest(tbl, ebsrc) = IF is_qualified(tbl[c], ebsrc) THEN c ELSE 0
    BY <1>2 DEF Erbest, c, n, beats
  <2>9. ASSUME NEW i \in 1..n, is_qualified(tbl[i], ebsrc), ~is_qualified(tbl[c], ebsrc)
        PROVE  FALSE
    <3>1. Beats(tbl[i], tbl[c], ebsrc)
      BY <2>9, UnqualifiedLoses DEF Beats
    <3> QED BY <2>7, <3>1
  <2> USE DEF n
  <2>10. CASE is_qualified(tbl[c], ebsrc)
    BY <2>6, <2>7, <2>8, <2>10
  <2>11. CASE ~is_qualified(tbl[c], ebsrc)
    BY <2>8, <2>9, <2>11
  <2> QED BY <2>10, <2>11
<1> QED BY <1>1, <1>2

-----------------------------------------------------------------------------
(* The replacement of the worst record.                                    *)

(* A record taken as qualified is the same record to the comparisons but   *)
(* for its qualification.                                                  *)
LEMMA QualifiedRecord ==
  ASSUME NEW r \in Record
  PROVE  /\ Qualified(r) \in Record
         /\ Qualified(r).gm = r.gm /\ Qualified(r).q = r.q
         /\ SelfSent(Qualified(r)) <=> SelfSent(r)
  BY DEF Record, Qualified, SelfSent

(* Losing the comparison is being beaten.                                  *)
LEMMA LosesMeans ==
  ASSUME NEW a \in Record, NEW b \in Record, NEW ebsrc
  PROVE  bmc_dataset_cmp(a, b, ebsrc) > 0 <=> Beats(b, a, ebsrc)
<1>1. bmc_dataset_cmp(b, a, ebsrc) = -bmc_dataset_cmp(a, b, ebsrc)
  BY ComparisonAntisymmetric
<1>2. bmc_dataset_cmp(a, b, ebsrc) \in Int
  <2>1. \A x, y : Cmp(x, y) \in Int
    BY DEF Cmp
  <2>2. \A x, y : bmc_pidcmp(x, y) \in Int
    BY <2>1 DEF bmc_pidcmp, bmc_idcmp
  <2>3. bmc_topology_cmp(a, b, ebsrc) \in Int
    BY <2>1, <2>2 DEF bmc_topology_cmp, QualifiedVerdict
  <2>4. bmc_gm_cmp(a, b, ebsrc) \in Int
    BY <2>1 DEF bmc_gm_cmp, QualifiedVerdict
  <2> QED BY <2>3, <2>4 DEF bmc_dataset_cmp
<1> DEFINE x == bmc_dataset_cmp(a, b, ebsrc)
           y == bmc_dataset_cmp(b, a, ebsrc)
<1>3. x \in Int /\ y = -x
  BY <1>1, <1>2
<1> HIDE DEF x, y
<1>4. x > 0 <=> y < 0
  BY <1>3
<1> QED BY <1>4 DEF x, y, Beats

(* The loop of bmc_add_frgn_master() over a full table ends with a record  *)
(* that beats no other, all of them taken as qualified.                    *)
LEMMA WorstBeatsNone ==
  ASSUME NEW tbl \in Seq(Record), tbl # << >>, OneQuality(tbl),
         \A i \in 1..Len(tbl) : ~SelfSent(tbl[i])
  PROVE  /\ Worst(tbl) \in 1..Len(tbl)
         /\ \A i \in 1..Len(tbl) :
              ~Beats(Qualified(tbl[Worst(tbl)]), Qualified(tbl[i]), {})
<1> DEFINE n     == Len(tbl)
           loses == {ij \in (1..n) \X (1..n) :
                       bmc_dataset_cmp(Qualified(tbl[ij[1]]), Qualified(tbl[ij[2]]), {}) > 0}
           c     == Champion(n, loses)
           R(i)  == Qualified(tbl[i])
<1>1. n \in Nat \ {0}
  OBVIOUS
<1>2. \A i \in 1..n : tbl[i] \in Record
  OBVIOUS
<1>3. \A i \in 1..n : R(i) \in Record /\ ~SelfSent(R(i))
  BY <1>2, QualifiedRecord
<1>4. \A i, j \in 1..n : R(i).gm = R(j).gm => R(i).q = R(j).q
  BY <1>2, QualifiedRecord DEF OneQuality
<1>5. \A i, j \in 1..n : <<i, j>> \in loses <=> bmc_dataset_cmp(R(i), R(j), {}) > 0
  OBVIOUS
<1>6. Worst(tbl) = c
  BY DEF Worst
<1> HIDE DEF n, loses, R
<1>7. \A i, j \in 1..n : <<i, j>> \in loses <=> Beats(R(j), R(i), {})
  BY <1>3, <1>5, LosesMeans
<1>8. \A i \in 1..n : <<i, i>> \notin loses
  BY <1>3, <1>7, BeatsIrreflexive
<1>9. ASSUME NEW i \in 1..n, NEW j \in 1..n, NEW k \in 1..n,
             <<i, j>> \in loses, <<j, k>> \in loses
      PROVE  <<i, k>> \in loses
  <2>1. Beats(R(j), R(i), {}) /\ Beats(R(k), R(j), {})
    BY <1>7, <1>9
  <2>2. Beats(R(k), R(i), {})
    BY <1>3, <1>4, <2>1, BeatsTransitive
  <2> QED BY <1>7, <2>2
<1>10. c \in 1..n /\ \A i \in 1..n : <<i, c>> \notin loses
  BY <1>1, <1>8, <1>9, ChampionUnbeaten, ChampionInRange
<1> HIDE DEF c
<1>11. \A i \in 1..n : ~Beats(R(c), R(i), {})
  BY <1>7, <1>10
<1> QED BY <1>6, <1>10, <1>11 DEF n, R

(* The record a full table has no room for: the new one, or the one whose  *)
(* slot it gets.                                                           *)
Lost(tbl, new) == IF NewSlot(tbl, new) = 0 THEN new ELSE tbl[NewSlot(tbl, new)]

(* bmc_add_frgn_master() never gives up a record for a worse one: of the   *)
(* records of a full table and a new one, the one that is lost beats none  *)
(* of the others, all of them taken as qualified; provided that records of *)
(* one grand master agree on its quality and that none was received by the *)
(* port that sent it.                                                      *)
THEOREM WorstIsReplaced ==
  ASSUME NEW tbl \in Seq(Record), NEW new \in Record, Len(tbl) = NR, ~SingleFmaster,
         OneQuality(tbl), \A i \in 1..Len(tbl) : ~SelfSent(tbl[i]),
         \A i \in 1..Len(tbl) : tbl[i].gm = new.gm => tbl[i].q = new.q, ~SelfSent(new)
  PROVE  /\ \A i \in 1..Len(tbl) : ~Beats(Qualified(Lost(tbl, new)), Qualified(tbl[i]), {})
         /\ ~Beats(Qualified(Lost(tbl, new)), Qualified(new), {})
<1> DEFINE w == Worst(tbl)
           W == Qualified(tbl[w])
           N == Qualified(new)
<1>1. tbl # << >>
  BY NRAssumption
<1>2. w \in 1..Len(tbl) /\ \A i \in 1..Len(tbl) : ~Beats(W, Qualified(tbl[i]), {})
  BY <1>1, WorstBeatsNone
<1>3. NewSlot(tbl, new) = IF Beats(W, N, {}) THEN 0 ELSE w
  BY NRAssumption DEF NewSlot, Beats
<1>4. \A i \in 1..Len(tbl) : tbl[i] \in Record
  OBVIOUS
<1> HIDE DEF w
<1>5. CASE Beats(W, N, {})
  <2>1. Lost(tbl, new) = new
    BY <1>3, <1>5 DEF Lost
  <2>2. ~Beats(N, N, {})
    BY QualifiedRecord, BeatsIrreflexive
  <2>3. ASSUME NEW i \in 1..Len(tbl), Beats(N, Qualified(tbl[i]), {})
        PROVE  FALSE
    <3> DEFINE T == Qualified(tbl[i])
    <3>1. /\ W \in Record /\ N \in Record /\ T \in Record
          /\ ~SelfSent(W) /\ ~SelfSent(N) /\ ~SelfSent(T)
      BY <1>2, <1>4, QualifiedRecord
    <3>2. /\ W.gm = N.gm => W.q = N.q
          /\ N.gm = T.gm => N.q = T.q
          /\ W.gm = T.gm => W.q = T.q
      BY <1>2, <1>4, QualifiedRecord DEF OneQuality
    <3>3. Beats(W, N, {}) /\ Beats(N, T, {}) /\ ~Beats(W, T, {})
      BY <1>2, <1>5, <2>3
    <3> HIDE DEF W, N, T
    <3> QED BY <3>1, <3>2, <3>3, BeatsTransitive
  <2> QED BY <2>1, <2>2, <2>3
<1>6. CASE ~Beats(W, N, {})
  <2>1. NewSlot(tbl, new) = w /\ w # 0
    BY <1>2, <1>3, <1>6
  <2>2. Lost(tbl, new) = tbl[w]
    BY <2>1 DEF Lost
  <2> QED BY <1>2, <1>6, <2>2
<1> QED BY <1>5, <1>6
=============================================================================
