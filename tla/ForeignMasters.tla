--------------------------- MODULE ForeignMasters ---------------------------
(***************************************************************************)
(* The foreign master table of one port (ppi->frgn_master, frgn_rec_num,   *)
(* frgn_rec_best) and the functions of proto-standard/bmc.c that change it.*)
(*                                                                         *)
(* A table is a sequence of at most NR records, Len(tbl) is frgn_rec_num;  *)
(* best is frgn_rec_best counted from 1, 0 standing for -1.  A record is   *)
(* that of DatasetCmp plus                                                 *)
(*   aged   lastAnnounceMsgMs lies further back than the time window:      *)
(*          time only ever matters to the table through this comparison.   *)
(***************************************************************************)
EXTENDS DatasetCmp, SequencesExt

(* The contents of an Announce message and the record made of it.          *)
Announce == [src : PortIdentity, gm : Identity, q : Quality, steps : UInteger16]

Record == [src : PortIdentity, rx : PortIdentity, gm : Identity, q : Quality,
           steps : UInteger16, qualified : BOOLEAN, aged : BOOLEAN]

CONSTANTS NR,            \* PP_NR_FOREIGN_RECORDS
          SingleFmaster  \* CONFIG_HAS_CODEOPT_SINGLE_FMASTER

ASSUME NRAssumption == NR \in Nat \ {0}
ASSUME SingleFmasterAssumption == SingleFmaster \in BOOLEAN

(* bmc_store_frgn_master(): the record made of an Announce received on rx. *)
bmc_store_frgn_master(ann, rx) ==
  [src |-> ann.src, rx |-> rx, gm |-> ann.gm, q |-> ann.q, steps |-> ann.steps,
   qualified |-> FALSE, aged |-> FALSE]

(* Mutant: the loop stops one record early.                                *)
Known_NotLast(tbl, src) == {i \in 1..(Len(tbl) - 1) : tbl[i].src = src}

(* The positions of the records of source src.                             *)
Known(tbl, src) == {i \in 1..Len(tbl) : tbl[i].src = src}

(* Mutant: the window comparison is the wrong way round.                   *)
Updated_LateQualifies(old, new, inSeq) ==
  [new EXCEPT !.qualified = IF inSeq THEN old.aged ELSE old.qualified,
              !.aged      = ~inSeq /\ old.aged]

(* "already in Foreign master data set, update info": the contents are     *)
(* replaced; an Announce in sequence also re-evaluates the qualification.  *)
Updated(old, new, inSeq) ==
  [new EXCEPT !.qualified = IF inSeq THEN ~old.aged ELSE old.qualified,
              !.aged      = ~inSeq /\ old.aged]

(* The slot a source that is not in the table gets: a free one, the worst  *)
(* record's when the table is full and that record is no better, else none.*)
NewSlot(tbl, new) ==
  IF SingleFmaster THEN 1
  ELSE IF Len(tbl) < NR THEN Len(tbl) + 1
  ELSE IF bmc_dataset_cmp(Qualified(tbl[Worst(tbl)]), Qualified(new), {}) < 0 THEN 0
  ELSE Worst(tbl)

Put(tbl, i, r) == [j \in 1..(IF i > Len(tbl) THEN i ELSE Len(tbl)) |->
                     IF j = i THEN r ELSE tbl[j]]

(* The table part of bmc_add_frgn_master(): the new table and the slot the *)
(* function returns a pointer to (0: NULL, also for a known source).       *)
Stored(tbl, new, inSeq) ==
  LET UpdatedAt(i) == [tbl |-> Put(tbl, i, Updated(tbl[i], new, inSeq)), sel |-> 0]
      StoredAt(i)  == [tbl |-> IF i = 0 THEN tbl ELSE Put(tbl, i, new), sel |-> i]
  IN  IF Known(tbl, new.src) # {} THEN UpdatedAt(First(Known(tbl, new.src)))
      ELSE StoredAt(NewSlot(tbl, new))

(* Mutant: frgn_rec_best is left alone when records move.                  *)
BestAfterRemove_NoShift(best, i) == best

(* bmc_remove_foreign_master(): where frgn_rec_best points after record i  *)
(* is removed and the ones behind it have moved up.                        *)
BestAfterRemove(best, i) ==
  IF best = i THEN 0 ELSE IF best > i THEN best - 1 ELSE best

(* bmc_flush_erbest(): the table without the record best points at.        *)
FlushErbest(tbl, best) ==
  IF best # 0 /\ best <= Len(tbl) THEN RemoveAt(tbl, best) ELSE tbl
=============================================================================
