------------------------------ MODULE MCSettle ------------------------------
(***************************************************************************)
(* Two clocks that must settle while their masters announce steadily: one  *)
(* with two ports in the network of a worse clock (kind "loop", the clock  *)
(* of the configuration), one that hears a master over two paths (kind     *)
(* "paths").  They differ in what a port may receive and in nothing else.  *)
(***************************************************************************)
EXTENDS MCPtpClock

VARIABLE kind

Far == INSTANCE PtpClock WITH Announces <- FarMaster, Loops <- {}

SettleInit == Init /\ kind \in {"loop", "paths"}

SettleNext == /\ UNCHANGED kind
              /\ \/ kind = "loop" /\ Next
                 \/ kind = "paths" /\ Far!Next

(* The master of port p, of which each clock has one, announces steadily,  *)
(* and so does a MASTER port of the clock that port p hears.               *)
MasterAnnounces(p) ==
  \E a \in IF kind = "loop" THEN Announces[p] ELSE FarMaster[p] : Announced(p, a)

SettleSpec ==
  /\ SettleInit /\ [][SettleNext]_<<vars, kind>>
  /\ Fairness
  /\ \A p \in Steady : SF_vars(MasterAnnounces(p))
  /\ \A lp \in Loops : SF_vars(kind = "loop" /\ OwnAnnounced(lp[1], lp[2]))

-----------------------------------------------------------------------------
(* Two ports of this clock on one network do not both stay masters of it:  *)
(* the better port ends up MASTER, the one that hears it PASSIVE           *)
(* (bmc_check_frgn_master()).                                              *)
LoopSettles == <>[](kind = "loop" => LoopsQuiet)

(* While the masters announce steadily the clock settles on the best one,  *)
(* whatever was lost or out of sequence before (bmc_calculate_ebest()).    *)
PathsSettle ==
  <>[](kind = "paths" => \A p \in Port : \A a \in FarMaster[p] :
                           Far!BestAnnounced(p, a) => SettledOn(p, a))
=============================================================================
