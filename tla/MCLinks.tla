------------------------------ MODULE MCLinks -------------------------------
(***************************************************************************)
(* Two protocols between the ports of a link, for their safety: the White  *)
(* Rabbit handshake of WrLink and the measurement of DelayExchange.        *)
(* subject says which one a behaviour is of; the other one stays in one of *)
(* its first states.                                                       *)
(***************************************************************************)
EXTENDS WrLink, DelayExchange

VARIABLE subject

(* How to start: mechanism, external port configuration and the masters.   *)
TwoMasters == {"A", "B"}
LinkModes  == {<<"E2E", FALSE, TwoMasters>>, <<"P2P", FALSE, TwoMasters>>, <<"P2P", TRUE, {"A"}>>}

WrFirst == port["M"].wr /\ port["M"].fallback
DxFirst == dxMode = <<"E2E", FALSE, TwoMasters>>

LinksInit ==
  /\ subject \in {"wr", "dx"}
  /\ Init /\ (subject # "wr" => WrFirst)
  /\ DxInit /\ (subject # "dx" => DxFirst)

LinksNext ==
  /\ UNCHANGED subject
  /\ \/ subject = "wr" /\ Next /\ UNCHANGED dxVars
     \/ subject = "dx" /\ DxNext /\ UNCHANGED vars

LinksSpec == LinksInit /\ [][LinksNext]_<<subject, vars, dxVars>>
=============================================================================
