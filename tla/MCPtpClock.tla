----------------------------- MODULE MCPtpClock -----------------------------
(* Instances of PtpClock for TLC.  This clock has identity 5.              *)
EXTENDS PtpClock

Q(p1, class) == <<p1, class, 32, 0, 128>>
Ann(clk, gm, q, st) == [src |-> <<clk, 1>>, gm |-> gm, q |-> q, steps |-> st]

MCQuality        == {Q(128, 187)}
SlaveOnlyQuality == {Q(128, 255)}

\* A grand master, the same one heard through another boundary clock, one of
\* lower class, and a clock that is worse than this one.
GrandMaster == Ann(1, 1, Q(128, 6), 0)
Relayed     == Ann(3, 1, Q(128, 6), 1)
SecondBest  == Ann(2, 2, Q(127, 248), 0)
WorseClock  == Ann(9, 9, Q(128, 248), 0)

\* The states configured for the ports (of interest with EPC only).
MCDesired   == [p \in Port |-> "MASTER"]
EpcDesired  == <<"UNCALIBRATED", "MASTER", "SLAVE">>
EpcFollower == <<"MASTER", "SLAVE">>

\* Memory in front of a table: it may look like an unqualified record or like
\* a qualified one that is better than this clock.
MCPhantoms == {[src |-> <<77, 7>>, rx |-> <<0, 0>>, gm |-> 77, q |-> Q(0, 0),
                steps |-> 0, qualified |-> b, aged |-> FALSE] : b \in BOOLEAN}

\* What each port may hear.
ThreePaths   == <<{GrandMaster}, {Relayed}, {GrandMaster, SecondBest}>>
Crowd        == <<{GrandMaster, SecondBest, WorseClock}, {Relayed}>>
OneLan       == <<{GrandMaster}, {GrandMaster}>>
WorseOnLan   == <<{WorseClock}, {WorseClock}>>
FarMaster    == <<{Relayed}, {GrandMaster}>>
OneMaster    == <<{GrandMaster}>>
Nobody       == [p \in Port |-> {}]

\* The cables between ports of this clock.
LoopBack == {<<1, 2>>}
BothWays == {<<1, 2>>, <<2, 1>>}
=============================================================================
