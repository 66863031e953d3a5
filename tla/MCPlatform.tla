----------------------------- MODULE MCPlatform -----------------------------
(***************************************************************************)
(* What the protocol stands on, for its safety: timers, main loops, the    *)
(* drivers, the simulator, the connections with other programs, the clock  *)
(* under the clock, the start.  subject says which part a behaviour is of; *)
(* the others stay in their first state.                                   *)
(***************************************************************************)
EXTENDS MainLoop, LeapSecond, HwTime, Startup, MemRpc, ClockQuality, WrpcMode, Shm, MiniRpc, Timeout,
        NetDriver, Simulator

VARIABLE subject

(* The clock classes with something to degrade and one without; with the   *)
(* defaults of the class and with attributes worse than its degraded ones. *)
ByDefault == [f \in {"class", "accuracy", "variance", "source", "ptp", "freq", "time"} |-> -1]
Qualities == {[ByDefault EXCEPT !.class = k] : k \in {6, 7, 13, 58, 193, 248}}
        \cup {[ByDefault EXCEPT !.class = k, !.accuracy = 34, !.freq = 0] : k \in {6, 13}}

NetDrivers == {<<"wrs", "RAW">>, <<"wrs", "VLAN">>, <<"wrs", "UDP">>, <<"unix", "VLAN">>,
               <<"unix", "UDP">>, <<"bare", "RAW">>, <<"wrpc", "RAW">>}

SimTimes == [sync |-> {4}, ann |-> {8}, req |-> {3, 5}, bmc |-> {8}]

(* Constants of the configuration that are no plain values.                *)
AnyLeap == {-1, 0, 1}
TimerLogs == {-2, -1, 1}
MinLog == -1
PortNames == <<"a", "b", "c">>
TwoVlans == <<10, 20>>
Numbered(word, V) == {[kw |-> word, v |-> v] : v \in V}
ConfLines ==
       [kw : {"port"}, name : Names]
  \cup Numbered("opt", {1, 9}) \cup Numbered("glob", {2}) \cup Numbered("proto", {"UDP"})
  \cup Numbered("profile", {"WR"}) \cup Numbered("diag", {2}) \cup Numbered("servo", {0})
  \cup {[kw |-> "vlan", ids |-> <<9>>, rest |-> "end"], [kw |-> "vlan", ids |-> <<1>>, rest |-> "comma"]}
  \cup [kw : {"bad", "blank", "empty", "comment"}]

-----------------------------------------------------------------------------
(* Of its first states the one in which a part rests, where it has many.   *)
TmFirst == tmNow = 0 /\ \A p \in Ports, i \in Timers : tmo[p][i].rand = "NONE"
CqFirst == cqCfg["class"] = 7
MrFirst == mrServer.hosted
MlFirst == mlKind = "unix" /\ mlDelay = Max(Delays)
LsFirst == lsLeap = 0
HwFirst == hwNow = 0
NdFirst == nd.driver = "wrpc"
SmFirst == sm.update = 0
SuFirst == suArch = "unix" /\ ~suFile

PlatformInit ==
  /\ subject \in {"tm", "cq", "sh", "rp", "mr", "sm", "nd", "wp", "ml", "ls", "hw", "su"}
  /\ TmInit /\ (subject # "tm" => TmFirst)
  /\ CqInit /\ (subject # "cq" => CqFirst)
  /\ MrInit /\ (subject # "mr" => MrFirst)
  /\ MlInit /\ (subject # "ml" => MlFirst)
  /\ LsInit /\ (subject # "ls" => LsFirst)
  /\ HwInit /\ (subject # "hw" => HwFirst)
  /\ SmInit /\ (subject # "sm" => SmFirst)
  /\ NdInit /\ (subject # "nd" => NdFirst)
  /\ SuInit /\ (subject # "su" => SuFirst)
  /\ ShInit /\ RpInit /\ WpInit

(* A step of one part; the others do not change.                           *)
PlatformNext ==
  /\ UNCHANGED subject
  /\ \/ subject = "tm" /\ TmNext
     \/ subject # "tm" /\ UNCHANGED tmVars
  /\ \/ subject = "cq" /\ CqNext
     \/ subject # "cq" /\ UNCHANGED cqVars
  /\ \/ subject = "sh" /\ ShNext
     \/ subject # "sh" /\ UNCHANGED shVars
  /\ \/ subject = "rp" /\ RpNext
     \/ subject # "rp" /\ UNCHANGED rpVars
  /\ \/ subject = "mr" /\ MrNext
     \/ subject # "mr" /\ UNCHANGED mrVars
  /\ \/ subject = "sm" /\ SmNext
     \/ subject # "sm" /\ UNCHANGED smVars
  /\ \/ subject = "nd" /\ NdNext
     \/ subject # "nd" /\ UNCHANGED ndVars
  /\ \/ subject = "wp" /\ WpNext
     \/ subject # "wp" /\ UNCHANGED wpVars
  /\ \/ subject = "ml" /\ MlNext
     \/ subject # "ml" /\ UNCHANGED mlVars
  /\ \/ subject = "ls" /\ LsNext
     \/ subject # "ls" /\ UNCHANGED lsVars
  /\ \/ subject = "hw" /\ HwNext
     \/ subject # "hw" /\ UNCHANGED hwVars
  /\ \/ subject = "su" /\ SuNext
     \/ subject # "su" /\ UNCHANGED suVars

PlatformSpec ==
  PlatformInit /\ [][PlatformNext]_<<subject, tmVars, cqVars, shVars, rpVars, mrVars, smVars, ndVars,
                                     wpVars, mlVars, lsVars, hwVars, suVars>>

=============================================================================
