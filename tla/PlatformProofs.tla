--------------------------- MODULE PlatformProofs ---------------------------
(***************************************************************************)
(* Proofs about parts of the platform: remote calls through shared memory, *)
(* the quality the clock announces, the mode of the White Rabbit node, the *)
(* main loops, the clock under the clock, the timers, the configuration,   *)
(* the network drivers, the simulator and the arithmetic of times.         *)
(***************************************************************************)
EXTENDS MemRpc, ClockQuality, WrpcMode, MainLoop, HwTime, Timeout, Startup, NetDriver, Simulator,
        TimeArith, TimeOps, FiniteSetTheorems, WellFoundedInduction, TLAPS

-----------------------------------------------------------------------------
(* mini-rpc over shared memory.                                            *)

MrTypeOK ==
  /\ mrShm \in [nrequest : Nat, nreply : Nat, name : Nat, args : Nat, reply : Nat \X Nat]
  /\ mrServer \in [hosted : BOOLEAN, pc : {"idle", "run", "reply"}, name : Nat, prev : Nat,
                   bytes : Nat]
  /\ mrClient \in [pc : {"ready", "args", "count", "poll"}, n : Nat, late : Nat, prev : Nat,
                   bytes : Nat, took : Nat \X Nat]

(* The server has dealt with k requests and looks for the next.            *)
ServerIdle(k) ==
  mrServer.pc = "idle" /\ mrServer.prev = k /\ mrServer.bytes = 0

(* The client's child has seen k answers, and the client has taken them.   *)
ClientSaw(k) == mrClient.prev = k /\ mrClient.bytes = 0

(* Between two calls, and while the next one is being written: k calls     *)
(* were made and answered.                                                 *)
Settled(k) ==
  /\ mrShm.nrequest = k /\ mrShm.nreply = k
  /\ ServerIdle(k) /\ ClientSaw(k)

(* Call k is under way: not seen yet, in the pipe of the server's child,   *)
(* in the hands of the server, answered, in the pipe of the client's.      *)
UnderWay(k) ==
  /\ mrShm.nrequest = k /\ mrShm.name = k /\ mrShm.args = k
  /\ \/ /\ mrShm.nreply = k - 1 /\ ClientSaw(k - 1)
        /\ \/ ServerIdle(k - 1)
           \/ mrServer.hosted /\ mrServer.pc = "idle" /\ mrServer.prev = k /\ mrServer.bytes = 1
           \/ mrServer.pc = "run" /\ mrServer.name = k /\ mrServer.prev = k /\ mrServer.bytes = 0
           \/ /\ mrServer.pc = "reply" /\ mrServer.prev = k /\ mrServer.bytes = 0
              /\ mrShm.reply = <<k, k>>
     \/ /\ mrShm.nreply = k /\ ServerIdle(k) /\ mrShm.reply = <<k, k>>
        /\ ClientSaw(k - 1) \/ (mrClient.prev = k /\ mrClient.bytes = 1)

(* The inductive invariant: where the two sides are, as long as no call    *)
(* has timed out.                                                          *)
Stages ==
  mrClient.late = 0 =>
    \/ mrClient.pc = "ready" /\ Settled(mrClient.n) /\ mrClient.took = <<mrClient.n, mrClient.n>>
    \/ /\ mrClient.pc = "args" /\ mrClient.n > 0 /\ Settled(mrClient.n - 1)
       /\ mrShm.name = mrClient.n
    \/ /\ mrClient.pc = "count" /\ mrClient.n > 0 /\ Settled(mrClient.n - 1)
       /\ mrShm.name = mrClient.n /\ mrShm.args = mrClient.n
    \/ mrClient.pc = "poll" /\ mrClient.n > 0 /\ UnderWay(mrClient.n)

MrInv == MrTypeOK /\ Stages

(* Every step keeps the types.                                             *)
LEMMA MrTypes ==
  ASSUME MrTypeOK, [MrNext]_mrVars
  PROVE  MrTypeOK'
<1> USE DEF MrTypeOK
<1>0. /\ mrShm.nrequest \in Nat /\ mrShm.nreply \in Nat /\ mrShm.reply \in Nat \X Nat
      /\ mrShm.name \in Nat /\ mrShm.args \in Nat
      /\ mrServer.prev \in Nat /\ mrServer.bytes \in Nat /\ mrServer.name \in Nat
      /\ mrClient.n \in Nat /\ mrClient.late \in Nat /\ mrClient.prev \in Nat
      /\ mrClient.bytes \in Nat
  OBVIOUS
<1>1. CASE CallName
  <2>1. mrClient.n + 1 \in Nat
    BY <1>0
  <2> QED BY <1>1, <2>1 DEF CallName
<1>2. CASE CallArgs
  BY <1>2 DEF CallArgs
<1>3. CASE CallCount
  BY <1>3 DEF CallCount
<1>4. CASE TakeReply
  <2>1. mrClient.bytes - 1 \in Nat
    BY <1>0, <1>4 DEF TakeReply
  <2> QED BY <1>0, <1>4, <2>1 DEF TakeReply
<1>5. CASE CallTimesOut
  <2>1. mrClient.late + 1 \in Nat
    BY <1>0
  <2> QED BY <1>5, <2>1 DEF CallTimesOut
<1>6. CASE ClientChild
  <2>1. mrClient.bytes + 1 \in Nat /\ mrClient.prev + 1 \in Nat
    BY <1>0
  <2> QED BY <1>6, <2>1 DEF ClientChild, Reported
<1>7. CASE ServerChild
  <2>1. mrServer.bytes + 1 \in Nat /\ mrServer.prev + 1 \in Nat
    BY <1>0
  <2> QED BY <1>7, <2>1 DEF ServerChild, Reported
<1>8. CASE TakeRequest
  <2>1. CASE mrServer.hosted /\ mrServer.bytes > 0
    <3>1. mrServer.bytes - 1 \in Nat
      BY <1>0, <2>1
    <3> QED BY <1>0, <1>8, <2>1, <3>1 DEF TakeRequest
  <2>2. CASE ~mrServer.hosted
    BY <1>0, <1>8, <2>2 DEF TakeRequest
  <2> QED BY <1>8, <2>1, <2>2 DEF TakeRequest
<1>9. CASE RunFunction
  BY <1>9 DEF RunFunction
<1>10. CASE CountReply
  BY <1>10 DEF CountReply
<1>11. CASE UNCHANGED mrVars
  BY <1>11 DEF mrVars
<1> QED BY <1>1, <1>2, <1>3, <1>4, <1>5, <1>6, <1>7, <1>8, <1>9, <1>10, <1>11 DEF MrNext

(* Every step moves the two sides from one stage to the next.              *)
LEMMA MrStages ==
  ASSUME MrInv, [MrNext]_mrVars
  PROVE  Stages'
<1> USE DEF MrInv, MrTypeOK, Stages, Settled, UnderWay, ServerIdle, ClientSaw
<1>1. CASE CallName
  BY <1>1 DEF CallName
<1>2. CASE CallArgs
  BY <1>2 DEF CallArgs
<1>3. CASE CallCount
  BY <1>3 DEF CallCount
<1>4. CASE TakeReply
  BY <1>4 DEF TakeReply
<1>5. CASE CallTimesOut
  BY <1>5 DEF CallTimesOut
<1>6. CASE ClientChild
  BY <1>6 DEF ClientChild, Reported
<1>7. CASE ServerChild
  BY <1>7 DEF ServerChild, Reported
<1>8. CASE TakeRequest
  <2>1. /\ mrServer.pc = "idle" /\ mrServer.prev \in Nat /\ mrServer.bytes \in Nat
        /\ mrServer'.hosted = mrServer.hosted /\ mrServer'.pc = "run"
        /\ mrServer'.name = mrShm.name /\ mrShm' = mrShm /\ mrClient' = mrClient
    BY <1>8 DEF TakeRequest
  <2>2. \/ /\ mrServer.hosted /\ mrServer.bytes > 0
           /\ mrServer'.bytes = mrServer.bytes - 1 /\ mrServer'.prev = mrServer.prev
        \/ /\ ~mrServer.hosted /\ mrShm.nrequest # mrServer.prev
           /\ mrServer'.bytes = mrServer.bytes /\ mrServer'.prev = mrShm.nrequest
    BY <1>8 DEF TakeRequest
  <2>3. mrClient.late = 0 =>
          /\ mrClient.pc = "poll" /\ mrClient.n > 0 /\ UnderWay(mrClient.n)
          /\ mrShm.nreply = mrClient.n - 1 /\ ClientSaw(mrClient.n - 1)
          /\ mrServer'.prev = mrClient.n /\ mrServer'.bytes = 0
    BY <2>1, <2>2
  <2> QED BY <2>1, <2>3
<1>9. CASE RunFunction
  BY <1>9 DEF RunFunction
<1>10. CASE CountReply
  BY <1>10 DEF CountReply
<1>11. CASE UNCHANGED mrVars
  BY <1>11 DEF mrVars
<1> QED BY <1>1, <1>2, <1>3, <1>4, <1>5, <1>6, <1>7, <1>8, <1>9, <1>10, <1>11 DEF MrNext

(* As long as no call has timed out, every answer taken is that of the     *)
(* call that waits for it, made from the name and the arguments of one     *)
(* call, with any number of calls and with either kind of server           *)
(* (minipc-mem-server.c, minipc-mem-client.c).                             *)
THEOREM AnswersInStep == MrSpec => []InStep
<1>1. MrInit => MrInv
  BY HostedAssumption DEF MrInit, MrInv, MrTypeOK, Stages, Settled, ServerIdle, ClientSaw
<1>2. MrInv /\ [MrNext]_mrVars => MrInv'
  BY MrTypes, MrStages DEF MrInv
<1>3. MrInv => InStep
  BY DEF MrInv, MrTypeOK, Stages, InStep
<1> QED BY <1>1, <1>2, <1>3, PTL DEF MrSpec

-----------------------------------------------------------------------------
(* The quality the clock announces.                                        *)

CqInv == /\ cqCfg \in [Fields -> Int]
         /\ cqAttr \in [Fields -> Int]
         /\ NeverBetterThanConfigured

(* The degraded attributes of a class are numbers; a degraded class is no  *)
(* better than the class, and no flag is more than 1.                      *)
LEMMA Degradation ==
  ASSUME NEW class \in Int, NEW mode
  PROVE  /\ clockDegradation(class, mode) \in [Fields -> Int]
         /\ clockDegradation(class, mode)["class"] >= class
         /\ \A f \in Flags : clockDegradation(class, mode)[f] <= 1
BY DEF clockDegradation, Attrs, Fields, Flags, UNKNOWN, INT_OSC

(* What an attribute is set to when the lock is lost is no better than     *)
(* configured.                                                             *)
LEMMA DegradedWorse ==
  ASSUME CqInv, NEW d \in [Fields -> Int], d["class"] >= cqCfg["class"],
         \A f \in Flags : d[f] <= 1, NEW f \in Fields
  PROVE  /\ Degraded(d, f) \in Int
         /\ f \notin Flags => Degraded(d, f) >= cqCfg[f]
         /\ f \in Flags => Degraded(d, f) <= cqCfg[f]
<1>1. /\ d[f] \in Int /\ cqCfg[f] \in Int /\ cqAttr[f] \in Int
      /\ f \notin Flags => cqAttr[f] >= cqCfg[f]
      /\ f \in Flags => cqAttr[f] <= cqCfg[f] /\ d[f] <= 1
  BY DEF CqInv, NeverBetterThanConfigured
<1>2. "class" \notin Flags
  BY DEF Flags
<1> QED BY <1>1, <1>2 DEF Degraded

(* Whatever sequence of lock losses the clock has seen, with any           *)
(* configuration, no attribute it announces is better than the configured  *)
(* one (bmc_update_clock_quality()).                                       *)
THEOREM DegradationSound == CqSpec => []NeverBetterThanConfigured
<1>1. CqInit => CqInv
  <2> SUFFICES ASSUME CqInit PROVE CqInv
    OBVIOUS
  <2>1. PICK c \in CqConfigs : cqCfg = bmc_set_default_device_attributes(c)
    BY DEF CqInit
  <2>2. c \in [Fields -> Int]
    BY CqConfigsAssumption
  <2>3. defaultDeviceAttributes(c.class) \in [Fields -> Int]
    <3>1. c.class \in Int
      BY <2>2 DEF Fields
    <3> QED BY <3>1 DEF defaultDeviceAttributes, Attrs, Fields, UNKNOWN, INT_OSC
  <2>4. cqCfg \in [Fields -> Int]
    BY <2>1, <2>2, <2>3 DEF bmc_set_default_device_attributes
  <2>5. cqAttr = cqCfg
    BY DEF CqInit, bmc_apply_configured_device_attributes
  <2> QED BY <2>4, <2>5 DEF CqInv, NeverBetterThanConfigured, Flags, Fields
<1>2. CqInv /\ [CqNext]_cqVars => CqInv'
  <2> SUFFICES ASSUME CqInv, [CqNext]_cqVars PROVE CqInv'
    OBVIOUS
  <2>1. CASE UNCHANGED cqVars
    BY <2>1 DEF cqVars, CqInv, NeverBetterThanConfigured
  <2>2. ASSUME NEW mode \in {"LOCKED", "HOLDOVER", "UNLOCKED"}, bmc_update_clock_quality(mode)
        PROVE  CqInv'
    <3>1. cqCfg' = cqCfg /\ cqLast' = mode /\ cqCfg \in [Fields -> Int]
      BY <2>2 DEF bmc_update_clock_quality, CqInv
    <3>2. CASE mode = "LOCKED"
      <4>1. cqAttr' = cqCfg
        BY <2>2, <3>2 DEF bmc_update_clock_quality, bmc_apply_configured_device_attributes
      <4> QED BY <3>1, <4>1 DEF CqInv, NeverBetterThanConfigured, Flags, Fields
    <3>3. CASE mode # "LOCKED"
      <4> DEFINE d == clockDegradation(cqCfg.class, mode)
      <4>1. cqAttr' = [f \in Fields |-> Degraded(d, f)]
        BY <2>2, <3>3 DEF bmc_update_clock_quality
      <4>2. /\ d \in [Fields -> Int] /\ d["class"] >= cqCfg["class"]
            /\ \A f \in Flags : d[f] <= 1
        <5>1. cqCfg.class \in Int
          BY <3>1 DEF Fields
        <5> QED BY <5>1, Degradation
      <4> HIDE DEF d
      <4>3. \A f \in Fields : /\ Degraded(d, f) \in Int
                              /\ f \notin Flags => Degraded(d, f) >= cqCfg[f]
                              /\ f \in Flags => Degraded(d, f) <= cqCfg[f]
        BY <4>2, DegradedWorse
      <4>4. Flags \subseteq Fields
        BY DEF Flags, Fields
      <4> QED BY <3>1, <3>3, <2>2, <4>1, <4>3, <4>4 DEF CqInv, NeverBetterThanConfigured
    <3> QED BY <3>2, <3>3
  <2> QED BY <2>1, <2>2 DEF CqNext
<1>3. CqInv => NeverBetterThanConfigured
  BY DEF CqInv
<1> QED BY <1>1, <1>2, <1>3, PTL DEF CqSpec
-----------------------------------------------------------------------------
(* The mode of the White Rabbit node.                                      *)

Modes == {"GM", "ABSCAL", "MASTER", "SLAVE", "UNKNOWN"}
Timings == {"DISABLED", "GRAND_MASTER", "FREE_MASTER", "BOUNDARY_CLOCK"}
Plls == [mode : {"off", "GRAND_MASTER", "FREE_RUNNING", "SLAVE"}, locked : BOOLEAN]
Outputs == [enable : BOOLEAN, force : BOOLEAN]
NodePorts == [enabled : BOOLEAN, state : PortStates]
Nodes == [mode : Modes, timing : Timings, pll : Plls, out : Outputs, port : NodePorts]

(* The inductive invariant.  A master whose PLL follows the fibre knows it *)
(* (timing mode), which is what the code that frees the PLL asks for, and  *)
(* a port without a link is stopped.                                       *)
WpInv ==
  /\ wpMode \in Modes /\ wpTiming \in Timings /\ wpPll \in Plls /\ wpOut \in Outputs
  /\ wpPort \in NodePorts
  /\ wpLink = "down" => ~wpPort.enabled /\ wpPort.state \in {"INITIALIZING", "DISABLED"}
  /\ wpMode = "MASTER" /\ wpPll.mode = "SLAVE" => wpTiming = "BOUNDARY_CLOCK"
  /\ PllFollowsMode

(* n with another lock state only.                                         *)
SameButLock(n, x) ==
  /\ x \in Nodes /\ x.mode = n.mode /\ x.timing = n.timing /\ x.pll.mode = n.pll.mode
  /\ x.out = n.out /\ x.port = n.port

(* spll_init() programs the PLL and touches nothing else.                  *)
LEMMA SpllInit ==
  ASSUME NEW n \in Nodes, NEW m \in {"GRAND_MASTER", "FREE_RUNNING", "SLAVE"}, NEW t \in Timings
  PROVE  LET x == [spll_init(n, m) EXCEPT !.timing = t]
         IN  /\ x \in Nodes /\ x.mode = n.mode /\ x.timing = t
             /\ x.pll.mode = m /\ x.out = n.out /\ x.port = n.port
BY DEF spll_init, Nodes, Plls

(* Waiting for the lock changes the lock state only.                       *)
LEMMA CheckLock ==
  ASSUME NEW n \in Nodes, NEW x \in check_lock(n)
  PROVE  SameButLock(n, x)
<1>1. PICK l \in BOOLEAN : x = [n EXCEPT !.pll.locked = l]
  BY DEF check_lock
<1>2. n.pll \in Plls
  BY DEF Nodes
<1>3. x = [n EXCEPT !.pll = [n.pll EXCEPT !.locked = l]]
  BY <1>1
<1>4. [n.pll EXCEPT !.locked = l] \in Plls /\ [n.pll EXCEPT !.locked = l].mode = n.pll.mode
  BY <1>2 DEF Plls
<1> QED BY <1>3, <1>4 DEF SameButLock, Nodes

(* wrpc_spll_locking_reset() frees the PLL of a master that had become     *)
(* slave, and of no other node.                                            *)
LEMMA LockingReset ==
  ASSUME NEW n \in Nodes, NEW x \in locking_reset(n)
  PROVE  /\ x \in Nodes /\ x.mode = n.mode /\ x.out = n.out /\ x.port = n.port
         /\ \/ x.timing = n.timing /\ x.pll.mode = n.pll.mode
            \/ /\ n.mode = "MASTER"
               /\ x.timing = "FREE_MASTER" /\ x.pll.mode = "FREE_RUNNING"
<1>1. CASE n.mode = "MASTER" /\ n.timing = "BOUNDARY_CLOCK"
  <2> DEFINE f == [spll_init(n, "FREE_RUNNING") EXCEPT !.timing = "FREE_MASTER"]
  <2>1. /\ f \in Nodes /\ f.mode = n.mode /\ f.timing = "FREE_MASTER"
        /\ f.pll.mode = "FREE_RUNNING" /\ f.out = n.out /\ f.port = n.port
    BY SpllInit DEF Timings
  <2>2. x \in check_lock(f)
    BY <1>1 DEF locking_reset
  <2> HIDE DEF f
  <2> QED BY <1>1, <2>1, <2>2, CheckLock DEF SameButLock
<1>2. CASE ~(n.mode = "MASTER" /\ n.timing = "BOUNDARY_CLOCK")
  BY <1>2 DEF locking_reset
<1> QED BY <1>1, <1>2

(* Leaving a state, for another one or with the port stopped.              *)
Left(n, s, x) ==
  /\ x \in Nodes /\ x.mode = n.mode /\ x.port.state = s
  /\ n.port.state # "SLAVE" => x.out = n.out
  /\ \/ x.timing = n.timing /\ x.pll.mode = n.pll.mode
     \/ n.mode = "MASTER" /\ x.timing = "FREE_MASTER" /\ x.pll.mode = "FREE_RUNNING"

(* pp_leave_current_state() keeps the mode, and the PLL but for a master's. *)
LEMMA LeaveDoes ==
  ASSUME NEW n \in Nodes, NEW s \in PortStates, NEW x \in Leave(n, s)
  PROVE  Left(n, s, x) /\ x.port.enabled = n.port.enabled
<1>0. n.port \in NodePorts /\ n.out \in Outputs
  BY DEF Nodes
<1>1. CASE n.port.state = "SLAVE"
  <2>1. PICK y \in locking_reset(n) :
           x = [y EXCEPT !.port.state = s, !.out.enable = (@ /\ n.out.force)]
    BY <1>1 DEF Leave
  <2>2. /\ y \in Nodes /\ y.mode = n.mode /\ y.out = n.out /\ y.port = n.port
        /\ \/ y.timing = n.timing /\ y.pll.mode = n.pll.mode
           \/ n.mode = "MASTER" /\ y.timing = "FREE_MASTER" /\ y.pll.mode = "FREE_RUNNING"
    BY LockingReset
  <2> DEFINE e == y.out.enable /\ n.out.force
  <2>3. x = [y EXCEPT !.port = [y.port EXCEPT !.state = s], !.out = [y.out EXCEPT !.enable = e]]
    BY <2>1
  <2>4. [y.port EXCEPT !.state = s] \in NodePorts /\ [y.port EXCEPT !.state = s].state = s
        /\ [y.port EXCEPT !.state = s].enabled = n.port.enabled
    BY <1>0, <2>2 DEF NodePorts
  <2>5. [y.out EXCEPT !.enable = e] \in Outputs
    BY <1>0, <2>2 DEF Outputs
  <2> HIDE DEF e
  <2> QED BY <1>1, <2>2, <2>3, <2>4, <2>5 DEF Nodes, Left
<1>2. CASE n.port.state # "SLAVE"
  <2>1. x = [n EXCEPT !.port = [n.port EXCEPT !.state = s]]
    BY <1>2 DEF Leave
  <2>2. [n.port EXCEPT !.state = s] \in NodePorts /\ [n.port EXCEPT !.state = s].state = s
        /\ [n.port EXCEPT !.state = s].enabled = n.port.enabled
    BY <1>0 DEF NodePorts
  <2> QED BY <2>1, <2>2 DEF Nodes, Left
<1> QED BY <1>1, <1>2

(* wrc_ptp_stop() leaves the state and disables the port.                  *)
LEMMA StopDoes ==
  ASSUME NEW n \in Nodes, NEW x \in wrc_ptp_stop(n)
  PROVE  Left(n, "DISABLED", x) /\ ~x.port.enabled
<1>1. PICK y \in Leave(n, "DISABLED") : x = [y EXCEPT !.port.enabled = FALSE]
  BY DEF wrc_ptp_stop
<1>2. Left(n, "DISABLED", y)
  BY LeaveDoes DEF PortStates
<1>3. y.port \in NodePorts
  BY <1>2 DEF Left, Nodes
<1>4. x = [y EXCEPT !.port = [y.port EXCEPT !.enabled = FALSE]]
  BY <1>1
<1>5. /\ [y.port EXCEPT !.enabled = FALSE] \in NodePorts
      /\ [y.port EXCEPT !.enabled = FALSE].state = y.port.state
      /\ ~[y.port EXCEPT !.enabled = FALSE].enabled
  BY <1>3 DEF NodePorts
<1> QED BY <1>2, <1>4, <1>5 DEF Left, Nodes

(* wrc_ptp_start() enables the port and touches nothing else.              *)
LEMMA StartDoes ==
  ASSUME NEW n \in Nodes
  PROVE  LET x == wrc_ptp_start(n)
         IN  /\ x \in Nodes /\ x.mode = n.mode /\ x.timing = n.timing /\ x.pll = n.pll
             /\ x.out = n.out
BY DEF wrc_ptp_start, Nodes, NodePorts, PortStates

(* What wrc_ptp_set_mode() makes of a stopped node.                        *)
LEMMA ModeSetDoes ==
  ASSUME NEW n \in Nodes, NEW m \in NodeModes, NEW x \in ModeSet(n, m)
  PROVE  /\ x \in Nodes /\ x.port = n.port
         /\ m = "GM" => x.timing = "GRAND_MASTER" /\ x.pll.mode = "GRAND_MASTER" /\ x.out.enable
         /\ m = "MASTER" => x.timing = "FREE_MASTER" /\ x.pll.mode = "FREE_RUNNING" /\ x.out.enable
<1>1. CASE m \in {"GM", "ABSCAL"}
  <2> DEFINE g == [spll_init(n, "GRAND_MASTER") EXCEPT !.timing = "GRAND_MASTER"]
  <2>1. PICK y \in check_lock(g) : x = [y EXCEPT !.out.enable = TRUE]
    BY <1>1 DEF ModeSet
  <2>2. /\ g \in Nodes /\ g.timing = "GRAND_MASTER" /\ g.pll.mode = "GRAND_MASTER"
        /\ g.port = n.port
    BY DEF spll_init, Nodes, Plls, Timings
  <2> HIDE DEF g
  <2>3. SameButLock(g, y)
    BY <2>2, CheckLock
  <2>4. y.out \in Outputs
    BY <2>3 DEF SameButLock, Nodes
  <2>5. x = [y EXCEPT !.out = [y.out EXCEPT !.enable = TRUE]]
    BY <2>1
  <2>6. [y.out EXCEPT !.enable = TRUE] \in Outputs /\ [y.out EXCEPT !.enable = TRUE].enable
    BY <2>4 DEF Outputs
  <2> QED BY <1>1, <2>2, <2>3, <2>5, <2>6 DEF SameButLock, Nodes
<1>2. CASE m = "MASTER"
  <2> DEFINE i == spll_init(n, "FREE_RUNNING")
             o == [n.out EXCEPT !.enable = TRUE]
             g == [i EXCEPT !.timing = "FREE_MASTER", !.out = o]
  <2>1. x \in check_lock(g)
    <3>1. i.out = n.out
      BY DEF spll_init, Nodes
    <3>2. x \in check_lock([i EXCEPT !.timing = "FREE_MASTER", !.out.enable = TRUE])
      BY <1>2 DEF ModeSet
    <3>3. [i EXCEPT !.timing = "FREE_MASTER", !.out.enable = TRUE] = g
      BY <3>1 DEF spll_init, Nodes
    <3> QED BY <3>2, <3>3
  <2>2. o \in Outputs /\ o.enable
    BY DEF Outputs, Nodes
  <2> HIDE DEF o
  <2>3. /\ g \in Nodes /\ g.timing = "FREE_MASTER" /\ g.pll.mode = "FREE_RUNNING"
        /\ g.port = n.port /\ g.out = o
    BY <2>2 DEF spll_init, Nodes, Plls, Timings
  <2> HIDE DEF g
  <2> QED BY <1>2, <2>1, <2>2, <2>3, CheckLock DEF SameButLock
<1>3. CASE m = "SLAVE"
  BY <1>3 DEF ModeSet, Nodes, Timings
<1> QED BY <1>1, <1>2, <1>3, ModesAssumption

(* A node that became n, with its port stopped or the link up, satisfies   *)
(* the invariant.                                                          *)
LEMMA NodeBecomes ==
  ASSUME NEW n \in Nodes, Becomes(n),
         wpLink' = "down" => ~n.port.enabled /\ n.port.state \in {"INITIALIZING", "DISABLED"},
         n.mode = "MASTER" /\ n.pll.mode = "SLAVE" => n.timing = "BOUNDARY_CLOCK",
         n.mode = "GM" => n.pll.mode = "GRAND_MASTER" /\ n.timing = "GRAND_MASTER",
         (n.mode \in {"MASTER", "GM"} /\ wpLink' = "down") =>
            n.pll.mode # "SLAVE" /\ n.timing # "BOUNDARY_CLOCK" /\ n.out.enable
  PROVE  WpInv'
BY DEF Becomes, Nodes, WpInv, PllFollowsMode

(* The node as one record, under the invariant.                            *)
LEMMA NodeIs ==
  ASSUME WpInv
  PROVE  /\ Node \in Nodes /\ Node.mode = wpMode /\ Node.timing = wpTiming /\ Node.pll = wpPll
         /\ Node.out = wpOut /\ Node.port = wpPort
BY DEF Node, Nodes, WpInv

(* A step of the node keeps the invariant.                                 *)
LEMMA WpStep ==
  ASSUME WpInv, [WpNext]_wpVars
  PROVE  WpInv'
<1>0. /\ Node \in Nodes /\ Node.mode = wpMode /\ Node.timing = wpTiming /\ Node.pll = wpPll
      /\ Node.out = wpOut /\ Node.port = wpPort
  BY NodeIs
<1>i. /\ wpLink = "down" => ~wpPort.enabled /\ wpPort.state \in {"INITIALIZING", "DISABLED"}
      /\ wpMode = "MASTER" /\ wpPll.mode = "SLAVE" => wpTiming = "BOUNDARY_CLOCK"
      /\ wpMode = "GM" => wpPll.mode = "GRAND_MASTER" /\ wpTiming = "GRAND_MASTER"
      /\ (wpMode \in {"MASTER", "GM"} /\ wpLink = "down") =>
            wpPll.mode # "SLAVE" /\ wpTiming # "BOUNDARY_CLOCK" /\ wpOut.enable
  BY DEF WpInv, PllFollowsMode
<1>1. ASSUME NEW m \in NodeModes, wrc_ptp_set_mode(m) PROVE WpInv'
  <2> DEFINE u == [Node EXCEPT !.mode = "UNKNOWN"]
  <2>1. PICK stopped \in wrc_ptp_stop(u) : \E set \in ModeSet(stopped, m) :
            Becomes([set EXCEPT !.mode = m])
    BY <1>1 DEF wrc_ptp_set_mode
  <2>2. PICK set \in ModeSet(stopped, m) : Becomes([set EXCEPT !.mode = m])
    BY <2>1
  <2>3. u \in Nodes
    BY <1>0 DEF Nodes, Modes
  <2> HIDE DEF u
  <2>4. /\ stopped \in Nodes /\ ~stopped.port.enabled /\ stopped.port.state = "DISABLED"
    BY <2>3, StopDoes DEF Left
  <2>5. /\ set \in Nodes /\ set.port = stopped.port
        /\ m = "GM" => set.timing = "GRAND_MASTER" /\ set.pll.mode = "GRAND_MASTER" /\ set.out.enable
        /\ m = "MASTER" =>
             set.timing = "FREE_MASTER" /\ set.pll.mode = "FREE_RUNNING" /\ set.out.enable
    BY <2>4, ModeSetDoes
  <2> DEFINE n == [set EXCEPT !.mode = m]
  <2>6. /\ n \in Nodes /\ n.mode = m /\ n.timing = set.timing /\ n.pll = set.pll
        /\ n.out = set.out /\ n.port = set.port
    BY <2>5, ModesAssumption DEF Nodes, Modes
  <2>7. Becomes(n)
    BY <2>2
  <2> HIDE DEF n
  <2> QED BY <2>4, <2>5, <2>6, <2>7, NodeBecomes
<1>2. CASE Start
  <2>1. Becomes(wrc_ptp_start(Node)) /\ wpLink' = "up"
    BY <1>2 DEF Start
  <2> QED BY <1>0, <1>i, <2>1, StartDoes, NodeBecomes
<1>3. CASE ChangeParameter
  <2>1. PICK x \in wrc_ptp_stop(Node) :
            IF wpPort.enabled THEN Becomes(wrc_ptp_start(x))
            ELSE \E y \in wrc_ptp_stop(x) : Becomes(y)
    BY <1>3 DEF ChangeParameter
  <2>2. wpLink' = wpLink
    BY <1>3 DEF ChangeParameter
  <2>3. Left(Node, "DISABLED", x) /\ ~x.port.enabled
    BY <1>0, StopDoes
  <2>4. CASE wpPort.enabled
    <3>1. Becomes(wrc_ptp_start(x)) /\ wpLink' # "down"
      BY <1>i, <2>1, <2>2, <2>4
    <3> QED BY <1>0, <1>i, <2>3, <3>1, StartDoes, NodeBecomes DEF Left
  <2>5. CASE ~wpPort.enabled
    <3>1. PICK y \in wrc_ptp_stop(x) : Becomes(y)
      BY <2>1, <2>5
    <3>2. Left(x, "DISABLED", y) /\ ~y.port.enabled
      BY <2>3, StopDoes DEF Left
    <3>3. /\ y \in Nodes /\ y.mode = wpMode /\ y.port.state = "DISABLED"
          /\ wpLink = "down" => y.out = wpOut
          /\ \/ y.timing = wpTiming /\ y.pll.mode = wpPll.mode
             \/ wpMode = "MASTER" /\ y.timing = "FREE_MASTER" /\ y.pll.mode = "FREE_RUNNING"
      BY <1>0, <1>i, <2>3, <3>2 DEF Left
    <3> QED BY <1>i, <2>2, <3>1, <3>2, <3>3, NodeBecomes
  <2> QED BY <2>4, <2>5
<1>4. CASE wrc_ptp_link_down
  <2>1. PICK x \in wrc_ptp_stop(Node) :
          IF wpMode \in {"MASTER", "GM"}
          THEN Becomes(FreeAgain([x EXCEPT !.out.enable = TRUE]))
          ELSE Becomes(x)
    BY <1>4 DEF wrc_ptp_link_down
  <2>2. Left(Node, "DISABLED", x) /\ ~x.port.enabled
    BY <1>0, StopDoes
  <2>3. CASE wpMode \notin {"MASTER", "GM"}
    BY <1>0, <1>i, <2>1, <2>2, <2>3, NodeBecomes DEF Left
  <2>4. CASE wpMode \in {"MASTER", "GM"}
    <3> DEFINE o == [x.out EXCEPT !.enable = TRUE]
               y == [x EXCEPT !.out = o]
               z == [spll_init(y, "FREE_RUNNING") EXCEPT !.timing = "FREE_MASTER"]
    <3>1. [x EXCEPT !.out.enable = TRUE] = y
      OBVIOUS
    <3>2. o \in Outputs /\ o.enable
      BY <2>2 DEF Left, Nodes, Outputs
    <3> HIDE DEF o
    <3>3. /\ y \in Nodes /\ y.mode = wpMode /\ y.out = o /\ y.port = x.port /\ y.pll = x.pll
          /\ y.timing = x.timing
      BY <1>0, <2>2, <3>2 DEF Left, Nodes
    <3> HIDE DEF y
    <3>4. Becomes(FreeAgain(y))
      BY <2>1, <2>4, <3>1
    <3>5. CASE y.timing = "BOUNDARY_CLOCK"
      <4>1. /\ z \in Nodes /\ z.mode = wpMode /\ z.timing = "FREE_MASTER"
            /\ z.pll.mode = "FREE_RUNNING" /\ z.out = y.out /\ z.port = y.port
        BY <3>3, SpllInit, ZenonT(60) DEF Timings
      <4>2. Becomes(z)
        BY <3>4, <3>5 DEF FreeAgain
      <4>3. wpMode # "GM"
        BY <1>0, <1>i, <2>2, <3>3, <3>5 DEF Left
      <4> HIDE DEF z
      <4> QED BY <2>2, <3>2, <3>3, <4>1, <4>2, <4>3, NodeBecomes DEF Left
    <3>6. CASE y.timing # "BOUNDARY_CLOCK"
      <4>1. Becomes(y)
        BY <3>4, <3>6 DEF FreeAgain
      <4>2. wpMode = "GM" => y.pll.mode = "GRAND_MASTER" /\ y.timing = "GRAND_MASTER"
        BY <1>0, <1>i, <2>2, <3>3 DEF Left
      <4>3. y.pll.mode # "SLAVE"
        BY <1>0, <1>i, <2>2, <2>4, <3>3, <3>6 DEF Left
      <4> QED BY <2>2, <3>2, <3>3, <3>6, <4>1, <4>2, <4>3, NodeBecomes DEF Left
    <3> QED BY <3>5, <3>6
  <2> QED BY <2>3, <2>4
<1>5. CASE wrc_pps_force
  BY <1>5 DEF wrc_pps_force, WpInv, PllFollowsMode, Outputs
<1>6. CASE PortMoves
  <2>1. PICK s \in PortStates : \E x \in Leave(Node, s) : Becomes(x)
    BY <1>6 DEF PortMoves
  <2>2. PICK x \in Leave(Node, s) : Becomes(x)
    BY <2>1
  <2>3. wpPort.enabled /\ wpLink' = wpLink
    BY <1>6 DEF PortMoves
  <2>4. Left(Node, s, x)
    BY <1>0, LeaveDoes
  <2>5. wpLink' # "down"
    BY <1>i, <2>3
  <2> QED BY <1>0, <1>i, <2>2, <2>4, <2>5, NodeBecomes DEF Left
<1>7. CASE wrpc_spll_locking_enable
  <2>1. Becomes(LockingEnabled(Node)) /\ wpLink' # "down"
    BY <1>7, <1>i DEF wrpc_spll_locking_enable
  <2>2. CASE wpMode = "GM"
    BY <1>0, <1>i, <2>1, <2>2, NodeBecomes DEF LockingEnabled
  <2>3. CASE wpMode # "GM"
    <3> DEFINE z == [spll_init(Node, "SLAVE") EXCEPT !.timing = "BOUNDARY_CLOCK"]
    <3>1. z \in Nodes /\ z.mode = wpMode /\ z.timing = "BOUNDARY_CLOCK"
      BY <1>0, SpllInit DEF Timings
    <3>2. Becomes(z)
      BY <1>0, <2>1, <2>3 DEF LockingEnabled
    <3> HIDE DEF z
    <3> QED BY <2>1, <2>3, <3>1, <3>2, NodeBecomes
  <2> QED BY <2>2, <2>3
<1>8. CASE InPhase
  BY <1>8 DEF InPhase, WpInv, PllFollowsMode, Outputs
<1>9. CASE PllLock
  BY <1>9 DEF PllLock, WpInv, PllFollowsMode, Plls
<1>10. CASE UNCHANGED wpVars
  BY <1>10 DEF wpVars, WpInv, PllFollowsMode
<1> QED BY <1>1, <1>2, <1>3, <1>4, <1>5, <1>6, <1>7, <1>8, <1>9, <1>10 DEF WpNext

(* Whatever modes the shell sets and whenever the fibre is pulled: a grand *)
(* master keeps the PLL on its reference, and a master without a link is   *)
(* not left with a PLL that follows the fibre nor without its PPS          *)
(* (wrc_ptp_set_mode(), wrc_ptp_link_down(), wrpc_spll_locking_reset()).   *)
THEOREM PllKeepsMode == WpSpec => []PllFollowsMode
<1>1. WpInit => WpInv
  BY DEF WpInit, WpInv, PllFollowsMode, Modes, Timings, Plls, Outputs, NodePorts, PortStates
<1>2. WpInv /\ [WpNext]_wpVars => WpInv'
  BY WpStep
<1>3. WpInv => PllFollowsMode
  BY DEF WpInv
<1> QED BY <1>1, <1>2, <1>3, PTL DEF WpSpec

-----------------------------------------------------------------------------
(* The main loops.                                                         *)

(* What select() is given if the turn that begins now begins with it.      *)
NextWait == IF mlPc = "top" THEN NewTv(mlDelay, mlTv) ELSE mlTv

(* The unix loop has no alarm.  The wait is shorter than what is left for  *)
(* each port, but for the part of a millisecond that the comparison of the *)
(* new delay with the rest of the wait drops.                              *)
UnixWaits ==
  /\ mlTimer = 0 /\ ~mlAlarm /\ mlPc \in {"top", "wait", "frame"}
  /\ mlCut \/ \A p \in LoopPorts : mlDue[p] > NextWait - Sub
  /\ mlCut \/ (mlPc = "frame" => mlTv >= Sub)

(* The switch: what is never longer than DefaultDelay, so that a wait the  *)
(* alarm does not interrupt is not either.                                 *)
WrsBounded ==
  /\ mlTv <= DefaultDelay * Sub /\ mlTimer <= DefaultDelay * Sub /\ mlRpc <= Sub
  /\ ~mlAlarm \/ mlPc = "rpc" => mlDelay <= DefaultDelay

(* The timer runs exactly when there is time to wait and no alarm yet.     *)
WrsArmed ==
  /\ mlAlarm => mlTimer = 0
  /\ mlPc = "intr" => mlAlarm
  /\ ~mlAlarm => (mlTimer = 0 <=> mlDelay = 0)
  /\ ~mlAlarm /\ mlDelay = 0 => mlPc # "frame" /\ (mlPc = "wait" => mlTv = 0)

(* How late a port may be: not at all before the alarm; then for the rest  *)
(* of minipc_server_action() and one wait.                                 *)
WrsLate ==
  IF ~mlAlarm /\ mlTimer > 0 THEN mlTimer
  ELSE CASE mlPc \in {"wait", "frame"} -> IF mlAlarm THEN mlTv - Slack ELSE 0 - mlRpc
         [] mlPc = "rpc" -> 0 - mlRpc
         [] mlPc = "intr" -> 0
         [] mlPc = "top" -> IF mlAlarm THEN -Slack ELSE 0

WrsWaits ==
  /\ WrsBounded
  /\ mlCut \/ (WrsArmed /\ \A p \in LoopPorts : mlDue[p] >= WrsLate)

(* The inductive invariant.                                                *)
MlInv ==
  /\ MlTypeOK
  /\ mlKind = "unix" => UnixWaits
  /\ mlKind = "wrs" => WrsWaits

(* A set of numbers that is not empty has a least one.                     *)
LEMMA LeastNat ==
  ASSUME NEW T, T \subseteq Nat, T # {}
  PROVE  Min(T) \in T /\ \A x \in T : Min(T) <= x
<1>1. PICK x \in T : \A y \in T : ~(<<y, x>> \in OpToRel(<, Nat))
  BY NatLessThanWellFounded, WFMin
<1>2. \A y \in T : ~(y < x)
  BY <1>1 DEF OpToRel
<1>3. \A y \in T : x <= y
  BY <1>2
<1> QED BY <1>3 DEF Min

(* The larger of two numbers.                                              *)
LEMMA MaxPair ==
  ASSUME NEW a \in Int, NEW b \in Int
  PROVE  Max({a, b}) \in Int /\ Max({a, b}) >= a
<1>1. \E x \in {a, b} : \A y \in {a, b} : x >= y
  <2>1. CASE a >= b BY <2>1
  <2>2. CASE b >= a BY <2>2
  <2> QED BY <2>1, <2>2
<1> QED BY <1>1 DEF Max

(* The rule for products the provers do not find.                          *)
LEMMA TimesSub ==
  ASSUME NEW a \in Int, NEW b \in Int, a <= b
  PROVE  a * Sub \in Int /\ b * Sub \in Int /\ a * Sub <= b * Sub
  BY LoopAssumption

(* Products with Sub are numbers again, and 0 only for 0.                  *)
LEMMA TimesNat ==
  ASSUME NEW a \in Nat
  PROVE  a * Sub \in Nat /\ (a = 0 <=> a * Sub = 0)
  BY LoopAssumption

(* Whole milliseconds.                                                     *)
LEMMA WholeMs ==
  ASSUME NEW n \in Nat
  PROVE  /\ n \div Sub \in Nat
         /\ (n \div Sub) * Sub <= n /\ n < (n \div Sub) * Sub + Sub
         /\ n < Sub <=> n \div Sub = 0
<1>1. /\ n \div Sub \in Int /\ n % Sub \in 0..(Sub - 1)
      /\ n = Sub * (n \div Sub) + (n % Sub)
  BY LoopAssumption
<1>2. n \div Sub \in Nat
  BY LoopAssumption
<1>3. n \div Sub >= 1 => (n \div Sub) * Sub >= Sub
  BY <1>2, TimesSub, LoopAssumption
<1> QED BY <1>1, <1>2, <1>3, LoopAssumption

(* Whole milliseconds that fit are no longer than the time itself.         *)
LEMMA NoLonger ==
  ASSUME NEW n \in Nat, NEW a \in Nat, a <= n \div Sub
  PROVE  a * Sub <= n
<1> DEFINE x == a * Sub
           y == (n \div Sub) * Sub
<1>1. x \in Int /\ y \in Int /\ x <= y
  BY WholeMs, TimesSub
<1>2. y <= n
  BY WholeMs
<1> HIDE DEF x, y
<1>3. x <= n
  BY <1>1, <1>2
<1> QED BY <1>3 DEF x

(* What NewTv() makes of the rest of a wait and a new delay.               *)
LEMMA NewWait ==
  ASSUME NEW delay \in Nat \cup {-1}, NEW tv \in Nat
  PROVE  /\ NewTv(delay, tv) \in Nat
         /\ tv >= Sub => NewTv(delay, tv) <= tv
         /\ delay >= 0 => NewTv(delay, tv) < delay * Sub + Sub
         /\ delay >= 0 /\ tv = 0 => NewTv(delay, tv) = delay * Sub
         /\ delay = -1 => NewTv(delay, tv) = tv
         /\ delay = 0 => NewTv(delay, tv) = 0
         /\ NewTv(delay, tv) \in {tv, delay * Sub}
<1>1. /\ tv \div Sub \in Nat /\ (tv \div Sub) * Sub <= tv
      /\ tv < (tv \div Sub) * Sub + Sub /\ (tv < Sub <=> tv \div Sub = 0)
  BY WholeMs
<1>2. delay >= 0 => delay * Sub \in Nat
  BY LoopAssumption
<1>3. delay < tv \div Sub => delay * Sub <= (tv \div Sub) * Sub
  BY <1>1, TimesSub
<1>4. tv \div Sub <= delay => (tv \div Sub) * Sub <= delay * Sub
  BY <1>1, TimesSub
<1>5. delay = 0 => delay * Sub = 0
  BY LoopAssumption
<1>6. CASE delay >= 0 /\ (tv \div Sub = 0 \/ delay < tv \div Sub)
  <2>1. NewTv(delay, tv) = delay * Sub
    BY <1>6 DEF NewTv
  <2> QED BY <1>1, <1>2, <1>3, <1>5, <1>6, <2>1, LoopAssumption
<1>7. CASE ~(delay >= 0 /\ (tv \div Sub = 0 \/ delay < tv \div Sub))
  <2>1. NewTv(delay, tv) = tv
    BY <1>7 DEF NewTv
  <2>2. delay >= 0 => tv \div Sub <= delay /\ tv \div Sub # 0
    BY <1>1, <1>7
  <2>3. delay = 0 => FALSE
    BY <1>1, <2>2
  <2>4. delay >= 0 => tv < delay * Sub + Sub
    BY <1>1, <1>2, <1>4, <2>2, LoopAssumption
  <2>5. delay >= 0 => tv # 0
    BY <1>1, <2>2, LoopAssumption
  <2> QED BY <2>1, <2>3, <2>4, <2>5
<1> QED BY <1>6, <1>7

(* run_all_state_machines() gives a delay that none of the ports exceeds.  *)
LEMMA SmallestDelay ==
  ASSUME NEW d \in [LoopPorts -> Delays]
  PROVE  Smallest(d) \in Nat /\ \A p \in LoopPorts : d[p] \in Nat /\ Smallest(d) <= d[p]
<1> DEFINE T == {d[p] : p \in LoopPorts}
<1>1. T \subseteq Nat /\ T # {}
  BY LoopAssumption
<1>2. Min(T) \in T /\ \A x \in T : Min(T) <= x
  BY <1>1, LeastNat
<1> QED BY <1>1, <1>2 DEF Smallest

(* All ports have been run: what the loop knows of them.                   *)
LEMMA AllRun ==
  ASSUME MlTypeOK, RunAll
  PROVE  /\ mlDue' \in [LoopPorts -> Int]
         /\ mlDelay' \in Nat /\ mlTimer' \in Nat /\ mlAlarm' = FALSE /\ mlPc' = "top"
         /\ \A p \in LoopPorts : mlDue'[p] >= mlDelay' * Sub /\ mlDue'[p] >= 0
         /\ mlKind = "unix" => mlTimer' = 0
         /\ mlKind = "wrs" => mlTimer' = mlDelay' * Sub /\ mlDelay' <= DefaultDelay
<1>1. PICK d \in [LoopPorts -> Delays] :
        /\ mlDue' = [p \in LoopPorts |-> d[p] * Sub]
        /\ mlDelay' = IF mlKind = "wrs" /\ Smallest(d) > DefaultDelay THEN DefaultDelay
                      ELSE Smallest(d)
        /\ mlTimer' = IF mlKind = "wrs" THEN mlDelay' * Sub ELSE 0
        /\ mlAlarm' = FALSE
        /\ mlPc' = "top"
  BY DEF RunAll
<1>2. Smallest(d) \in Nat /\ \A p \in LoopPorts : d[p] \in Nat /\ Smallest(d) <= d[p]
  BY SmallestDelay
<1>3. /\ mlDelay' \in Nat /\ mlDelay' <= Smallest(d)
      /\ mlKind = "wrs" => mlDelay' <= DefaultDelay
  BY <1>1, <1>2, LoopAssumption
<1>4. ASSUME NEW p \in LoopPorts
      PROVE  mlDue'[p] = d[p] * Sub /\ mlDue'[p] \in Int /\ mlDue'[p] >= mlDelay' * Sub
             /\ mlDue'[p] >= 0
  <2>1. mlDue'[p] = d[p] * Sub
    BY <1>1
  <2>2. d[p] \in Nat /\ mlDelay' <= d[p]
    BY <1>2, <1>3
  <2>3. d[p] * Sub >= mlDelay' * Sub /\ d[p] * Sub \in Int
    BY <1>3, <2>2, TimesSub
  <2>4. d[p] * Sub >= 0
    BY <2>2, LoopAssumption
  <2> QED BY <2>1, <2>3, <2>4
<1>5. mlDue' \in [LoopPorts -> Int]
  BY <1>1, <1>4
<1>6. mlDelay' * Sub \in Nat
  BY <1>3, TimesNat
<1>7. mlKind = "unix" => mlKind # "wrs"
  OBVIOUS
<1> QED BY <1>1, <1>3, <1>4, <1>5, <1>6, <1>7

(* The frames of S have been handled.                                      *)
LEMMA SomeRun ==
  ASSUME MlTypeOK, NEW S \in (SUBSET LoopPorts) \ {{}}, FrameHandled(S)
  PROVE  /\ mlDue' \in [LoopPorts -> Int] /\ mlDelay' \in Nat /\ mlTimer' \in Nat
         /\ \A p \in LoopPorts : mlDue'[p] >= 0 \/ mlDue'[p] = mlDue[p]
         /\ IF mlKind = "wrs" /\ ~mlAlarm
            THEN /\ mlTimer' = mlDelay' * Sub /\ mlTimer' <= mlTimer
                 /\ \A p \in LoopPorts : mlDue'[p] >= mlTimer' \/ mlDue'[p] = mlDue[p]
            ELSE /\ mlTimer' = mlTimer
                 /\ \A p \in LoopPorts : mlDue'[p] >= mlDelay' * Sub \/ mlDue'[p] = mlDue[p]
<1> DEFINE Least(d) == Min({d[p] : p \in S})
<1>1. PICK d \in [S -> Delays] :
        /\ mlDue' = [p \in LoopPorts |-> IF p \in S THEN d[p] * Sub ELSE mlDue[p]]
        /\ mlDelay' = IF mlKind = "wrs" /\ ~mlAlarm THEN Remaining(Least(d)) ELSE Least(d)
        /\ mlTimer' = IF mlKind = "wrs" /\ ~mlAlarm THEN mlDelay' * Sub ELSE mlTimer
  BY DEF FrameHandled
<1>2. Least(d) \in Nat /\ \A p \in S : d[p] \in Nat /\ Least(d) <= d[p]
  <2> DEFINE T == {d[p] : p \in S}
  <2>1. T \subseteq Nat /\ T # {}
    BY LoopAssumption, ZenonT(60)
  <2>2. Min(T) \in T /\ \A x \in T : Min(T) <= x
    BY <2>1, LeastNat
  <2> QED BY <2>1, <2>2
<1> HIDE DEF Least
<1>3. mlTimer \in Nat /\ mlTimer \div Sub \in Nat /\ (mlTimer \div Sub) * Sub <= mlTimer
  BY WholeMs DEF MlTypeOK
<1>4. /\ Remaining(Least(d)) \in Nat /\ Remaining(Least(d)) <= Least(d)
      /\ Remaining(Least(d)) <= mlTimer \div Sub
  <2> DEFINE T == {mlTimer \div Sub, Least(d)}
  <2>1. T \subseteq Nat /\ T # {}
    BY <1>2, <1>3
  <2>2. Min(T) \in T /\ \A x \in T : Min(T) <= x
    BY <2>1, LeastNat
  <2> QED BY <2>1, <2>2 DEF Remaining
<1>5. mlDelay' \in Nat /\ mlDelay' <= Least(d)
  BY <1>1, <1>2, <1>4
<1>6. mlDelay' * Sub \in Nat
  BY <1>5, TimesNat
<1>7. ASSUME NEW p \in S
      PROVE  mlDue'[p] \in Int /\ mlDue'[p] >= mlDelay' * Sub /\ mlDue'[p] >= 0
  <2>1. mlDue'[p] = d[p] * Sub
    BY <1>1
  <2>2. d[p] \in Nat /\ mlDelay' <= d[p]
    BY <1>2, <1>5
  <2>3. d[p] * Sub >= mlDelay' * Sub /\ d[p] * Sub \in Int
    BY <1>5, <2>2, TimesSub
  <2> QED BY <1>6, <2>1, <2>3
<1>8. ASSUME NEW p \in LoopPorts \ S
      PROVE  mlDue'[p] = mlDue[p] /\ mlDue'[p] \in Int
  BY <1>1 DEF MlTypeOK
<1>9. mlDue' \in [LoopPorts -> Int]
  BY <1>1, <1>7, <1>8
<1>10. CASE mlKind = "wrs" /\ ~mlAlarm
  <2>1. mlDelay' <= mlTimer \div Sub
    BY <1>1, <1>4, <1>10
  <2>2. mlDelay' * Sub <= mlTimer
    BY <1>3, <1>5, <2>1, NoLonger
  <2>3. mlTimer' = mlDelay' * Sub
    BY <1>1, <1>10
  <2>4. mlTimer' <= mlTimer
    BY <2>2, <2>3
  <2> QED BY <1>5, <1>6, <1>7, <1>8, <1>9, <1>10, <2>3, <2>4
<1>11. CASE ~(mlKind = "wrs" /\ ~mlAlarm)
  <2>1. mlTimer' = mlTimer
    BY <1>1, <1>11
  <2> QED BY <1>3, <1>5, <1>7, <1>8, <1>9, <1>11, <2>1
<1> QED BY <1>10, <1>11

(* The slack in its two parts: a wait, and the call before it.             *)
LEMMA SlackNat == Slack \in Nat /\ Slack = DefaultDelay * Sub + Sub
  BY LoopAssumption DEF Slack

(* What one unit of time does.                                             *)
LEMMA TimePasses ==
  ASSUME MlTypeOK, Passes
  PROVE  /\ \A p \in LoopPorts : mlDue'[p] \in Int /\ mlDue'[p] >= mlDue[p] - 1
         /\ mlPc = "wait" => mlTv > 0 /\ mlTv' = mlTv - 1 /\ mlRpc' = mlRpc
         /\ mlPc = "rpc" => mlTv' = mlTv /\ mlRpc' = mlRpc + 1 /\ mlRpc < Sub
         /\ mlPc \in {"wait", "rpc"}
<1>1. \A p \in LoopPorts : /\ Max({mlDue[p] - 1, -Slack - 1}) \in Int
                           /\ Max({mlDue[p] - 1, -Slack - 1}) >= mlDue[p] - 1
  BY MaxPair, SlackNat DEF MlTypeOK
<1>2. mlDue' = [p \in LoopPorts |-> Max({mlDue[p] - 1, -Slack - 1})]
  BY DEF Passes
<1>3. \A p \in LoopPorts : mlDue'[p] \in Int /\ mlDue'[p] >= mlDue[p] - 1
  BY <1>1, <1>2
<1> QED BY <1>3 DEF Passes

(* Every step keeps the types.                                             *)
LEMMA MlTypes ==
  ASSUME MlTypeOK, [MlNext]_mlVars
  PROVE  MlTypeOK'
<1>0. /\ mlKind \in LoopKinds /\ mlDue \in [LoopPorts -> Int] /\ mlDelay \in Nat \cup {-1}
      /\ mlTv \in Nat /\ mlTimer \in Nat /\ mlSkipped \in Nat /\ mlRpc \in Nat
      /\ mlAlarm \in BOOLEAN /\ mlCut \in BOOLEAN
      /\ mlPc \in {"top", "rpc", "wait", "intr", "frame"}
  BY DEF MlTypeOK
<1> DEFINE T ==
      /\ mlKind' \in LoopKinds /\ mlDue' \in [LoopPorts -> Int] /\ mlDelay' \in Nat \cup {-1}
      /\ mlTv' \in Nat /\ mlTimer' \in Nat /\ mlSkipped' \in Nat /\ mlRpc' \in Nat
      /\ mlAlarm' \in BOOLEAN /\ mlCut' \in BOOLEAN
      /\ mlPc' \in {"top", "rpc", "wait", "intr", "frame"}
<1>a. SUFFICES T
  BY DEF MlTypeOK
<1>b. NewTv(mlDelay, mlTv) \in Nat
  BY <1>0, NewWait
<1>1. CASE UnixTurn
  BY <1>0, <1>1, <1>b DEF UnixTurn, check_packet
<1>2. CASE WrsLook
  BY <1>0, <1>2 DEF WrsLook
<1>3. CASE WrsWait
  BY <1>0, <1>3, <1>b DEF WrsWait, check_packet
<1>4. CASE WrsSkip
  <2>1. Min({mlSkipped + 1, MaxSkipped + 1}) \in Nat
    <3>1. {mlSkipped + 1, MaxSkipped + 1} \subseteq Nat
      BY <1>0, LoopAssumption
    <3> QED BY <3>1, LeastNat
  <2>2. RunAll /\ mlSkipped' \in Nat /\ UNCHANGED <<mlKind, mlTv, mlCut, mlRpc>>
    BY <1>4, <2>1 DEF WrsSkip
  <2> QED BY <1>0, <2>2, AllRun
<1>5. CASE WaitEnds
  <2>1. mlTv' = 0 /\ UNCHANGED <<mlKind, mlSkipped, mlCut, mlRpc>>
    BY <1>5 DEF WaitEnds
  <2>2. CASE RunAll
    BY <1>0, <2>1, <2>2, AllRun
  <2>3. CASE mlPc' = "top" /\ UNCHANGED <<mlDue, mlDelay, mlTimer, mlAlarm>>
    BY <1>0, <2>1, <2>3
  <2> QED BY <1>5, <2>2, <2>3 DEF WaitEnds
<1>6. CASE FrameArrives
  BY <1>0, <1>6 DEF FrameArrives
<1>7. CASE FrameDropped
  BY <1>0, <1>7 DEF FrameDropped
<1>8. ASSUME NEW S \in (SUBSET LoopPorts) \ {{}}, FrameHandled(S)
      PROVE  T
  <2>1. mlPc' = "top" /\ UNCHANGED <<mlKind, mlTv, mlAlarm, mlSkipped, mlCut, mlRpc>>
    BY <1>8 DEF FrameHandled
  <2> QED BY <1>0, <1>8, <2>1, SomeRun
<1>9. CASE Passes
  <2>1. \A p \in LoopPorts : mlDue'[p] \in Int
    BY <1>9, TimePasses
  <2>2. mlDue' \in [LoopPorts -> Int]
    BY <1>9, <2>1 DEF Passes
  <2>3. mlTv' \in Nat /\ mlRpc' \in Nat /\ mlTimer' \in Nat
    BY <1>0, <1>9 DEF Passes, Down
  <2>4. mlAlarm' \in BOOLEAN /\ mlPc' \in {"top", "rpc", "wait", "intr", "frame"}
    BY <1>0, <1>9 DEF Passes
  <2> QED BY <1>0, <1>9, <2>2, <2>3, <2>4 DEF Passes
<1>10. CASE UNCHANGED mlVars
  BY <1>0, <1>10 DEF mlVars
<1> QED BY <1>1, <1>2, <1>3, <1>4, <1>5, <1>6, <1>7, <1>8, <1>9, <1>10 DEF MlNext

(* The unix loop: no step lets a wait outlast a port.                      *)
LEMMA UnixStep ==
  ASSUME MlTypeOK, MlTypeOK', mlKind = "unix", UnixWaits, [MlNext]_mlVars
  PROVE  UnixWaits'
<1>0. /\ mlDue \in [LoopPorts -> Int] /\ mlDelay \in Nat \cup {-1} /\ mlTv \in Nat
      /\ mlTimer = 0 /\ mlAlarm = FALSE /\ mlCut \in BOOLEAN
      /\ mlPc \in {"top", "wait", "frame"}
      /\ mlDue' \in [LoopPorts -> Int] /\ mlDelay' \in Nat \cup {-1} /\ mlTv' \in Nat
      /\ mlCut' \in BOOLEAN
  BY DEF MlTypeOK, UnixWaits
<1>s. Sub \in Nat \ {0}
  BY LoopAssumption
<1>w. NewTv(mlDelay, mlTv) \in Nat
  BY <1>0, NewWait
<1>1. CASE UnixTurn
  <2>1. /\ mlPc = "top" /\ mlTv' = NewTv(mlDelay, mlTv) /\ mlPc' = "wait"
        /\ UNCHANGED <<mlDue, mlTimer, mlAlarm, mlCut>>
    BY <1>1 DEF UnixTurn, check_packet
  <2>2. NextWait' = NextWait
    BY <2>1 DEF NextWait
  <2> QED BY <1>0, <2>1, <2>2 DEF UnixWaits
<1>2. CASE WrsLook \/ WrsWait \/ WrsSkip
  BY <1>0, <1>2 DEF WrsLook, WrsWait, WrsSkip
<1>3. CASE WaitEnds
  <2>1. RunAll /\ mlTv' = 0 /\ mlCut' = mlCut
    BY <1>3 DEF WaitEnds
  <2>2. NextWait' = mlDelay' * Sub
    BY <1>0, <2>1, AllRun, NewWait DEF NextWait
  <2>3. mlDelay' * Sub \in Nat
    BY <2>1, AllRun, TimesNat
  <2>4. ASSUME NEW p \in LoopPorts PROVE mlDue'[p] > NextWait' - Sub
    BY <1>0, <1>s, <2>1, <2>2, <2>3, AllRun
  <2> QED BY <2>1, <2>4, AllRun DEF UnixWaits
<1>4. CASE FrameArrives
  <2>1. /\ mlPc = "wait" /\ mlPc' = "frame" /\ mlCut' = (mlCut \/ mlTv < Sub)
        /\ UNCHANGED <<mlDue, mlTv, mlTimer, mlAlarm>>
    BY <1>4 DEF FrameArrives
  <2>2. NextWait' = NextWait
    BY <2>1 DEF NextWait
  <2>3. ASSUME ~mlCut' PROVE ~mlCut /\ mlTv >= Sub
    <3>1. ~mlCut /\ ~(mlTv < Sub)
      BY <2>1, <2>3, Zenon
    <3> QED BY <1>0, <1>s, <3>1
  <2>4. mlTimer' = 0 /\ ~mlAlarm'
    BY <1>0, <2>1
  <2>5. ASSUME ~mlCut' PROVE \A p \in LoopPorts : mlDue'[p] > NextWait' - Sub
    BY <2>1, <2>2, <2>3, <2>5 DEF UnixWaits
  <2> QED BY <2>1, <2>3, <2>4, <2>5 DEF UnixWaits
<1>5. CASE FrameDropped
  <2>1. /\ mlPc = "frame" /\ mlPc' = "top" /\ mlDelay' = -1
        /\ UNCHANGED <<mlDue, mlTv, mlTimer, mlAlarm, mlCut>>
    BY <1>5 DEF FrameDropped
  <2>2. NextWait = mlTv /\ NextWait' = mlTv
    BY <1>0, <2>1, NewWait DEF NextWait
  <2> QED BY <1>0, <2>1, <2>2 DEF UnixWaits
<1>6. ASSUME NEW S \in (SUBSET LoopPorts) \ {{}}, FrameHandled(S)
      PROVE  UnixWaits'
  <2>1. /\ mlPc = "frame" /\ mlPc' = "top" /\ UNCHANGED <<mlTv, mlAlarm, mlCut>>
    BY <1>6 DEF FrameHandled
  <2>2. /\ mlTimer' = mlTimer /\ mlDelay' \in Nat
        /\ \A p \in LoopPorts : mlDue'[p] >= mlDelay' * Sub \/ mlDue'[p] = mlDue[p]
    BY <1>6, SomeRun
  <2>3. NextWait = mlTv /\ NextWait' = NewTv(mlDelay', mlTv)
    BY <2>1 DEF NextWait
  <2>4. /\ NextWait' \in Nat /\ NextWait' < mlDelay' * Sub + Sub /\ mlDelay' * Sub \in Nat
        /\ mlTv >= Sub => NextWait' <= mlTv
    BY <1>0, <2>2, <2>3, NewWait, TimesNat
  <2>5. ASSUME ~mlCut, NEW p \in LoopPorts PROVE mlDue'[p] > NextWait' - Sub
    <3>1. mlTv >= Sub /\ mlDue[p] > mlTv - Sub
      BY <2>1, <2>3, <2>5 DEF UnixWaits
    <3>2. CASE mlDue'[p] = mlDue[p]
      BY <1>0, <1>s, <2>4, <3>1, <3>2
    <3>3. CASE mlDue'[p] >= mlDelay' * Sub
      <4> DEFINE x == mlDelay' * Sub
      <4>1. x \in Nat /\ NextWait' < x + Sub /\ mlDue'[p] >= x /\ NextWait' \in Nat
        BY <2>4, <3>3
      <4> HIDE DEF x
      <4> QED BY <1>0, <1>s, <4>1
    <3> QED BY <2>2, <3>2, <3>3
  <2> QED BY <1>0, <2>1, <2>2, <2>5 DEF UnixWaits
<1>7. CASE Passes
  <2>1. /\ mlPc = "wait" /\ mlTv' = mlTv - 1
        /\ \A p \in LoopPorts : mlDue'[p] >= mlDue[p] - 1
    BY <1>0, <1>7, TimePasses
  <2>2. mlPc' = "wait" /\ mlTimer' = 0 /\ ~mlAlarm' /\ mlCut' = mlCut
    <3>1. /\ mlTimer' = Down(mlTimer) /\ mlAlarm' = (mlAlarm \/ mlTimer = 1) /\ mlCut' = mlCut
          /\ mlPc' = IF mlPc = "wait" /\ mlTimer = 1 THEN "intr" ELSE mlPc
      BY <1>7, Zenon DEF Passes
    <3>2. mlTimer # 1 /\ Down(mlTimer) = 0
      BY <1>0 DEF Down
    <3>3. ~mlAlarm'
      BY <1>0, <3>1, <3>2, Zenon
    <3> QED BY <2>1, <3>1, <3>2, <3>3
  <2>3. NextWait = mlTv /\ NextWait' = mlTv - 1
    BY <2>1, <2>2 DEF NextWait
  <2>4. ASSUME ~mlCut, NEW p \in LoopPorts PROVE mlDue'[p] > NextWait' - Sub
    <3>1. mlDue[p] > mlTv - Sub
      BY <2>3, <2>4 DEF UnixWaits
    <3> QED BY <1>0, <1>s, <2>1, <2>3, <3>1
  <2> QED BY <2>2, <2>4 DEF UnixWaits
<1>8. CASE UNCHANGED mlVars
  BY <1>8 DEF mlVars, UnixWaits, NextWait
<1> QED BY <1>1, <1>2, <1>3, <1>4, <1>5, <1>6, <1>7, <1>8 DEF MlNext

(* The switch: the bounds hold after every step.                           *)
LEMMA WrsBoundedStep ==
  ASSUME MlTypeOK, mlKind = "wrs", WrsBounded, [MlNext]_mlVars
  PROVE  WrsBounded'
<1> DEFINE D == DefaultDelay * Sub
<1>0. /\ mlDelay \in Nat \cup {-1} /\ mlTv \in Nat /\ mlTimer \in Nat /\ mlRpc \in Nat
      /\ mlAlarm \in BOOLEAN
      /\ mlTv <= D /\ mlTimer <= D /\ mlRpc <= Sub
  BY DEF MlTypeOK, WrsBounded
<1>1. Sub \in Nat \ {0} /\ D \in Nat /\ DefaultDelay \in Nat
  BY LoopAssumption, TimesNat
<1>r. ASSUME RunAll PROVE mlTimer' <= D /\ mlDelay' <= DefaultDelay /\ mlPc' = "top"
  BY <1>1, <1>r, AllRun, TimesSub
<1> HIDE DEF D
<1>a. SUFFICES /\ mlTv' <= D /\ mlTimer' <= D /\ mlRpc' <= Sub
               /\ ~mlAlarm' \/ mlPc' = "rpc" => mlDelay' <= DefaultDelay
  BY DEF WrsBounded, D
<1>2. CASE UnixTurn
  BY <1>2 DEF UnixTurn
<1>3. CASE WrsLook
  <2>1. /\ ~mlAlarm /\ mlRpc' = 0
        /\ UNCHANGED <<mlTv, mlTimer, mlDelay>>
    BY <1>3 DEF WrsLook, MayLook
  <2> QED BY <1>0, <1>1, <2>1 DEF WrsBounded
<1>4. CASE WrsWait
  <2>1. /\ mlPc = "rpc" /\ mlTv' = NewTv(mlDelay, mlTv)
        /\ UNCHANGED <<mlTimer, mlDelay, mlRpc>>
    BY <1>4 DEF WrsWait, check_packet
  <2>2. mlDelay <= DefaultDelay
    BY <2>1 DEF WrsBounded
  <2>3. mlDelay * Sub <= D
    BY <1>0, <1>1, <2>2, TimesSub DEF D
  <2>4. mlTv' <= D
    BY <1>0, <2>1, <2>3, NewWait
  <2> QED BY <1>0, <2>1, <2>2, <2>4
<1>5. CASE WrsSkip
  BY <1>0, <1>5, <1>r DEF WrsSkip
<1>6. CASE WaitEnds
  <2>1. mlTv' = 0 /\ mlRpc' = mlRpc
    BY <1>6 DEF WaitEnds
  <2>2. CASE RunAll
    BY <1>0, <1>1, <1>r, <2>1, <2>2
  <2>3. CASE mlPc' = "top" /\ UNCHANGED <<mlDue, mlDelay, mlTimer, mlAlarm>>
    BY <1>0, <1>1, <2>1, <2>3 DEF WrsBounded
  <2> QED BY <1>6, <2>2, <2>3 DEF WaitEnds
<1>7. CASE FrameArrives
  <2>1. mlPc' = "frame" /\ UNCHANGED <<mlTv, mlTimer, mlRpc, mlDelay, mlAlarm>>
    BY <1>7 DEF FrameArrives
  <2> QED BY <1>0, <2>1 DEF WrsBounded
<1>8. CASE FrameDropped
  <2>1. mlPc' = "top" /\ mlDelay' = -1 /\ UNCHANGED <<mlTv, mlTimer, mlRpc>>
    BY <1>8 DEF FrameDropped
  <2> QED BY <1>0, <1>1, <2>1
<1>9. ASSUME NEW S \in (SUBSET LoopPorts) \ {{}}, FrameHandled(S)
      PROVE  /\ mlTv' <= D /\ mlTimer' <= D /\ mlRpc' <= Sub
             /\ ~mlAlarm' \/ mlPc' = "rpc" => mlDelay' <= DefaultDelay
  <2>1. mlPc' = "top" /\ UNCHANGED <<mlTv, mlRpc, mlAlarm>>
    BY <1>9 DEF FrameHandled
  <2>2. mlTimer' <= mlTimer /\ mlTimer' \in Nat
    BY <1>0, <1>9, SomeRun
  <2>3. ASSUME ~mlAlarm PROVE mlDelay' <= DefaultDelay
    <3>1. mlTimer' = mlDelay' * Sub /\ mlDelay' \in Nat
      BY <1>9, <2>3, SomeRun
    <3>2. CASE mlDelay' > DefaultDelay
      <4>0. DefaultDelay + 1 \in Int /\ mlDelay' \in Int /\ DefaultDelay + 1 <= mlDelay'
        BY <1>1, <3>1, <3>2
      <4>1. (DefaultDelay + 1) * Sub <= mlDelay' * Sub
        BY <4>0, TimesSub
      <4>2. (DefaultDelay + 1) * Sub = D + Sub
        BY <1>1 DEF D
      <4>3. mlTimer' >= D + Sub
        BY <3>1, <4>1, <4>2
      <4> QED BY <1>0, <1>1, <2>2, <4>3
    <3> QED BY <1>1, <3>1, <3>2
  <2> QED BY <1>0, <1>1, <2>1, <2>2, <2>3
<1>10. CASE Passes
  <2>1. mlTv' <= mlTv /\ mlRpc' <= Sub
    BY <1>0, <1>1, <1>10, TimePasses
  <2>2. /\ mlTimer' = Down(mlTimer) /\ mlDelay' = mlDelay /\ mlAlarm' = (mlAlarm \/ mlTimer = 1)
        /\ mlPc' = IF mlPc = "wait" /\ mlTimer = 1 THEN "intr" ELSE mlPc
    BY <1>10, Zenon DEF Passes
  <2>3. mlTimer' <= mlTimer /\ mlTimer' \in Nat
    BY <1>0, <2>2 DEF Down
  <2>4. ~mlAlarm' => ~mlAlarm
    BY <2>2, Zenon
  <2>5. mlPc' = "rpc" => mlPc = "rpc"
    BY <2>2
  <2>6. mlTv' \in Nat
    BY <1>0, <1>10 DEF Passes
  <2> QED BY <1>0, <1>1, <2>1, <2>2, <2>3, <2>4, <2>5, <2>6 DEF WrsBounded
<1>11. CASE UNCHANGED mlVars
  BY <1>0, <1>11 DEF mlVars, WrsBounded
<1> QED BY <1>2, <1>3, <1>4, <1>5, <1>6, <1>7, <1>8, <1>9, <1>10, <1>11 DEF MlNext

(* A call and a wait after it, together.                                   *)
LEMMA CallThenWait ==
  ASSUME NEW tv \in Nat, NEW r \in Nat, NEW s \in Nat, NEW sub \in Nat, r <= sub, tv <= s - sub
  PROVE  tv - s <= 0 - r
  OBVIOUS

(* The switch: no step lets a port wait longer than WrsLate says.          *)
LEMMA WrsStep ==
  ASSUME MlTypeOK, MlTypeOK', mlKind = "wrs", WrsWaits, [MlNext]_mlVars, ~mlCut'
  PROVE  WrsArmed' /\ \A p \in LoopPorts : mlDue'[p] >= WrsLate'
<1> DEFINE Goal == WrsArmed' /\ \A p \in LoopPorts : mlDue'[p] >= WrsLate'
<1> SUFFICES Goal
  OBVIOUS
<1>0. /\ mlDue \in [LoopPorts -> Int] /\ mlDelay \in Nat \cup {-1} /\ mlTv \in Nat
      /\ mlTimer \in Nat /\ mlAlarm \in BOOLEAN /\ mlCut \in BOOLEAN /\ mlRpc \in Nat
      /\ mlPc \in {"top", "rpc", "wait", "intr", "frame"}
      /\ mlDue' \in [LoopPorts -> Int] /\ mlDelay' \in Nat \cup {-1} /\ mlTv' \in Nat
      /\ mlTimer' \in Nat /\ mlAlarm' \in BOOLEAN /\ mlRpc' \in Nat
  BY DEF MlTypeOK
<1>n. /\ mlTv \in Nat /\ mlTimer \in Nat /\ mlRpc \in Nat
      /\ mlTv' \in Nat /\ mlTimer' \in Nat /\ mlRpc' \in Nat
  BY <1>0
<1>c. ~mlCut
  BY DEF MlNext, UnixTurn, WrsLook, WrsWait, WrsSkip, WaitEnds, FrameArrives, FrameDropped,
         FrameHandled, Passes, mlVars
<1>w. /\ WrsBounded /\ WrsArmed /\ \A p \in LoopPorts : mlDue[p] >= WrsLate
  BY <1>c DEF WrsWaits
<1>s. Sub \in Nat \ {0} /\ Slack \in Nat /\ mlTv <= Slack - Sub /\ mlRpc <= Sub
  BY <1>0, <1>w, SlackNat, LoopAssumption, TimesNat DEF WrsBounded
<1>r. ASSUME RunAll PROVE Goal
  <2>1. /\ mlDelay' \in Nat /\ mlAlarm' = FALSE /\ mlPc' = "top" /\ mlTimer' = mlDelay' * Sub
        /\ \A p \in LoopPorts : mlDue'[p] >= mlTimer' /\ mlDue'[p] >= 0
    BY <1>r, AllRun
  <2>2. mlTimer' = 0 <=> mlDelay' = 0
    BY <2>1, TimesNat
  <2>3. WrsLate' = IF mlTimer' > 0 THEN mlTimer' ELSE 0
    BY <2>1 DEF WrsLate
  <2> QED BY <2>1, <2>2, <2>3 DEF WrsArmed
<1> HIDE DEF Goal
<1>1. CASE UnixTurn
  BY <1>1 DEF UnixTurn
<1>2. CASE WrsLook
  <2>1. /\ mlPc = "top" /\ ~mlAlarm /\ mlRpc' = 0 /\ mlPc' = "rpc"
        /\ UNCHANGED <<mlDue, mlDelay, mlTv, mlTimer, mlAlarm>>
    BY <1>2 DEF WrsLook, MayLook
  <2>2. WrsLate = IF mlTimer > 0 THEN mlTimer ELSE 0
    BY <2>1 DEF WrsLate
  <2>3. WrsLate' = IF mlTimer > 0 THEN mlTimer ELSE -0
    BY <2>1 DEF WrsLate
  <2>4. WrsArmed'
    BY <1>w, <2>1 DEF WrsArmed
  <2> QED BY <1>0, <1>w, <2>1, <2>2, <2>3, <2>4 DEF Goal
<1>3. CASE WrsWait
  <2>1. /\ mlPc = "rpc" /\ mlTv' = NewTv(mlDelay, mlTv) /\ mlPc' = "wait"
        /\ UNCHANGED <<mlDue, mlDelay, mlTimer, mlAlarm, mlRpc>>
    BY <1>3 DEF WrsWait, check_packet
  <2>2. mlDelay = 0 => mlTv' = 0
    BY <1>0, <2>1, NewWait
  <2>3. WrsArmed'
    BY <1>w, <2>1, <2>2 DEF WrsArmed
  <2>4. WrsBounded'
    BY <1>w, WrsBoundedStep
  <2>5. mlTv' <= Slack - Sub
    BY <1>0, <1>s, <2>4, SlackNat, LoopAssumption, TimesNat DEF WrsBounded
  <2>6. CASE ~mlAlarm /\ mlTimer > 0
    <3>1. WrsLate = mlTimer /\ WrsLate' = mlTimer
      BY <2>1, <2>6 DEF WrsLate
    <3> QED BY <1>w, <2>1, <2>3, <3>1 DEF Goal
  <2>7. CASE ~(~mlAlarm /\ mlTimer > 0)
    <3>1. WrsLate = 0 - mlRpc
      BY <2>1, <2>7 DEF WrsLate
    <3>2. WrsLate' = IF mlAlarm THEN mlTv' - Slack ELSE 0 - mlRpc
      BY <2>1, <2>7 DEF WrsLate
    <3>3. WrsLate' <= 0 - mlRpc /\ WrsLate' \in Int
      <4>a. mlTv' \in Nat /\ mlRpc \in Nat /\ Slack \in Nat /\ Sub \in Nat /\ mlRpc <= Sub
            /\ mlTv' <= Slack - Sub
        BY <1>n, <1>s, <2>5
      <4>b. mlTv' - Slack \in Int
        BY <4>a
      <4>c. 0 - mlRpc \in Int
        BY <4>a
      <4>1. mlTv' - Slack <= 0 - mlRpc
        BY <4>a, CallThenWait
      <4> QED BY <3>2, <4>1
    <3> QED BY <1>0, <1>w, <2>1, <2>3, <3>1, <3>3 DEF Goal
  <2> QED BY <2>6, <2>7
<1>4. CASE WrsSkip
  BY <1>4, <1>r DEF WrsSkip
<1>5. CASE WaitEnds
  <2>1. CASE RunAll
    BY <1>r, <2>1
  <2>2. CASE ~RunAll
    <3>1. /\ ~mlAlarm /\ mlDelay # 0 /\ mlPc' = "top"
          /\ UNCHANGED <<mlDue, mlDelay, mlTimer, mlAlarm>>
      BY <1>5, <2>2 DEF WaitEnds
    <3>2. mlTimer > 0
      BY <1>0, <1>w, <3>1 DEF WrsArmed
    <3>3. WrsLate = mlTimer /\ WrsLate' = mlTimer
      BY <3>1, <3>2 DEF WrsLate
    <3>4. WrsArmed'
      BY <1>w, <3>1 DEF WrsArmed
    <3> QED BY <1>w, <3>1, <3>3, <3>4 DEF Goal
  <2> QED BY <2>1, <2>2
<1>6. CASE FrameArrives
  <2>1. /\ mlPc = "wait" /\ mlPc' = "frame" /\ mlDelay # 0
        /\ UNCHANGED <<mlDue, mlDelay, mlTv, mlTimer, mlAlarm, mlRpc>>
    BY <1>6 DEF FrameArrives
  <2>2. WrsLate' = WrsLate
    BY <2>1 DEF WrsLate
  <2>3. WrsArmed'
    BY <1>w, <2>1 DEF WrsArmed
  <2> QED BY <1>w, <2>1, <2>2, <2>3 DEF Goal
<1>7. CASE FrameDropped
  <2>1. /\ mlPc = "frame" /\ mlPc' = "top" /\ mlDelay' = -1
        /\ UNCHANGED <<mlDue, mlTv, mlTimer, mlAlarm, mlRpc>>
    BY <1>7 DEF FrameDropped
  <2>2. ~mlAlarm => mlTimer > 0
    BY <1>0, <1>w, <2>1 DEF WrsArmed
  <2>3. WrsArmed'
    BY <1>w, <2>1, <2>2 DEF WrsArmed
  <2>4. WrsLate = IF mlAlarm THEN mlTv - Slack ELSE mlTimer
    BY <2>1, <2>2 DEF WrsLate
  <2>5. WrsLate' = IF mlAlarm THEN -Slack ELSE mlTimer
    BY <2>1, <2>2 DEF WrsLate, Slack
  <2> QED BY <1>0, <1>s, <1>w, <2>1, <2>3, <2>4, <2>5 DEF Goal
<1>8. ASSUME NEW S \in (SUBSET LoopPorts) \ {{}}, FrameHandled(S)
      PROVE  Goal
  <2>1. mlPc = "frame" /\ mlPc' = "top" /\ UNCHANGED <<mlTv, mlRpc, mlAlarm>>
    BY <1>8 DEF FrameHandled
  <2>2. ~mlAlarm => mlTimer > 0
    BY <1>0, <1>w, <2>1 DEF WrsArmed
  <2>3. WrsLate = IF mlAlarm THEN mlTv - Slack ELSE mlTimer
    BY <2>1, <2>2 DEF WrsLate
  <2>4. CASE mlAlarm
    <3>1. mlTimer' = mlTimer /\ \A p \in LoopPorts : mlDue'[p] >= 0 \/ mlDue'[p] = mlDue[p]
      BY <1>8, <2>4, SomeRun
    <3>2. WrsLate' = -Slack
      BY <2>1, <2>4 DEF WrsLate, Slack
    <3>3. WrsArmed'
      BY <1>w, <2>1, <2>4, <3>1 DEF WrsArmed
    <3>4. ASSUME NEW p \in LoopPorts PROVE mlDue'[p] >= -Slack
      <4>1. mlDue[p] >= mlTv - Slack
        BY <1>w, <2>3, <2>4
      <4> QED BY <1>0, <1>s, <3>1, <4>1
    <3> QED BY <3>2, <3>3, <3>4 DEF Goal
  <2>5. CASE ~mlAlarm
    <3>1. /\ mlTimer' = mlDelay' * Sub /\ mlTimer' <= mlTimer /\ mlDelay' \in Nat
          /\ \A p \in LoopPorts : mlDue'[p] >= mlTimer' \/ mlDue'[p] = mlDue[p]
      BY <1>8, <2>5, SomeRun
    <3>2. mlTimer' = 0 <=> mlDelay' = 0
      BY <3>1, TimesNat
    <3>3. WrsArmed'
      BY <2>1, <2>5, <3>2 DEF WrsArmed
    <3>4. WrsLate' = mlTimer'
      BY <1>0, <2>1, <2>5 DEF WrsLate
    <3>5. ASSUME NEW p \in LoopPorts PROVE mlDue'[p] >= mlTimer'
      <4>1. mlDue[p] >= mlTimer
        BY <1>w, <2>3, <2>5
      <4>2. mlTimer' <= mlTimer /\ (mlDue'[p] >= mlTimer' \/ mlDue'[p] = mlDue[p])
        BY <3>1
      <4> QED BY <1>0, <4>1, <4>2
    <3> QED BY <3>3, <3>4, <3>5 DEF Goal
  <2> QED BY <2>4, <2>5
<1>9. CASE Passes
  <2>1. /\ mlPc \in {"wait", "rpc"} /\ \A p \in LoopPorts : mlDue'[p] >= mlDue[p] - 1
        /\ mlPc = "wait" => mlTv > 0 /\ mlTv' = mlTv - 1 /\ mlRpc' = mlRpc
        /\ mlPc = "rpc" => mlTv' = mlTv /\ mlRpc' = mlRpc + 1
    BY <1>9, TimePasses
  <2>2. /\ mlTimer' = Down(mlTimer) /\ mlDelay' = mlDelay /\ mlAlarm' = (mlAlarm \/ mlTimer = 1)
        /\ mlPc' = IF mlPc = "wait" /\ mlTimer = 1 THEN "intr" ELSE mlPc
    BY <1>9, Zenon DEF Passes
  <2>3. CASE mlAlarm
    <3>1. mlTimer = 0
      BY <1>w, <2>3 DEF WrsArmed
    <3>2. mlTimer' = 0 /\ mlAlarm' = TRUE /\ mlPc' = mlPc
      <4>1. mlTimer' = 0 /\ mlPc' = mlPc
        BY <2>2, <3>1 DEF Down
      <4>2. mlAlarm' = TRUE
        BY <2>2, <2>3, Zenon
      <4> QED BY <4>1, <4>2
    <3>3. WrsArmed'
      BY <2>1, <3>2 DEF WrsArmed
    <3>4. WrsLate = IF mlPc = "wait" THEN mlTv - Slack ELSE 0 - mlRpc
      BY <2>1, <2>3 DEF WrsLate
    <3>5. WrsLate' = IF mlPc = "wait" THEN mlTv' - Slack ELSE 0 - mlRpc'
      BY <2>1, <3>2 DEF WrsLate, Slack
    <3>6. WrsLate' = WrsLate - 1 /\ WrsLate \in Int
      <4>1. CASE mlPc = "wait"
        BY <1>n, <1>s, <2>1, <3>4, <3>5, <4>1
      <4>2. CASE mlPc = "rpc"
        BY <1>n, <2>1, <3>4, <3>5, <4>2
      <4> QED BY <2>1, <4>1, <4>2
    <3>7. ASSUME NEW p \in LoopPorts PROVE mlDue'[p] >= WrsLate'
      BY <1>0, <1>w, <2>1, <3>6
    <3> QED BY <3>3, <3>7 DEF Goal
  <2>4. CASE ~mlAlarm /\ mlTimer > 0
    <3>1. WrsLate = mlTimer /\ mlTimer' = mlTimer - 1 /\ mlDelay # 0
      BY <1>0, <1>w, <2>2, <2>4 DEF WrsLate, WrsArmed, Down
    <3>2. ASSUME NEW p \in LoopPorts PROVE mlDue'[p] >= mlTimer'
      BY <1>0, <1>w, <2>1, <3>1
    <3>3. CASE mlTimer = 1
      <4>1. mlTimer' = 0 /\ mlAlarm' = TRUE
        <5>1. mlTimer' = 0
          BY <3>1, <3>3
        <5>2. mlAlarm' = TRUE
          BY <2>2, <3>3, Zenon
        <5> QED BY <5>1, <5>2
      <4>2. mlPc = "wait" => mlPc' = "intr" /\ mlTv' = mlTv - 1
        BY <2>1, <2>2, <3>3
      <4>3. mlPc = "rpc" => mlPc' = "rpc"
        BY <2>2
      <4>4. WrsArmed'
        BY <4>1 DEF WrsArmed
      <4>5. WrsLate' = IF mlPc = "wait" THEN 0 ELSE 0 - mlRpc'
        BY <2>1, <4>1, <4>2, <4>3 DEF WrsLate
      <4>6. WrsLate' <= 0 /\ WrsLate' \in Int
        <5>1. PICK r \in Nat : r = mlRpc'
          BY <1>n
        <5>2. 0 - r <= 0 /\ 0 - r \in Int
          OBVIOUS
        <5>3. CASE mlPc = "wait"
          BY <4>5, <5>3
        <5>4. CASE mlPc # "wait"
          <6>1. WrsLate' = 0 - r
            BY <4>5, <5>1, <5>4
          <6> QED BY <5>2, <6>1
        <5> QED BY <5>3, <5>4
      <4> QED BY <1>0, <3>2, <4>1, <4>4, <4>6 DEF Goal
    <3>4. CASE mlTimer # 1
      <4>1. mlTimer' > 0 /\ mlPc' = mlPc
        BY <1>0, <2>2, <2>4, <3>1, <3>4
      <4>2. mlAlarm' = FALSE
        BY <2>2, <2>4, <3>4, Zenon
      <4>3. WrsArmed'
        BY <2>1, <2>2, <3>1, <4>1, <4>2 DEF WrsArmed
      <4>4. WrsLate' = mlTimer'
        BY <4>1, <4>2 DEF WrsLate
      <4> QED BY <3>2, <4>3, <4>4 DEF Goal
    <3> QED BY <3>3, <3>4
  <2>5. CASE ~mlAlarm /\ mlTimer = 0
    <3>1. mlDelay = 0 /\ mlPc = "rpc"
      BY <1>0, <1>w, <2>1, <2>5 DEF WrsArmed
    <3>2. mlTimer # 1
      BY <2>5
    <3>3. mlTimer' = 0 /\ mlPc' = "rpc"
      BY <1>0, <2>2, <2>5, <3>1 DEF Down
    <3>4. mlAlarm' = FALSE
      BY <2>2, <2>5, <3>2, Zenon
    <3>5. WrsLate = 0 - mlRpc /\ WrsLate' = 0 - mlRpc' /\ mlRpc' = mlRpc + 1
      BY <2>1, <2>5, <3>1, <3>3, <3>4 DEF WrsLate
    <3>6. WrsArmed'
      BY <2>2, <3>1, <3>3, <3>4 DEF WrsArmed
    <3>7. ASSUME NEW p \in LoopPorts PROVE mlDue'[p] >= WrsLate'
      BY <1>0, <1>w, <2>1, <3>5
    <3> QED BY <3>6, <3>7 DEF Goal
  <2> QED BY <1>0, <2>3, <2>4, <2>5
<1>10. CASE UNCHANGED mlVars
  BY <1>w, <1>10 DEF mlVars, WrsArmed, WrsLate, Goal
<1> QED BY <1>1, <1>2, <1>3, <1>4, <1>5, <1>6, <1>7, <1>8, <1>9, <1>10 DEF MlNext

(* MlInv is inductive.                                                     *)
LEMMA MlStarts == ASSUME MlInit PROVE MlInv
<1>1. PICK d \in [LoopPorts -> Delays] :
        mlDue = [p \in LoopPorts |-> d[p] * Sub] /\ mlDelay = Smallest(d)
  BY DEF MlInit
<1>2. Smallest(d) \in Nat /\ \A p \in LoopPorts : d[p] \in Nat /\ Smallest(d) <= d[p]
  BY SmallestDelay
<1>3. \A p \in LoopPorts : mlDue[p] \in Nat /\ mlDue[p] >= mlDelay * Sub
  BY <1>1, <1>2, TimesNat, TimesSub
<1>4. MlTypeOK
  <2>1. mlDue \in [LoopPorts -> Int]
    BY <1>1, <1>3
  <2>2. mlAlarm \in BOOLEAN
    BY Zenon DEF MlInit
  <2>3. /\ mlKind \in LoopKinds /\ mlTv = 0 /\ mlTimer = 0 /\ mlSkipped = 0
        /\ mlCut = FALSE /\ mlRpc = 0 /\ mlPc = "top"
    BY DEF MlInit
  <2>4. mlDelay \in Nat \cup {-1} /\ {mlTv, mlTimer, mlSkipped, mlRpc} \subseteq Nat
    BY <1>1, <1>2, <2>3
  <2>5. mlCut \in BOOLEAN /\ mlPc \in {"top", "rpc", "wait", "intr", "frame"}
    BY <2>3, Zenon
  <2> QED BY <2>1, <2>2, <2>3, <2>4, <2>5, Zenon DEF MlTypeOK
<1>5. ASSUME mlKind = "unix" PROVE UnixWaits
  <2>1. ~mlAlarm
    <3>1. mlKind # "wrs"
      BY <1>5
    <3> QED BY <3>1, Zenon DEF MlInit
  <2>2. NextWait = mlDelay * Sub
    BY <1>1, <1>2, NewWait DEF MlInit, NextWait
  <2>3. mlDelay * Sub \in Nat /\ Sub \in Nat \ {0}
    BY <1>1, <1>2, TimesNat, LoopAssumption
  <2>4. \A p \in LoopPorts : mlDue[p] > NextWait - Sub
    BY <1>3, <2>2, <2>3
  <2> QED BY <2>1, <2>4 DEF MlInit, UnixWaits
<1>6. ASSUME mlKind = "wrs" PROVE WrsWaits
  <2>1. mlAlarm = TRUE
    BY <1>6, Zenon DEF MlInit
  <2>2. DefaultDelay * Sub \in Nat /\ Sub \in Nat \ {0} /\ Slack \in Nat
    BY TimesNat, SlackNat, LoopAssumption
  <2>3. WrsLate = -Slack
    BY <2>1 DEF MlInit, WrsLate
  <2>4. \A p \in LoopPorts : mlDue[p] >= WrsLate
    BY <1>3, <2>2, <2>3
  <2> QED BY <2>1, <2>2, <2>4 DEF MlInit, WrsWaits, WrsBounded, WrsArmed
<1> QED BY <1>4, <1>5, <1>6 DEF MlInv

(* A step of either loop.                                                  *)
LEMMA MlStays == ASSUME MlInv, [MlNext]_mlVars PROVE MlInv'
<1>1. MlTypeOK'
  BY MlTypes DEF MlInv
<1>2. mlKind' = mlKind
  BY DEF MlNext, UnixTurn, WrsLook, WrsWait, WrsSkip, WaitEnds, FrameArrives, FrameDropped,
         FrameHandled, Passes, mlVars
<1>3. ASSUME mlKind = "unix" PROVE UnixWaits'
  BY <1>1, <1>3, UnixStep DEF MlInv
<1>4. ASSUME mlKind = "wrs" PROVE WrsWaits'
  <2>1. MlTypeOK /\ WrsWaits /\ WrsBounded
    BY <1>4 DEF MlInv, WrsWaits
  <2>2. WrsBounded'
    BY <1>4, <2>1, WrsBoundedStep
  <2>3. ~mlCut' => WrsArmed' /\ \A p \in LoopPorts : mlDue'[p] >= WrsLate'
    BY <1>1, <1>4, <2>1, WrsStep
  <2> QED BY <2>2, <2>3 DEF WrsWaits
<1> QED BY <1>1, <1>2, <1>3, <1>4 DEF MlInv

(* MlInv is what PortsOnTime needs, in every place of the loops.           *)
LEMMA MlImplies == ASSUME MlInv PROVE PortsOnTime
<1>1. SUFFICES ASSUME ~mlCut, NEW p \in LoopPorts PROVE mlDue[p] >= -Slack
  BY SlackNat DEF PortsOnTime, Late, MlInv, MlTypeOK
<1>2. Slack \in Nat /\ mlDue[p] \in Int /\ mlTv \in Nat /\ mlRpc \in Nat /\ mlTimer \in Nat
      /\ mlKind \in {"unix", "wrs"} /\ mlAlarm \in BOOLEAN
      /\ mlPc \in {"top", "rpc", "wait", "intr", "frame"} /\ mlDelay \in Nat \cup {-1}
  BY SlackNat, LoopAssumption DEF MlInv, MlTypeOK
<1>3. Slack >= Sub /\ Sub \in Nat \ {0}
  BY SlackNat, TimesNat, LoopAssumption
<1>4. CASE mlKind = "unix"
  <2>1. mlDue[p] > NextWait - Sub
    BY <1>1, <1>4 DEF MlInv, UnixWaits
  <2>2. NextWait \in Nat
    BY <1>2, NewWait DEF NextWait
  <2> QED BY <1>2, <1>3, <2>1, <2>2
<1>5. CASE mlKind = "wrs"
  <2>1. mlDue[p] >= WrsLate /\ mlRpc <= Sub
    BY <1>1, <1>5 DEF MlInv, WrsWaits, WrsBounded
  <2>2. WrsLate \in {mlTimer, mlTv - Slack, 0 - mlRpc, 0, -Slack}
    BY <1>2 DEF WrsLate, Slack
  <2>3. WrsLate >= -Slack /\ WrsLate \in Int
    BY <1>2, <1>3, <2>1, <2>2
  <2> QED BY <1>2, <2>1, <2>3
<1> QED BY <1>2, <1>4, <1>5

(* For any number of ports, any delays and either loop: no port is called  *)
(* later than it asked for by more than one wait of the switch, unless a   *)
(* frame came when the wait was as good as over (unix_main_loop(),         *)
(* wrs_main_loop(), unix_net_check_packet()).                              *)
THEOREM EveryPortOnTime == MlSpec => []PortsOnTime
<1>1. MlInit => MlInv
  BY MlStarts
<1>2. MlInv /\ [MlNext]_mlVars => MlInv'
  BY MlStays
<1>3. MlInv => PortsOnTime
  BY MlImplies
<1> QED BY <1>1, <1>2, <1>3, PTL DEF MlSpec

-----------------------------------------------------------------------------
(* The clock under the clock.                                              *)

(* Division by a positive number, as the proofs use it.                    *)
LEMMA Division ==
  ASSUME NEW n \in Nat, NEW d \in Nat \ {0}
  PROVE  /\ n \div d \in Nat /\ n % d \in 0..(d - 1)
         /\ n = d * (n \div d) + (n % d)
  OBVIOUS

(* What divides with a remainder in range is the quotient.                 *)
LEMMA QuotientUnique ==
  ASSUME NEW n \in Nat, NEW d \in Nat \ {0}, NEW q \in Nat, NEW r \in 0..(d - 1), n = d * q + r
  PROVE  n \div d = q
  OBVIOUS

(* Multiplication keeps the order.                                         *)
LEMMA Grows ==
  ASSUME NEW d \in Nat, NEW p \in Int, NEW q \in Int, p <= q
  PROVE  d * p \in Int /\ d * q \in Int /\ d * p <= d * q
  OBVIOUS

(* So does division.                                                       *)
LEMMA QuotientGrows ==
  ASSUME NEW m \in Nat, NEW n \in Nat, NEW d \in Nat \ {0}, m <= n
  PROVE  m \div d <= n \div d
<1> DEFINE p == m \div d
           q == n \div d
<1>1. p \in Nat /\ q \in Nat /\ d * p <= m /\ n < d * q + d
  BY Division
<1> HIDE DEF p, q
<1>2. CASE p > q
  <2>1. d * (q + 1) <= d * p
    BY <1>1, <1>2, Grows
  <2>2. d * (q + 1) = d * q + d
    BY <1>1
  <2> QED BY <1>1, <2>1, <2>2
<1>3. p <= q
  BY <1>1, <1>2
<1> QED BY <1>3 DEF p, q

(* The quotient by a product, one factor after the other.                  *)
LEMMA QuotientTwice ==
  ASSUME NEW n \in Nat, NEW c \in Nat \ {0}, NEW l \in Nat \ {0}
  PROVE  n \div (c * l) = (n \div c) \div l
<1> DEFINE s == n \div c
           h == s \div l
           m == s % l
           r == n % c
<1>1. s \in Nat /\ r \in 0..(c - 1) /\ n = c * s + r
  BY Division
<1> HIDE DEF r
<1>2. h \in Nat /\ m \in 0..(l - 1) /\ s = l * h + m
  BY <1>1, Division
<1> HIDE DEF s, h, m
<1>3. c * s = (c * l) * h + c * m
  BY <1>1, <1>2
<1>4. c * m \in Nat /\ c * m <= c * (l - 1) /\ c * (l - 1) = c * l - c /\ c * l \in Nat \ {0}
  BY <1>2, Grows
<1>5. c * m + r \in 0..(c * l - 1)
  BY <1>1, <1>4
<1>6. n = (c * l) * h + (c * m + r)
  BY <1>1, <1>2, <1>3, <1>4
<1>7. n \div (c * l) = h
  <2> DEFINE d == c * l
             x == c * m + r
  <2>1. d \in Nat \ {0} /\ x \in 0..(d - 1) /\ n = d * h + x
    BY <1>4, <1>5, <1>6
  <2> HIDE DEF d, x
  <2>2. n \div d = h
    BY <1>2, <2>1, QuotientUnique
  <2> QED BY <2>2 DEF d
<1> QED BY <1>7 DEF h, s

(* Two numbers less than l apart with the same remainder are the same.     *)
LEMMA SameRemainder ==
  ASSUME NEW p \in Nat, NEW q \in Nat, NEW l \in Nat \ {0}, p <= q, q < p + l, p % l = q % l
  PROVE  p = q
<1> DEFINE h == p \div l
           k == q \div l
           m == p % l
<1>a. h \in Nat /\ m \in 0..(l - 1) /\ p = l * h + m
  BY Division
<1>b. k \in Nat /\ q = l * k + (q % l)
  BY Division
<1>c. q % l = m
  OBVIOUS
<1> HIDE DEF h, k, m
<1>1. h \in Nat /\ k \in Nat /\ m \in Nat /\ p = l * h + m /\ q = l * k + m
  BY <1>a, <1>b, <1>c
<1>2. CASE k > h
  <2>1. l * (h + 1) <= l * k
    BY <1>1, <1>2, Grows
  <2>2. l * (h + 1) = l * h + l
    BY <1>1
  <2> QED BY <1>1, <2>1, <2>2
<1>3. CASE k <= h
  <2>1. l * k <= l * h
    BY <1>1, <1>3, Grows
  <2> QED BY <1>1, <2>1
<1> QED BY <1>1, <1>2, <1>3

(* The argument of wrdate_get(): the registers were read at instants a to  *)
(* e.  The low word is the same at b and e, so that both are in one second *)
(* and so is c; the high word is the same at a and d, so that it is that   *)
(* of b.  What is put together is the instant c.                           *)
LEMMA OneInstant ==
  ASSUME NEW a \in Nat, NEW b \in Nat, NEW c \in Nat, NEW d \in Nat, NEW e \in Nat,
         a <= b, b <= c, c <= d, d <= e, e <= a + MaxSweep,
         High(a) = High(d), Low(b) = Low(e)
  PROVE  (High(a) * LowWords + Low(b)) * CyclesPerSec + Cycle(c) = c
<1> DEFINE C == CyclesPerSec
           L == LowWords
           p == a \div C
           q == b \div C
           s == c \div C
           t == d \div C
           u == e \div C
<1>1. C \in Nat \ {0} /\ L \in Nat \ {0} /\ MaxSweep \in Nat /\ MaxSweep + C <= C * L
  BY HwAssumption
<1>2. /\ p \in Nat /\ q \in Nat /\ s \in Nat /\ t \in Nat /\ u \in Nat
      /\ p <= q /\ q <= s /\ s <= t /\ t <= u
  BY <1>1, Division, QuotientGrows
<1>3. b < C * q + C /\ C * u <= e
  BY <1>1, Division
<1>4. c = C * s + (c % C) /\ c % C \in Nat
  BY <1>1, Division
<1>5. High(a) = p \div L /\ High(d) = t \div L
  BY <1>1, QuotientTwice DEF High
<1>6. Low(b) = q % L /\ Low(e) = u % L /\ Cycle(c) = c % C
  BY DEF Low, Cycle
<1> HIDE DEF C, L, p, q, s, t, u
<1>7. u < q + L
  <2>1. CASE u >= q + L
    <3>1. C * (q + L) <= C * u
      BY <1>1, <1>2, <2>1, Grows
    <3>2. C * (q + L) = C * q + C * L
      BY <1>1, <1>2
    <3>3. C * q \in Nat /\ C * L \in Nat /\ C * u \in Nat
      BY <1>1, <1>2
    <3> QED BY <1>1, <1>3, <3>1, <3>2, <3>3
  <2> QED BY <1>1, <1>2, <2>1
<1>8. p \div L = t \div L /\ q % L = u % L
  BY <1>5, <1>6
<1>9. (p \div L) * L + (q % L) = s
  <2>1. q <= u /\ q <= t
    BY <1>2
  <2>2. q = u
    BY <1>1, <1>2, <1>7, <1>8, <2>1, SameRemainder
  <2>3. q = s
    BY <1>2, <2>2
  <2>4. p \div L <= q \div L /\ q \div L <= t \div L
    BY <1>1, <1>2, <2>1, QuotientGrows
  <2>5. p \div L \in Nat /\ q \div L \in Nat
    BY <1>1, <1>2, Division
  <2>6. p \div L = q \div L
    BY <1>8, <2>4, <2>5
  <2>7. q = L * (q \div L) + (q % L)
    BY <1>1, <1>2, Division
  <2> QED BY <1>1, <2>3, <2>5, <2>6, <2>7
<1>10. High(a) * L + Low(b) = s
  BY <1>5, <1>6, <1>9
<1>11. s * C + Cycle(c) = c
  BY <1>1, <1>2, <1>4, <1>6
<1>12. (High(a) * L + Low(b)) * C + Cycle(c) = c
  BY <1>10, <1>11
<1> QED BY <1>12 DEF C, L

(* What wrdate_get() has read so far, and when: the high word when it      *)
(* began, the low word, the cycles and the high word again at instants b,  *)
(* c and d after it, one not before the other.                             *)
ReadAt(b, c, d) ==
  /\ hwStart <= b /\ b <= c /\ c <= d /\ d <= hwNow
  /\ hwRead.pc \in {"nsec", "tmp1", "tmp2"} => hwRead.tail = Low(b)
  /\ hwRead.pc \in {"tmp1", "tmp2"} => hwRead.nsec = Cycle(c)
  /\ hwRead.pc = "tmp2" => hwRead.tmp1 = High(d)

Registry ==
  [pc : {"taih", "tail", "nsec", "tmp1", "tmp2", "done"},
   taih : Int, tail : Int, nsec : Int, tmp1 : Int, tmp2 : Int]

HwTypes ==
  /\ hwNow \in Nat /\ hwStart \in Nat /\ hwStart <= hwNow
  /\ hwRead \in Registry

HwInv ==
  /\ HwTypes
  /\ hwRead.pc \notin {"taih", "done"} =>
       /\ hwNow <= hwStart + MaxSweep
       /\ hwRead.taih = High(hwStart)
       /\ \E b, c, d \in Nat : ReadAt(b, c, d)
  /\ InstantRead

(* The registers hold numbers.                                             *)
LEMMA Registers ==
  ASSUME NEW t \in Nat
  PROVE  High(t) \in Nat /\ Low(t) \in Nat /\ Cycle(t) \in Nat
<1>1. CyclesPerSec \in Nat \ {0} /\ LowWords \in Nat \ {0}
  BY HwAssumption
<1>2. CyclesPerSec * LowWords \in Nat \ {0} /\ t \div CyclesPerSec \in Nat
  BY <1>1, Division
<1> QED BY <1>1, <1>2, Division DEF High, Low, Cycle

(* One access to a register changes one field.                             *)
LEMMA Accessed ==
  ASSUME HwTypes, NEW from, NEW value \in Int,
         NEW to \in {"taih", "tail", "nsec", "tmp1", "tmp2", "done"},
         NEW field \in {"taih", "tail", "nsec", "tmp1", "tmp2"},
         ReadRegister(from, field, value, to)
  PROVE  /\ hwRead.pc = from /\ hwNow' = hwNow
         /\ hwStart' = IF from = "taih" THEN hwNow ELSE hwStart
         /\ HwTypes' /\ hwRead'.pc = to /\ hwRead'[field] = value
         /\ \A f \in {"taih", "tail", "nsec", "tmp1", "tmp2"} \ {field} : hwRead'[f] = hwRead[f]
<1>1. /\ hwRead.pc = from /\ hwNow' = hwNow
      /\ hwStart' = IF from = "taih" THEN hwNow ELSE hwStart
      /\ hwRead' = [hwRead EXCEPT !.pc = to, ![field] = value]
  BY DEF ReadRegister
<1>2. hwRead \in Registry
  BY DEF HwTypes
<1>3. /\ hwRead' \in Registry /\ hwRead'.pc = to /\ hwRead'[field] = value
      /\ \A f \in {"taih", "tail", "nsec", "tmp1", "tmp2"} \ {field} : hwRead'[f] = hwRead[f]
  BY <1>1, <1>2 DEF Registry
<1>4. HwTypes'
  BY <1>1, <1>3 DEF HwTypes
<1> QED BY <1>1, <1>3, <1>4

(* HwInv is inductive.                                                     *)
LEMMA HwStays == ASSUME HwInv, [HwNext]_hwVars PROVE HwInv'
<1>0. /\ hwNow \in Nat /\ hwStart \in Nat /\ hwStart <= hwNow /\ MaxSweep \in Nat
      /\ hwRead \in Registry
  BY HwAssumption DEF HwInv, HwTypes
<1>1. High(hwNow) \in Nat /\ Low(hwNow) \in Nat /\ Cycle(hwNow) \in Nat
  BY <1>0, Registers
<1>t. HwTypes
  BY DEF HwInv
<1>v. hwRead.pc \in {"taih", "tail", "nsec", "tmp1", "tmp2", "done"}
  BY <1>0 DEF Registry
<1>2. CASE Counts
  <2>1. hwNow' = hwNow + 1 /\ UNCHANGED <<hwRead, hwStart>>
    BY <1>2 DEF Counts
  <2>2. HwTypes'
    <3>1. hwNow' \in Nat /\ hwStart <= hwNow'
      BY <1>0, <2>1
    <3> QED BY <1>0, <2>1, <3>1 DEF HwTypes
  <2>3. ASSUME hwRead.pc \notin {"taih", "done"}
        PROVE  /\ hwNow' <= hwStart + MaxSweep
               /\ \E b, c, d \in Nat : ReadAt(b, c, d)'
    <3>1. hwNow - hwStart < MaxSweep
      BY <1>2, <2>3 DEF Counts
    <3>2. PICK b \in Nat, c \in Nat, d \in Nat : ReadAt(b, c, d)
      BY <2>3 DEF HwInv
    <3>3. d <= hwNow'
      BY <1>0, <2>1, <3>2 DEF ReadAt
    <3>4. ReadAt(b, c, d)'
      BY <2>1, <3>2, <3>3 DEF ReadAt
    <3> QED BY <1>0, <2>1, <3>1, <3>4
  <2>4. InstantRead'
    <3>1. SUFFICES ASSUME hwRead.pc = "done" PROVE Returned \in hwStart..hwNow'
      BY <2>1 DEF InstantRead, Returned
    <3>2. Returned \in hwStart..hwNow
      BY <3>1 DEF HwInv, InstantRead
    <3> QED BY <1>0, <2>1, <3>2
  <2> QED BY <2>1, <2>2, <2>3, <2>4 DEF HwInv
<1>3. CASE ReadRegister("taih", "taih", High(hwNow), "tail")
  <2>1. /\ hwStart' = hwNow /\ hwNow' = hwNow /\ HwTypes'
        /\ hwRead'.pc = "tail" /\ hwRead'["taih"] = High(hwNow)
    BY <1>t, <1>1, <1>3, Accessed
  <2>2. hwRead'.taih = High(hwNow)
    BY <2>1
  <2>3. ReadAt(hwNow, hwNow, hwNow)'
    BY <1>0, <2>1 DEF ReadAt
  <2>4. hwNow' <= hwStart' + MaxSweep
    BY <1>0, <2>1
  <2>5. \E b, c, d \in Nat : ReadAt(b, c, d)'
    BY <1>0, <2>1, <2>3
  <2> QED BY <2>1, <2>2, <2>4, <2>5 DEF HwInv, InstantRead
<1>m. ASSUME hwRead.pc \notin {"taih", "done"}
      PROVE  /\ hwNow <= hwStart + MaxSweep /\ hwRead.taih = High(hwStart)
             /\ \E b, c, d \in Nat : ReadAt(b, c, d)
  BY <1>m DEF HwInv
<1>4. CASE ReadRegister("tail", "tail", Low(hwNow), "nsec")
  <2>1. /\ hwStart' = hwStart /\ hwNow' = hwNow /\ HwTypes' /\ hwRead.pc = "tail"
        /\ hwRead'.pc = "nsec" /\ hwRead'["tail"] = Low(hwNow) /\ hwRead'["taih"] = hwRead["taih"]
    BY <1>t, <1>1, <1>4, Accessed
  <2>2. ReadAt(hwNow, hwNow, hwNow)'
    BY <1>0, <2>1 DEF ReadAt
  <2>3. \E b, c, d \in Nat : ReadAt(b, c, d)'
    BY <1>0, <2>1, <2>2
  <2> QED BY <1>m, <2>1, <2>3 DEF HwInv, InstantRead
<1>5. CASE ReadRegister("nsec", "nsec", Cycle(hwNow), "tmp1")
  <2>1. /\ hwStart' = hwStart /\ hwNow' = hwNow /\ HwTypes' /\ hwRead.pc = "nsec"
        /\ hwRead'.pc = "tmp1" /\ hwRead'["nsec"] = Cycle(hwNow)
        /\ hwRead'["taih"] = hwRead["taih"] /\ hwRead'["tail"] = hwRead["tail"]
    BY <1>t, <1>1, <1>5, Accessed
  <2>2. PICK b \in Nat, c \in Nat, d \in Nat : ReadAt(b, c, d)
    BY <1>m, <2>1
  <2>3. b <= hwNow /\ hwStart <= b /\ hwRead.tail = Low(b)
    BY <1>0, <2>1, <2>2 DEF ReadAt
  <2>4. /\ hwStart' <= b /\ b <= hwNow' /\ hwNow <= hwNow'
        /\ hwRead'.tail = Low(b) /\ hwRead'.nsec = Cycle(hwNow)
    BY <1>0, <2>1, <2>3
  <2>5. ReadAt(b, hwNow, hwNow)'
    BY <2>1, <2>4 DEF ReadAt
  <2>6. \E bb, cc, dd \in Nat : ReadAt(bb, cc, dd)'
    BY <1>0, <2>1, <2>5
  <2> QED BY <1>m, <2>1, <2>6 DEF HwInv, InstantRead
<1>6. CASE ReadRegister("tmp1", "tmp1", High(hwNow), "tmp2")
  <2>1. /\ hwStart' = hwStart /\ hwNow' = hwNow /\ HwTypes' /\ hwRead.pc = "tmp1"
        /\ hwRead'.pc = "tmp2" /\ hwRead'["tmp1"] = High(hwNow)
        /\ hwRead'["taih"] = hwRead["taih"] /\ hwRead'["tail"] = hwRead["tail"]
        /\ hwRead'["nsec"] = hwRead["nsec"]
    BY <1>t, <1>1, <1>6, Accessed
  <2>2. PICK b \in Nat, c \in Nat, d \in Nat : ReadAt(b, c, d)
    BY <1>m, <2>1
  <2>3. /\ hwStart <= b /\ b <= c /\ c <= hwNow
        /\ hwRead.tail = Low(b) /\ hwRead.nsec = Cycle(c)
    BY <1>0, <2>1, <2>2 DEF ReadAt
  <2>4. /\ hwStart' <= b /\ c <= hwNow' /\ hwNow <= hwNow'
        /\ hwRead'.tail = Low(b) /\ hwRead'.nsec = Cycle(c) /\ hwRead'.tmp1 = High(hwNow)
    BY <1>0, <2>1, <2>3
  <2>5. ReadAt(b, c, hwNow)'
    BY <2>1, <2>3, <2>4 DEF ReadAt
  <2>6. \E bb, cc, dd \in Nat : ReadAt(bb, cc, dd)'
    BY <1>0, <2>1, <2>5
  <2> QED BY <1>m, <2>1, <2>6 DEF HwInv, InstantRead
<1>7. ASSUME NEW r, r = [hwRead EXCEPT !.tmp2 = Low(hwNow)],
             ReadRegister("tmp2", "tmp2", Low(hwNow), IF Stable(r) THEN "done" ELSE "taih")
      PROVE  HwInv'
  <2>1. /\ hwStart' = hwStart /\ hwNow' = hwNow /\ HwTypes' /\ hwRead.pc = "tmp2"
        /\ hwRead'.pc = IF Stable(r) THEN "done" ELSE "taih"
        /\ hwRead'["taih"] = hwRead["taih"] /\ hwRead'["tail"] = hwRead["tail"]
        /\ hwRead'["nsec"] = hwRead["nsec"]
    BY <1>t, <1>1, <1>7, Accessed
  <2>2. PICK b \in Nat, c \in Nat, d \in Nat : ReadAt(b, c, d)
    BY <1>m, <2>1
  <2>3. /\ hwStart <= b /\ b <= c /\ c <= d /\ d <= hwNow /\ hwNow <= hwStart + MaxSweep
        /\ hwRead.tail = Low(b) /\ hwRead.nsec = Cycle(c) /\ hwRead.tmp1 = High(d)
        /\ hwRead.taih = High(hwStart)
    BY <1>m, <2>1, <2>2 DEF ReadAt
  <2>4. ASSUME Stable(r) PROVE Returned' = c
    <3>1. r.tmp1 = hwRead.tmp1 /\ r.taih = hwRead.taih /\ r.tail = hwRead.tail
          /\ r.tmp2 = Low(hwNow)
      BY <1>0, <1>7 DEF Registry
    <3>2. High(hwStart) = High(d) /\ Low(b) = Low(hwNow)
      BY <2>3, <2>4, <3>1 DEF Stable
    <3>3. (High(hwStart) * LowWords + Low(b)) * CyclesPerSec + Cycle(c) = c
      BY <1>0, <2>3, <3>2, OneInstant
    <3>4. hwRead'.taih = High(hwStart) /\ hwRead'.tail = Low(b) /\ hwRead'.nsec = Cycle(c)
      BY <2>1, <2>3
    <3> QED BY <3>3, <3>4 DEF Returned
  <2>5. c \in hwStart'..hwNow'
    BY <1>0, <2>1, <2>3
  <2>6. InstantRead'
    BY <2>1, <2>4, <2>5 DEF InstantRead
  <2> QED BY <2>1, <2>6 DEF HwInv
<1>9. CASE Again
  <2>1. hwRead' = Nothing /\ UNCHANGED <<hwNow, hwStart>>
    BY <1>9 DEF Again
  <2>2. hwRead'.pc = "taih"
    BY <2>1 DEF Nothing
  <2>3. HwTypes'
    BY <1>0, <2>1 DEF HwTypes, Nothing, Registry
  <2> QED BY <2>2, <2>3 DEF HwInv, InstantRead
<1>10. CASE UNCHANGED hwVars
  BY <1>10 DEF hwVars, HwInv, HwTypes, ReadAt, InstantRead, Returned
<1> QED BY <1>2, <1>3, <1>4, <1>5, <1>6, <1>7, <1>9, <1>10 DEF HwNext, wrdate_get

(* Whichever counters overflow between two accesses, and however long the  *)
(* loop of wrdate_get() goes on: the time it returns is one the clock had  *)
(* while its last turn read it.                                            *)
THEOREM TimeReadIsInstant == HwSpec => []InstantRead
<1>1. HwInit => HwInv
  <2> SUFFICES ASSUME HwInit PROVE HwInv
    OBVIOUS
  <2>1. hwNow \in Nat /\ hwStart = hwNow /\ hwRead = Nothing
    BY HwAssumption DEF HwInit
  <2>2. HwTypes /\ hwRead.pc = "taih"
    BY <2>1 DEF HwTypes, Registry, Nothing
  <2> QED BY <2>2 DEF HwInv, InstantRead
<1>2. HwInv /\ [HwNext]_hwVars => HwInv'
  BY HwStays
<1>3. HwInv => InstantRead
  BY DEF HwInv
<1> QED BY <1>1, <1>2, <1>3, PTL DEF HwSpec

-----------------------------------------------------------------------------
(* Division, also of a negative number.                                    *)
LEMMA DivisionOfInt ==
  ASSUME NEW n \in Int, NEW d \in Nat \ {0}
  PROVE  /\ n \div d \in Int /\ n % d \in 0..(d - 1)
         /\ n = d * (n \div d) + (n % d)
  OBVIOUS

(* What is left, in range, is the remainder.                               *)
LEMMA RemainderUnique ==
  ASSUME NEW n \in Int, NEW d \in Nat \ {0}, NEW q \in Int, NEW r \in 0..(d - 1), n = d * q + r
  PROVE  n % d = r
  OBVIOUS

(* Turns of the counter do not change a remainder.                         *)
LEMMA WholeTurns ==
  ASSUME NEW x \in Int, NEW k \in Int, NEW w \in Nat \ {0}
  PROVE  (x + w * k) % w = x % w
<1> DEFINE q == x \div w
           r == x % w
<1>1. q \in Int /\ r \in 0..(w - 1) /\ x = w * q + r
  BY DivisionOfInt
<1> HIDE DEF q, r
<1>2. x + w * k = w * (q + k) + r /\ x + w * k \in Int
  BY <1>1
<1>3. (x + w * k) % w = r
  BY <1>1, <1>2, RemainderUnique
<1> QED BY <1>3 DEF r

(* A remainder may be taken before adding.                                 *)
LEMMA SumOfRemainder ==
  ASSUME NEW x \in Int, NEW y \in Int, NEW w \in Nat \ {0}
  PROVE  ((x % w) + y) % w = (x + y) % w
<1> DEFINE q == x \div w
           r == x % w
<1>1. q \in Int /\ r \in 0..(w - 1) /\ x = w * q + r
  BY DivisionOfInt
<1> HIDE DEF q, r
<1> DEFINE z == r + y
<1>2. z \in Int /\ x + y = z + w * q
  BY <1>1
<1> HIDE DEF z
<1>3. (z + w * q) % w = z % w
  BY <1>1, <1>2, WholeTurns
<1>4. z % w = (x + y) % w
  BY <1>2, <1>3
<1> QED BY <1>4 DEF r, z

(* The difference of two values of the counter, n now.                     *)
LEMMA DifferenceOf ==
  ASSUME NEW n \in Int, NEW x \in Int, NEW y \in Int, NEW w \in Nat \ {0}
  PROVE  (((n + x) % w) - ((n + y) % w)) % w = (x - y) % w
<1> DEFINE q == (n + x) \div w
           r == (n + x) % w
           p == (n + y) \div w
           s == (n + y) % w
<1>1. q \in Int /\ r \in 0..(w - 1) /\ n + x = w * q + r
  BY DivisionOfInt
<1>2. p \in Int /\ s \in 0..(w - 1) /\ n + y = w * p + s
  BY DivisionOfInt
<1> HIDE DEF q, r, p, s
<1>3. r - s = (x - y) + w * (p - q) /\ x - y \in Int /\ p - q \in Int
  BY <1>1, <1>2
<1>4. ((x - y) + w * (p - q)) % w = (x - y) % w
  BY <1>3, WholeTurns
<1>5. (r - s) % w = (x - y) % w
  BY <1>3, <1>4
<1> QED BY <1>5 DEF r, s

(* The sign of a difference of less than half a turn.                      *)
LEMMA SignOf ==
  ASSUME NEW z \in Int, NEW h \in Nat \ {0}, -h < z, z < h
  PROVE  /\ z >= 0 => z % (2 * h) = z
         /\ z % (2 * h) < h <=> z >= 0
<1> DEFINE w == 2 * h
<1>1. w \in Nat \ {0} /\ w = 2 * h
  OBVIOUS
<1> HIDE DEF w
<1>2. CASE z >= 0
  <2>1. z % w = z
    BY <1>1, <1>2, RemainderUnique
  <2> QED BY <1>2, <2>1 DEF w
<1>3. CASE z < 0
  <2>1. z + w \in 0..(w - 1) /\ z = w * (-1) + (z + w)
    BY <1>1, <1>3
  <2>2. z % w = z + w
    BY <1>1, <2>1, RemainderUnique
  <2>3. ~(z % w < h)
    BY <1>1, <1>3, <2>2
  <2> QED BY <1>3, <2>3 DEF w
<1> QED BY <1>2, <1>3

-----------------------------------------------------------------------------
(* The timers.                                                             *)

Half == Wrap \div 2

(* A timer that has x to go expires at this value of the counter.          *)
At(x) == (tmNow + x) % Wrap

TmTypeOK ==
  /\ tmNow \in 0..(Wrap - 1)
  /\ tmo \in [Ports -> [Timers -> [init : Intervals \cup {DISABLE}, tmo : Int, rand : Rands]]]
  /\ tmLeft \in [Ports -> [Timers -> Int]]

(* A running timer: what the counter and the timer say is the true time.   *)
Tells(p, i) ==
  tmo[p][i].init # DISABLE =>
    /\ tmo[p][i].tmo = At(tmLeft[p][i])
    /\ -MaxLate <= tmLeft[p][i] /\ tmLeft[p][i] + MaxLate < Half

TmInv == TmTypeOK /\ \A p \in Ports, i \in Timers : Tells(p, i)

(* Half a turn, exactly.                                                   *)
LEMMA HalfTurn ==
  ASSUME NEW ms \in Intervals
  PROVE  Half \in Nat \ {0} /\ Wrap = 2 * Half /\ Wrap \in Nat \ {0} /\ MaxLate < Half
<1>1. ms \in Randomised(ms, "NONE") /\ "NONE" \in Rands
  BY DEF Randomised, Rands
<1>2. ms \in Nat /\ ms + MaxLate < Wrap \div 2
  BY <1>1, TmAssumption
<1>3. Wrap \in Nat /\ Wrap % 2 = 0 /\ MaxLate \in Nat
  BY TmAssumption
<1>4. Half \in Int /\ Wrap = 2 * Half
  BY <1>3 DEF Half
<1>5. MaxLate < Half
  BY <1>2, <1>3, <1>4 DEF Half
<1> QED BY <1>3, <1>4, <1>5

(* The intervals fit.                                                      *)
LEMMA Fits ==
  ASSUME NEW ms \in Intervals, NEW r \in Rands, NEW x \in Randomised(ms, r)
  PROVE  x \in Nat /\ -MaxLate <= x /\ x + MaxLate < Half
  BY TmAssumption DEF Half

(* Two counter values are compared as the times to go.                     *)
LEMMA Compared ==
  ASSUME TmTypeOK, NEW ms \in Intervals, NEW x \in Int, NEW y \in Int,
         -MaxLate <= x, x + MaxLate < Half, -MaxLate <= y, y + MaxLate < Half
  PROVE  /\ time_after_eq(At(x), At(y)) <=> x >= y
         /\ time_after_eq(tmNow, At(y)) <=> y <= 0
         /\ y > 0 => (At(y) - tmNow) % Wrap = y
<1>1. Half \in Nat \ {0} /\ Wrap = 2 * Half /\ Wrap \in Nat \ {0} /\ MaxLate < Half
      /\ MaxLate \in Nat /\ tmNow \in Int
  BY HalfTurn, TmAssumption DEF TmTypeOK
<1>2. tmNow = At(0)
  <2>1. tmNow \in 0..(Wrap - 1)
    BY DEF TmTypeOK
  <2>2. tmNow % Wrap = tmNow
    BY <1>1, <2>1, RemainderUnique
  <2> QED BY <1>1, <2>2 DEF At
<1>3. ASSUME NEW a \in Int, NEW b \in Int, -Half < a - b, a - b < Half
      PROVE  /\ time_after_eq(At(a), At(b)) <=> a >= b
             /\ a >= b => (At(a) - At(b)) % Wrap = a - b
  <2> DEFINE z == a - b
  <2>1. (At(a) - At(b)) % Wrap = z % Wrap
    <3>1. \A n \in Int, w \in Nat \ {0} :
            (((n + a) % w) - ((n + b) % w)) % w = (a - b) % w
      BY DifferenceOf, ZenonT(60)
    <3>2. (((tmNow + a) % Wrap) - ((tmNow + b) % Wrap)) % Wrap = (a - b) % Wrap
      BY <1>1, <3>1
    <3> QED BY <3>2 DEF At
  <2>2. z \in Int /\ -Half < z /\ z < Half
    BY <1>3
  <2>3. z >= 0 <=> a >= b
    OBVIOUS
  <2> HIDE DEF z
  <2>4. (z >= 0 => z % (2 * Half) = z) /\ (z % (2 * Half) < Half <=> z >= 0)
    BY <1>1, <2>2, SignOf
  <2>5. time_after_eq(At(a), At(b)) <=> z >= 0
    BY <1>1, <2>1, <2>4 DEF time_after_eq, Half
  <2>6. z >= 0 => (At(a) - At(b)) % Wrap = z
    BY <1>1, <2>1, <2>4
  <2> QED BY <2>3, <2>5, <2>6 DEF z
<1>4. -Half < x - y /\ x - y < Half
  BY <1>1
<1>5. -Half < 0 - y /\ 0 - y < Half /\ -Half < y - 0 /\ y - 0 < Half
  BY <1>1
<1>6. time_after_eq(At(x), At(y)) <=> x >= y
  BY <1>3, <1>4
<1>7. time_after_eq(At(0), At(y)) <=> 0 >= y
  BY <1>3, <1>5
<1>8. y >= 0 => (At(y) - At(0)) % Wrap = y - 0
  BY <1>3, <1>5
<1> QED BY <1>2, <1>6, <1>7, <1>8

(* The time to go of a running timer, in range.                            *)
InRange(x) == x \in Int /\ -MaxLate <= x /\ x + MaxLate < Half

(* Earlier() finds the timer with less to go.                              *)
LEMMA EarlierOf ==
  ASSUME TmTypeOK, NEW ms \in Intervals, NEW x \in Int, NEW y \in Int, InRange(x), InRange(y)
  PROVE  \E m \in {x, y} : m <= x /\ m <= y /\ Earlier(At(x), At(y)) = At(m)
<1>1. time_after_eq(At(y), At(x)) <=> y >= x
  BY Compared DEF InRange
<1>2. CASE y >= x
  <2>1. Earlier(At(x), At(y)) = At(x)
    BY <1>1, <1>2 DEF Earlier, time_after
  <2> QED BY <1>2, <2>1
<1>3. CASE ~(y >= x)
  <2>1. Earlier(At(x), At(y)) = At(y)
    BY <1>1, <1>3 DEF Earlier, time_after
  <2> QED BY <1>3, <2>1
<1> QED BY <1>2, <1>3

(* A timer that runs, asked for by any port.                               *)
LEMMA Running ==
  ASSUME TmInv, NEW p \in Ports, NEW i \in Timers, Timer(p, i).init # DISABLE
  PROVE  /\ Holder(p, i) \in Ports /\ Timer(p, i).init \in Intervals
         /\ InRange(tmLeft[Holder(p, i)][i])
         /\ Timer(p, i).tmo = At(tmLeft[Holder(p, i)][i])
<1>1. Holder(p, i) \in Ports
  BY TmAssumption DEF Holder
<1> DEFINE h == Holder(p, i)
<1> HIDE DEF h
<1>2. h \in Ports /\ Timer(p, i) = tmo[h][i]
  BY <1>1 DEF h, Timer
<1>3. tmo[h][i].init \in Intervals \cup {DISABLE} /\ tmLeft[h][i] \in Int
  BY <1>2 DEF TmInv, TmTypeOK
<1>4. Tells(h, i)
  BY <1>2 DEF TmInv
<1>5. tmo[h][i].tmo = At(tmLeft[h][i]) /\ InRange(tmLeft[h][i])
  BY <1>2, <1>3, <1>4 DEF Tells, InRange
<1> QED BY <1>2, <1>3, <1>5 DEF h

(* TmInv is what TimersOnTime says of pp_timeout() and pp_next_delay().    *)
LEMMA TmImplies == ASSUME TmInv PROVE TimersOnTime
<1>1. ASSUME NEW p \in Ports, NEW i \in Timers, Timer(p, i).init # DISABLE
      PROVE  pp_timeout(p, i) <=> tmLeft[Holder(p, i)][i] <= 0
  <2> DEFINE x == tmLeft[Holder(p, i)][i]
             ms == Timer(p, i).init
  <2>1. ms \in Intervals /\ InRange(x) /\ Timer(p, i).tmo = At(x) /\ TmTypeOK
    BY <1>1, Running DEF TmInv
  <2>2. pp_timeout(p, i) <=> time_after_eq(tmNow, At(x))
    BY <1>1, <2>1 DEF pp_timeout
  <2> HIDE DEF x, ms
  <2>3. time_after_eq(tmNow, At(x)) <=> x <= 0
    BY <2>1, Compared DEF InRange
  <2> QED BY <2>2, <2>3 DEF x
<1>2. ASSUME NEW p \in Ports, NEW i1 \in Timers, NEW i2 \in Timers, NEW i3 \in Timers,
             \A i \in {i1, i2, i3} : Timer(p, i).init # DISABLE
      PROVE  LET left == {tmLeft[Holder(p, i)][i] : i \in {i1, i2, i3}}
                 d == pp_next_delay(p, i1, i2, i3)
             IN  /\ \A x \in left : d <= x \/ d = 0
                 /\ d = 0 => \E x \in left : x <= 0
  <2> DEFINE a == tmLeft[Holder(p, i1)][i1]
             b == tmLeft[Holder(p, i2)][i2]
             c == tmLeft[Holder(p, i3)][i3]
             d == pp_next_delay(p, i1, i2, i3)
             ms == Timer(p, i1).init
             left == {tmLeft[Holder(p, i)][i] : i \in {i1, i2, i3}}
  <2>1. /\ ms \in Intervals /\ InRange(a) /\ InRange(b) /\ InRange(c) /\ TmTypeOK
        /\ Timer(p, i1).tmo = At(a) /\ Timer(p, i2).tmo = At(b) /\ Timer(p, i3).tmo = At(c)
    BY <1>2, Running DEF TmInv
  <2>2. left = {a, b, c}
    OBVIOUS
  <2>3. d = LET first == Earlier(Earlier(At(a), At(b)), At(c))
            IN  IF time_before(tmNow, first) THEN (first - tmNow) % Wrap ELSE 0
    BY <2>1 DEF pp_next_delay
  <2> HIDE DEF a, b, c, d, ms, left
  <2>4. a \in Int /\ b \in Int /\ c \in Int
    BY <2>1 DEF InRange
  <2>5. PICK m \in {a, b} : m <= a /\ m <= b /\ Earlier(At(a), At(b)) = At(m)
    BY <2>1, <2>4, EarlierOf
  <2>6. m \in Int /\ InRange(m)
    BY <2>1, <2>4, <2>5
  <2>7. PICK n \in {m, c} : n <= m /\ n <= c /\ Earlier(At(m), At(c)) = At(n)
    BY <2>1, <2>4, <2>6, EarlierOf
  <2>8. n \in Int /\ InRange(n) /\ n \in {a, b, c} /\ n <= a /\ n <= b /\ n <= c
    BY <2>1, <2>4, <2>5, <2>6, <2>7
  <2>9. d = IF time_before(tmNow, At(n)) THEN (At(n) - tmNow) % Wrap ELSE 0
    BY <2>3, <2>5, <2>7
  <2>10. /\ time_after_eq(tmNow, At(n)) <=> n <= 0
         /\ n > 0 => (At(n) - tmNow) % Wrap = n
    BY <2>1, <2>8, Compared DEF InRange
  <2>11. d = IF n > 0 THEN n ELSE 0
    <3>1. time_before(tmNow, At(n)) <=> n > 0
      BY <2>8, <2>10 DEF time_before
    <3> QED BY <2>9, <2>10, <3>1
  <2>12. \A x \in left : d <= x \/ d = 0
    BY <2>2, <2>4, <2>8, <2>11
  <2>13. d = 0 => \E x \in left : x <= 0
    BY <2>2, <2>8, <2>11
  <2> QED BY <2>12, <2>13 DEF d, left
<1> QED BY <1>1, <1>2 DEF TimersOnTime

TimerType == [init : Intervals \cup {DISABLE}, tmo : Int, rand : Rands]

(* A step that starts timers, stops timers, or leaves them as they are.    *)
LEMMA Started ==
  ASSUME TmInv, tmNow' = tmNow,
         tmo' \in [Ports -> [Timers -> TimerType]], tmLeft' \in [Ports -> [Timers -> Int]],
         \A q \in Ports, j \in Timers :
            \/ tmo'[q][j].init = DISABLE
            \/ tmo'[q][j].tmo = At(tmLeft'[q][j]) /\ InRange(tmLeft'[q][j])
            \/ /\ tmo[q][j].init # DISABLE /\ tmo'[q][j].tmo = tmo[q][j].tmo
               /\ tmLeft'[q][j] = tmLeft[q][j]
  PROVE  TmInv'
<1>1. TmTypeOK'
  BY DEF TmInv, TmTypeOK, TimerType
<1>2. ASSUME NEW q \in Ports, NEW j \in Timers PROVE Tells(q, j)'
  <2>1. CASE tmo'[q][j].init = DISABLE
    BY <2>1 DEF Tells, DISABLE
  <2>2. CASE tmo'[q][j].tmo = At(tmLeft'[q][j]) /\ InRange(tmLeft'[q][j])
    BY <2>2 DEF Tells, At, InRange
  <2>3. CASE /\ tmo[q][j].init # DISABLE /\ tmo'[q][j].tmo = tmo[q][j].tmo
             /\ tmLeft'[q][j] = tmLeft[q][j]
    <3>1. Tells(q, j)
      BY DEF TmInv
    <3> QED BY <2>3, <3>1 DEF Tells, At, DISABLE
  <2> QED BY <2>1, <2>2, <2>3
<1> QED BY <1>1, <1>2 DEF TmInv

(* pp_timeout_set() and __pp_timeout_reset(): one timer is started.        *)
LEMMA ArmStep ==
  ASSUME TmInv, NEW p \in Ports, NEW i \in Timers, NEW iv \in Intervals, NEW r \in Rands,
         NEW ms \in Randomised(iv, r), Arm(p, i, iv, ms), tmNow' = tmNow
  PROVE  TmInv'
<1> DEFINE h == Holder(p, i)
<1>1. h \in Ports
  BY TmAssumption DEF Holder
<1>2. /\ tmo' = [tmo EXCEPT ![h][i].init = iv, ![h][i].tmo = At(ms)]
      /\ tmLeft' = [tmLeft EXCEPT ![h][i] = ms]
  BY DEF Arm, calc_timeout, At
<1> HIDE DEF h
<1>3. InRange(ms) /\ At(ms) \in Int
  <2>1. ms \in Nat /\ InRange(ms)
    BY Fits DEF InRange
  <2>2. Wrap \in Nat \ {0} /\ tmNow \in Int
    BY HalfTurn DEF TmInv, TmTypeOK
  <2> QED BY <2>1, <2>2 DEF At
<1>4. tmo \in [Ports -> [Timers -> TimerType]] /\ tmLeft \in [Ports -> [Timers -> Int]]
  BY DEF TmInv, TmTypeOK, TimerType
<1>5. tmLeft' \in [Ports -> [Timers -> Int]] /\ tmLeft'[h][i] = ms
  BY <1>1, <1>2, <1>3, <1>4 DEF InRange
<1> DEFINE t == [tmo[h][i] EXCEPT !.init = iv, !.tmo = At(ms)]
<1>6. t \in TimerType /\ t.tmo = At(ms)
  <2>1. PICK old \in TimerType : old = tmo[h][i]
    BY <1>1, <1>4
  <2>2. PICK v \in Int : v = At(ms)
    BY <1>3
  <2>3. t = [old EXCEPT !.init = iv, !.tmo = v]
    BY <2>1, <2>2
  <2>4. t \in TimerType /\ t.tmo = v
    BY <2>3 DEF TimerType
  <2> QED BY <2>2, <2>4
<1>7. tmo' = [tmo EXCEPT ![h] = [tmo[h] EXCEPT ![i] = t]]
  BY <1>1, <1>2, <1>4
<1> HIDE DEF t
<1>8. tmo' \in [Ports -> [Timers -> TimerType]] /\ tmo'[h][i] = t
  BY <1>1, <1>4, <1>6, <1>7
<1>9. ASSUME NEW q \in Ports, NEW j \in Timers, ~(q = h /\ j = i)
      PROVE  tmo'[q][j] = tmo[q][j] /\ tmLeft'[q][j] = tmLeft[q][j]
  BY <1>1, <1>2, <1>4, <1>7, <1>9
<1>10. ASSUME NEW q \in Ports, NEW j \in Timers
       PROVE  \/ tmo'[q][j].init = DISABLE
              \/ tmo'[q][j].tmo = At(tmLeft'[q][j]) /\ InRange(tmLeft'[q][j])
              \/ /\ tmo[q][j].init # DISABLE /\ tmo'[q][j].tmo = tmo[q][j].tmo
                 /\ tmLeft'[q][j] = tmLeft[q][j]
  <2>1. CASE q = h /\ j = i
    BY <1>3, <1>5, <1>6, <1>8, <2>1
  <2>2. CASE ~(q = h /\ j = i)
    BY <1>9, <2>2
  <2> QED BY <2>1, <2>2
<1> QED BY <1>5, <1>8, <1>10, Started

(* TmInv is inductive.                                                     *)
LEMMA TmStays == ASSUME TmInv, [TmNext]_tmVars PROVE TmInv'
<1>0. /\ tmo \in [Ports -> [Timers -> TimerType]] /\ tmLeft \in [Ports -> [Timers -> Int]]
      /\ tmNow \in 0..(Wrap - 1)
  BY DEF TmInv, TmTypeOK, TimerType
<1>1. CASE CounterTick
  <2>1. /\ \A p \in Ports, i \in Timers : tmLeft[p][i] > -MaxLate
        /\ tmNow' = (tmNow + 1) % Wrap /\ tmo' = tmo
        /\ tmLeft' = [p \in Ports |-> [i \in Timers |-> IF tmo[p][i].init = DISABLE THEN 0
                                                        ELSE tmLeft[p][i] - 1]]
    BY <1>1 DEF CounterTick
  <2>2. Wrap \in Nat \ {0} /\ MaxLate \in Nat
    BY <1>0, TmAssumption
  <2>3. tmNow' \in 0..(Wrap - 1)
    BY <1>0, <2>1, <2>2
  <2>4. tmLeft' \in [Ports -> [Timers -> Int]]
    BY <1>0, <2>1
  <2>5. TmTypeOK'
    BY <1>0, <2>1, <2>3, <2>4 DEF TmTypeOK, TimerType
  <2>6. ASSUME NEW p \in Ports, NEW i \in Timers, tmo[p][i].init # DISABLE
        PROVE  /\ tmo[p][i].tmo = (tmNow' + tmLeft'[p][i]) % Wrap
               /\ -MaxLate <= tmLeft'[p][i] /\ tmLeft'[p][i] + MaxLate < Half
    <3> DEFINE x == tmLeft[p][i]
    <3>1. x \in Int /\ x > -MaxLate /\ tmLeft'[p][i] = x - 1
      BY <1>0, <2>1, <2>6
    <3>2. tmo[p][i].tmo = (tmNow + x) % Wrap /\ x + MaxLate < Half
      BY <2>6 DEF TmInv, Tells, At
    <3>3. Half \in Int
      BY <2>2 DEF Half
    <3> HIDE DEF x
    <3>4. (((tmNow + 1) % Wrap) + (x - 1)) % Wrap = ((tmNow + 1) + (x - 1)) % Wrap
      <4>1. tmNow + 1 \in Int /\ x - 1 \in Int
        BY <1>0, <2>2, <3>1
      <4> QED BY <2>2, <4>1, SumOfRemainder
    <3>5. (tmNow + 1) + (x - 1) = tmNow + x
      BY <1>0, <2>2, <3>1
    <3>6. (tmNow' + (x - 1)) % Wrap = (tmNow + x) % Wrap
      BY <2>1, <3>4, <3>5
    <3>7. -MaxLate <= x - 1 /\ (x - 1) + MaxLate < Half
      BY <2>2, <3>1, <3>2, <3>3
    <3> QED BY <3>1, <3>2, <3>6, <3>7
  <2>7. ASSUME NEW p \in Ports, NEW i \in Timers PROVE Tells(p, i)'
    BY <2>1, <2>6 DEF Tells, At, Half, DISABLE
  <2> QED BY <2>5, <2>7 DEF TmInv
<1>2. ASSUME NEW p \in Ports, pp_timeout_disable_all(p) PROVE TmInv'
  <2>1. /\ tmo' = [tmo EXCEPT ![p] = [i \in Timers |->
                     [tmo[p][i] EXCEPT !.init = DISABLE, !.tmo = 0]]]
        /\ tmNow' = tmNow /\ tmLeft' = tmLeft
    BY <1>2 DEF pp_timeout_disable_all
  <2> DEFINE t(i) == [tmo[p][i] EXCEPT !.init = DISABLE, !.tmo = 0]
  <2>2. ASSUME NEW i \in Timers PROVE t(i) \in TimerType /\ t(i).init = DISABLE
    <3>1. PICK old \in TimerType : old = tmo[p][i]
      BY <1>0
    <3>2. PICK no \in Intervals \cup {DISABLE} : no = DISABLE
      OBVIOUS
    <3>3. PICK z \in Int : z = 0
      OBVIOUS
    <3>4. t(i) = [old EXCEPT !.init = no, !.tmo = z]
      BY <3>1, <3>2, <3>3
    <3> HIDE DEF t
    <3>5. t(i) \in TimerType
      BY <3>4 DEF TimerType
    <3>6. t(i).init = no
      BY <3>4 DEF TimerType
    <3> QED BY <3>2, <3>5, <3>6
  <2>3. tmo' = [tmo EXCEPT ![p] = [i \in Timers |-> t(i)]]
    BY <2>1
  <2> HIDE DEF t
  <2>4. tmo' \in [Ports -> [Timers -> TimerType]]
    BY <1>0, <2>2, <2>3
  <2>5. \A q \in Ports, j \in Timers : tmo'[q][j] = IF q = p THEN t(j) ELSE tmo[q][j]
    BY <1>0, <2>3
  <2>6. ASSUME NEW q \in Ports, NEW j \in Timers
        PROVE  \/ tmo'[q][j].init = DISABLE
               \/ /\ tmo[q][j].init # DISABLE /\ tmo'[q][j].tmo = tmo[q][j].tmo
                  /\ tmLeft'[q][j] = tmLeft[q][j]
    <3>1. CASE q = p
      BY <2>2, <2>5, <3>1
    <3>2. CASE q # p
      <4>1. tmo'[q][j] = tmo[q][j]
        BY <2>5, <3>2
      <4> QED BY <2>1, <4>1
    <3> QED BY <3>1, <3>2
  <2> QED BY <1>0, <2>1, <2>4, <2>6, Started
<1>3. ASSUME NEW p \in Ports, pp_timeout_setall(p) PROVE TmInv'
  <2>0. PICK ms \in Intervals : \E first \in [Own -> UNION {Randomised(ms, r) : r \in Rands}] :
          /\ \A i \in Own : first[i] \in Randomised(ms, tmo[p][i].rand)
          /\ tmo' = [tmo EXCEPT ![p] = [i \in Timers |->
                IF i \in Own THEN [tmo[p][i] EXCEPT !.init = ms, !.tmo = calc_timeout(first[i])]
                ELSE tmo[p][i]]]
          /\ tmLeft' = [tmLeft EXCEPT ![p] = [i \in Timers |-> IF i \in Own THEN first[i]
                                                               ELSE tmLeft[p][i]]]
          /\ tmNow' = tmNow
    BY <1>3 DEF pp_timeout_setall
  <2>1. PICK first \in [Own -> UNION {Randomised(ms, r) : r \in Rands}] :
          /\ \A i \in Own : first[i] \in Randomised(ms, tmo[p][i].rand)
          /\ tmo' = [tmo EXCEPT ![p] = [i \in Timers |->
                IF i \in Own THEN [tmo[p][i] EXCEPT !.init = ms, !.tmo = calc_timeout(first[i])]
                ELSE tmo[p][i]]]
          /\ tmLeft' = [tmLeft EXCEPT ![p] = [i \in Timers |-> IF i \in Own THEN first[i]
                                                               ELSE tmLeft[p][i]]]
          /\ tmNow' = tmNow
    BY <2>0
  <2>2. ASSUME NEW i \in Own PROVE first[i] \in Int /\ InRange(first[i]) /\ At(first[i]) \in Int
    <3>1. tmo[p][i].rand \in Rands
      BY <1>0 DEF TimerType, Timers
    <3>2. first[i] \in Nat /\ InRange(first[i])
      <4>1. first[i] \in Randomised(ms, tmo[p][i].rand)
        BY <2>1
      <4> QED BY <3>1, <4>1, Fits DEF InRange
    <3>3. Wrap \in Nat \ {0}
      BY HalfTurn
    <3> QED BY <1>0, <3>2, <3>3 DEF At
  <2> DEFINE t(i) == IF i \in Own
                     THEN [tmo[p][i] EXCEPT !.init = ms, !.tmo = calc_timeout(first[i])]
                     ELSE tmo[p][i]
  <2>3. ASSUME NEW i \in Timers
        PROVE  t(i) \in TimerType /\ (i \in Own => t(i).tmo = At(first[i]))
               /\ (i \notin Own => t(i) = tmo[p][i])
    <3>1. CASE i \in Own
      <4>1. tmo[p][i] \in TimerType /\ calc_timeout(first[i]) = At(first[i])
        BY <1>0 DEF calc_timeout, At
      <4>2. t(i) = [tmo[p][i] EXCEPT !.init = ms, !.tmo = At(first[i])]
        BY <3>1, <4>1
      <4>3. ms \in Intervals \cup {DISABLE} /\ At(first[i]) \in Int
        BY <2>2, <3>1
      <4>4. t(i) \in TimerType /\ t(i).tmo = At(first[i])
        <5>1. PICK old \in TimerType : old = tmo[p][i]
          BY <4>1
        <5>2. PICK v \in Int : v = At(first[i])
          BY <4>3
        <5>3. t(i) = [old EXCEPT !.init = ms, !.tmo = v]
          BY <4>2, <5>1, <5>2
        <5> HIDE DEF t
        <5>4. t(i) \in TimerType /\ t(i).tmo = v
          BY <5>3 DEF TimerType
        <5> QED BY <5>2, <5>4
      <4> QED BY <3>1, <4>4
    <3>2. CASE i \notin Own
      BY <1>0, <3>2
    <3> QED BY <3>1, <3>2
  <2>4. tmo' = [tmo EXCEPT ![p] = [i \in Timers |-> t(i)]]
    BY <2>1
  <2> HIDE DEF t
  <2>5. tmo' \in [Ports -> [Timers -> TimerType]]
    BY <1>0, <2>3, <2>4
  <2>6. tmLeft' \in [Ports -> [Timers -> Int]]
    BY <1>0, <2>1, <2>2
  <2>7. ASSUME NEW q \in Ports, NEW j \in Timers
        PROVE  /\ tmo'[q][j] = IF q = p THEN t(j) ELSE tmo[q][j]
               /\ tmLeft'[q][j] = IF q = p /\ j \in Own THEN first[j] ELSE tmLeft[q][j]
    <3>1. tmo'[q][j] = IF q = p THEN t(j) ELSE tmo[q][j]
      BY <1>0, <2>4
    <3>2. CASE q = p
      <4>1. tmLeft'[q] = [i \in Timers |-> IF i \in Own THEN first[i] ELSE tmLeft[p][i]]
        BY <1>0, <2>1, <3>2
      <4> QED BY <3>1, <3>2, <4>1
    <3>3. CASE q # p
      <4>1. tmLeft'[q] = tmLeft[q]
        BY <1>0, <2>1, <3>3
      <4> QED BY <3>1, <3>3, <4>1
    <3> QED BY <3>2, <3>3
  <2>8. ASSUME NEW q \in Ports, NEW j \in Timers
        PROVE  \/ tmo'[q][j].init = DISABLE
               \/ tmo'[q][j].tmo = At(tmLeft'[q][j]) /\ InRange(tmLeft'[q][j])
               \/ /\ tmo[q][j].init # DISABLE /\ tmo'[q][j].tmo = tmo[q][j].tmo
                  /\ tmLeft'[q][j] = tmLeft[q][j]
    <3>1. CASE q = p /\ j \in Own
      BY <2>2, <2>3, <2>7, <3>1
    <3>2. CASE ~(q = p /\ j \in Own)
      <4>1. tmo'[q][j] = tmo[q][j] /\ tmLeft'[q][j] = tmLeft[q][j]
        BY <2>3, <2>7, <3>2
      <4> QED BY <4>1
    <3> QED BY <3>1, <3>2
  <2> QED BY <2>1, <2>5, <2>6, <2>8, Started
<1>4. ASSUME NEW p \in Ports, pp_timeout_init(p) PROVE TmInv'
  <2>1. PICK ms \in Intervals :
          tmo' = [tmo EXCEPT ![p] = [i \in Timers |->
                    IF i \in Own THEN [tmo[p][i] EXCEPT !.init = ms] ELSE tmo[p][i]]]
    BY <1>4 DEF pp_timeout_init
  <2>2. /\ tmNow' = tmNow /\ tmLeft' = tmLeft /\ \A i \in Own : tmo[p][i].init # DISABLE
    BY <1>4 DEF pp_timeout_init
  <2> DEFINE t(i) == IF i \in Own THEN [tmo[p][i] EXCEPT !.init = ms] ELSE tmo[p][i]
  <2>3. ASSUME NEW i \in Timers
        PROVE  t(i) \in TimerType /\ t(i).tmo = tmo[p][i].tmo /\ (i \notin Own => t(i) = tmo[p][i])
    <3>1. CASE i \in Own
      BY <1>0, <3>1 DEF TimerType
    <3>2. CASE i \notin Own
      BY <1>0, <3>2
    <3> QED BY <3>1, <3>2
  <2>4. tmo' = [tmo EXCEPT ![p] = [i \in Timers |-> t(i)]]
    BY <2>1
  <2> HIDE DEF t
  <2>5. tmo' \in [Ports -> [Timers -> TimerType]]
    BY <1>0, <2>3, <2>4
  <2>6. \A q \in Ports, j \in Timers : tmo'[q][j] = IF q = p THEN t(j) ELSE tmo[q][j]
    BY <1>0, <2>4
  <2>7. ASSUME NEW q \in Ports, NEW j \in Timers
        PROVE  \/ tmo'[q][j].init = DISABLE
               \/ /\ tmo[q][j].init # DISABLE /\ tmo'[q][j].tmo = tmo[q][j].tmo
                  /\ tmLeft'[q][j] = tmLeft[q][j]
    <3>1. CASE q = p /\ j \in Own
      BY <2>2, <2>3, <2>6, <3>1
    <3>2. CASE ~(q = p /\ j \in Own)
      <4>1. tmo'[q][j] = tmo[q][j]
        BY <2>3, <2>6, <3>2
      <4> QED BY <2>2, <4>1
    <3> QED BY <3>1, <3>2
  <2> QED BY <1>0, <2>2, <2>5, <2>7, Started
<1>5. ASSUME NEW p \in Ports, NEW i \in Timers, pp_timeout_set(p, i) PROVE TmInv'
  <2>1. PICK ms \in Intervals : Arm(p, i, ms, ms) /\ tmNow' = tmNow
    BY <1>5 DEF pp_timeout_set
  <2>2. ms \in Randomised(ms, "NONE") /\ "NONE" \in Rands
    BY DEF Randomised, Rands
  <2> QED BY <2>1, <2>2, ArmStep
<1>6. ASSUME NEW p \in Ports, NEW i \in Timers, pp_timeout_reset(p, i, 1) PROVE TmInv'
  <2> DEFINE iv == Timer(p, i).init
             r == Timer(p, i).rand
  <2>1. PICK ms \in Randomised(iv * 1, r) : Arm(p, i, iv, ms)
    BY <1>6 DEF pp_timeout_reset
  <2>2. iv # DISABLE /\ tmNow' = tmNow
    BY <1>6 DEF pp_timeout_reset
  <2>3. Holder(p, i) \in Ports
    BY TmAssumption DEF Holder
  <2>4. iv \in Intervals /\ r \in Rands
    BY <1>0, <2>2, <2>3 DEF Timer, TimerType
  <2> HIDE DEF iv, r
  <2>5. iv \in Nat
    <3>1. iv \in Randomised(iv, "NONE") /\ "NONE" \in Rands
      BY DEF Randomised, Rands
    <3> QED BY <2>4, <3>1, TmAssumption
  <2>6. iv * 1 = iv
    BY <2>5
  <2> QED BY <2>1, <2>2, <2>4, <2>6, ArmStep
<1>7. CASE UNCHANGED tmVars
  BY <1>7 DEF tmVars, TmInv, TmTypeOK, Tells, At
<1> QED BY <1>1, <1>2, <1>3, <1>4, <1>5, <1>6, <1>7 DEF TmNext

(* For any number of ports and timers and a counter of any size: a timer   *)
(* has expired, for pp_timeout(), exactly when its time has passed, and    *)
(* pp_next_delay_1/2/3() neither oversleep it nor return before it, also   *)
(* across the wrap of the counter.                                         *)
THEOREM TimersAreExact == TmSpec => []TimersOnTime
<1>1. TmInit => TmInv
  <2> SUFFICES ASSUME TmInit PROVE TmInv
    OBVIOUS
  <2>1. PICK r \in Rands :
          tmo = [p \in Ports |-> [i \in Timers |->
                   [init |-> DISABLE, tmo |-> 0, rand |-> IF i \in Own THEN r ELSE "NONE"]]]
    BY DEF TmInit
  <2>2. TmTypeOK
    BY <2>1 DEF TmInit, TmTypeOK, Rands
  <2>3. \A p \in Ports, i \in Timers : tmo[p][i].init = DISABLE
    BY <2>1
  <2> QED BY <2>2, <2>3 DEF TmInv, Tells
<1>2. TmInv /\ [TmNext]_tmVars => TmInv'
  BY TmStays
<1>3. TmInv => TimersOnTime
  BY TmImplies
<1> QED BY <1>1, <1>2, <1>3, PTL DEF TmSpec

-----------------------------------------------------------------------------
(* The configuration and the startup.                                      *)

(* A port of the configuration.                                            *)
PortNames == Names \cup {"SIM_MASTER"}
SectionNames == Names \cup {"none"}

ConfPort == [name : PortNames, opt : Nat, proto : {"RAW", "UDP", "VLAN"},
             profile : Profiles \cup {"PTP"}, flags : Int,
             nvlans : Nat, vlans : [1..VlanSize -> Int]]

(* What the parser keeps, between two lines.                               *)
ConfType == [cur : Nat, ports : Seq(ConfPort), opt : Int, flags : Int, pi : Int,
             err : BOOLEAN, comment : BOOLEAN, section : SectionNames, said : [Names -> Int]]

(* The current port is the one of the section.                             *)
InSection(c) ==
  c.cur # NoPort => /\ c.cur \in 1..Len(c.ports)
                    /\ c.section \in Names
                    /\ c.ports[c.cur].name = c.section

(* No two ports have the same name.                                        *)
OnePerName(c) ==
  \A i, j \in 1..Len(c.ports) : c.ports[i].name = c.ports[j].name => i = j

(* A port has what the lines have said of it, and the lines have named it. *)
AsSaid(c) ==
  /\ \A i \in 1..Len(c.ports) : c.ports[i].name \in Names =>
                                  c.ports[i].opt = c.said[c.ports[i].name]
  /\ \A n \in Names : c.said[n] # Unset => \E i \in 1..Len(c.ports) : c.ports[i].name = n

ConfInv(c) == c \in ConfType /\ InSection(c) /\ OnePerName(c) /\ AsSaid(c)

(* A configuration with another current port, other ports, another section *)
(* and other things said.                                                  *)
With(c, cur, ports, section, said) ==
  [c EXCEPT !.cur = cur, !.ports = ports, !.section = section, !.said = said]

(* It is one again, with what it was given.                                *)
LEMMA ConfWith ==
  ASSUME NEW c \in ConfType, NEW cur \in Nat, NEW ports \in Seq(ConfPort),
         NEW section \in SectionNames, NEW said \in [Names -> Int]
  PROVE  /\ With(c, cur, ports, section, said) \in ConfType
         /\ With(c, cur, ports, section, said).cur = cur
         /\ With(c, cur, ports, section, said).ports = ports
         /\ With(c, cur, ports, section, said).section = section
         /\ With(c, cur, ports, section, said).said = said
  BY DEF ConfType, With

(* A new port is one.                                                      *)
LEMMA NewPortType ==
  ASSUME NEW name \in PortNames
  PROVE  /\ NewPort(name) \in ConfPort
         /\ NewPort(name).name = name /\ NewPort(name).opt = 0
<1>1. [i \in 1..VlanSize |-> 0] \in [1..VlanSize -> Int]
  OBVIOUS
<1> QED BY <1>1 DEF NewPort, ConfPort

(* An error changes nothing else.                                          *)
LEMMA FailedKeeps ==
  ASSUME NEW c, ConfInv(c)
  PROVE  ConfInv(Failed(c))
<1>1. /\ Failed(c) \in ConfType
      /\ Failed(c).cur = c.cur /\ Failed(c).ports = c.ports
      /\ Failed(c).section = c.section /\ Failed(c).said = c.said
  BY DEF Failed, ConfInv, ConfType
<1> QED BY <1>1 DEF ConfInv, InSection, OnePerName, AsSaid

(* Nor does anything that leaves the ports, the section and what was said  *)
(* alone, whether or not the section ends.                                 *)
LEMMA SamePorts ==
  ASSUME NEW c, NEW d, ConfInv(c), d \in ConfType, d.cur \in {c.cur, NoPort},
         d.ports = c.ports, d.said = c.said, d.cur = c.cur => d.section = c.section
  PROVE  ConfInv(d)
<1>1. CASE d.cur = NoPort
  BY <1>1 DEF ConfInv, InSection, OnePerName, AsSaid
<1>2. CASE d.cur = c.cur
  BY <1>2 DEF ConfInv, InSection, OnePerName, AsSaid
<1> QED BY <1>1, <1>2

(* The current port may change in all but its name and the option.         *)
LEMMA PortChanges ==
  ASSUME NEW c, ConfInv(c), c.cur # NoPort, NEW p \in ConfPort,
         p.name = c.ports[c.cur].name, p.opt = c.ports[c.cur].opt
  PROVE  ConfInv([c EXCEPT !.ports[c.cur] = p])
<1> DEFINE d == [c EXCEPT !.ports[c.cur] = p]
<1>1. c \in ConfType /\ c.ports \in Seq(ConfPort) /\ c.cur \in 1..Len(c.ports)
  BY DEF ConfInv, InSection, ConfType
<1>2. d = [c EXCEPT !.ports = [c.ports EXCEPT ![c.cur] = p]]
  OBVIOUS
<1> DEFINE q == [c.ports EXCEPT ![c.cur] = p]
<1>3. /\ q \in Seq(ConfPort) /\ Len(q) = Len(c.ports)
      /\ \A i \in 1..Len(c.ports) : /\ q[i].name = c.ports[i].name
                                    /\ q[i].opt = c.ports[i].opt
  BY <1>1
<1> HIDE DEF q
<1>4. /\ d \in ConfType /\ d.cur = c.cur /\ d.ports = q
      /\ d.section = c.section /\ d.said = c.said
  BY <1>1, <1>2, <1>3 DEF ConfType, q
<1> HIDE DEF d
<1>5. InSection(d)
  BY <1>1, <1>3, <1>4 DEF ConfInv, InSection
<1>6. OnePerName(d)
  BY <1>3, <1>4 DEF ConfInv, OnePerName
<1>7. AsSaid(d)
  BY <1>3, <1>4 DEF ConfInv, AsSaid
<1> QED BY <1>4, <1>5, <1>6, <1>7 DEF ConfInv, d

(* A configuration and the fields of its current port.                     *)
LEMMA CurrentPort ==
  ASSUME NEW c, ConfInv(c), c.cur # NoPort
  PROVE  c.cur \in 1..Len(c.ports) /\ c.ports[c.cur] \in ConfPort
<1>1. c.ports \in Seq(ConfPort) /\ c.cur \in 1..Len(c.ports)
  BY DEF ConfInv, InSection, ConfType
<1> QED BY <1>1

(* f_port() makes the named port, old or new, the current one; without     *)
(* room for a new one there is no current port.                            *)
LEMMA PortNamed ==
  ASSUME NEW c, ConfInv(c), NEW name \in Names
  PROVE  ConfInv(f_port(c, name))
<1> DEFINE said == [c.said EXCEPT ![name] = IF c.said[name] = Unset THEN 0 ELSE c.said[name]]
<1>1. /\ c \in ConfType /\ c.ports \in Seq(ConfPort) /\ c.said \in [Names -> Int]
      /\ name \in PortNames
  BY DEF ConfInv, ConfType, PortNames
<1>2. said \in [Names -> Int]
  BY <1>1
<1>3. Named(c, name) = [c EXCEPT !.section = name, !.said = said]
  BY <1>1 DEF Named, ConfType
<1> HIDE DEF said
<1>4. CASE Known(c, name) # {}
  <2> DEFINE k == CHOOSE i \in Known(c, name) : TRUE
             d == f_port(c, name)
  <2>1. k \in 1..Len(c.ports) /\ c.ports[k].name = name
    BY <1>4 DEF Known
  <2>2. d = [Named(c, name) EXCEPT !.cur = k]
    BY <1>4 DEF f_port
  <2> HIDE DEF k
  <2>3. /\ d \in ConfType /\ d.cur = k /\ d.ports = c.ports
        /\ d.section = name /\ d.said = said
    <3>1. d = With(c, k, c.ports, name, said)
      BY <1>1, <1>3, <2>2 DEF ConfType, With
    <3>2. k \in Nat
      BY <2>1
    <3>3. name \in SectionNames
      BY DEF SectionNames
    <3> HIDE DEF d
    <3> QED BY <1>1, <1>2, <3>1, <3>2, <3>3, ConfWith
  <2> HIDE DEF d
  <2>4. c.said[name] # Unset
    <3>0. c.ports[k] \in ConfPort
      BY <1>1, <2>1
    <3>1. c.ports[k].opt \in Nat
      BY <3>0 DEF ConfPort
    <3>2. c.ports[k].opt = c.said[name]
      BY <2>1 DEF ConfInv, AsSaid
    <3> QED BY <3>1, <3>2 DEF Unset
  <2>5. said = c.said
    BY <1>1, <2>4 DEF said
  <2>6. InSection(d)
    BY <2>1, <2>3 DEF InSection
  <2>7. OnePerName(d) /\ AsSaid(d)
    BY <2>3, <2>5 DEF ConfInv, OnePerName, AsSaid
  <2> QED BY <2>3, <2>6, <2>7 DEF ConfInv, d
<1>5. CASE Known(c, name) = {} /\ Len(c.ports) >= MaxPorts
  <2> DEFINE d == f_port(c, name)
  <2>1. d = [Failed(c) EXCEPT !.cur = NoPort, !.section = "none"]
    BY <1>5 DEF f_port
  <2>2. d \in ConfType /\ d.cur = NoPort /\ d.ports = c.ports /\ d.said = c.said
    <3>1. Failed(c) \in ConfType /\ Failed(c).ports = c.ports /\ Failed(c).said = c.said
      BY <1>1 DEF ConfType, Failed
    <3> DEFINE none == "none"
    <3>2. d = With(Failed(c), NoPort, c.ports, none, c.said)
      BY <2>1, <3>1 DEF ConfType, With
    <3>3. NoPort \in Nat /\ none \in SectionNames
      BY DEF NoPort, SectionNames
    <3> HIDE DEF d, none
    <3> QED BY <1>1, <3>1, <3>2, <3>3, ConfWith
  <2> HIDE DEF d
  <2>3. InSection(d) /\ OnePerName(d) /\ AsSaid(d)
    BY <2>2 DEF ConfInv, InSection, OnePerName, AsSaid
  <2> QED BY <2>2, <2>3 DEF ConfInv, d
<1>6. CASE Known(c, name) = {} /\ ~(Len(c.ports) >= MaxPorts)
  <2> DEFINE d == f_port(c, name)
             n == Len(c.ports)
             q == Append(c.ports, NewPort(name))
  <2>1. d = [Named(c, name) EXCEPT !.cur = n + 1, !.ports = Append(@, NewPort(name))]
    BY <1>6 DEF f_port
  <2>2. /\ q \in Seq(ConfPort) /\ Len(q) = n + 1 /\ n \in Nat
        /\ q[n + 1].name = name /\ q[n + 1].opt = 0
        /\ \A i \in 1..n : q[i] = c.ports[i]
    BY <1>1, NewPortType
  <2>3. \A i \in 1..(n + 1) : i \in 1..n \/ i = n + 1
    BY <2>2
  <2>4. \A i \in 1..n : c.ports[i].name # name
    BY <1>6 DEF Known
  <2>5. c.said[name] = Unset
    <3>1. c.said[name] # Unset => \E i \in 1..Len(c.ports) : c.ports[i].name = name
      BY DEF ConfInv, AsSaid
    <3> QED BY <2>4, <3>1
  <2>6. said[name] = 0 /\ \A m \in Names : m # name => said[m] = c.said[m]
    BY <1>1, <2>5 DEF said
  <2> HIDE DEF q, n
  <2>7. /\ d \in ConfType /\ d.cur = n + 1 /\ d.ports = q
        /\ d.section = name /\ d.said = said
    <3>1. d = With(c, n + 1, q, name, said)
      BY <1>1, <1>3, <2>1 DEF ConfType, With, q
    <3>2. n + 1 \in Nat
      BY <2>2
    <3>3. name \in SectionNames
      BY DEF SectionNames
    <3> HIDE DEF d
    <3> QED BY <1>1, <1>2, <2>2, <3>1, <3>2, <3>3, ConfWith
  <2> HIDE DEF d
  <2>8. InSection(d)
    BY <2>2, <2>7 DEF InSection
  <2>9. OnePerName(d)
    BY <2>2, <2>3, <2>4, <2>7, SMTT(30) DEF ConfInv, OnePerName, n
  <2>10. ASSUME NEW i \in 1..Len(q), q[i].name \in Names
         PROVE  q[i].opt = said[q[i].name]
    <3>1. CASE i = n + 1
      BY <2>2, <2>6, <3>1
    <3>2. CASE i \in 1..n
      <4>1. q[i] = c.ports[i] /\ c.ports[i].name # name
        BY <2>2, <2>4, <3>2
      <4>2. c.ports[i].opt = c.said[c.ports[i].name]
        BY <2>10, <3>2, <4>1 DEF ConfInv, AsSaid, n
      <4> QED BY <2>6, <2>10, <4>1, <4>2
    <3> QED BY <2>2, <2>3, <3>1, <3>2
  <2>11. ASSUME NEW m \in Names, said[m] # Unset
         PROVE  \E i \in 1..Len(q) : q[i].name = m
    <3>1. CASE m = name
      BY <2>2, <3>1
    <3>2. CASE m # name
      <4>1. PICK i \in 1..n : c.ports[i].name = m
        BY <2>6, <2>11, <3>2 DEF ConfInv, AsSaid, n
      <4>2. i \in 1..(n + 1) /\ q[i].name = m
        BY <2>2, <4>1
      <4> QED BY <2>2, <4>2
    <3> QED BY <3>1, <3>2
  <2>12. AsSaid(d)
    BY <2>7, <2>10, <2>11 DEF AsSaid
  <2> QED BY <2>7, <2>8, <2>9, <2>12 DEF ConfInv, d
<1> QED BY <1>4, <1>5, <1>6

(* An option of a port goes to the port of the section.                    *)
LEMMA OptionSet ==
  ASSUME NEW c, ConfInv(c), NEW v \in Int
  PROVE  ConfInv(f_simple(c, v))
<1>1. CASE c.cur = NoPort
  BY <1>1, FailedKeeps DEF f_simple, OfPort
<1>2. CASE c.cur # NoPort /\ v \notin 0..OptMax
  BY <1>2 DEF f_simple, OfPort
<1>3. CASE c.cur # NoPort /\ v \in 0..OptMax
  <2> DEFINE d    == f_simple(c, v)
             q    == [c.ports EXCEPT ![c.cur] = [c.ports[c.cur] EXCEPT !.opt = v]]
             said == [c.said EXCEPT ![c.section] = v]
  <2>1. /\ c \in ConfType /\ c.ports \in Seq(ConfPort) /\ c.said \in [Names -> Int]
        /\ c.cur \in 1..Len(c.ports) /\ c.section \in Names /\ c.section # "none"
        /\ c.ports[c.cur].name = c.section /\ c.ports[c.cur] \in ConfPort
    BY <1>3, CurrentPort, StartupAssumption DEF ConfInv, ConfType, InSection
  <2>2. v \in Nat
    BY <1>3, ConfAssumption
  <2>3. [c.ports[c.cur] EXCEPT !.opt = v] \in ConfPort
    BY <2>1, <2>2 DEF ConfPort
  <2>4. /\ q \in Seq(ConfPort) /\ Len(q) = Len(c.ports)
        /\ \A i \in 1..Len(c.ports) : i # c.cur => q[i] = c.ports[i]
        /\ q[c.cur] = [c.ports[c.cur] EXCEPT !.opt = v]
    BY <2>1, <2>3
  <2>5. q[c.cur].name = c.section /\ q[c.cur].opt = v
    BY <2>1, <2>4 DEF ConfPort
  <2>6. said \in [Names -> Int]
    BY <2>1
  <2>7. d = [c EXCEPT !.ports = q, !.said = said]
    BY <1>3, <2>1 DEF f_simple, OfPort, ConfType
  <2> HIDE DEF q
  <2>8. said[c.section] = v /\ \A m \in Names : m # c.section => said[m] = c.said[m]
    BY <2>1
  <2> HIDE DEF said
  <2>9. /\ d \in ConfType /\ d.cur = c.cur /\ d.ports = q
        /\ d.section = c.section /\ d.said = said
    BY <2>1, <2>4, <2>6, <2>7 DEF ConfType
  <2> HIDE DEF d
  <2>10. \A i \in 1..Len(c.ports) : q[i].name = c.ports[i].name
    BY <2>1, <2>4, <2>5
  <2>11. InSection(d)
    BY <2>1, <2>4, <2>5, <2>9 DEF InSection
  <2>12. OnePerName(d)
    BY <2>4, <2>9, <2>10 DEF ConfInv, OnePerName
  <2>13. ASSUME NEW i \in 1..Len(q), q[i].name \in Names
         PROVE  q[i].opt = said[q[i].name]
    <3>1. CASE i = c.cur
      BY <2>5, <2>8, <3>1
    <3>2. CASE i # c.cur
      <4>1. q[i] = c.ports[i] /\ i \in 1..Len(c.ports)
        BY <2>4, <3>2
      <4>2. c.ports[i].name # c.section
        BY <2>1, <3>2, <4>1 DEF ConfInv, OnePerName
      <4> QED BY <2>8, <2>13, <4>1, <4>2 DEF ConfInv, AsSaid
    <3> QED BY <3>1, <3>2
  <2>14. ASSUME NEW m \in Names, said[m] # Unset
         PROVE  \E i \in 1..Len(q) : q[i].name = m
    <3>1. CASE m = c.section
      BY <2>1, <2>4, <2>5, <3>1
    <3>2. CASE m # c.section
      BY <2>4, <2>8, <2>10, <2>14, <3>2 DEF ConfInv, AsSaid
    <3> QED BY <3>1, <3>2
  <2>15. AsSaid(d)
    BY <2>9, <2>13, <2>14 DEF AsSaid
  <2> QED BY <2>9, <2>11, <2>12, <2>15 DEF ConfInv, d
<1> QED BY <1>1, <1>2, <1>3

(* f_vlan() touches the VLANs and the protocol of the current port.        *)
LEMMA VlansSet ==
  ASSUME NEW c, ConfInv(c), NEW ids \in Seq(Int), NEW rest
  PROVE  ConfInv(f_vlan(c, ids, rest))
<1> DEFINE p     == c.ports[c.cur]
           wrong == {n \in 1..Len(ids) : ids[n] \notin 0..VidMax}
           last  == IF wrong = {} THEN Len(ids)
                    ELSE CHOOSE n \in wrong : \A m \in wrong : n <= m
           upTo  == IF last > VlanSize THEN VlanSize ELSE last
           vl    == [i \in 1..VlanSize |-> IF i <= upTo THEN ids[i] ELSE p.vlans[i]]
           q     == [p EXCEPT !.vlans = vl]
           n     == Len(ids) + (IF rest \in {"comma", "word"} THEN 1 ELSE 0)
           stale == rest = "comma" /\ n <= VlanSize /\ q.vlans[n] \notin 0..VidMax
           bad   == (wrong # {} /\ last <= VlanSize) \/ n > VlanSize
                    \/ (rest = "junk" /\ Len(ids) <= VlanSize) \/ stale
           q2    == [q EXCEPT !.nvlans = n, !.proto = "VLAN"]
<1>1. f_vlan(c, ids, rest) =
        OfPort(c, IF p.proto = "UDP" THEN Failed(c)
                  ELSE IF bad THEN Failed([c EXCEPT !.ports[c.cur] = q])
                  ELSE [c EXCEPT !.ports[c.cur] = q2])
  BY DEF f_vlan
<1>2. n \in Nat
  OBVIOUS
<1>3. CASE c.cur = NoPort
  BY <1>1, <1>3, FailedKeeps DEF OfPort
<1>4. CASE c.cur # NoPort
  <2>1. p \in ConfPort
    BY <1>4, CurrentPort
  <2>2. VlanSize \in Nat
    BY ConfAssumption
  <2>3. last \in Nat /\ last <= Len(ids)
    <3>1. CASE wrong = {}
      BY <3>1
    <3>2. CASE wrong # {}
      <4>1. wrong \subseteq Nat
        OBVIOUS
      <4>2. \E k \in wrong : \A m \in wrong : k <= m
        BY <3>2, <4>1, LeastNat
      <4>3. last \in wrong
        BY <3>2, <4>2
      <4> QED BY <4>3, SMTT(30)
    <3> QED BY <3>1, <3>2
  <2> HIDE DEF wrong, last
  <2>4. upTo \in Nat /\ upTo <= Len(ids)
    BY <2>2, <2>3
  <2> HIDE DEF upTo
  <2>5. vl \in [1..VlanSize -> Int]
    <3>1. p.vlans \in [1..VlanSize -> Int]
      BY <2>1 DEF ConfPort
    <3>2. ASSUME NEW i \in 1..VlanSize, i <= upTo PROVE ids[i] \in Int
      <4>1. i \in 1..Len(ids)
        BY <2>4, <3>2
      <4> QED BY <4>1
    <3> QED BY <3>1, <3>2
  <2> HIDE DEF p, vl, n, bad
  <2>6. q \in ConfPort /\ q.name = p.name /\ q.opt = p.opt
    BY <2>1, <2>5 DEF ConfPort
  <2>7. q2 \in ConfPort /\ q2.name = p.name /\ q2.opt = p.opt
    BY <1>2, <2>6 DEF ConfPort
  <2> HIDE DEF q, q2
  <2>8. ConfInv([c EXCEPT !.ports[c.cur] = q]) /\ ConfInv([c EXCEPT !.ports[c.cur] = q2])
    BY <1>4, <2>6, <2>7, PortChanges DEF p
  <2>9. f_vlan(c, ids, rest) \in {Failed(c), Failed([c EXCEPT !.ports[c.cur] = q]),
                                  [c EXCEPT !.ports[c.cur] = q2]}
    BY <1>1, <1>4 DEF OfPort
  <2>10. ConfInv(Failed(c)) /\ ConfInv(Failed([c EXCEPT !.ports[c.cur] = q]))
    BY <2>8, FailedKeeps
  <2> QED BY <2>8, <2>9, <2>10
<1> QED BY <1>3, <1>4

(* The other keywords.                                                     *)
LEMMA OthersSet ==
  ASSUME NEW c, ConfInv(c)
  PROVE  /\ \A v \in Int : ConfInv(f_simple_global(c, v))
         /\ \A v \in {"RAW", "UDP"} : ConfInv(f_proto(c, v))
         /\ \A v : ConfInv(f_profile(c, v))
         /\ \A v \in Int : ConfInv(f_diag(c, v))
         /\ \A v \in Int : ConfInv(f_servo_pi(c, v))
<1>1. c \in ConfType
  BY DEF ConfInv
<1>2. ConfInv(Failed(c))
  BY FailedKeeps
<1>3. \A v \in Int : ConfInv([c EXCEPT !.opt = v])
  <2>1. ASSUME NEW v \in Int PROVE ConfInv([c EXCEPT !.opt = v])
    <3> DEFINE d == [c EXCEPT !.opt = v]
    <3>1. /\ d \in ConfType /\ d.cur = c.cur /\ d.ports = c.ports
          /\ d.said = c.said /\ d.section = c.section
      BY <1>1 DEF ConfType
    <3> HIDE DEF d
    <3>2. ConfInv(d)
      BY <3>1, SamePorts
    <3> QED BY <3>2 DEF d
  <2> QED BY <2>1
<1>4. \A v \in Int : ConfInv([c EXCEPT !.pi = v])
  <2>1. ASSUME NEW v \in Int PROVE ConfInv([c EXCEPT !.pi = v])
    <3> DEFINE d == [c EXCEPT !.pi = v]
    <3>1. /\ d \in ConfType /\ d.cur = c.cur /\ d.ports = c.ports
          /\ d.said = c.said /\ d.section = c.section
      BY <1>1 DEF ConfType
    <3> HIDE DEF d
    <3>2. ConfInv(d)
      BY <3>1, SamePorts
    <3> QED BY <3>2 DEF d
  <2> QED BY <2>1
<1>5. \A v \in Int : ConfInv([c EXCEPT !.flags = v])
  <2>1. ASSUME NEW v \in Int PROVE ConfInv([c EXCEPT !.flags = v])
    <3> DEFINE d == [c EXCEPT !.flags = v]
    <3>1. /\ d \in ConfType /\ d.cur = c.cur /\ d.ports = c.ports
          /\ d.said = c.said /\ d.section = c.section
      BY <1>1 DEF ConfType
    <3> HIDE DEF d
    <3>2. ConfInv(d)
      BY <3>1, SamePorts
    <3> QED BY <3>2 DEF d
  <2> QED BY <2>1
<1>6. ASSUME NEW v \in {"RAW", "UDP"} PROVE ConfInv(f_proto(c, v))
  <2>1. CASE c.cur = NoPort
    BY <1>2, <2>1 DEF f_proto, OfPort
  <2>2. CASE c.cur # NoPort
    <3> DEFINE p == c.ports[c.cur]
               q == [p EXCEPT !.proto = v]
    <3>1. p \in ConfPort
      BY <2>2, CurrentPort
    <3> HIDE DEF p
    <3>2. q \in ConfPort /\ q.name = p.name /\ q.opt = p.opt
      BY <3>1 DEF ConfPort
    <3>3. f_proto(c, v) = [c EXCEPT !.ports[c.cur] = q]
      BY <2>2 DEF f_proto, OfPort, p
    <3> HIDE DEF q
    <3> QED BY <2>2, <3>2, <3>3, PortChanges DEF p
  <2> QED BY <2>1, <2>2
<1>7. ASSUME NEW v PROVE ConfInv(f_profile(c, v))
  <2>1. CASE c.cur = NoPort \/ v \notin Profiles \cup {"PTP"}
    BY <1>2, <2>1 DEF f_profile, OfPort
  <2>2. CASE c.cur # NoPort /\ v \in Profiles \cup {"PTP"}
    <3> DEFINE p == c.ports[c.cur]
               q == [p EXCEPT !.profile = v]
    <3>1. p \in ConfPort
      BY <2>2, CurrentPort
    <3> HIDE DEF p
    <3>2. q \in ConfPort /\ q.name = p.name /\ q.opt = p.opt
      BY <2>2, <3>1 DEF ConfPort
    <3>3. f_profile(c, v) = [c EXCEPT !.ports[c.cur] = q]
      BY <2>2 DEF f_profile, OfPort, p
    <3> HIDE DEF q
    <3> QED BY <2>2, <3>2, <3>3, PortChanges DEF p
  <2> QED BY <2>1, <2>2
<1>8. ASSUME NEW v \in Int PROVE ConfInv(f_diag(c, v))
  <2>1. CASE c.cur = NoPort
    BY <1>5, <2>1 DEF f_diag
  <2>2. CASE c.cur # NoPort
    <3> DEFINE p == c.ports[c.cur]
               q == [p EXCEPT !.flags = v]
    <3>1. p \in ConfPort
      BY <2>2, CurrentPort
    <3> HIDE DEF p
    <3>2. q \in ConfPort /\ q.name = p.name /\ q.opt = p.opt
      BY <3>1 DEF ConfPort
    <3>3. f_diag(c, v) = [c EXCEPT !.ports[c.cur] = q]
      BY <2>2 DEF f_diag, p
    <3> HIDE DEF q
    <3> QED BY <2>2, <3>2, <3>3, PortChanges DEF p
  <2> QED BY <2>1, <2>2
<1>9. \A v \in Int : ConfInv(f_simple_global(c, v))
  BY <1>2, <1>3 DEF f_simple_global, OfClock
<1>10. \A v \in Int : ConfInv(f_servo_pi(c, v))
  BY <1>2, <1>4 DEF f_servo_pi, OfClock
<1> QED BY <1>6, <1>7, <1>8, <1>9, <1>10

(* A line of any source.                                                   *)
LEMMA LineParsed ==
  ASSUME NEW c, ConfInv(c), NEW l \in Line, NEW term
  PROVE  ConfInv(pp_parse_conf(c, l, term))
<1>1. c \in ConfType
  BY DEF ConfInv
<1>2. ASSUME NEW d, ConfInv(d) PROVE ConfInv([d EXCEPT !.comment = FALSE])
  <2> DEFINE e == [d EXCEPT !.comment = FALSE]
  <2>1. /\ e \in ConfType /\ e.cur = d.cur /\ e.ports = d.ports
        /\ e.said = d.said /\ e.section = d.section
    BY <1>2 DEF ConfInv, ConfType
  <2> HIDE DEF e
  <2>2. ConfInv(e)
    BY <1>2, <2>1, SamePorts
  <2> QED BY <2>2 DEF e
<1>3. ConfInv([c EXCEPT !.comment = TRUE])
  <2> DEFINE e == [c EXCEPT !.comment = TRUE]
  <2>1. /\ e \in ConfType /\ e.cur = c.cur /\ e.ports = c.ports
        /\ e.said = c.said /\ e.section = c.section
    BY <1>1 DEF ConfType
  <2> HIDE DEF e
  <2>2. ConfInv(e)
    BY <2>1, SamePorts
  <2> QED BY <2>2 DEF e
<1>4. ConfInv([c EXCEPT !.cur = NoPort])
  <2> DEFINE e == [c EXCEPT !.cur = NoPort]
  <2>1. /\ e \in ConfType /\ e.cur = NoPort /\ e.ports = c.ports
        /\ e.said = c.said /\ e.section = c.section
    BY <1>1 DEF ConfType, NoPort
  <2> HIDE DEF e
  <2>2. ConfInv(e)
    BY <2>1, SamePorts
  <2> QED BY <2>2 DEF e
<1>5. ASSUME l.kw \notin {"comment", "blank", "empty"} PROVE ConfInv(Handler(c, l))
  <2>1. CASE l \in [kw : {"port"}, name : Names]
    BY <2>1, PortNamed DEF Handler
  <2>2. CASE l \in [kw : {"opt", "glob", "diag", "servo"}, v : Int]
    BY <2>2, OptionSet, OthersSet DEF Handler
  <2>3. CASE l \in [kw : {"proto"}, v : {"RAW", "UDP"}]
    BY <2>3, OthersSet DEF Handler
  <2>4. CASE l \in [kw : {"profile"}, v : {"PTP", "WR", "HA", "CUSTOM", "other"}]
    BY <2>4, OthersSet DEF Handler
  <2>5. CASE l \in [kw : {"vlan"}, ids : Seq(Int), rest : {"end", "comma", "word", "junk"}]
    BY <2>5, VlansSet DEF Handler
  <2>6. CASE l \in [kw : {"bad", "blank", "empty", "comment"}]
    BY <1>5, <2>6, FailedKeeps DEF Handler
  <2> QED BY <2>1, <2>2, <2>3, <2>4, <2>5, <2>6 DEF Line
<1> DEFINE d == IF c.comment \/ l.kw = "empty" THEN c ELSE pp_config_line(c, l)
<1>6. ConfInv(d)
  <2>1. CASE c.comment \/ l.kw = "empty"
    BY <2>1
  <2>2. CASE ~(c.comment \/ l.kw = "empty") /\ l.kw = "comment"
    BY <1>3, <2>2 DEF pp_config_line
  <2>3. CASE ~(c.comment \/ l.kw = "empty") /\ l.kw = "blank"
    BY <1>4, <2>3 DEF pp_config_line
  <2>4. CASE ~(c.comment \/ l.kw = "empty") /\ l.kw \notin {"comment", "blank"}
    BY <1>5, <2>4 DEF pp_config_line
  <2> QED BY <2>1, <2>2, <2>3, <2>4
<1>7. pp_parse_conf(c, l, term) = IF term = "nl" THEN [d EXCEPT !.comment = FALSE] ELSE d
  BY DEF pp_parse_conf
<1> HIDE DEF d
<1> QED BY <1>2, <1>6, <1>7

(* The beginning of a source ends the section.                             *)
LEMMA SourceBegins ==
  ASSUME NEW c, ConfInv(c)
  PROVE  ConfInv(NewSource(c))
<1> DEFINE d == NewSource(c)
<1>1. d \in ConfType /\ d.cur = NoPort /\ d.ports = c.ports /\ d.said = c.said
  <2>1. c \in ConfType
    BY DEF ConfInv
  <2> QED BY <2>1 DEF NewSource, ConfType, SectionNames, NoPort
<1> HIDE DEF d
<1>2. InSection(d) /\ OnePerName(d) /\ AsSaid(d)
  BY <1>1 DEF ConfInv, InSection, OnePerName, AsSaid
<1>3. ConfInv(d)
  BY <1>1, <1>2 DEF ConfInv
<1> QED BY <1>3 DEF d

(* A default string is parsed like any other.                              *)
LEMMA DefaultParsed ==
  ASSUME NEW c, ConfInv(c), NEW name \in Names
  PROVE  ConfInv(DefaultPort(c, name))
<1> DEFINE l1 == [kw |-> "port", name |-> name]
           l2 == [kw |-> "proto", v |-> IF suArch = "wrs" THEN "RAW" ELSE "UDP"]
           l3 == [kw |-> "profile", v |-> IF suArch = "wrs" THEN "HA" ELSE "PTP"]
           c1 == pp_parse_conf(NewSource(c), l1, "semi")
           c2 == pp_parse_conf(c1, l2, "semi")
<1>1. l1 \in Line
  BY DEF Line
<1>2. l2 \in Line
  BY DEF Line
<1>3. l3 \in Line
  BY DEF Line
<1>4. DefaultPort(c, name) = pp_parse_conf(c2, l3, "semi")
  BY DEF DefaultPort
<1> HIDE DEF l1, l2, l3
<1>5. ConfInv(c1)
  BY <1>1, SourceBegins, LineParsed
<1> HIDE DEF c1
<1>6. ConfInv(c2)
  BY <1>2, <1>5, LineParsed
<1> HIDE DEF c2
<1> QED BY <1>3, <1>4, <1>6, LineParsed

(* The first configuration: no port, or in the simulator the master's.     *)
LEMMA FirstConf ==
  ASSUME SuInit
  PROVE  ConfInv(suConf)
<1> DEFINE unsaid == [n \in Names |-> Unset]
<1>1. NewConf \in ConfType /\ NewConf.ports = <<>> /\ NewConf.cur = NoPort
      /\ NewConf.said = unsaid
  BY DEF NewConf, ConfType, SectionNames, NoPort, Unset
<1>2. CASE suArch # "sim"
  <2>1. suConf = NewConf
    BY <1>2 DEF SuInit
  <2>2. InSection(NewConf) /\ OnePerName(NewConf) /\ AsSaid(NewConf)
    BY <1>1 DEF InSection, OnePerName, AsSaid
  <2> QED BY <1>1, <2>1, <2>2 DEF ConfInv
<1>3. CASE suArch = "sim"
  <2> DEFINE p    == [NewPort("SIM_MASTER") EXCEPT !.proto = "UDP"]
             said == [n \in Names |-> IF n = "SIM_MASTER" THEN 0 ELSE Unset]
             d    == [NewConf EXCEPT !.ports = <<p>>, !.said = said]
  <2>1. suConf = d
    BY <1>3 DEF SuInit
  <2>2. p \in ConfPort /\ p.name = "SIM_MASTER" /\ p.opt = 0
    <3>1. "SIM_MASTER" \in PortNames
      BY DEF PortNames
    <3>2. /\ NewPort("SIM_MASTER") \in ConfPort
          /\ NewPort("SIM_MASTER").name = "SIM_MASTER" /\ NewPort("SIM_MASTER").opt = 0
      BY <3>1, NewPortType
    <3> DEFINE q == NewPort("SIM_MASTER")
    <3> HIDE DEF q
    <3>3. q \in ConfPort /\ q.name = "SIM_MASTER" /\ q.opt = 0
      BY <3>2 DEF q
    <3>4. /\ [q EXCEPT !.proto = "UDP"] \in ConfPort
          /\ [q EXCEPT !.proto = "UDP"].name = q.name /\ [q EXCEPT !.proto = "UDP"].opt = q.opt
      BY <3>3 DEF ConfPort
    <3> QED BY <3>3, <3>4 DEF q
  <2>3. said \in [Names -> Int]
    BY DEF Unset
  <2>4. \A n \in Names : said[n] = IF n = "SIM_MASTER" THEN 0 ELSE Unset
    OBVIOUS
  <2> HIDE DEF p, said
  <2>5. <<p>> \in Seq(ConfPort) /\ Len(<<p>>) = 1 /\ <<p>>[1] = p
    BY <2>2
  <2>6. d \in ConfType /\ d.cur = NoPort /\ d.ports = <<p>> /\ d.said = said
    BY <1>1, <2>3, <2>5 DEF ConfType
  <2> HIDE DEF d
  <2>7. InSection(d) /\ OnePerName(d)
    BY <2>5, <2>6 DEF InSection, OnePerName
  <2>8. AsSaid(d)
    <3>1. \A i \in 1..Len(<<p>>) : <<p>>[i].name = "SIM_MASTER" /\ <<p>>[i].opt = 0
      BY <2>2, <2>5
    <3>2. \A n \in Names : said[n] # Unset => n = "SIM_MASTER"
      BY <2>4
    <3>3. 1 \in 1..Len(<<p>>)
      BY <2>5
    <3>4. "SIM_MASTER" \in Names => said["SIM_MASTER"] = 0
      BY <2>4
    <3> DEFINE r == <<p>>
    <3> HIDE DEF r
    <3>5. /\ \A i \in 1..Len(r) : r[i].name = "SIM_MASTER" /\ r[i].opt = 0
          /\ 1 \in 1..Len(r) /\ d.ports = r
      BY <2>6, <3>1, <3>3 DEF r
    <3> QED BY <2>6, <3>2, <3>4, <3>5 DEF AsSaid
  <2> QED BY <2>1, <2>6, <2>7, <2>8 DEF ConfInv
<1> QED BY <1>2, <1>3

(* No step spoils the configuration.                                       *)
LEMMA StepKeepsConf ==
  ASSUME ConfInv(suConf), suStrings \in Nat, [SuNext]_suVars
  PROVE  ConfInv(suConf') /\ suStrings' \in Nat
<1>1. CASE pp_parse_cmdline
  <2>1. suConf' \in {suConf, NewSource(suConf), [suConf EXCEPT !.flags = 1]}
        /\ suStrings' = suStrings
    BY <1>1 DEF pp_parse_cmdline
  <2>2. ConfInv([suConf EXCEPT !.flags = 1])
    <3> DEFINE d == [suConf EXCEPT !.flags = 1]
    <3>1. /\ d \in ConfType /\ d.cur = suConf.cur /\ d.ports = suConf.ports
          /\ d.said = suConf.said /\ d.section = suConf.section
      BY SMTT(30) DEF ConfInv, ConfType
    <3> HIDE DEF d
    <3>2. ConfInv(d)
      BY <3>1, SamePorts
    <3> QED BY <3>2 DEF d
  <2> QED BY <2>1, <2>2, SourceBegins
<1>2. CASE ReadLine
  <2>1. PICK l \in Lines, term \in Terms : suConf' = pp_parse_conf(suConf, l, term)
    BY <1>2 DEF ReadLine
  <2>2. l \in Line /\ suStrings' = suStrings
    BY <1>2, StartupAssumption DEF ReadLine
  <2> QED BY <2>1, <2>2, LineParsed
<1>3. CASE Default
  <2>1. suConf' \in {suConf, NewSource(suConf)} /\ suStrings' = suStrings
    BY <1>3 DEF Default
  <2> QED BY <2>1, SourceBegins
<1>4. CASE DefaultString
  <2>1. CASE suStrings < DefaultStrings
    <3>1. suConf' = DefaultPort(suConf, DefaultNames[suStrings + 1])
          /\ suStrings' = suStrings + 1
      BY <1>4, <2>1 DEF DefaultString
    <3>2. suStrings + 1 \in 1..Len(DefaultNames)
      BY <2>1, StartupAssumption DEF DefaultStrings
    <3>3. DefaultNames[suStrings + 1] \in Names
      BY <3>2, StartupAssumption
    <3> QED BY <3>1, <3>3, DefaultParsed
  <2>2. CASE ~(suStrings < DefaultStrings)
    BY <1>4, <2>2 DEF DefaultString
  <2> QED BY <2>1, <2>2
<1>5. CASE OpenShm \/ EndOfCmdline \/ SetUpPort \/ Run \/ UNCHANGED suVars
  <2>1. suConf' = suConf /\ suStrings' = suStrings
    BY <1>5 DEF OpenShm, EndOfCmdline, SetUpPort, Run, suVars
  <2> QED BY <2>1
<1> QED BY <1>1, <1>2, <1>3, <1>4, <1>5 DEF SuNext

(* The options go to the port the lines named: for every configuration,    *)
(* however many lines, files and strings it has and whatever room there is *)
(* for ports, there is one port for each name the lines have used, and it  *)
(* has what the lines below its name have said (f_port(), f_simple_int()). *)
THEOREM OptionsReachTheirPort == SuSpec => []OptionsOfNamedPort
<1> DEFINE I == ConfInv(suConf) /\ suStrings \in Nat
<1>1. SuInit => I
  <2>1. SuInit => ConfInv(suConf)
    BY FirstConf
  <2>2. SuInit => suStrings \in Nat
    BY DEF SuInit
  <2> QED BY <2>1, <2>2
<1>2. I /\ [SuNext]_suVars => I'
  BY StepKeepsConf
<1>3. I => OptionsOfNamedPort
  <2> SUFFICES ASSUME I, NEW n \in Names
               PROVE  /\ suConf.said[n] = Unset <=> Known(suConf, n) = {}
                      /\ \A i, j \in Known(suConf, n) :
                           i = j /\ suConf.ports[i].opt = suConf.said[n]
    BY DEF OptionsOfNamedPort
  <2>1. ASSUME NEW i \in Known(suConf, n)
        PROVE  suConf.ports[i].opt = suConf.said[n] /\ suConf.said[n] # Unset
    <3>1. i \in 1..Len(suConf.ports) /\ suConf.ports[i].name = n
      BY <2>1 DEF Known
    <3>2. suConf.ports[i].opt = suConf.said[n]
      BY <3>1 DEF ConfInv, AsSaid
    <3>3. suConf.ports \in Seq(ConfPort)
      BY DEF ConfInv, ConfType
    <3>4. suConf.ports[i] \in ConfPort
      BY <3>1, <3>3
    <3>5. suConf.ports[i].opt \in Nat
      BY <3>4 DEF ConfPort
    <3> QED BY <3>2, <3>5 DEF Unset
  <2>2. suConf.said[n] # Unset => Known(suConf, n) # {}
    BY DEF ConfInv, AsSaid, Known
  <2>3. \A i, j \in Known(suConf, n) : i = j
    BY DEF ConfInv, OnePerName, Known
  <2> QED BY <2>1, <2>2, <2>3
<1> QED BY <1>1, <1>2, <1>3, PTL DEF SuSpec

-----------------------------------------------------------------------------
(* The network drivers.                                                    *)

(* A record with the fields of a port.                                     *)
PortShape(p) ==
  DOMAIN p = {"driver", "proto", "fd", "chan", "up", "vid", "stamp", "sent", "asked",
              "answered", "fup", "jobs"}

(* The port, the queues and the late stamps in the course of a pass.       *)
SendShape(s) == DOMAIN s = {"p", "queue", "late", "ok"} /\ PortShape(s.p)

(* What sending leaves alone.                                              *)
SameSockets(p, q) == /\ q.fd = p.fd /\ q.driver = p.driver /\ q.proto = p.proto

(* A send that succeeds and has a stamp has that of the frame just sent.   *)
OwnStamp(s) == s.ok /\ s.p.stamp # NoStamp => s.p.stamp = s.p.sent

(* What n_ops->send() of a switch leaves.                                  *)
LEMMA WrsSend ==
  ASSUME NEW s, SendShape(s), NEW c, NEW t \in wrs_net_send(s, c)
  PROVE  SendShape(t) /\ SameSockets(s.p, t.p) /\ t.p.fup = s.p.fup /\ OwnStamp(t)
<1> DEFINE n  == s.p.sent + 1
           ch == SendChannel(s.p, c)
           P(q, late) == [p |-> [s.p EXCEPT !.sent = n, !.stamp = poll_tx_timestamp(q, n).stamp],
                          queue |-> [s.queue EXCEPT ![ch] = poll_tx_timestamp(q, n).left],
                          late |-> late, ok |-> TRUE]
<1>1. t \in {P(Append(s.queue[ch], n), s.late), P(s.queue[ch], s.late \cup {<<n, ch>>}),
             [s EXCEPT !.ok = FALSE]}
  BY DEF wrs_net_send
<1> HIDE DEF n, ch
<1>2. ASSUME NEW q, NEW late, t = P(q, late)
      PROVE  SendShape(t) /\ SameSockets(s.p, t.p) /\ t.p.fup = s.p.fup /\ OwnStamp(t)
  <2> DEFINE st == poll_tx_timestamp(q, n).stamp
             m  == [s.p EXCEPT !.sent = n, !.stamp = st]
  <2>1. st \in {n, NoStamp}
    BY DEF poll_tx_timestamp
  <2> HIDE DEF st
  <2>2. PortShape(m) /\ SameSockets(s.p, m) /\ m.fup = s.p.fup /\ m.sent = n /\ m.stamp = st
    BY DEF SendShape, PortShape, SameSockets
  <2>3. DOMAIN t = {"p", "queue", "late", "ok"} /\ t.p = m
    BY <1>2 DEF st
  <2> HIDE DEF m
  <2> QED BY <2>1, <2>2, <2>3 DEF SendShape, OwnStamp
<1>3. ASSUME t = [s EXCEPT !.ok = FALSE]
      PROVE  SendShape(t) /\ SameSockets(s.p, t.p) /\ t.p.fup = s.p.fup /\ OwnStamp(t)
  BY <1>3 DEF SendShape, SameSockets, OwnStamp
<1> DEFINE q1 == Append(s.queue[ch], n)
           q2 == s.queue[ch]
           l2 == s.late \cup {<<n, ch>>}
<1>4. t = P(q1, s.late) \/ t = P(q2, l2) \/ t = [s EXCEPT !.ok = FALSE]
  BY <1>1
<1> HIDE DEF P, q1, q2, l2
<1> QED BY <1>2, <1>3, <1>4

(* What that of the other drivers leaves.                                  *)
LEMMA OtherSend ==
  ASSUME NEW s, SendShape(s), NEW c, NEW t \in unix_net_send(s, c) \cup wrpc_net_send(s, c)
  PROVE  SendShape(t) /\ SameSockets(s.p, t.p) /\ t.p.fup = s.p.fup /\ OwnStamp(t)
<1> DEFINE n == s.p.sent + 1
           U(st, ok) == [s EXCEPT !.p.sent = n, !.p.stamp = st, !.ok = ok]
           V(ok) == [s EXCEPT !.p.stamp = n, !.ok = ok]
<1>1. t \in {U(n, s.p.proto # "VLAN"), V(FALSE), U(n, TRUE), U(NoStamp, TRUE),
             [s EXCEPT !.ok = FALSE]}
  BY DEF unix_net_send, wrpc_net_send
<1> HIDE DEF n
<1>2. ASSUME NEW st \in {n, NoStamp}, NEW ok
      PROVE  LET u == U(st, ok)
             IN  SendShape(u) /\ SameSockets(s.p, u.p) /\ u.p.fup = s.p.fup /\ OwnStamp(u)
  <2> DEFINE m == [s.p EXCEPT !.sent = n, !.stamp = st]
  <2>1. PortShape(m) /\ SameSockets(s.p, m) /\ m.fup = s.p.fup /\ m.sent = n /\ m.stamp = st
    BY DEF SendShape, PortShape, SameSockets
  <2> DEFINE u == U(st, ok)
  <2>2. DOMAIN u = DOMAIN s /\ u.p = m
    BY DEF SendShape
  <2> HIDE DEF m, u
  <2>3. SendShape(u) /\ SameSockets(s.p, u.p) /\ u.p.fup = s.p.fup /\ OwnStamp(u)
    BY <2>1, <2>2 DEF SendShape, OwnStamp
  <2> QED BY <2>3 DEF u
<1>3. LET u == V(FALSE)
      IN  SendShape(u) /\ SameSockets(s.p, u.p) /\ u.p.fup = s.p.fup /\ OwnStamp(u)
  <2> DEFINE m == [s.p EXCEPT !.stamp = n]
  <2>1. PortShape(m) /\ SameSockets(s.p, m) /\ m.fup = s.p.fup
    BY DEF SendShape, PortShape, SameSockets
  <2> DEFINE u == V(FALSE)
  <2>2. DOMAIN u = DOMAIN s /\ u.p = m /\ u.ok = FALSE
    BY DEF SendShape
  <2> HIDE DEF m, u
  <2>3. SendShape(u) /\ SameSockets(s.p, u.p) /\ u.p.fup = s.p.fup /\ OwnStamp(u)
    BY <2>1, <2>2 DEF SendShape, OwnStamp
  <2> QED BY <2>3 DEF u
<1>4. LET u == [s EXCEPT !.ok = FALSE]
      IN  SendShape(u) /\ SameSockets(s.p, u.p) /\ u.p.fup = s.p.fup /\ OwnStamp(u)
  BY DEF SendShape, SameSockets, OwnStamp
<1> QED BY <1>1, <1>2, <1>3, <1>4

(* What n_ops->send() of any driver leaves.                                *)
LEMMA Sent ==
  ASSUME NEW s, SendShape(s), NEW c, NEW t \in NetSend(s, c)
  PROVE  SendShape(t) /\ SameSockets(s.p, t.p) /\ t.p.fup = s.p.fup /\ OwnStamp(t)
<1>1. t \in wrs_net_send(s, c) \/ t \in unix_net_send(s, c) \cup wrpc_net_send(s, c)
  BY DEF NetSend
<1> QED BY <1>1, WrsSend, OtherSend

(* A message of a pass goes out: a Follow_Up has its Sync's stamp.         *)
LEMMA MessageIssued ==
  ASSUME NEW s, SendShape(s), s.p.fup[1] = s.p.fup[2], NEW job, NEW t \in Issued(job, s)
  PROVE  SendShape(t) /\ SameSockets(s.p, t.p) /\ t.p.fup[1] = t.p.fup[2]
<1> DEFINE there == [s EXCEPT !.p.vid = job.vid]
<1>1. SendShape(there) /\ SameSockets(s.p, there.p) /\ there.p.fup = s.p.fup
  <2> DEFINE m == [s.p EXCEPT !.vid = job.vid]
  <2>1. PortShape(m) /\ SameSockets(s.p, m) /\ m.fup = s.p.fup
    BY DEF SendShape, PortShape, SameSockets
  <2>2. DOMAIN there = DOMAIN s /\ there.p = m
    BY DEF SendShape
  <2> HIDE DEF m
  <2> QED BY <2>1, <2>2 DEF SendShape
<1> HIDE DEF there
<1>2. CASE job.kind = "sync"
  <2>1. t \in msg_issue_sync_followup(there)
    BY <1>2 DEF Issued, there
  <2>2. PICK u \in NetSend(there, EVT) :
          t \in IF ~Logged(u, EVT) THEN {u}
                ELSE {[w EXCEPT !.p.fup = <<u.p.sent, u.p.stamp>>] : w \in NetSend(u, GEN)}
    BY <2>1 DEF msg_issue_sync_followup
  <2>3. SendShape(u) /\ SameSockets(there.p, u.p) /\ u.p.fup = s.p.fup /\ OwnStamp(u)
    BY <1>1, Sent
  <2>4. CASE ~Logged(u, EVT)
    BY <1>1, <2>2, <2>3, <2>4 DEF SameSockets
  <2>5. CASE Logged(u, EVT)
    <3>1. PICK w \in NetSend(u, GEN) : t = [w EXCEPT !.p.fup = <<u.p.sent, u.p.stamp>>]
      BY <2>2, <2>5
    <3>2. SendShape(w) /\ SameSockets(u.p, w.p)
      BY <2>3, Sent
    <3>3. u.p.stamp = u.p.sent
      BY <2>3, <2>5 DEF OwnStamp, Logged
    <3> DEFINE f == <<u.p.sent, u.p.stamp>>
               m == [w.p EXCEPT !.fup = f]
    <3>4. PortShape(m) /\ SameSockets(w.p, m) /\ m.fup = f
      BY <3>2 DEF SendShape, PortShape, SameSockets
    <3>5. DOMAIN t = DOMAIN w /\ t.p = m
      BY <3>1, <3>2 DEF SendShape
    <3>6. f[1] = f[2]
      BY <3>3
    <3> HIDE DEF m, f
    <3> QED BY <1>1, <2>3, <3>2, <3>4, <3>5, <3>6 DEF SendShape, SameSockets
  <2> QED BY <2>4, <2>5
<1>3. CASE job.kind # "sync" /\ job.kind = "ann"
  <2>1. t \in NetSend(there, GEN)
    BY <1>3 DEF Issued, msg_issue_announce, there
  <2>2. SendShape(t) /\ SameSockets(there.p, t.p) /\ t.p.fup = there.p.fup
    BY <1>1, <2>1, Sent
  <2> QED BY <1>1, <2>2 DEF SameSockets
<1>4. CASE job.kind # "sync" /\ job.kind # "ann"
  <2>1. t \in msg_issue_delay_resp(s)
    BY <1>4 DEF Issued
  <2>2. PICK u \in NetSend(s, GEN) : t = [u EXCEPT !.p.answered = s.p.vid]
    BY <2>1 DEF msg_issue_delay_resp
  <2>3. SendShape(u) /\ SameSockets(s.p, u.p) /\ u.p.fup = s.p.fup
    BY Sent
  <2> DEFINE m == [u.p EXCEPT !.answered = s.p.vid]
  <2>4. PortShape(m) /\ SameSockets(u.p, m) /\ m.fup = u.p.fup
    BY <2>3 DEF SendShape, PortShape, SameSockets
  <2>5. DOMAIN t = DOMAIN u /\ t.p = m
    BY <2>2, <2>3 DEF SendShape
  <2> HIDE DEF m
  <2> QED BY <2>3, <2>4, <2>5 DEF SendShape, SameSockets
<1> QED BY <1>2, <1>3, <1>4

(* The sockets of a port: an open one is named by a channel, and a port    *)
(* without a general channel has none.  The node has its static socket.    *)
Unixlike == nd.driver \notin {"bare", "wrpc"}

SocketsNamed ==
  /\ DOMAIN nd.fd = Channels
  /\ Unixlike => /\ nd.fd[GEN] \in Fds \cup {-1}
                 /\ ndOpen \subseteq {nd.fd[GEN], nd.fd[EVT]}
                 /\ nd.fd[GEN] = -1 => ndOpen = {}
  /\ nd.driver = "wrpc" => ndOpen = {} \/ (ndOpen = {1} /\ nd.fd = <<1, 1>>)

NdInv == PortShape(nd) /\ SocketsNamed /\ FollowUpOwnStamp

(* What an opening leaves: the sockets open, and the channels.             *)
Tidy(s) ==
  /\ DOMAIN s.fd = Channels
  /\ s.fd[GEN] \in Fds \cup {-1}
  /\ s.open \subseteq {s.fd[GEN], s.fd[EVT]}
  /\ s.fd[GEN] = -1 => s.open = {}

(* unix_net_exit() leaves nothing open of a port that was tidy.            *)
LEMMA ExitTidies ==
  ASSUME NEW s, {"open", "fd", "ok"} \subseteq DOMAIN s, Tidy(s)
  PROVE  /\ {"open", "fd", "ok"} \subseteq DOMAIN unix_net_exit(s)
         /\ unix_net_exit(s).open = {} /\ unix_net_exit(s).fd = Closed
<1> DEFINE t == unix_net_exit(s)
<1>1. t = [s EXCEPT !.open = s.open \ {s.fd[c] : c \in Channels}, !.fd = Closed]
  BY DEF unix_net_exit
<1>2. s.open \ {s.fd[c] : c \in Channels} = {}
  BY DEF Tidy, Channels, GEN, EVT
<1> QED BY <1>1, <1>2

(* What a successful or failing open of a channel leaves.                  *)
LEMMA ChannelOpened ==
  ASSUME NEW s, NEW c, NEW t \in unix_open_ch(s, c)
  PROVE  \/ /\ t.ok = TRUE /\ t.open = s.open \cup {Socket(s.open)}
            /\ t.fd = [s.fd EXCEPT ![c] = Socket(s.open)]
         \/ t.ok = FALSE /\ t.open = s.open /\ t.fd = [s.fd EXCEPT ![c] = -1]
  BY DEF unix_open_ch

(* unix_net_init() of a port that is tidy leaves a tidy one, whichever of  *)
(* its calls fails.                                                        *)
LEMMA InitTidies ==
  ASSUME NEW s, {"open", "fd", "ok"} \subseteq DOMAIN s, Tidy(s), Fds # {}, NEW proto,
         NEW t \in unix_net_init(s, proto)
  PROVE  Tidy(t)
<1> DEFINE clean == IF s.fd[GEN] > 0 THEN unix_net_exit(s) ELSE s
           f     == Socket(clean.open)
<1>1. clean.open = {} /\ DOMAIN clean.fd = Channels
  <2>1. CASE s.fd[GEN] > 0
    <3>1. DOMAIN Closed = Channels
      BY DEF Closed, Channels, GEN, EVT
    <3> QED BY <2>1, <3>1, ExitTidies
  <2>2. CASE ~(s.fd[GEN] > 0)
    <3>1. PICK x : x = s.fd[GEN]
      OBVIOUS
    <3>2. x \in Fds \cup {-1} /\ ~(x > 0)
      BY <2>2, <3>1 DEF Tidy
    <3>3. x = -1
      BY <3>2, NdAssumption
    <3> QED BY <2>2, <3>1, <3>3 DEF Tidy
  <2> QED BY <2>1, <2>2
<1>2. f \in Fds
  <2>1. f = Min(Fds)
    BY <1>1 DEF Socket
  <2> QED BY <2>1, NdAssumption, LeastNat
<1>3. /\ f # -1
      /\ 1 \in Channels /\ 2 \in Channels /\ GEN = 1 /\ EVT = 2
  BY <1>2, NdAssumption DEF Channels, GEN, EVT
<1>4. \A g \in unix_open_ch(clean, GEN) :
         \/ /\ g.ok = TRUE /\ g.open = {f} /\ g.fd = [clean.fd EXCEPT ![1] = f]
         \/ /\ g.ok = FALSE /\ g.open = {} /\ g.fd = [clean.fd EXCEPT ![1] = -1]
  <2> TAKE g \in unix_open_ch(clean, GEN)
  <2> HIDE DEF clean
  <2>1. \/ /\ g.ok = TRUE /\ g.open = clean.open \cup {Socket(clean.open)}
           /\ g.fd = [clean.fd EXCEPT ![GEN] = Socket(clean.open)]
        \/ g.ok = FALSE /\ g.open = clean.open /\ g.fd = [clean.fd EXCEPT ![GEN] = -1]
    BY ChannelOpened
  <2>2. clean.open \cup {f} = {f}
    BY <1>1
  <2> QED BY <1>1, <1>3, <2>1, <2>2
<1>5. t \in unix_open_ch(clean, GEN)
      \/ \E g \in unix_open_ch(clean, GEN) : g.ok /\ t \in unix_open_ch(g, EVT)
  BY DEF unix_net_init
<1> HIDE DEF clean, f
<1>6. CASE t \in unix_open_ch(clean, GEN)
  <2>1. CASE t.open = {f} /\ t.fd = [clean.fd EXCEPT ![1] = f]
    BY <1>1, <1>2, <1>3, <2>1 DEF Tidy
  <2>2. CASE t.open = {} /\ t.fd = [clean.fd EXCEPT ![1] = -1]
    BY <1>1, <1>3, <2>2 DEF Tidy
  <2> QED BY <1>4, <1>6, <2>1, <2>2
<1>7. ASSUME NEW g \in unix_open_ch(clean, GEN), g.ok, t \in unix_open_ch(g, EVT)
      PROVE  Tidy(t)
  <2>1. g.open = {f} /\ g.fd = [clean.fd EXCEPT ![1] = f]
    BY <1>4, <1>7
  <2>2. DOMAIN g.fd = Channels /\ g.fd[1] = f
    BY <1>1, <1>3, <2>1
  <2> DEFINE h == Socket(g.open)
  <2>3. \/ t.open = {f} \cup {h} /\ t.fd = [g.fd EXCEPT ![2] = h]
        \/ t.open = {f} /\ t.fd = [g.fd EXCEPT ![2] = -1]
    BY <1>3, <1>7, <2>1, ChannelOpened
  <2> HIDE DEF h
  <2>4. CASE t.open = {f} \cup {h} /\ t.fd = [g.fd EXCEPT ![2] = h]
    <3>1. DOMAIN t.fd = Channels /\ t.fd[1] = f /\ t.fd[2] = h
      BY <1>3, <2>2, <2>4
    <3> QED BY <1>2, <1>3, <2>4, <3>1 DEF Tidy
  <2>5. CASE t.open = {f} /\ t.fd = [g.fd EXCEPT ![2] = -1]
    <3>1. DOMAIN t.fd = Channels /\ t.fd[1] = f
      BY <1>3, <2>2, <2>5
    <3> QED BY <1>2, <1>3, <2>5, <3>1 DEF Tidy
  <2> QED BY <2>3, <2>4, <2>5
<1> QED BY <1>5, <1>6, <1>7

(* One step keeps the invariant: opening the port.                         *)
LEMMA OpenKeeps ==
  ASSUME NdInv, NetInit PROVE NdInv'
<1> DEFINE from == IF nd.driver = "wrs" /\ nd.chan THEN unix_net_exit(Chans) ELSE Chans
<1>1. \E s \in Opened(nd.driver, from) : \E up, chan :
        /\ nd' = [nd EXCEPT !.fd = s.fd, !.up = up, !.chan = chan]
        /\ ndOpen' = s.open
  <2>1. PICK s \in Opened(nd.driver, from), hal \in IF nd.driver = "wrs" THEN BOOLEAN ELSE {TRUE} :
          /\ nd' = [nd EXCEPT !.fd = s.fd, !.up = s.ok /\ hal,
                              !.chan = nd.driver = "wrs" /\ s.ok /\ hal]
          /\ ndOpen' = s.open
    BY DEF NetInit
  <2> QED BY <2>1
<1>2. PICK s \in Opened(nd.driver, from) : \E up, chan :
        /\ nd' = [nd EXCEPT !.fd = s.fd, !.up = up, !.chan = chan]
        /\ ndOpen' = s.open
  BY <1>1
<1>3. Fds # {}
  BY DEF NetInit
<1>4. /\ PortShape(nd') /\ nd'.fd = s.fd /\ nd'.driver = nd.driver /\ nd'.fup = nd.fup
  BY <1>2 DEF NdInv, PortShape
<1>5. FollowUpOwnStamp'
  BY <1>4 DEF NdInv, FollowUpOwnStamp
<1>6. DOMAIN Chans = {"ok", "open", "fd"} /\ Chans.open = ndOpen /\ Chans.fd = nd.fd
  BY DEF Chans
<1>7. SocketsNamed'
  <2>1. CASE nd.driver = "bare"
    <3>1. from = Chans /\ s \in bare_net_init(from)
      BY <1>2, <2>1 DEF Opened
    <3>2. s.fd = nd.fd \/ \E f : s.fd = <<f, f>>
      BY <1>6, <3>1 DEF bare_net_init
    <3>3. DOMAIN s.fd = Channels
      BY <3>2 DEF NdInv, SocketsNamed, Channels, GEN, EVT
    <3> QED BY <1>4, <2>1, <3>3 DEF SocketsNamed, Unixlike
  <2>2. CASE nd.driver = "wrpc"
    <3>1. from = Chans /\ s \in wrpc_net_init(from)
      BY <1>2, <2>2 DEF Opened
    <3>2. s.open = {1} /\ s.fd = <<1, 1>>
      BY <1>6, <3>1 DEF wrpc_net_init
    <3>3. DOMAIN <<1, 1>> = Channels
      BY DEF Channels, GEN, EVT
    <3> QED BY <1>2, <1>4, <2>2, <3>2, <3>3 DEF SocketsNamed, Unixlike
  <2>3. CASE Unixlike
    <3>1. Tidy(Chans)
      BY <1>6, <2>3 DEF NdInv, SocketsNamed, Tidy
    <3>2. {"open", "fd", "ok"} \subseteq DOMAIN from /\ Tidy(from)
      <4>1. CASE nd.driver = "wrs" /\ nd.chan
        <5>1. from.open = {} /\ from.fd = Closed /\ {"open", "fd", "ok"} \subseteq DOMAIN from
          BY <1>6, <3>1, <4>1, ExitTidies
        <5>2. DOMAIN Closed = Channels /\ Closed[GEN] = -1
          BY DEF Closed, Channels, GEN, EVT
        <5> HIDE DEF from
        <5> QED BY <5>1, <5>2 DEF Tidy
      <4>2. CASE ~(nd.driver = "wrs" /\ nd.chan)
        BY <1>6, <3>1, <4>2
      <4> QED BY <4>1, <4>2
    <3>3. s \in unix_net_init(from, nd.proto)
      BY <1>2, <2>3 DEF Opened, Unixlike
    <3> HIDE DEF from
    <3>4. Tidy(s)
      BY <1>3, <3>2, <3>3, InitTidies
    <3> QED BY <1>2, <1>4, <2>3, <3>4 DEF SocketsNamed, Unixlike, Tidy
  <2> QED BY <2>1, <2>2, <2>3 DEF Unixlike
<1> QED BY <1>4, <1>5, <1>7 DEF NdInv

(* Closing it.                                                             *)
LEMMA CloseKeeps ==
  ASSUME NdInv, NetExit PROVE NdInv'
<1> DEFINE s == IF nd.driver \in {"bare", "wrpc"} THEN Chans ELSE unix_net_exit(Chans)
<1>1. /\ nd' = [nd EXCEPT !.fd = s.fd, !.up = FALSE, !.chan = FALSE]
      /\ ndOpen' = s.open
  BY DEF NetExit
<1>2. DOMAIN Chans = {"ok", "open", "fd"} /\ Chans.open = ndOpen /\ Chans.fd = nd.fd
  BY DEF Chans
<1>3. PortShape(nd') /\ nd'.fd = s.fd /\ nd'.driver = nd.driver /\ nd'.fup = nd.fup
  <2> HIDE DEF s
  <2> QED BY <1>1 DEF NdInv, PortShape
<1>4. FollowUpOwnStamp'
  BY <1>3 DEF NdInv, FollowUpOwnStamp
<1>5. CASE ~Unixlike
  <2>1. s.open = ndOpen /\ s.fd = nd.fd
    BY <1>2, <1>5 DEF Unixlike
  <2> HIDE DEF s
  <2> QED BY <1>1, <1>3, <1>4, <1>5, <2>1 DEF NdInv, SocketsNamed, Unixlike
<1>6. CASE Unixlike
  <2>1. Tidy(Chans)
    BY <1>2, <1>6 DEF NdInv, SocketsNamed, Tidy
  <2>2. s.open = {} /\ s.fd = Closed
    BY <1>2, <1>6, <2>1, ExitTidies DEF Unixlike
  <2>3. DOMAIN Closed = Channels /\ Closed[GEN] = -1
    BY DEF Closed, Channels, GEN, EVT
  <2> HIDE DEF s
  <2>4. SocketsNamed'
    BY <1>1, <1>3, <1>6, <2>2, <2>3 DEF SocketsNamed, Unixlike
  <2> QED BY <1>3, <1>4, <2>4 DEF NdInv
<1> QED BY <1>5, <1>6

(* A step that leaves the channels and the sockets alone.                  *)
LEMMA SocketsKept ==
  ASSUME SocketsNamed, nd'.fd = nd.fd, nd'.driver = nd.driver, ndOpen' = ndOpen
  PROVE  SocketsNamed'
  BY DEF SocketsNamed, Unixlike

(* A pass begins.                                                          *)
LEMMA PassKeeps ==
  ASSUME NdInv, NEW vid, NEW req, NEW sync, NEW ann, MasterPass(vid, req, sync, ann) PROVE NdInv'
<1> DEFINE p == IF req THEN RecvMsg(nd, vid) ELSE [nd EXCEPT !.asked = 0]
<1>1. PICK jobs : nd' = [p EXCEPT !.answered = 0, !.jobs = jobs]
  BY DEF MasterPass
<1>2. ndOpen' = ndOpen
  BY DEF MasterPass
<1>3. PortShape(p) /\ p.fd = nd.fd /\ p.driver = nd.driver /\ p.fup = nd.fup
  BY DEF RecvMsg, NdInv, PortShape
<1> HIDE DEF p
<1>4. PortShape(nd') /\ nd'.fd = nd.fd /\ nd'.driver = nd.driver /\ nd'.fup = nd.fup
  BY <1>1, <1>3 DEF PortShape
<1> QED BY <1>2, <1>4, SocketsKept DEF NdInv, FollowUpOwnStamp

(* A message of a pass goes out.                                           *)
LEMMA IssueKeeps ==
  ASSUME NdInv, Issue PROVE NdInv'
<1> DEFINE m == [nd EXCEPT !.jobs = Tail(nd.jobs)]
           s0 == [p |-> m, queue |-> ndQueue, late |-> ndLate, ok |-> TRUE]
<1>1. PICK s \in Issued(Head(nd.jobs), s0) : nd' = s.p
  BY DEF Issue
<1>2. ndOpen' = ndOpen
  BY DEF Issue
<1>3. PortShape(m) /\ m.fd = nd.fd /\ m.driver = nd.driver /\ m.fup = nd.fup
  BY DEF NdInv, PortShape
<1> HIDE DEF m
<1>4. SendShape(s0) /\ s0.p = m
  BY <1>3 DEF SendShape
<1>5. s0.p.fup[1] = s0.p.fup[2]
  BY <1>3, <1>4 DEF NdInv, FollowUpOwnStamp
<1> HIDE DEF s0
<1>6. SendShape(s) /\ SameSockets(s0.p, s.p) /\ s.p.fup[1] = s.p.fup[2]
  BY <1>1, <1>4, <1>5, MessageIssued
<1>7. PortShape(nd') /\ nd'.fd = nd.fd /\ nd'.driver = nd.driver /\ FollowUpOwnStamp'
  BY <1>1, <1>3, <1>4, <1>6 DEF SendShape, SameSockets, FollowUpOwnStamp
<1> QED BY <1>2, <1>7, SocketsKept DEF NdInv

(* However sockets fail and time stamps come late, a Follow_Up has the     *)
(* stamp of its own Sync and the unix and switch drivers leave no socket   *)
(* open that a channel does not name.                                      *)
THEOREM DriversAreSound == NdSpec => []DriverSound
<1>1. NdInit => NdInv
  <2> SUFFICES ASSUME NdInit PROVE NdInv
    OBVIOUS
  <2>1. PICK d \in Drivers : nd = [driver |-> d[1], proto |-> d[2], fd |-> Closed, chan |-> FALSE,
              up |-> FALSE, vid |-> 0, stamp |-> NoStamp, sent |-> 0, asked |-> 0, answered |-> 0,
              fup |-> <<NoStamp, NoStamp>>, jobs |-> << >>]
    BY DEF NdInit
  <2>2. PortShape(nd) /\ nd.fd = Closed /\ nd.fup = <<NoStamp, NoStamp>>
    BY <2>1 DEF PortShape
  <2>3. ndOpen = {}
    BY DEF NdInit
  <2>4. DOMAIN Closed = Channels /\ Closed[GEN] = -1
    BY DEF Closed, Channels, GEN, EVT
  <2> QED BY <2>2, <2>3, <2>4 DEF NdInv, SocketsNamed, FollowUpOwnStamp
<1>2. NdInv /\ [NdNext]_ndVars => NdInv'
  <2> SUFFICES ASSUME NdInv, [NdNext]_ndVars PROVE NdInv'
    OBVIOUS
  <2>1. CASE NetInit
    BY <2>1, OpenKeeps
  <2>2. CASE NetExit
    BY <2>2, CloseKeeps
  <2>3. ASSUME NEW vid, NEW req, NEW sync, NEW ann, MasterPass(vid, req, sync, ann)
        PROVE  NdInv'
    BY <2>3, PassKeeps
  <2>4. CASE Issue
    BY <2>4, IssueKeeps
  <2>5. CASE nd' = nd /\ ndOpen' = ndOpen
    BY <2>5, SocketsKept DEF NdInv, FollowUpOwnStamp
  <2>6. StampArrives \/ UNCHANGED ndVars => nd' = nd /\ ndOpen' = ndOpen
    BY DEF StampArrives, ndVars
  <2> QED BY <2>1, <2>2, <2>3, <2>4, <2>5, <2>6 DEF NdNext
<1>3. NdInv => DriverSound
  <2> SUFFICES ASSUME NdInv PROVE NoSocketLeak
    BY DEF NdInv, DriverSound
  <2>1. {nd.fd[c] : c \in Channels} = {nd.fd[GEN], nd.fd[EVT]}
    BY DEF Channels
  <2>2. CASE nd.driver = "wrpc"
    <3>1. <<1, 1>>[GEN] = 1
      BY DEF GEN
    <3> QED BY <2>1, <2>2, <3>1 DEF NdInv, SocketsNamed, NoSocketLeak
  <2>3. CASE nd.driver # "wrpc"
    BY <2>1, <2>3 DEF NdInv, SocketsNamed, NoSocketLeak, Unixlike
  <2> QED BY <2>2, <2>3
<1> QED BY <1>1, <1>2, <1>3, PTL DEF NdSpec

-----------------------------------------------------------------------------
(* The simulator.                                                          *)

(* An entry of the table, a frame in a socket, the simulator.              *)
SimChannels == {PP_NP_GEN, PP_NP_EVT}
Kinds == {"sync", "fup", "ann", "req", "resp"}
Pendings == [delay : Int, to : SimPorts, ch : SimChannels]
SimFrames == [kind : Kinds, n : Nat]
Simulators ==
  [pending : Seq(Pendings), sock : [SimPorts -> [SimChannels -> Seq(SimFrames)]],
   present : [SimPorts -> [SimChannels -> Int]], prop : Nat, update : Nat,
   jit : [SimPorts -> Nat], timer : [SimTimers -> Int], syncs : Nat,
   got : [sync : Nat, fup : Nat], iter : Nat, exited : BOOLEAN]

(* The indices of the table's entries for a socket.                        *)
Entries(q, p, c) == {i \in 1..Len(q) : q[i].to = p /\ q[i].ch = c}

(* The table is in the order of the delays, and none of them is over.      *)
InOrder(q) ==
  /\ \A i, j \in 1..Len(q) : i <= j => q[i].delay <= q[j].delay
  /\ \A i \in 1..Len(q) : q[i].delay >= 0

(* For each socket the table has as many entries as there are frames.      *)
Matched(s) ==
  \A p \in SimPorts, c \in SimChannels :
    Cardinality(Entries(s.pending, p, c)) = Len(s.sock[p][c]) /\ s.present[p][c] = Len(s.sock[p][c])

(* The inductive invariant.                                                *)
SimInv(s) == s \in Simulators /\ ~s.exited /\ InOrder(s.pending) /\ Matched(s)

(* The entries of a socket are finitely many.                              *)
LEMMA EntriesFinite ==
  ASSUME NEW q \in Seq(Pendings), NEW p, NEW c
  PROVE  IsFiniteSet(Entries(q, p, c)) /\ Cardinality(Entries(q, p, c)) \in Nat
<1>1. IsFiniteSet(1..Len(q))
  BY FS_Interval
<1>2. Entries(q, p, c) \in SUBSET (1..Len(q))
  BY DEF Entries
<1> QED BY <1>1, <1>2, FS_Subset, FS_CardinalityType

(* Where insert_pending() puts an entry: everything before goes before it, *)
(* everything after is behind it.                                          *)
Place(q, new) == 1 + Max({k \in 1..Len(q) : ~compare_pending(new, q[k])} \cup {0})

(* The largest of finitely many numbers.                                   *)
LEMMA LargestUpTo ==
  ASSUME NEW n \in Nat, NEW S \in SUBSET (0..n), S # {}
  PROVE  Max(S) \in S /\ \A x \in S : x <= Max(S)
<1> DEFINE T == {n - x : x \in S}
<1>1. T \subseteq Nat /\ T # {}
  <2>1. \A x \in S : x \in Nat /\ x <= n
    OBVIOUS
  <2>2. \A x \in S : n - x \in Nat
    BY <2>1
  <2> QED BY <2>2
<1>2. Min(T) \in T /\ \A x \in T : Min(T) <= x
  BY <1>1, LeastNat
<1>3. PICK m \in S : Min(T) = n - m
  BY <1>2
<1>4. \A x \in S : x <= m
  <2> TAKE x \in S
  <2>1. n - m <= n - x
    BY <1>2, <1>3
  <2>2. x \in Int /\ m \in Int
    OBVIOUS
  <2> QED BY <2>1, <2>2
<1> QED BY <1>4 DEF Max

(* The place keeps the order of the delays.                                *)
LEMMA Placed ==
  ASSUME NEW q \in Seq(Pendings), InOrder(q), NEW new \in Pendings
  PROVE  /\ Place(q, new) \in 1..(Len(q) + 1)
         /\ \A i \in 1..Len(q) : i < Place(q, new) => q[i].delay <= new.delay
         /\ \A i \in 1..Len(q) : i >= Place(q, new) => new.delay <= q[i].delay
<1> DEFINE S == {k \in 1..Len(q) : ~compare_pending(new, q[k])} \cup {0}
           m == Max(S)
<1>1. Len(q) \in Nat /\ S \in SUBSET (0..Len(q)) /\ S # {}
  OBVIOUS
<1>2. m \in S /\ \A x \in S : x <= m
  BY <1>1, LargestUpTo
<1>3. Place(q, new) = 1 + m
  BY DEF Place
<1>4. \A i \in 1..Len(q) : q[i] \in Pendings
  OBVIOUS
<1> HIDE DEF m
<1>5. m \in 0..Len(q)
  BY <1>1, <1>2
<1>6. ASSUME NEW i \in 1..Len(q), i < 1 + m PROVE q[i].delay <= new.delay
  <2>1. m \in 1..Len(q) /\ i <= m
    BY <1>5, <1>6
  <2>2. ~compare_pending(new, q[m])
    BY <1>2, <2>1
  <2>3. q[i].delay <= q[m].delay
    BY <2>1 DEF InOrder
  <2>4. q[i].delay \in Int /\ q[m].delay \in Int /\ new.delay \in Int
    BY <1>4, <2>1 DEF Pendings
  <2>5. ~(new.delay < q[m].delay)
    BY <2>2 DEF compare_pending
  <2> QED BY <2>3, <2>4, <2>5
<1>7. ASSUME NEW i \in 1..Len(q), i >= 1 + m PROVE new.delay <= q[i].delay
  <2>1. i \notin S
    BY <1>2, <1>5, <1>7
  <2>2. compare_pending(new, q[i])
    BY <2>1
  <2>3. q[i].delay \in Int /\ new.delay \in Int
    BY <1>4 DEF Pendings
  <2> QED BY <2>2, <2>3 DEF compare_pending
<1> HIDE DEF S
<1> QED BY <1>1, <1>3, <1>5, <1>6, <1>7

(* The table with the new entry.                                           *)
LEMMA InsertedAt ==
  ASSUME NEW q \in Seq(Pendings), NEW new \in Pendings, NEW k \in 1..(Len(q) + 1)
  PROVE  LET r == InsertAt(q, k, new)
         IN  /\ r \in Seq(Pendings) /\ Len(r) = Len(q) + 1
             /\ r[k] = new
             /\ \A i \in 1..Len(q) : i < k => r[i] = q[i]
             /\ \A i \in 1..Len(q) : i >= k => r[i + 1] = q[i]
<1> DEFINE a == SubSeq(q, 1, k - 1)
           b == SubSeq(q, k, Len(q))
           r == a \o <<new>> \o b
<1>1. a \in Seq(Pendings) /\ Len(a) = k - 1 /\ \A i \in 1..(k - 1) : a[i] = q[i]
  OBVIOUS
<1>2. b \in Seq(Pendings) /\ Len(b) = Len(q) - k + 1 /\ \A i \in 1..(Len(q) - k + 1) : b[i] = q[k + i - 1]
  OBVIOUS
<1> HIDE DEF a, b
<1>3. r \in Seq(Pendings) /\ Len(r) = Len(q) + 1
  BY <1>1, <1>2
<1>4. r[k] = new
  BY <1>1, <1>2
<1>5. \A i \in 1..Len(q) : i < k => r[i] = q[i]
  BY <1>1, <1>2
<1>6. ASSUME NEW i \in 1..Len(q), i >= k PROVE r[i + 1] = q[i]
  <2>1. r[i + 1] = b[i + 1 - k]
    BY <1>1, <1>2, <1>6
  <2>2. i + 1 - k \in 1..(Len(q) - k + 1)
    BY <1>6
  <2>3. b[i + 1 - k] = q[k + (i + 1 - k) - 1]
    BY <1>2, <2>2
  <2>4. k + (i + 1 - k) - 1 = i
    OBVIOUS
  <2> QED BY <2>1, <2>3, <2>4
<1>7. r = InsertAt(q, k, new)
  BY DEF InsertAt, a, b
<1> HIDE DEF r
<1> QED BY <1>3, <1>4, <1>5, <1>6, <1>7

(* It has one entry more for the socket of the new one.                    *)
LEMMA InsertedCount ==
  ASSUME NEW q \in Seq(Pendings), NEW new \in Pendings, NEW k \in 1..(Len(q) + 1), NEW p, NEW c
  PROVE  Cardinality(Entries(InsertAt(q, k, new), p, c)) =
           Cardinality(Entries(q, p, c)) + (IF new.to = p /\ new.ch = c THEN 1 ELSE 0)
<1> DEFINE r == InsertAt(q, k, new)
           A == Entries(q, p, c)
           B == Entries(r, p, c) \ {k}
           f == [i \in A |-> IF i < k THEN i ELSE i + 1]
<1>1. /\ r \in Seq(Pendings) /\ Len(r) = Len(q) + 1 /\ r[k] = new
      /\ \A i \in 1..Len(q) : i < k => r[i] = q[i]
      /\ \A i \in 1..Len(q) : i >= k => r[i + 1] = q[i]
  BY InsertedAt
<1> HIDE DEF r
<1>2. \A i \in A : i \in 1..Len(q) /\ q[i].to = p /\ q[i].ch = c
  BY DEF Entries
<1>3. \A i \in A : f[i] \in B
  <2> TAKE i \in A
  <2>1. CASE i < k
    BY <1>1, <1>2, <2>1 DEF Entries
  <2>2. CASE ~(i < k)
    BY <1>1, <1>2, <2>2 DEF Entries
  <2> QED BY <2>1, <2>2
<1>4. \A i, j \in A : f[i] = f[j] => i = j
  BY <1>2
<1>5. \A b \in B : \E i \in A : f[i] = b
  <2> TAKE b \in B
  <2>1. b \in 1..(Len(q) + 1) /\ b # k /\ r[b].to = p /\ r[b].ch = c
    BY <1>1 DEF Entries
  <2>2. CASE b < k
    <3>1. b \in A
      BY <1>1, <2>1, <2>2 DEF Entries
    <3> QED BY <2>2, <3>1
  <2>3. CASE b > k
    <3>1. b - 1 \in 1..Len(q) /\ b - 1 >= k /\ (b - 1) + 1 = b
      BY <2>1, <2>3
    <3>2. r[(b - 1) + 1] = q[b - 1]
      BY <1>1, <3>1
    <3>3. b - 1 \in A
      BY <2>1, <3>1, <3>2 DEF Entries
    <3>4. f[b - 1] = b
      BY <3>1, <3>3
    <3> QED BY <3>3, <3>4
  <2> QED BY <2>1, <2>2, <2>3
<1>6. f \in Bijection(A, B)
  <2>1. f \in [A -> B]
    BY <1>3
  <2> HIDE DEF f, A, B
  <2> QED BY <1>4, <1>5, <2>1 DEF Bijection, Injection, Surjection, IsInjective
<1>7. ExistsBijection(A, B)
  BY <1>6 DEF ExistsBijection
<1>8. IsFiniteSet(A) /\ Cardinality(A) \in Nat
  BY EntriesFinite
<1>9. IsFiniteSet(B) /\ Cardinality(B) = Cardinality(A)
  BY <1>7, <1>8, FS_Bijection
<1>10. CASE new.to = p /\ new.ch = c
  <2>1. Entries(r, p, c) = B \cup {k} /\ k \notin B
    BY <1>1, <1>10 DEF Entries
  <2> HIDE DEF A, B
  <2>2. Cardinality(Entries(r, p, c)) = Cardinality(A) + 1
    BY <1>9, <2>1, FS_AddElement
  <2> QED BY <1>10, <2>2 DEF r, A
<1>11. CASE ~(new.to = p /\ new.ch = c)
  <2>1. Entries(r, p, c) = B
    BY <1>1, <1>11 DEF Entries
  <2> HIDE DEF A, B
  <2>2. Cardinality(Entries(r, p, c)) = Cardinality(A) + 0
    BY <1>8, <1>9, <2>1
  <2> QED BY <1>11, <2>2 DEF r, A
<1> QED BY <1>10, <1>11

(* The first entry is taken from the table: one entry less for its socket. *)
LEMMA TakenCount ==
  ASSUME NEW q \in Seq(Pendings), q # << >>, NEW p, NEW c
  PROVE  Cardinality(Entries(Tail(q), p, c)) =
           Cardinality(Entries(q, p, c)) - (IF q[1].to = p /\ q[1].ch = c THEN 1 ELSE 0)
<1> DEFINE r == Tail(q)
           A == Entries(r, p, c)
           B == Entries(q, p, c) \ {1}
           f == [i \in A |-> i + 1]
<1>1. r \in Seq(Pendings) /\ Len(r) = Len(q) - 1 /\ \A i \in 1..Len(r) : r[i] = q[i + 1]
  OBVIOUS
<1> HIDE DEF r
<1>2. Len(q) \in Nat /\ Len(q) > 0
  OBVIOUS
<1>3. \A i \in A : i \in 1..Len(r) /\ q[i + 1].to = p /\ q[i + 1].ch = c
  BY <1>1 DEF Entries
<1>4. \A i \in A : f[i] \in B
  BY <1>1, <1>2, <1>3 DEF Entries
<1>5. \A i, j \in A : f[i] = f[j] => i = j
  BY <1>3
<1>6. \A b \in B : \E i \in A : f[i] = b
  <2> TAKE b \in B
  <2>1. b \in 1..Len(q) /\ b # 1 /\ q[b].to = p /\ q[b].ch = c
    BY DEF Entries
  <2>2. b - 1 \in 1..Len(r) /\ (b - 1) + 1 = b
    BY <1>1, <1>2, <2>1
  <2>3. r[b - 1] = q[(b - 1) + 1]
    BY <1>1, <2>2
  <2>4. b - 1 \in A
    BY <2>1, <2>2, <2>3 DEF Entries
  <2>5. f[b - 1] = b
    BY <2>2, <2>4
  <2> QED BY <2>4, <2>5
<1>7. f \in Bijection(A, B)
  <2>1. f \in [A -> B]
    BY <1>4
  <2> HIDE DEF f, A, B
  <2> QED BY <1>5, <1>6, <2>1 DEF Bijection, Injection, Surjection, IsInjective
<1>8. ExistsBijection(A, B)
  BY <1>7 DEF ExistsBijection
<1>9. IsFiniteSet(A)
  BY <1>1, EntriesFinite
<1>10. Cardinality(B) = Cardinality(A)
  BY <1>8, <1>9, FS_Bijection
<1>11. IsFiniteSet(Entries(q, p, c)) /\ Cardinality(Entries(q, p, c)) \in Nat
  BY EntriesFinite
<1>12. 1 \in Entries(q, p, c) <=> q[1].to = p /\ q[1].ch = c
  BY <1>2 DEF Entries
<1>13. Cardinality(B) =
         IF 1 \in Entries(q, p, c) THEN Cardinality(Entries(q, p, c)) - 1
                                   ELSE Cardinality(Entries(q, p, c))
  BY <1>11, FS_RemoveElement
<1> HIDE DEF A, B
<1>14. Cardinality(A) = Cardinality(Entries(q, p, c)) - (IF q[1].to = p /\ q[1].ch = c THEN 1 ELSE 0)
  BY <1>10, <1>11, <1>12, <1>13
<1> QED BY <1>14 DEF r, A

(* The new entry finds its place in the table.                             *)
LEMMA InsertPending ==
  ASSUME NEW q \in Seq(Pendings), InOrder(q), NEW new \in Pendings, new.delay >= 0
  PROVE  /\ insert_pending(q, new) \in Seq(Pendings) /\ InOrder(insert_pending(q, new))
         /\ \A p, c : Cardinality(Entries(insert_pending(q, new), p, c)) =
                        Cardinality(Entries(q, p, c)) + (IF new.to = p /\ new.ch = c THEN 1 ELSE 0)
<1> DEFINE k == Place(q, new)
           r == InsertAt(q, k, new)
<1>1. insert_pending(q, new) = r
  BY DEF insert_pending, Place
<1>2. /\ k \in 1..(Len(q) + 1)
      /\ \A i \in 1..Len(q) : i < k => q[i].delay <= new.delay
      /\ \A i \in 1..Len(q) : i >= k => new.delay <= q[i].delay
  BY Placed
<1> HIDE DEF k
<1>3. /\ r \in Seq(Pendings) /\ Len(r) = Len(q) + 1 /\ r[k] = new
      /\ \A i \in 1..Len(q) : i < k => r[i] = q[i]
      /\ \A i \in 1..Len(q) : i >= k => r[i + 1] = q[i]
  BY <1>2, InsertedAt
<1>4. \A p, c : Cardinality(Entries(r, p, c)) =
                  Cardinality(Entries(q, p, c)) + (IF new.to = p /\ new.ch = c THEN 1 ELSE 0)
  BY <1>2, InsertedCount
<1> HIDE DEF r
<1> DEFINE Old(i) == IF i < k THEN i ELSE i - 1
<1>5. \A i \in 1..Len(r) : i # k => Old(i) \in 1..Len(q) /\ r[i] = q[Old(i)]
  <2> SUFFICES ASSUME NEW i \in 1..Len(r), i # k PROVE Old(i) \in 1..Len(q) /\ r[i] = q[Old(i)]
    OBVIOUS
  <2>1. CASE i < k
    BY <1>2, <1>3, <2>1
  <2>2. CASE i > k
    <3>1. i - 1 \in 1..Len(q) /\ i - 1 >= k /\ (i - 1) + 1 = i /\ Old(i) = i - 1
      BY <1>2, <1>3, <2>2
    <3>2. r[(i - 1) + 1] = q[i - 1]
      BY <1>3, <3>1
    <3> QED BY <3>1, <3>2
  <2> QED BY <1>2, <1>3, <2>1, <2>2
<1>6. \A i \in 1..Len(q) : q[i] \in Pendings /\ q[i].delay \in Int
  <2>1. \A i \in 1..Len(q) : q[i] \in Pendings
    OBVIOUS
  <2> QED BY <2>1 DEF Pendings
<1>7. \A i \in 1..Len(r) : r[i].delay >= 0
  <2> TAKE i \in 1..Len(r)
  <2>1. CASE i = k
    BY <1>3, <2>1
  <2>2. CASE i # k
    <3> HIDE DEF Old
    <3> QED BY <1>5, <2>2 DEF InOrder
  <2> QED BY <2>1, <2>2
<1>8. \A i, j \in 1..Len(r) : i <= j => r[i].delay <= r[j].delay
  <2> SUFFICES ASSUME NEW i \in 1..Len(r), NEW j \in 1..Len(r), i <= j
               PROVE  r[i].delay <= r[j].delay
    OBVIOUS
  <2>1. i \in Int /\ j \in Int /\ k \in Int /\ new.delay \in Int
    BY <1>2, <1>3 DEF Pendings
  <2>2. CASE i = k /\ j = k
    BY <1>3, <2>1, <2>2
  <2>3. CASE i = k /\ j # k
    <3>1. Old(j) \in 1..Len(q) /\ r[j] = q[Old(j)] /\ Old(j) >= k
      BY <1>5, <2>1, <2>3
    <3> HIDE DEF Old
    <3> QED BY <1>2, <1>3, <2>3, <3>1
  <2>4. CASE i # k /\ j = k
    <3>1. Old(i) \in 1..Len(q) /\ r[i] = q[Old(i)] /\ Old(i) < k
      BY <1>5, <2>1, <2>4
    <3> HIDE DEF Old
    <3> QED BY <1>2, <1>3, <2>4, <3>1
  <2>5. CASE i # k /\ j # k
    <3>1. /\ Old(i) \in 1..Len(q) /\ r[i] = q[Old(i)] /\ Old(j) \in 1..Len(q) /\ r[j] = q[Old(j)]
          /\ Old(i) <= Old(j)
      BY <1>5, <2>1, <2>5
    <3> HIDE DEF Old
    <3> QED BY <3>1 DEF InOrder
  <2> QED BY <2>2, <2>3, <2>4, <2>5
<1> QED BY <1>1, <1>3, <1>4, <1>7, <1>8 DEF InOrder

(* A frame is sent, and its entry made.                                    *)
LEMMA SendInv ==
  ASSUME NEW s, SimInv(s), NEW from \in SimPorts, NEW kind \in Kinds,
         NEW t \in sim_net_send(s, from, kind)
  PROVE  SimInv(t)
<1> DEFINE to == 1 - from
           ch == ChannelOf(kind)
           n == IF kind = "sync" THEN s.syncs + 1 ELSE s.syncs
<1>1. PICK j \in Jitters :
        t = LET jit == j + (IF kind = "fup" THEN s.jit[from] ELSE 0)
            IN  [s EXCEPT !.syncs = n,
                          !.jit[from] = jit,
                          !.pending = insert_pending(@, [delay |-> s.prop + jit, to |-> to, ch |-> ch]),
                          !.sock[to][ch] = Append(@, [kind |-> kind, n |-> n]),
                          !.present[to][ch] = @ + 1]
  BY DEF sim_net_send
<1>2. to \in SimPorts /\ ch \in SimChannels
  BY DEF SimPorts, SIM_MASTER, SIM_SLAVE, SimChannels, ChannelOf, PP_NP_GEN, PP_NP_EVT
<1>3. s \in Simulators /\ InOrder(s.pending) /\ Matched(s) /\ ~s.exited
  BY DEF SimInv
<1>4. /\ n \in Nat /\ s.prop \in Nat /\ s.jit \in [SimPorts -> Nat] /\ s.pending \in Seq(Pendings)
      /\ s.sock \in [SimPorts -> [SimChannels -> Seq(SimFrames)]]
      /\ s.present \in [SimPorts -> [SimChannels -> Int]]
  BY <1>3 DEF Simulators
<1> DEFINE jit == j + (IF kind = "fup" THEN s.jit[from] ELSE 0)
<1>5. jit \in Nat
  BY <1>4, SmAssumption
<1> HIDE DEF to, ch, n, jit
<1> DEFINE e == [delay |-> s.prop + jit, to |-> to, ch |-> ch]
           f == [kind |-> kind, n |-> n]
           q == insert_pending(s.pending, e)
           sock == [s.sock EXCEPT ![to] = [s.sock[to] EXCEPT ![ch] = Append(s.sock[to][ch], f)]]
           pres == [s.present EXCEPT ![to] = [s.present[to] EXCEPT ![ch] = s.present[to][ch] + 1]]
           jits == [s.jit EXCEPT ![from] = jit]
<1>6. e \in Pendings /\ e.delay >= 0 /\ e.to = to /\ e.ch = ch
  BY <1>2, <1>4, <1>5 DEF Pendings
<1>7. f \in SimFrames
  BY <1>4 DEF SimFrames
<1> HIDE DEF e, f
<1>8. /\ q \in Seq(Pendings) /\ InOrder(q)
      /\ \A p, c : Cardinality(Entries(q, p, c)) =
                     Cardinality(Entries(s.pending, p, c)) + (IF e.to = p /\ e.ch = c THEN 1 ELSE 0)
  BY <1>3, <1>4, <1>6, InsertPending
<1>9. /\ sock \in [SimPorts -> [SimChannels -> Seq(SimFrames)]]
      /\ \A p \in SimPorts, c \in SimChannels :
           Len(sock[p][c]) = Len(s.sock[p][c]) + (IF to = p /\ ch = c THEN 1 ELSE 0)
  <2> DEFINE w == Append(s.sock[to][ch], f)
  <2>1. s.sock[to][ch] \in Seq(SimFrames)
    BY <1>2, <1>4
  <2>2. w \in Seq(SimFrames) /\ Len(w) = Len(s.sock[to][ch]) + 1
    BY <1>7, <2>1
  <2>3. \A p \in SimPorts, c \in SimChannels : Len(s.sock[p][c]) \in Nat
    <3>1. \A p \in SimPorts, c \in SimChannels : s.sock[p][c] \in Seq(SimFrames)
      BY <1>4
    <3> QED BY <3>1
  <2> HIDE DEF w
  <2>4. sock \in [SimPorts -> [SimChannels -> Seq(SimFrames)]]
    BY <1>2, <1>4, <2>2 DEF w
  <2>5. \A p \in SimPorts, c \in SimChannels :
          sock[p][c] = IF to = p /\ ch = c THEN w ELSE s.sock[p][c]
    BY <1>2, <1>4 DEF w
  <2> HIDE DEF sock
  <2>6. ASSUME NEW p \in SimPorts, NEW c \in SimChannels
        PROVE  Len(sock[p][c]) = Len(s.sock[p][c]) + (IF to = p /\ ch = c THEN 1 ELSE 0)
    <3>1. CASE to = p /\ ch = c
      BY <2>2, <2>5, <3>1
    <3>2. CASE ~(to = p /\ ch = c)
      <4>1. sock[p][c] = s.sock[p][c]
        BY <2>5, <3>2
      <4>2. Len(sock[p][c]) = Len(s.sock[p][c]) + 0
        BY <2>3, <4>1
      <4> QED BY <3>2, <4>2
    <3> QED BY <3>1, <3>2
  <2> QED BY <2>4, <2>6
<1>10. /\ pres \in [SimPorts -> [SimChannels -> Int]]
       /\ \A p \in SimPorts, c \in SimChannels :
            pres[p][c] = s.present[p][c] + (IF to = p /\ ch = c THEN 1 ELSE 0)
  BY <1>2, <1>4, SMTT(30)
<1>11. jits \in [SimPorts -> Nat]
  BY <1>4, <1>5
<1>12. t = [s EXCEPT !.syncs = n, !.jit = jits, !.pending = q, !.sock = sock, !.present = pres]
  BY <1>1, <1>3 DEF Simulators, e, f, jit, n, to, ch
<1> HIDE DEF q, sock, pres, jits
<1>13. t \in Simulators
  BY <1>3, <1>4, <1>8, <1>9, <1>10, <1>11, <1>12 DEF Simulators
<1>14. t.pending = q /\ t.sock = sock /\ t.present = pres /\ t.exited = s.exited
  BY <1>3, <1>12 DEF Simulators
<1>15. Matched(t)
  <2> SUFFICES ASSUME NEW p \in SimPorts, NEW c \in SimChannels
               PROVE  /\ Cardinality(Entries(t.pending, p, c)) = Len(t.sock[p][c])
                      /\ t.present[p][c] = Len(t.sock[p][c])
    BY DEF Matched
  <2>1. Cardinality(Entries(s.pending, p, c)) = Len(s.sock[p][c]) /\ s.present[p][c] = Len(s.sock[p][c])
    BY <1>3 DEF Matched
  <2>2. Cardinality(Entries(q, p, c)) =
          Cardinality(Entries(s.pending, p, c)) + (IF to = p /\ ch = c THEN 1 ELSE 0)
    BY <1>6, <1>8
  <2>3. Len(sock[p][c]) = Len(s.sock[p][c]) + (IF to = p /\ ch = c THEN 1 ELSE 0)
    BY <1>9
  <2>4. pres[p][c] = s.present[p][c] + (IF to = p /\ ch = c THEN 1 ELSE 0)
    BY <1>10
  <2> QED BY <1>14, <2>1, <2>2, <2>3, <2>4, Zenon
<1> QED BY <1>3, <1>8, <1>13, <1>14, <1>15 DEF SimInv

(* Time goes by, but not past the first of the pending packets.            *)
LEMMA ForwardInv ==
  ASSUME NEW s, SimInv(s), NEW ff \in Int, s.pending # << >> => ff <= s.pending[1].delay
  PROVE  SimInv(sim_fast_forward(s, ff)) /\ Len(sim_fast_forward(s, ff).pending) = Len(s.pending)
<1> DEFINE left == [i \in DOMAIN s.pending |->
                      [s.pending[i] EXCEPT !.delay = (IF @ + s.update < 0 THEN 0 ELSE @ + s.update) - ff]]
           tim == [x \in SimTimers |-> s.timer[x] - ff]
           t == sim_fast_forward(s, ff)
           q == s.pending
<1>1. s \in Simulators /\ InOrder(s.pending) /\ Matched(s)
  BY DEF SimInv
<1>2. q \in Seq(Pendings) /\ s.update \in Nat /\ s.prop \in Nat /\ s.timer \in [SimTimers -> Int]
  BY <1>1 DEF Simulators
<1>3. \A i \in 1..Len(q) : /\ q[i] \in Pendings /\ q[i].delay \in Nat
                             /\ ff <= q[i].delay
  <2> TAKE i \in 1..Len(q)
  <2>0. q[i] \in Pendings /\ q[1] \in Pendings /\ 1 \in 1..Len(q) /\ 1 <= i /\ q # << >>
    BY <1>2
  <2>1. q[i].delay \in Int /\ q[1].delay \in Int
    BY <2>0 DEF Pendings
  <2>2. q[i].delay >= 0 /\ q[1].delay <= q[i].delay
    BY <1>1, <2>0 DEF InOrder
  <2> QED BY <2>0, <2>1, <2>2
<1>4. /\ left \in Seq(Pendings) /\ Len(left) = Len(q)
      /\ \A i \in 1..Len(q) : /\ left[i].to = q[i].to /\ left[i].ch = q[i].ch
                                 /\ left[i].delay = q[i].delay + s.update - ff
  <2>1. DOMAIN q = 1..Len(q) /\ Len(q) \in Nat
    BY <1>2
  <2>2. \A i \in 1..Len(q) :
          /\ left[i] = [q[i] EXCEPT !.delay = q[i].delay + s.update - ff]
          /\ left[i] \in Pendings
    <3> TAKE i \in 1..Len(q)
    <3>1. PICK d \in Nat, u \in Nat : d = q[i].delay /\ u = s.update
      BY <1>2, <1>3
    <3>2. (IF d + u < 0 THEN 0 ELSE d + u) - ff = d + u - ff /\ d + u - ff \in Int
      BY <3>1, SMTT(30)
    <3>3. left[i] = [q[i] EXCEPT !.delay = (IF q[i].delay + s.update < 0 THEN 0 ELSE q[i].delay + s.update) - ff]
      BY <2>1, Zenon
    <3>4. left[i] = [q[i] EXCEPT !.delay = d + u - ff]
      BY <3>1, <3>2, <3>3
    <3>5. q[i] \in Pendings
      BY <1>3
    <3> HIDE DEF left
    <3>6. left[i] \in Pendings
      BY <3>2, <3>4, <3>5 DEF Pendings
    <3> QED BY <3>1, <3>4, <3>6
  <2>3. DOMAIN left = 1..Len(q)
    BY <2>1
  <2>4. \A i \in 1..Len(q) : left[i].to = q[i].to /\ left[i].ch = q[i].ch
                               /\ left[i].delay = q[i].delay + s.update - ff
    <3> TAKE i \in 1..Len(q)
    <3> HIDE DEF left
    <3>1. q[i] \in Pendings
      BY <1>3
    <3> QED BY <2>2, <3>1 DEF Pendings
  <2>5. left \in [1..Len(q) -> Pendings]
    BY <2>1, <2>2
  <2> HIDE DEF left
  <2> QED BY <2>1, <2>4, <2>5
<1>5. tim \in [SimTimers -> Int]
  BY <1>2
<1>6. t = [s EXCEPT !.pending = left, !.prop = s.prop + s.update, !.timer = tim,
                    !.exited = \E i \in DOMAIN left : left[i].delay < 0]
  BY <1>1 DEF sim_fast_forward, Simulators
<1> HIDE DEF left, tim, t
<1>7. ~\E i \in DOMAIN left : left[i].delay < 0
  <2>1. DOMAIN left = 1..Len(q)
    BY <1>4
  <2>2. \A i \in 1..Len(q) : left[i].delay >= 0
    BY <1>2, <1>3, <1>4, SMTT(30)
  <2> SUFFICES ASSUME NEW i \in 1..Len(q), left[i].delay < 0 PROVE FALSE
    BY <2>1
  <2>3. PICK d \in Int : d = left[i].delay
    BY <1>2, <1>3, <1>4, SMTT(30)
  <2> QED BY <2>2, <2>3
<1>8. t = [s EXCEPT !.pending = left, !.prop = s.prop + s.update, !.timer = tim, !.exited = FALSE]
  BY <1>6, <1>7
<1>9. s.prop + s.update \in Nat
  BY <1>2
<1>10. t \in Simulators /\ ~t.exited
  BY <1>1, <1>4, <1>5, <1>8, <1>9 DEF Simulators
<1>11. t.pending = left /\ t.sock = s.sock /\ t.present = s.present
  BY <1>1, <1>8 DEF Simulators
<1>12. InOrder(left)
  <2>1. \A i \in 1..Len(q) : left[i].delay >= 0
    BY <1>2, <1>3, <1>4
  <2>2. \A i, j \in 1..Len(q) : i <= j => left[i].delay <= left[j].delay
    <3> SUFFICES ASSUME NEW i \in 1..Len(q), NEW j \in 1..Len(q), i <= j
                 PROVE  left[i].delay <= left[j].delay
      OBVIOUS
    <3>1. q[i].delay <= q[j].delay
      BY <1>1 DEF InOrder
    <3> QED BY <1>2, <1>3, <1>4, <3>1
  <2> QED BY <1>4, <2>1, <2>2 DEF InOrder
<1>13. \A p, c : Entries(left, p, c) = Entries(q, p, c)
  BY <1>4 DEF Entries
<1>14. Matched(t)
  BY <1>1, <1>11, <1>13 DEF Matched
<1> QED BY <1>4, <1>10, <1>11, <1>12, <1>14 DEF SimInv, t

(* What leaves the table and the sockets alone keeps the invariant.        *)
LEMMA BesideTable ==
  ASSUME NEW s, SimInv(s), NEW t \in Simulators, t.pending = s.pending, t.sock = s.sock,
         t.present = s.present, t.exited = s.exited
  PROVE  SimInv(t)
BY DEF SimInv, Matched

(* The announced frame is there, and leaves its socket with its entry.     *)
LEMMA RecvInv ==
  ASSUME NEW s, SimInv(s), s.pending # << >>
  PROVE  SimInv(sim_net_recv(s)) /\ Received(s) \in SimFrames
<1> DEFINE q == s.pending
           to == Head(q).to
           ch == Head(q).ch
           w == s.sock[to][ch]
           t == sim_net_recv(s)
<1>1. s \in Simulators /\ InOrder(q) /\ Matched(s) /\ ~s.exited
  BY DEF SimInv
<1>2. /\ q \in Seq(Pendings) /\ s.iter \in Nat
      /\ s.sock \in [SimPorts -> [SimChannels -> Seq(SimFrames)]]
      /\ s.present \in [SimPorts -> [SimChannels -> Int]]
  BY <1>1 DEF Simulators
<1>3. q # << >> /\ Head(q) = q[1] /\ q[1] \in Pendings /\ 1 \in 1..Len(q)
  BY <1>2
<1>4. to \in SimPorts /\ ch \in SimChannels /\ q[1].to = to /\ q[1].ch = ch
  BY <1>3 DEF Pendings
<1> HIDE DEF q, to, ch
<1>5. w # << >>
  <2>1. 1 \in Entries(q, to, ch)
    BY <1>3, <1>4 DEF Entries
  <2>2. IsFiniteSet(Entries(q, to, ch))
    BY <1>2, EntriesFinite
  <2>3. Cardinality(Entries(q, to, ch)) # 0
    BY <2>1, <2>2, FS_EmptySet
  <2>4. Cardinality(Entries(q, to, ch)) = Len(w)
    BY <1>1, <1>4 DEF Matched, q
  <2>5. Len(<< >>) = 0
    OBVIOUS
  <2> QED BY <2>3, <2>4, <2>5
<1>6. w \in Seq(SimFrames)
  BY <1>2, <1>4
<1>7. Head(w) \in SimFrames /\ Tail(w) \in Seq(SimFrames) /\ Len(Tail(w)) = Len(w) - 1 /\ Len(w) \in Nat
  <2> HIDE DEF w
  <2> QED BY <1>5, <1>6
<1>8. Received(s) = Head(w)
  BY DEF Received, q, to, ch
<1> DEFINE sock == [s.sock EXCEPT ![to] = [s.sock[to] EXCEPT ![ch] = Tail(w)]]
           pres == [s.present EXCEPT ![to] = [s.present[to] EXCEPT ![ch] = s.present[to][ch] - 1]]
           it == IF Received(s).kind = "resp" THEN s.iter + 1 ELSE s.iter
<1>9. t = [s EXCEPT !.sock = sock, !.present = pres, !.iter = it, !.pending = Tail(q)]
  BY <1>1, <1>3 DEF sim_net_recv, pending_received, Simulators, q, to, ch
<1>10. it \in Nat
  BY <1>2
<1>11. /\ pres \in [SimPorts -> [SimChannels -> Int]]
       /\ \A p \in SimPorts, c \in SimChannels :
            pres[p][c] = s.present[p][c] - (IF to = p /\ ch = c THEN 1 ELSE 0)
  BY <1>2, <1>4
<1> DEFINE x == Tail(w)
<1> HIDE DEF x
<1>12. sock = [s.sock EXCEPT ![to] = [s.sock[to] EXCEPT ![ch] = x]]
  BY DEF x
<1>13. x \in Seq(SimFrames) /\ Len(x) = Len(w) - 1
  BY <1>7 DEF x
<1> HIDE DEF sock, pres, it
<1>14. /\ sock \in [SimPorts -> [SimChannels -> Seq(SimFrames)]]
       /\ \A p \in SimPorts, c \in SimChannels :
            sock[p][c] = IF to = p /\ ch = c THEN x ELSE s.sock[p][c]
  BY <1>2, <1>4, <1>12, <1>13
<1>15. \A p \in SimPorts, c \in SimChannels :
         Len(sock[p][c]) = Len(s.sock[p][c]) - (IF to = p /\ ch = c THEN 1 ELSE 0)
  <2> TAKE p \in SimPorts, c \in SimChannels
  <2>1. CASE to = p /\ ch = c
    BY <1>13, <1>14, <2>1
  <2>2. CASE ~(to = p /\ ch = c)
    <3>1. sock[p][c] = s.sock[p][c]
      BY <1>14, <2>2
    <3>2. s.sock[p][c] \in Seq(SimFrames)
      BY <1>2
    <3>3. Len(s.sock[p][c]) \in Nat
      BY <3>2
    <3>4. Len(sock[p][c]) = Len(s.sock[p][c]) - 0
      BY <3>1, <3>3
    <3> QED BY <2>2, <3>4
  <2> QED BY <2>1, <2>2
<1>16. Tail(q) \in Seq(Pendings) /\ Len(Tail(q)) = Len(q) - 1 /\ \A i \in 1..Len(Tail(q)) : Tail(q)[i] = q[i + 1]
  BY <1>2, <1>3
<1>17. InOrder(Tail(q))
  <2> DEFINE r == Tail(q)
  <2>1. \A i \in 1..Len(r) : i + 1 \in 1..Len(q) /\ r[i] = q[i + 1]
    BY <1>2, <1>16
  <2>2. \A i, j \in 1..Len(r) : i <= j => i + 1 <= j + 1
    OBVIOUS
  <2> HIDE DEF r
  <2>3. InOrder(r)
    BY <1>1, <2>1, <2>2 DEF InOrder
  <2> QED BY <2>3 DEF r
<1>18. t \in Simulators
  BY <1>1, <1>9, <1>10, <1>11, <1>14, <1>16, ZenonT(60) DEF Simulators
<1>19. t.pending = Tail(q) /\ t.sock = sock /\ t.present = pres /\ t.exited = s.exited
  BY <1>1, <1>9 DEF Simulators
<1> HIDE DEF t
<1>20. Matched(t)
  <2> SUFFICES ASSUME NEW p \in SimPorts, NEW c \in SimChannels
               PROVE  /\ Cardinality(Entries(t.pending, p, c)) = Len(t.sock[p][c])
                      /\ t.present[p][c] = Len(t.sock[p][c])
    BY DEF Matched
  <2>1. Cardinality(Entries(q, p, c)) = Len(s.sock[p][c]) /\ s.present[p][c] = Len(s.sock[p][c])
    BY <1>1 DEF Matched, q
  <2>2. Cardinality(Entries(Tail(q), p, c)) =
          Cardinality(Entries(q, p, c)) - (IF to = p /\ ch = c THEN 1 ELSE 0)
    BY <1>2, <1>3, <1>4, TakenCount
  <2>3. Len(sock[p][c]) = Len(s.sock[p][c]) - (IF to = p /\ ch = c THEN 1 ELSE 0)
    BY <1>15
  <2>4. pres[p][c] = s.present[p][c] - (IF to = p /\ ch = c THEN 1 ELSE 0)
    BY <1>11
  <2> QED BY <1>19, <2>1, <2>2, <2>3, <2>4, Zenon
<1> QED BY <1>1, <1>7, <1>8, <1>17, <1>18, <1>19, <1>20 DEF SimInv, t

(* The sends of a message.                                                 *)
LEMMA SendsInv ==
  ASSUME NEW S, \A s \in S : SimInv(s), NEW from \in SimPorts, NEW kind \in Kinds
  PROVE  \A t \in Send(S, from, kind) : SimInv(t)
<1> TAKE t \in Send(S, from, kind)
<1>1. PICK s \in S : t \in sim_net_send(s, from, kind)
  BY DEF Send
<1> QED BY <1>1, SendInv

(* A timer is started again.                                               *)
LEMMA TimerInv ==
  ASSUME NEW s, SimInv(s), NEW x \in SimTimers, NEW v \in Nat
  PROVE  SimInv([s EXCEPT !.timer[x] = v])
<1> DEFINE y == [s.timer EXCEPT ![x] = v]
           t == [s EXCEPT !.timer[x] = v]
<1>1. s \in Simulators
  BY DEF SimInv
<1>2. s.timer \in [SimTimers -> Int]
  BY <1>1 DEF Simulators
<1>3. y \in [SimTimers -> Int]
  BY <1>2
<1>4. t = [s EXCEPT !.timer = y]
  BY <1>1 DEF Simulators
<1> HIDE DEF y
<1>5. /\ t \in Simulators /\ t.pending = s.pending /\ t.sock = s.sock
      /\ t.present = s.present /\ t.exited = s.exited
  BY <1>1, <1>3, <1>4 DEF Simulators
<1> HIDE DEF t
<1>6. SimInv(t)
  BY <1>5, BesideTable
<1> QED BY <1>6 DEF t

(* Waiting for a timer and restarting it keep the invariant.               *)
LEMMA TimersInv ==
  ASSUME NEW S, \A s \in S : SimInv(s), NEW x \in SimTimers
  PROVE  (\A t \in Waiting(S, x) : SimInv(t)) /\ (\A t \in Restarted(S, x) : SimInv(t))
<1>1. \A t \in Waiting(S, x) : SimInv(t)
  BY DEF Waiting
<1>2. ASSUME NEW t \in Restarted(S, x) PROVE SimInv(t)
  <2>1. PICK s \in S, v \in SimIntervals[x] : t = [s EXCEPT !.timer[x] = v]
    BY DEF Restarted
  <2>2. v \in Nat
    BY SmAssumption
  <2> QED BY <2>1, <2>2, TimerInv
<1> QED BY <1>1, <1>2

(* The names of the timers, the messages and the ports.                    *)
LEMMA SimConstants ==
  /\ {"sync", "ann", "req", "bmc"} \subseteq SimTimers
  /\ {"sync", "fup", "ann", "req", "resp"} \subseteq Kinds
  /\ SIM_MASTER \in SimPorts /\ SIM_SLAVE \in SimPorts
BY DEF SimTimers, Kinds, SimPorts

(* What the master sends keeps the invariant.                              *)
LEMMA MasterInv ==
  ASSUME NEW S, \A s \in S : SimInv(s), NEW msg
  PROVE  \A t \in RunMaster(S, msg) : SimInv(t)
<1> DEFINE A == Send(Restarted(S, "sync"), SIM_MASTER, "sync")
           B == pp_lib_may_issue_sync(S)
           C == pp_lib_may_issue_announce(B)
<1>1. \A t \in A : SimInv(t)
  BY SimConstants, TimersInv, SendsInv
<1> HIDE DEF A
<1>2. \A t \in Send(A, SIM_MASTER, "fup") : SimInv(t)
  BY <1>1, SimConstants, SendsInv
<1>3. \A t \in Waiting(S, "sync") : SimInv(t)
  BY SimConstants, TimersInv
<1>4. \A t \in B : SimInv(t)
  BY <1>2, <1>3 DEF pp_lib_may_issue_sync, A
<1> HIDE DEF B
<1>5. (\A t \in Waiting(B, "ann") : SimInv(t)) /\ (\A t \in Restarted(B, "ann") : SimInv(t))
  BY <1>4, SimConstants, TimersInv
<1>6. \A t \in Send(Restarted(B, "ann"), SIM_MASTER, "ann") : SimInv(t)
  BY <1>5, SimConstants, SendsInv
<1>7. \A t \in C : SimInv(t)
  BY <1>5, <1>6 DEF pp_lib_may_issue_announce
<1> HIDE DEF C
<1>8. \A t \in Send(C, SIM_MASTER, "resp") : SimInv(t)
  BY <1>7, SimConstants, SendsInv
<1> QED BY <1>7, <1>8 DEF RunMaster, B, C

(* What the slave does with a message keeps the invariant.                 *)
LEMMA SlaveInv ==
  ASSUME NEW S, \A s \in S : SimInv(s), NEW msg, msg.n \in Nat
  PROVE  \A t \in RunSlave(S, msg) : SimInv(t)
<1> DEFINE C == pp_lib_may_issue_request(S)
<1>1. (\A t \in Waiting(S, "req") : SimInv(t)) /\ (\A t \in Restarted(S, "req") : SimInv(t))
  BY SimConstants, TimersInv
<1>2. \A t \in Send(Restarted(S, "req"), SIM_SLAVE, "req") : SimInv(t)
  BY <1>1, SimConstants, SendsInv
<1>3. \A t \in C : SimInv(t)
  BY <1>1, <1>2 DEF pp_lib_may_issue_request
<1> HIDE DEF C
<1>4. ASSUME NEW t \in RunSlave(S, msg) PROVE SimInv(t)
  <2>1. PICK s \in C : t = IF msg.kind \in {"sync", "fup"} THEN [s EXCEPT !.got[msg.kind] = msg.n] ELSE s
    BY DEF RunSlave, C
  <2>2. CASE msg.kind \in {"sync", "fup"}
    <3> DEFINE k == msg.kind
               n == msg.n
               y == [s.got EXCEPT ![k] = n]
    <3>1. SimInv(s) /\ s \in Simulators
      BY <1>3 DEF SimInv
    <3>2. s.got \in [sync : Nat, fup : Nat]
      BY <3>1 DEF Simulators
    <3> HIDE DEF k, n
    <3>3. n \in Nat /\ (k = "sync" \/ k = "fup")
      BY <2>2 DEF k, n
    <3>4. y \in [sync : Nat, fup : Nat]
      BY <3>2, <3>3
    <3>5. t = [s EXCEPT !.got = y]
      BY <2>1, <2>2, <3>1 DEF Simulators, k, n
    <3> HIDE DEF y
    <3>6. /\ t \in Simulators /\ t.pending = s.pending /\ t.sock = s.sock
          /\ t.present = s.present /\ t.exited = s.exited
      BY <3>1, <3>4, <3>5 DEF Simulators
    <3> QED BY <3>1, <3>6, BesideTable
  <2> QED BY <1>3, <2>1, <2>2
<1> QED BY <1>4

(* The delay to the next timer is a number.                                *)
LEMMA DelayInt ==
  /\ \A a, b \in Int : Min({a, b}) \in Int /\ Max({a, b}) \in Int
  /\ \A a, b, c \in Int : Min({a, b, c}) \in Int
<1>1. ASSUME NEW a \in Int, NEW b \in Int PROVE Min({a, b}) \in Int /\ Max({a, b}) \in Int
  <2>1. \E x \in {a, b} : \A y \in {a, b} : x <= y
    OBVIOUS
  <2>2. \E x \in {a, b} : \A y \in {a, b} : x >= y
    OBVIOUS
  <2>3. Min({a, b}) \in {a, b} /\ Max({a, b}) \in {a, b}
    BY <2>1, <2>2 DEF Min, Max
  <2> QED BY <2>3
<1>2. ASSUME NEW a \in Int, NEW b \in Int, NEW c \in Int PROVE Min({a, b, c}) \in Int
  <2>1. \E x \in {a, b, c} : \A y \in {a, b, c} : x <= y
    OBVIOUS
  <2>2. Min({a, b, c}) \in {a, b, c}
    BY <2>1 DEF Min
  <2> QED BY <2>2
<1> QED BY <1>1, <1>2

(* So is what a state machine returns.                                     *)
LEMMA NextDelayInt ==
  ASSUME NEW s, SimInv(s), NEW p \in SimPorts
  PROVE  NextDelay(s, p) \in Int
<1> DEFINE T == {s.timer[t] : t \in TimersOf(p)}
<1>1. s.timer \in [SimTimers -> Int]
  BY DEF SimInv, Simulators
<1>2. PICK a \in Int, b \in Int : T = {a, b}
  <2>1. s.timer["sync"] \in Int /\ s.timer["ann"] \in Int /\ s.timer["req"] \in Int
    BY <1>1, SimConstants
  <2>2. T = {s.timer["sync"], s.timer["ann"]} \/ T = {s.timer["req"], s.timer["req"]}
    BY DEF TimersOf
  <2> HIDE DEF T
  <2> QED BY <2>1, <2>2
<1> HIDE DEF T
<1>3. Min(T) \in Int
  BY <1>2, DelayInt
<1>4. Max({0, Min(T)}) \in Int
  BY <1>3, DelayInt
<1> QED BY <1>4 DEF NextDelay, T

(* The simulator starts with an empty table and empty sockets.             *)
LEMMA SimStart ==
  ASSUME SmInit
  PROVE  SimInv(sm) /\ smDelay \in Int
<1>1. PICK u \in Updates :
        sm = [pending |-> << >>,
              sock    |-> [p \in SimPorts |-> [c \in {PP_NP_GEN, PP_NP_EVT} |-> << >>]],
              present |-> [p \in SimPorts |-> [c \in {PP_NP_GEN, PP_NP_EVT} |-> 0]],
              prop    |-> TProp,
              update  |-> u,
              jit     |-> [p \in SimPorts |-> 0],
              timer   |-> [t \in SimTimers |-> 0],
              syncs   |-> 0,
              got     |-> [sync |-> 0, fup |-> 0],
              iter    |-> 0,
              exited  |-> FALSE]
  BY DEF SmInit
<1>2. u \in Nat /\ TProp \in Nat
  BY SmAssumption
<1>3. << >> \in Seq(Pendings) /\ << >> \in Seq(SimFrames) /\ Len(<< >>) = 0
  OBVIOUS
<1>4. sm \in Simulators
  BY <1>1, <1>2, <1>3 DEF Simulators, SimChannels
<1>5. /\ sm.pending = << >> /\ ~sm.exited
      /\ \A p \in SimPorts, c \in SimChannels : sm.sock[p][c] = << >> /\ sm.present[p][c] = 0
  BY <1>1 DEF SimChannels
<1>6. InOrder(sm.pending)
  BY <1>3, <1>5 DEF InOrder
<1>7. \A p \in SimPorts, c \in SimChannels : Entries(sm.pending, p, c) = {}
  BY <1>3, <1>5 DEF Entries
<1>8. Matched(sm)
  BY <1>3, <1>5, <1>7, FS_EmptySet DEF Matched
<1> QED BY <1>4, <1>5, <1>6, <1>8 DEF SimInv, SmInit

(* sim_main_loop() delivers a packet.                                      *)
LEMMA DeliverInv ==
  ASSUME SimInv(sm), smDelay \in Int, DeliverPacket
  PROVE  SimInv(sm') /\ smDelay' \in Int
<1> DEFINE p == Head(sm.pending).to
           d == Head(sm.pending).delay
           f == sim_fast_forward(sm, d)
<1>1. sm \in Simulators /\ sm.pending \in Seq(Pendings) /\ sm.pending # << >>
  BY SMTT(30) DEF SimInv, Simulators, DeliverPacket, PacketDue
<1>2. Head(sm.pending) \in Pendings /\ Head(sm.pending) = sm.pending[1]
  BY <1>1
<1>3. p \in SimPorts /\ d \in Int /\ d = sm.pending[1].delay
  BY <1>2 DEF Pendings
<1>4. d <= sm.pending[1].delay
  BY <1>3
<1>5. PICK s \in IF f.exited THEN {f} ELSE pp_state_machine({sim_net_recv(f)}, p, Received(f)) :
        sm' = s /\ smDelay' = Min({NextDelay(s, p), smDelay - (IF f.pending = << >> THEN 0 ELSE Head(f.pending).delay)})
  BY DEF DeliverPacket
<1> HIDE DEF d
<1>6. SimInv(f) /\ Len(f.pending) = Len(sm.pending)
  BY <1>3, <1>4, ForwardInv
<1> HIDE DEF f, p
<1>7. ~f.exited /\ f.pending \in Seq(Pendings)
  BY <1>6 DEF SimInv, Simulators
<1>8. f.pending # << >>
  BY <1>1, <1>6, <1>7
<1>9. SimInv(sim_net_recv(f)) /\ Received(f) \in SimFrames
  BY <1>6, <1>8, RecvInv
<1>10. Received(f).n \in Nat
  BY <1>9 DEF SimFrames
<1> DEFINE S == {sim_net_recv(f)}
<1>11. \A t \in S : SimInv(t)
  BY <1>9
<1>12. s \in pp_state_machine(S, p, Received(f))
  BY <1>5, <1>7
<1> HIDE DEF S
<1>13. SimInv(s)
  BY <1>10, <1>11, <1>12, MasterInv, SlaveInv DEF pp_state_machine
<1>14. Head(f.pending) \in Pendings
  BY <1>7, <1>8
<1>15. Head(f.pending).delay \in Int
  BY <1>14 DEF Pendings
<1>16. smDelay - Head(f.pending).delay \in Int
  BY <1>15
<1>17. NextDelay(s, p) \in Int
  BY <1>3, <1>13, NextDelayInt
<1>18. Min({NextDelay(s, p), smDelay - Head(f.pending).delay}) \in Int
  BY <1>16, <1>17, DelayInt
<1> QED BY <1>5, <1>8, <1>13, <1>18

(* sim_main_loop() runs all the state machines.                            *)
LEMMA RunAllInv ==
  ASSUME SimInv(sm), smDelay \in Int, RunAllStateMachines
  PROVE  SimInv(sm') /\ smDelay' \in Int
<1> DEFINE f == sim_fast_forward(sm, smDelay)
           none == [kind |-> "none", n |-> 0]
<1>1. sm \in Simulators /\ sm.pending \in Seq(Pendings)
  BY DEF SimInv, Simulators
<1>2. sm.pending # << >> => smDelay <= sm.pending[1].delay
  <2> SUFFICES ASSUME sm.pending # << >> PROVE smDelay <= sm.pending[1].delay
    OBVIOUS
  <2>1. Head(sm.pending) \in Pendings /\ Head(sm.pending) = sm.pending[1]
    BY <1>1
  <2>2. Head(sm.pending).delay \in Int
    BY <2>1 DEF Pendings
  <2>3. ~(Head(sm.pending).delay <= smDelay)
    BY DEF RunAllStateMachines, PacketDue
  <2>4. PICK a \in Int, b \in Int : a = smDelay /\ b = Head(sm.pending).delay
    BY <2>2
  <2>5. a <= b
    BY <2>3, <2>4
  <2> QED BY <2>1, <2>4, <2>5
<1>3. PICK s \in IF f.exited THEN {f} ELSE RunSlave(RunMaster({f}, none), none) :
        IF s.timer["bmc"] <= 0
          THEN \E v \in SimIntervals["bmc"] : sm' = [s EXCEPT !.timer["bmc"] = v] /\ smDelay' = 0
          ELSE sm' = s /\ smDelay' = Min({s.timer["bmc"], NextDelay(s, SIM_MASTER), NextDelay(s, SIM_SLAVE)})
  BY DEF RunAllStateMachines
<1>4. SimInv(f)
  BY <1>2, ForwardInv
<1>5. none.n \in Nat
  OBVIOUS
<1> HIDE DEF f, none
<1>6. ~f.exited
  BY <1>4 DEF SimInv
<1>7. \A t \in RunMaster({f}, none) : SimInv(t)
  BY <1>4, MasterInv
<1>8. SimInv(s)
  BY <1>3, <1>5, <1>6, <1>7, SlaveInv
<1>9. CASE s.timer["bmc"] <= 0
  <2>1. PICK v \in SimIntervals["bmc"] : sm' = [s EXCEPT !.timer["bmc"] = v] /\ smDelay' = 0
    BY <1>3, <1>9
  <2>2. v \in Nat
    BY SmAssumption, SimConstants
  <2> QED BY <1>8, <2>1, <2>2, SimConstants, TimerInv
<1>10. CASE ~(s.timer["bmc"] <= 0)
  <2>1. sm' = s /\ smDelay' = Min({s.timer["bmc"], NextDelay(s, SIM_MASTER), NextDelay(s, SIM_SLAVE)})
    BY <1>3, <1>10
  <2>2. s.timer \in [SimTimers -> Int]
    BY <1>8 DEF SimInv, Simulators
  <2>3. s.timer["bmc"] \in Int /\ NextDelay(s, SIM_MASTER) \in Int /\ NextDelay(s, SIM_SLAVE) \in Int
    BY <1>8, <2>2, SimConstants, NextDelayInt
  <2>4. Min({s.timer["bmc"], NextDelay(s, SIM_MASTER), NextDelay(s, SIM_SLAVE)}) \in Int
    BY <2>3, DelayInt
  <2> QED BY <1>8, <2>1, <2>4
<1> QED BY <1>9, <1>10

(* The table of pending packets announces exactly the frames in the        *)
(* sockets, and simulated time never passes one: sim_fast_forward_ns()     *)
(* never exits, and recvmsg() in sim_net_recv() never waits for a frame    *)
(* that is not there, for all delays, jitters, updates and intervals.      *)
THEOREM PendingStaysInStep == SmSpec => []PendingInStep
<1> DEFINE Inv == SimInv(sm) /\ smDelay \in Int
<1>1. SmInit => Inv
  BY SimStart
<1>2. Inv /\ [SmNext]_smVars => Inv'
  <2> SUFFICES ASSUME Inv, [SmNext]_smVars PROVE Inv'
    OBVIOUS
  <2>1. CASE DeliverPacket
    BY <2>1, DeliverInv
  <2>2. CASE RunAllStateMachines
    BY <2>2, RunAllInv
  <2>3. CASE UNCHANGED smVars
    BY <2>3 DEF smVars
  <2> QED BY <2>1, <2>2, <2>3 DEF SmNext
<1>3. Inv => PendingInStep
  BY DEF SimInv, Matched, Entries, PendingInStep, SimChannels
<1> QED BY <1>1, <1>2, <1>3, PTL DEF SmSpec

-----------------------------------------------------------------------------
(* The arithmetic of times.                                                *)

(* A time of any sign.                                                     *)
Times == [s : Int, n : Int]

(* What the loops of normalize_pp_time() carry out of n, seconds of size S *)
Carried(n, S) == IF n < 0 THEN n \div S ELSE IF n > S THEN (n - 1) \div S ELSE 0

(* The loops leave no more than a second, and borrow at most one.          *)
LEMMA LoopsCarry ==
  ASSUME NEW s \in Nat, NEW n \in Int, NEW S \in Nat \ {0}, s = 0 => n >= 0, n >= -S
  PROVE  /\ Carried(n, S) \in Int /\ s + Carried(n, S) \in Nat
         /\ n - Carried(n, S) * S \in 0..S
<1>1. CASE n < 0
  <2>1. PICK c \in Int, r \in 0..(S - 1) : c = n \div S /\ n = S * c + r
    BY DivisionOfInt
  <2>2. c = -1
    <3>1. ASSUME c <= -2 PROVE FALSE
      <4>1. S * c <= S * (-2)
        BY <3>1
      <4> QED BY <2>1, <4>1
    <3>2. ASSUME c >= 0 PROVE FALSE
      <4>1. S * c >= 0
        BY <3>2
      <4> QED BY <1>1, <2>1, <4>1
    <3> QED BY <3>1, <3>2
  <2>3. Carried(n, S) = -1
    BY <1>1, <2>1, <2>2 DEF Carried
  <2>4. s >= 1
    BY <1>1
  <2>5. n - (-1) * S = n + S
    OBVIOUS
  <2> QED BY <1>1, <2>3, <2>4, <2>5
<1>2. CASE n > S
  <2>1. PICK c \in Int, r \in 0..(S - 1) : c = (n - 1) \div S /\ n - 1 = S * c + r
    BY DivisionOfInt
  <2>2. c >= 0
    <3>1. ASSUME c <= -1 PROVE FALSE
      <4>1. S * c <= S * (-1)
        BY <3>1
      <4> QED BY <1>2, <2>1, <4>1
    <3> QED BY <3>1
  <2>3. Carried(n, S) = c
    BY <1>2, <2>1 DEF Carried
  <2>4. n - c * S = r + 1
    BY <2>1
  <2> QED BY <2>2, <2>3, <2>4
<1>3. CASE n \in 0..S
  <2>1. Carried(n, S) = 0
    BY <1>3 DEF Carried
  <2>2. n - 0 * S = n
    OBVIOUS
  <2> QED BY <1>3, <2>1, <2>2
<1> QED BY <1>1, <1>2, <1>3

(* A second has scaled nanoseconds.                                        *)
LEMMA SecondIsPositive == SNS_PER_S \in Nat \ {0}
<1>1. ASSUME NEW a \in Nat \ {0}, NEW b \in Nat \ {0} PROVE a * b \in Nat \ {0}
  OBVIOUS
<1> QED BY <1>1, TimeAssumption DEF SNS_PER_S

(* normalize_pp_time() keeps what the time stands for.                     *)
LEMMA NormalizeExact ==
  ASSUME NEW t \in Times, ~is_incorrect(t),
         t.s > 0 => t.n >= -SNS_PER_S, t.s < 0 => t.n <= SNS_PER_S
  PROVE  /\ normalize_pp_time(t) \in Times
         /\ Instant(normalize_pp_time(t)) = Instant(t)
         /\ Normal(normalize_pp_time(t))
<1>1. PICK S \in Nat \ {0}, u \in Int, v \in Int : S = SNS_PER_S /\ u = t.s /\ v = t.n
  BY SecondIsPositive DEF Times
<1>2. CASE IsNegative(t)
  <2> DEFINE c == Carried(-v, S)
  <2>1. u < 0 \/ (u = 0 /\ v < 0)
    BY <1>1, <1>2 DEF IsNegative
  <2>2. /\ -u \in Nat /\ -v \in Int /\ (-u = 0 => -v >= 0) /\ -v >= -S
    BY <1>1, <2>1
  <2>3. c \in Int /\ (-u) + c \in Nat /\ (-v) - c * S \in 0..S
    BY <2>2, LoopsCarry
  <2>4. normalize_pp_time(t) = [s |-> (-1) * ((-u) + c), n |-> (-1) * ((-v) - c * S)]
    <3>1. (-1) * u = -u /\ (-1) * v = -v
      OBVIOUS
    <3> QED BY <1>1, <1>2, <3>1 DEF normalize_pp_time, Carried
  <2> HIDE DEF c
  <2>5. PICK a \in Nat, b \in 0..S : a = (-u) + c /\ b = (-v) - c * S
    BY <2>3
  <2>6. normalize_pp_time(t) = [s |-> -a, n |-> -b]
    BY <2>4, <2>5
  <2>7. (-a) * S + (-b) = u * S + v
    BY <2>3, <2>5
  <2>8. normalize_pp_time(t) \in Times
    BY <2>6 DEF Times
  <2>9. Instant(normalize_pp_time(t)) = Instant(t)
    BY <1>1, <2>6, <2>7 DEF Instant
  <2>10. Normal(normalize_pp_time(t))
    BY <1>1, <2>6 DEF Normal, Magnitude, Sign
  <2> QED BY <2>8, <2>9, <2>10
<1>3. CASE ~IsNegative(t)
  <2> DEFINE c == Carried(v, S)
  <2>1. u > 0 \/ (u = 0 /\ v >= 0)
    BY <1>1, <1>3 DEF IsNegative
  <2>2. u \in Nat /\ (u = 0 => v >= 0) /\ v >= -S
    BY <1>1, <2>1
  <2>3. c \in Int /\ u + c \in Nat /\ v - c * S \in 0..S
    BY <2>2, LoopsCarry
  <2>4. normalize_pp_time(t) = [s |-> 1 * (u + c), n |-> 1 * (v - c * S)]
    <3>1. 1 * u = u /\ 1 * v = v
      OBVIOUS
    <3> QED BY <1>1, <1>3, <3>1 DEF normalize_pp_time, Carried
  <2> HIDE DEF c
  <2>5. PICK a \in Nat, b \in 0..S : a = u + c /\ b = v - c * S
    BY <2>3
  <2>6. normalize_pp_time(t) = [s |-> a, n |-> b]
    BY <2>4, <2>5
  <2>7. a * S + b = u * S + v
    BY <2>3, <2>5
  <2>8. normalize_pp_time(t) \in Times
    BY <2>6 DEF Times
  <2>9. Instant(normalize_pp_time(t)) = Instant(t)
    BY <1>1, <2>6, <2>7 DEF Instant
  <2>10. Normal(normalize_pp_time(t))
    BY <1>1, <2>6 DEF Normal, Magnitude, Sign
  <2> QED BY <2>8, <2>9, <2>10
<1> QED BY <1>2, <1>3

(* The fields of a sum of normal times disagree by no more than a second.  *)
LEMMA FieldsClose ==
  ASSUME NEW a \in Times, NEW b \in Times, Normal(a), Normal(b)
  PROVE  /\ a.s + b.s > 0 => a.n + b.n >= -SNS_PER_S
         /\ a.s + b.s < 0 => a.n + b.n <= SNS_PER_S
<1>1. PICK S \in Nat \ {0}, u \in Int, v \in Int, x \in Int, y \in Int :
        S = SNS_PER_S /\ u = a.s /\ v = a.n /\ x = b.s /\ y = b.n
  BY SecondIsPositive DEF Times
<1>2. v <= S /\ v >= -S /\ (u > 0 => v >= 0) /\ (u < 0 => v <= 0)
  BY <1>1 DEF Normal, Magnitude, Sign
<1>3. y <= S /\ y >= -S /\ (x > 0 => y >= 0) /\ (x < 0 => y <= 0)
  BY <1>1 DEF Normal, Magnitude, Sign
<1>4. (u + x > 0 => v + y >= -S) /\ (u + x < 0 => v + y <= S)
  BY <1>2, <1>3
<1> QED BY <1>1, <1>4

(* The seconds of a time are not so far below zero that they read as the   *)
(* mark of an incorrect time stamp.                                        *)
Unmarked(s) == s >= -(2 ^ (SecBits - 2))

(* pp_time_add() and pp_time_sub() of time-arith.c, whose carry loops run  *)
(* on the magnitude of one of two signed fields: for times of any signs    *)
(* and seconds of any size the result is exact, its fields agree in sign   *)
(* and its nanoseconds are at most a second, so that results can be added  *)
(* and subtracted again.                                                   *)
THEOREM SumsAreExact ==
  ASSUME NEW a \in Times, NEW b \in Times, Normal(a), Normal(b),
         Unmarked(a.s + b.s), Unmarked(a.s - b.s)
  PROVE  /\ Instant(pp_time_add(a, b)) = Instant(a) + Instant(b)
         /\ Instant(pp_time_sub(a, b)) = Instant(a) - Instant(b)
         /\ pp_time_add(a, b) \in Times /\ Normal(pp_time_add(a, b))
         /\ pp_time_sub(a, b) \in Times /\ Normal(pp_time_sub(a, b))
<1>1. PICK S \in Nat \ {0}, u \in Int, v \in Int, x \in Int, y \in Int :
        S = SNS_PER_S /\ u = a.s /\ v = a.n /\ x = b.s /\ y = b.n
  BY SecondIsPositive DEF Times
<1> DEFINE p == [s |-> a.s + b.s, n |-> a.n + b.n]
           m == [s |-> a.s - b.s, n |-> a.n - b.n]
           d == [s |-> -b.s, n |-> -b.n]
<1>2. p \in Times /\ p.s = u + x /\ p.n = v + y /\ m \in Times /\ m.s = u - x /\ m.n = v - y
  BY <1>1 DEF Times
<1>3. d \in Times /\ d.s = -x /\ d.n = -y
  BY <1>1 DEF Times
<1>4. Normal(d)
  <2>1. y <= S /\ y >= -S /\ (x > 0 => y >= 0) /\ (x < 0 => y <= 0)
    BY <1>1 DEF Normal, Magnitude, Sign
  <2> HIDE DEF d
  <2> QED BY <1>1, <1>3, <2>1 DEF Normal, Magnitude, Sign
<1> HIDE DEF d
<1>5. /\ a.s + d.s = m.s /\ a.n + d.n = m.n
  BY <1>1, <1>2, <1>3
<1>6. /\ p.s > 0 => p.n >= -SNS_PER_S
      /\ p.s < 0 => p.n <= SNS_PER_S
      /\ m.s > 0 => m.n >= -SNS_PER_S
      /\ m.s < 0 => m.n <= SNS_PER_S
  <2>1. /\ a.s + b.s > 0 => a.n + b.n >= -SNS_PER_S
        /\ a.s + b.s < 0 => a.n + b.n <= SNS_PER_S
    BY FieldsClose
  <2>2. /\ a.s + d.s > 0 => a.n + d.n >= -SNS_PER_S
        /\ a.s + d.s < 0 => a.n + d.n <= SNS_PER_S
    BY <1>3, <1>4, FieldsClose
  <2>3. p.s = a.s + b.s /\ p.n = a.n + b.n
    OBVIOUS
  <2> HIDE DEF p, m
  <2> QED BY <1>5, <2>1, <2>2, <2>3
<1>7. ~is_incorrect(p) /\ ~is_incorrect(m)
  <2>1. PICK k \in Int : k = -(2 ^ (SecBits - 2))
    BY TimeAssumption
  <2>2. u + x >= k /\ u - x >= k
    BY <1>1, <2>1 DEF Unmarked
  <2> HIDE DEF p, m
  <2> QED BY <1>2, <2>1, <2>2 DEF is_incorrect
<1>8. pp_time_add(a, b) = normalize_pp_time(p) /\ pp_time_sub(a, b) = normalize_pp_time(m)
  BY DEF pp_time_add, pp_time_sub
<1> HIDE DEF p, m
<1>9. /\ normalize_pp_time(p) \in Times /\ Normal(normalize_pp_time(p))
      /\ Instant(normalize_pp_time(p)) = Instant(p)
  BY <1>2, <1>6, <1>7, NormalizeExact
<1>10. /\ normalize_pp_time(m) \in Times /\ Normal(normalize_pp_time(m))
       /\ Instant(normalize_pp_time(m)) = Instant(m)
  BY <1>2, <1>6, <1>7, NormalizeExact
<1>11. /\ (u + x) * S + (v + y) = (u * S + v) + (x * S + y)
       /\ (u - x) * S + (v - y) = (u * S + v) - (x * S + y)
  OBVIOUS
<1>12. Instant(p) = Instant(a) + Instant(b) /\ Instant(m) = Instant(a) - Instant(b)
  BY <1>1, <1>2, <1>11 DEF Instant
<1> QED BY <1>8, <1>9, <1>10, <1>12

(* An interval is added and subtracted as the time that is as long: the    *)
(* conversion of pp_time_add_interval() normalises an interval of any      *)
(* number of seconds.                                                      *)
THEOREM IntervalsAreExact ==
  ASSUME NEW a \in Times, Normal(a), NEW i \in Int,
         Unmarked(a.s + normalize_pp_time([s |-> 0, n |-> i]).s),
         Unmarked(a.s - normalize_pp_time([s |-> 0, n |-> i]).s)
  PROVE  /\ Instant(pp_time_add_interval(a, i)) = Instant(a) + i
         /\ Instant(pp_time_sub_interval(a, i)) = Instant(a) - i
<1> DEFINE z == [s |-> 0, n |-> i]
           b == normalize_pp_time(z)
<1>1. z \in Times /\ z.s = 0 /\ z.n = i
  BY DEF Times
<1>2. ~is_incorrect(z)
  <2>1. PICK k \in Nat \ {0} : k = 2 ^ (SecBits - 2)
    BY TimeAssumption
  <2>2. ~(0 < -k)
    OBVIOUS
  <2> QED BY <1>1, <2>1, <2>2 DEF is_incorrect
<1>3. Instant(z) = i
  <2>1. PICK S \in Nat \ {0} : S = SNS_PER_S
    BY SecondIsPositive
  <2>2. 0 * S + i = i
    OBVIOUS
  <2> QED BY <1>1, <2>1, <2>2 DEF Instant
<1> HIDE DEF z
<1>4. b \in Times /\ Normal(b) /\ Instant(b) = i
  BY <1>1, <1>2, <1>3, NormalizeExact
<1>5. Unmarked(a.s + b.s) /\ Unmarked(a.s - b.s)
  BY DEF z
<1>6. pp_time_add_interval(a, i) = pp_time_add(a, b) /\ pp_time_sub_interval(a, i) = pp_time_sub(a, b)
  BY DEF pp_time_add_interval, pp_time_sub_interval, z
<1> HIDE DEF b
<1> QED BY <1>4, <1>5, <1>6, SumsAreExact

-----------------------------------------------------------------------------
(* What the time drivers compute.                                          *)

(* wrs_linearize_rx_timestamp() of wrs-socket.c.  A frame comes in phi     *)
(* parts after the rising edge at w nanoseconds.  Within a quarter of a    *)
(* cycle of an edge the rising edge counter may already have counted it,   *)
(* or not yet (e cycles off); the falling edge counter is certain there,   *)
(* and ahead says whether the rising one is ahead of it.  Elsewhere        *)
(* nothing is assumed of ahead.  Whatever the sizes of the cycle and of    *)
(* the second, the transition point and the luck of the counters, the      *)
(* result is the instant the frame came in.                                *)
THEOREM StampIsExact ==
  ASSUME NEW tick \in Nat \ {0}, NEW ps \in Nat \ {0}, NEW period \in Nat \ {0}, NEW half \in Nat,
         period = tick * ps, period = 2 * half, NEW second \in Nat \ {0},
         NEW tp \in 0..(period - 1), NEW w \in Nat, NEW phi \in 0..(period - 1),
         NEW e \in {-1, 0, 1}, e = -1 => 4 * phi < period, e = 1 => 4 * phi > 3 * period,
         NEW secs \in Int, NEW nsec \in Int, secs * second + nsec = w + e * tick,
         NEW ahead \in BOOLEAN,
         4 * phi < period => (ahead <=> e = 0),
         4 * phi > 3 * period => (ahead <=> e = 1)
  PROVE  LET raw == IF phi + tp >= period THEN phi + tp - period ELSE phi + tp
             l == wrs_linearize_rx_timestamp(<<secs, nsec>>, raw, ahead, tp, period, ps, second)
         IN  l[3] = phi /\ (l[1] * second + l[2]) * ps + l[3] = w * ps + phi
<1> DEFINE raw == IF phi + tp >= period THEN phi + tp - period ELSE phi + tp
           Unwrap(x) == IF x < 0 THEN x + period ELSE IF x >= period THEN x - period ELSE x
           phase_f == Unwrap(raw - tp + half)
           falling == 4 * phi > 3 * period \/ 4 * phi < period
           later == phase_f + half
           ns == IF ~falling THEN nsec
                 ELSE (IF ahead THEN nsec - tick ELSE nsec) + (IF later >= period THEN tick ELSE 0)
           phase == IF falling THEN Unwrap(later) ELSE phi
           l == wrs_linearize_rx_timestamp(<<secs, nsec>>, raw, ahead, tp, period, ps, second)
<1>1. period \div ps = tick /\ period \div 2 = half
  <2>1. ASSUME NEW x \in Nat \ {0}, NEW y \in Nat \ {0} PROVE (x * y) \div y = x
    OBVIOUS
  <2> QED BY <2>1
<1>2. Unwrap(raw - tp) = phi
  OBVIOUS
<1>3. l = IF ns >= second THEN <<secs + 1, ns - second, phase>> ELSE <<secs, ns, phase>>
  <2>1. raw - tp + period \div 2 = raw - tp + half
    BY <1>1
  <2> QED BY <1>1, <1>2 DEF wrs_linearize_rx_timestamp, FallingTick
<1>4. phase = phi
  OBVIOUS
<1>5. ns = nsec - e * tick /\ ns \in Int
  <2>1. CASE 4 * phi < period
    <3>1. later >= period
      BY <2>1
    <3> QED BY <2>1, <3>1
  <2>2. CASE 4 * phi > 3 * period
    <3>1. ~(later >= period)
      BY <2>2
    <3> QED BY <2>2, <3>1
  <2>3. CASE ~falling
    BY <2>3
  <2> QED BY <2>1, <2>2, <2>3
<1> HIDE DEF ns, phase, l, raw
<1>6. secs * second + ns = w
  BY <1>5
<1>7. (secs + 1) * second + (ns - second) = w
  BY <1>5, <1>6
<1>8. l[3] = phi /\ l[1] * second + l[2] = w
  BY <1>3, <1>4, <1>6, <1>7
<1> QED BY <1>8 DEF l, raw

(* A difference of at least a second: its seconds are adjusted, rounded to *)
(* the nearest; a smaller one is adjusted at once or left alone.           *)
LEMMA TimeSetLeaves ==
  ASSUME NEW d \in Int, NEW half \in Nat \ {0}, NEW second \in Nat, second = 2 * half, NEW thr \in Nat
  PROVE  LET a == wrs_time_set(d, second, thr)
         IN  /\ a \in Int
             /\ d >= second \/ d <= -second => d - a <= half /\ d - a >= -half
             /\ d < second /\ d > -second => a \in {0, d}
<1> DEFINE sign == IF d < 0 THEN -1 ELSE 1
           secs == sign * ((sign * d) \div second)
           ms == d - secs * second
           a == wrs_time_set(d, second, thr)
           Claim == /\ a \in Int
                    /\ d >= second \/ d <= -second => d - a <= half /\ d - a >= -half
                    /\ d < second /\ d > -second => a \in {0, d}
<1>1. PICK m \in Nat, q \in Int, r \in 0..(second - 1) :
        m = sign * d /\ q = m \div second /\ m = second * q + r
  <2>1. PICK m \in Nat : m = sign * d
    OBVIOUS
  <2>2. second \in Nat \ {0}
    OBVIOUS
  <2>3. m \div second \in Int /\ m % second \in 0..(second - 1) /\ m = second * (m \div second) + (m % second)
    <3>1. m \in Int
      OBVIOUS
    <3> QED BY <2>2, <3>1, DivisionOfInt, Zenon
  <2> QED BY <2>1, <2>3, ZenonT(60)
<1>2. second \div 2 = half
  OBVIOUS
<1>3. q \in Nat
  <2>1. ASSUME q <= -1 PROVE FALSE
    <3>1. second * q <= -second
      BY <2>1
    <3> QED BY <1>1, <3>1
  <2> QED BY <2>1
<1>4. (q = 0) <=> (d < second /\ d > -second)
  <2>1. ASSUME q >= 1 PROVE m >= second
    <3>1. second * q >= second
      BY <2>1
    <3> QED BY <1>1, <3>1
  <2>2. ASSUME q = 0 PROVE m < second
    BY <1>1, <2>2
  <2>3. m < second <=> (d < second /\ d > -second)
    BY <1>1
  <2> QED BY <1>3, <2>1, <2>2, <2>3
<1>5. secs = sign * q
  BY <1>1
<1>6. ms = sign * r
  <2>1. CASE d < 0
    <3>1. d = -m /\ secs = -q
      BY <1>1, <1>5, <2>1
    <3>2. PICK z \in Int : z = second * q /\ (-q) * second = -z
      OBVIOUS
    <3>3. m = z + r
      BY <1>1, <3>2
    <3>4. (-m) - (-q) * second = -r
      BY <3>2, <3>3
    <3>5. sign * r = -r
      BY <2>1
    <3> HIDE DEF secs, sign
    <3> QED BY <3>1, <3>4, <3>5
  <2>2. CASE ~(d < 0)
    <3>1. d = m /\ secs = q
      BY <1>1, <1>5, <2>2
    <3>2. q * second = second * q
      OBVIOUS
    <3>3. m - q * second = r
      BY <1>1, <3>2
    <3>4. sign * r = r
      BY <2>2
    <3> HIDE DEF secs, sign
    <3> QED BY <3>1, <3>3, <3>4
  <2> QED BY <2>1, <2>2
<1>7. a = IF secs # 0 THEN WholeSeconds(secs, ms, half) * second
          ELSE IF sign * ms > thr /\ sign * ms < second - thr THEN ms ELSE 0
  BY <1>2 DEF wrs_time_set
<1>8. ASSUME q = 0 PROVE Claim
  <2>1. secs = 0
    BY <1>5, <1>8
  <2>2. ms = d
    BY <2>1
  <2> HIDE DEF secs, ms, a, sign
  <2> QED BY <1>4, <1>7, <1>8, <2>1, <2>2
<1>9. ASSUME q # 0 PROVE Claim
  <2>1. secs # 0
    BY <1>3, <1>5, <1>9
  <2>2. a = WholeSeconds(secs, ms, half) * second
    BY <1>7, <2>1
  <2>3. PICK k \in {-1, 0, 1} : WholeSeconds(secs, ms, half) = secs + k /\ ms - k * second <= half /\ ms - k * second >= -half
    <3>1. ms \in Int /\ ms < second /\ ms > -second /\ secs \in Int
      BY <1>1, <1>5, <1>6
    <3>2. CASE ms > half
      <4>1. ms - 1 * second <= half /\ ms - 1 * second >= -half
        BY <3>1, <3>2
      <4> HIDE DEF ms, secs
      <4> QED BY <3>1, <3>2, <4>1 DEF WholeSeconds
    <3>3. CASE ms < -half
      <4>1. ms - (-1) * second <= half /\ ms - (-1) * second >= -half
        BY <3>1, <3>3
      <4>2. ~(ms > half) /\ secs + (-1) = secs - 1
        BY <3>1, <3>3
      <4> HIDE DEF ms, secs
      <4> QED BY <3>1, <3>3, <4>1, <4>2 DEF WholeSeconds
    <3>4. CASE ~(ms > half) /\ ~(ms < -half)
      <4>1. ms - 0 * second <= half /\ ms - 0 * second >= -half
        BY <3>1, <3>4
      <4>2. secs + 0 = secs
        BY <3>1
      <4> HIDE DEF ms, secs
      <4> QED BY <3>1, <3>4, <4>1, <4>2 DEF WholeSeconds
    <3> QED BY <3>2, <3>3, <3>4
  <2>4. PICK u \in Int : u = secs
    BY <1>1, <1>5
  <2>5. ms = d - u * second
    BY <2>4
  <2>6. a = (u + k) * second
    BY <2>2, <2>3, <2>4
  <2>7. d - (u + k) * second = (d - u * second) - k * second
    OBVIOUS
  <2> HIDE DEF secs, ms, a, sign
  <2>8. a \in Int /\ d - a = ms - k * second
    BY <2>5, <2>6, <2>7
  <2> QED BY <1>4, <1>9, <2>3, <2>8
<1>10. Claim
  <2> HIDE DEF Claim
  <2> QED BY <1>8, <1>9
<1> QED BY <1>10

(* wrs_time_set() of wrs-time.c cannot adjust seconds and nanoseconds in   *)
(* one call: a first call leaves at most half a second of a difference of  *)
(* a second or more, and after a second call no further one has anything   *)
(* to adjust, whatever the difference and the threshold.                   *)
THEOREM TimeSetSettles ==
  ASSUME NEW d \in Int, NEW half \in Nat \ {0}, NEW second \in Nat, second = 2 * half, NEW thr \in Nat
  PROVE  LET d1 == d - wrs_time_set(d, second, thr)
             d2 == d1 - wrs_time_set(d1, second, thr)
         IN  /\ d >= second \/ d <= -second => d1 <= half /\ d1 >= -half
             /\ wrs_time_set(d2, second, thr) = 0
<1> DEFINE A(x) == wrs_time_set(x, second, thr)
           d1 == d - A(d)
           d2 == d1 - A(d1)
<1>1. \A x \in Int : /\ A(x) \in Int
                     /\ x >= second \/ x <= -second => x - A(x) <= half /\ x - A(x) >= -half
                     /\ x < second /\ x > -second => A(x) \in {0, x}
  BY TimeSetLeaves
<1>2. A(0) = 0
  <2>1. A(0) \in {0, 0}
    BY <1>1
  <2> QED BY <2>1
<1> HIDE DEF A
<1>3. d1 \in Int /\ d1 < second /\ d1 > -second
  BY <1>1
<1>4. A(d1) = 0 \/ A(d1) = d1
  <2> HIDE DEF d1
  <2> QED BY <1>1, <1>3
<1>5. A(d2) = 0
  <2>1. CASE A(d1) = 0
    <3>1. d2 = d1
      BY <1>3, <2>1
    <3> QED BY <2>1, <3>1
  <2>2. CASE A(d1) = d1
    <3>1. d2 = 0
      BY <1>3, <2>2
    <3> QED BY <1>2, <3>1
  <2> QED BY <1>4, <2>1, <2>2
<1> QED BY <1>1, <1>5 DEF A

=============================================================================
