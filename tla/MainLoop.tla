------------------------------ MODULE MainLoop ------------------------------
(***************************************************************************)
(* The loops that share one thread between the ports: unix_main_loop() and *)
(* wrs_main_loop(), with the wait of unix_net_check_packet() both use.     *)
(*                                                                         *)
(* Every call of pp_state_machine() returns the time after which that port *)
(* must be called again.  The loops wait for a frame or for the smallest   *)
(* of these times; a frame runs the state machine of its port only.  The   *)
(* unix loop keeps the rest of the wait in arch_data->tv, which select()   *)
(* updates; the switch also arms a POSIX timer, whose signal can arrive    *)
(* between the test of alarmDetected and the wait.                         *)
(*                                                                         *)
(* Time is counted in parts of a millisecond, Sub to the millisecond, as   *)
(* delays are whole milliseconds and what remains of a wait is not.        *)
(***************************************************************************)
EXTENDS Integers, FiniteSetsExt

CONSTANTS LoopKinds,    \* the loops under study: a subset of {"unix", "wrs"}
          LoopPorts,    \* the ports
          Delays,       \* the delays in ms a state machine may ask for
          Sub,          \* parts of a millisecond
          DefaultDelay, \* PP_DEFAULT_NEXT_DELAY_MS
          MaxSkipped    \* the turns without a look at the sockets, 10

ASSUME LoopAssumption ==
    /\ LoopKinds \subseteq {"unix", "wrs"}
    /\ LoopPorts # {}
    /\ Sub \in Nat \ {0}
    /\ DefaultDelay \in Nat
    /\ Delays \subseteq Nat
    /\ MaxSkipped \in Nat

VARIABLES mlKind,    \* which loop
          mlDue,     \* per port, the time until it must be called again
          mlDelay,   \* delay_ms; -1 is also the UINT_MAX of the switch
          mlTv,      \* arch_data->tv: what is left of the wait
          mlTimer,   \* what is left of the alarm; 0 when it is not armed
          mlAlarm,   \* alarmDetected
          mlSkipped, \* skipped_checks
          mlCut,     \* a frame came when the wait was as good as over
          mlRpc,     \* the time minipc_server_action() has taken
          mlPc       \* "top", "rpc", "wait" (in select), "intr" (a signal ended
                     \* the wait) or "frame" (select found one)

mlVars == <<mlKind, mlDue, mlDelay, mlTv, mlTimer, mlAlarm, mlSkipped, mlCut,
            mlRpc, mlPc>>

(* The latest a port may be served: one more wait, when the signal comes   *)
(* in minipc_server_action() and not in select(), and the millisecond that *)
(* call may take.                                                          *)
Slack == (DefaultDelay + 1) * Sub

Late(p) == mlDue[p] < -Slack

MlTypeOK ==
    /\ mlKind \in LoopKinds
    /\ mlDue \in [LoopPorts -> Int]
    /\ mlDelay \in Nat \cup {-1}
    /\ {mlTv, mlTimer, mlSkipped, mlRpc} \subseteq Nat
    /\ mlAlarm \in BOOLEAN /\ mlCut \in BOOLEAN
    /\ mlPc \in {"top", "rpc", "wait", "intr", "frame"}

(* run_all_state_machines(): every port is called, the result is the least *)
(* of their delays; 0 after a BMC calculation, which the delays include.   *)
Smallest(d) == Min({d[p] : p \in LoopPorts})

MlInit ==
    /\ mlKind \in LoopKinds
    /\ \E d \in [LoopPorts -> Delays] :
          /\ mlDue = [p \in LoopPorts |-> d[p] * Sub]
          /\ mlDelay = Smallest(d)
    /\ mlTv = 0 /\ mlTimer = 0
    /\ mlAlarm = (mlKind = "wrs")   \* alarmDetected is initialised to 1
    /\ mlSkipped = 0 /\ mlCut = FALSE /\ mlRpc = 0 /\ mlPc = "top"

(* The wait unix_net_check_packet() starts: a smaller delay replaces what  *)
(* is left of the previous one, any delay replaces a wait that is over.    *)
NewTv(delay, tv) ==
    IF delay >= 0 /\ (tv \div Sub = 0 \/ delay < tv \div Sub) THEN delay * Sub ELSE tv

check_packet(delay) ==
    /\ mlTv' = NewTv(delay, mlTv)
    /\ mlPc' = "wait"

-----------------------------------------------------------------------------
(* unix_main_loop(): a turn always begins with the wait.                   *)
UnixTurn ==
    /\ mlKind = "unix" /\ mlPc = "top"
    /\ check_packet(mlDelay)
    /\ UNCHANGED <<mlKind, mlDue, mlDelay, mlTimer, mlAlarm, mlSkipped, mlCut, mlRpc>>

(* wrs_main_loop(): the sockets are looked at when no alarm is pending and *)
(* there is time to wait, or they have been skipped too often; the calls   *)
(* of the RPC clients come first.                                          *)
MayLook == ~mlAlarm /\ (mlSkipped > MaxSkipped \/ mlDelay # 0)

WrsLook ==
    /\ mlKind = "wrs" /\ mlPc = "top"
    /\ MayLook
    /\ mlRpc' = 0 /\ mlPc' = "rpc"
    /\ mlSkipped' = 0
    /\ UNCHANGED <<mlKind, mlDue, mlDelay, mlTv, mlTimer, mlAlarm, mlCut>>

WrsWait ==
    /\ mlPc = "rpc"
    /\ check_packet(mlDelay)
    /\ UNCHANGED <<mlKind, mlDue, mlDelay, mlTimer, mlAlarm, mlSkipped, mlCut, mlRpc>>

(* run_all_state_machines() and the alarm for the next time.               *)
RunAll ==
    \E d \in [LoopPorts -> Delays] :
       LET delay == Smallest(d) IN
       /\ mlDue' = [p \in LoopPorts |-> d[p] * Sub]
       /\ mlDelay' = IF mlKind = "wrs" /\ delay > DefaultDelay THEN DefaultDelay ELSE delay
       /\ mlTimer' = IF mlKind = "wrs" THEN mlDelay' * Sub ELSE 0
       /\ mlAlarm' = FALSE
       /\ mlPc' = "top"

WrsSkip ==
    /\ mlKind = "wrs" /\ mlPc = "top"
    /\ ~MayLook
    /\ mlSkipped' = Min({mlSkipped + 1, MaxSkipped + 1})   \* more is not told apart
    /\ RunAll       \* here an alarm is pending or the delay is 0
    /\ UNCHANGED <<mlKind, mlTv, mlCut, mlRpc>>

(* select() ends with nothing to read, or interrupted by the signal        *)
(* (packet_available < 0); either way tv is then 0.                        *)
WaitEnds ==
    /\ mlPc = "intr" \/ (mlPc = "wait" /\ mlTv = 0)
    /\ mlTv' = 0
    /\ IF mlKind = "unix" \/ mlAlarm \/ mlDelay = 0
       THEN RunAll
       ELSE mlPc' = "top" /\ UNCHANGED <<mlDue, mlDelay, mlTimer, mlAlarm>>
    /\ UNCHANGED <<mlKind, mlSkipped, mlCut, mlRpc>>

(* select() finds a frame.  mlCut records the two cases in which the time  *)
(* the loop was to end its wait at is lost: less than a millisecond was    *)
(* left of tv, or the switch looked with no alarm armed (delay_ms 0).      *)
FrameArrives ==
    /\ mlPc = "wait"
    /\ mlPc' = "frame"
    /\ mlCut' = (mlCut \/ IF mlKind = "unix" THEN mlTv < Sub ELSE mlDelay = 0)
    /\ UNCHANGED <<mlKind, mlDue, mlDelay, mlTv, mlTimer, mlAlarm, mlSkipped, mlRpc>>

(* The frames are dropped or not for us: delay_ms stays -1.                *)
FrameDropped ==
    /\ mlPc = "frame"
    /\ mlDelay' = -1
    /\ mlPc' = "top"
    /\ UNCHANGED <<mlKind, mlDue, mlTv, mlTimer, mlAlarm, mlSkipped, mlCut, mlRpc>>

(* A bug: the alarm is started for the port of the frame alone.            *)
Remaining_Forgotten(delay) == delay

(* What the switch makes of the delay: not more than what was left of the  *)
(* alarm, in whole milliseconds, which is started again.                   *)
Remaining(delay) == Min({mlTimer \div Sub, delay})

(* S: the ports whose frames were for us.                                  *)
FrameHandled(S) ==
    /\ mlPc = "frame"
    /\ \E d \in [S -> Delays] :
          LET least == Min({d[p] : p \in S})
              readjust == mlKind = "wrs" /\ ~mlAlarm
          IN /\ mlDue' = [p \in LoopPorts |-> IF p \in S THEN d[p] * Sub ELSE mlDue[p]]
             /\ mlDelay' = IF readjust THEN Remaining(least) ELSE least
             /\ mlTimer' = IF readjust THEN mlDelay' * Sub ELSE mlTimer
    /\ mlPc' = "top"
    /\ UNCHANGED <<mlKind, mlTv, mlAlarm, mlSkipped, mlCut, mlRpc>>

(* Time passes in select() and in minipc_server_action(), which waits for  *)
(* a millisecond; the rest of the loop takes none.  The timer that expires *)
(* raises the alarm, and interrupts the call it meets.                     *)
Down(n) == IF n > 0 THEN n - 1 ELSE 0

Passes ==
    /\ \/ mlPc = "wait" /\ mlTv > 0
       \/ mlPc = "rpc" /\ mlRpc < Sub
    /\ mlTv' = IF mlPc = "wait" THEN mlTv - 1 ELSE mlTv
    /\ mlRpc' = IF mlPc = "rpc" THEN mlRpc + 1 ELSE mlRpc
    /\ mlDue' = [p \in LoopPorts |-> Max({mlDue[p] - 1, -Slack - 1})]
    /\ mlTimer' = Down(mlTimer)
    /\ mlAlarm' = (mlAlarm \/ mlTimer = 1)
    /\ mlPc' = IF mlPc = "wait" /\ mlTimer = 1 THEN "intr" ELSE mlPc
    /\ UNCHANGED <<mlKind, mlDelay, mlSkipped, mlCut>>

MlNext ==
    \/ UnixTurn
    \/ WrsLook
    \/ WrsWait
    \/ WrsSkip
    \/ WaitEnds
    \/ FrameArrives
    \/ FrameDropped
    \/ \E S \in (SUBSET LoopPorts) \ {{}} : FrameHandled(S)
    \/ Passes

MlSpec == MlInit /\ [][MlNext]_mlVars

-----------------------------------------------------------------------------
(* "This ensures that every state machine is called at least once every    *)
(* delay_ms" (both main-loop.c): no port waits longer than it asked for,   *)
(* by more than the slack, unless a frame came as the wait was over.       *)
PortsOnTime == mlCut \/ \A p \in LoopPorts : ~Late(p)

=============================================================================
