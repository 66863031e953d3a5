------------------------------ MODULE WrpcMode ------------------------------
(***************************************************************************)
(* ppsi inside the White Rabbit core (arch-wrpc): the mode of the node, as *)
(* set from the shell or from the boot script, the soft PLL, the timing    *)
(* output, and the single port, which is started and stopped with the link *)
(* and around every change of a parameter.  Everything runs in one thread; *)
(* what is hard is the order of the calls: the shell sets a mode in any    *)
(* state of the port, and the fibre is pulled at any moment.               *)
(*                                                                         *)
(* The port is seen from outside: bmc_calculate_ebest() and the state      *)
(* machine move it (PtpClock has the decisions themselves).                *)
(***************************************************************************)
EXTENDS Integers

CONSTANTS NodeModes,  \* the modes the shell may set
          MaxModeSets \* calls of wrc_ptp_set_mode()

ASSUME ModesAssumption == NodeModes \subseteq {"GM", "ABSCAL", "MASTER", "SLAVE"}

VARIABLES wpMode,     \* ptp_mode
          wpTiming,   \* arch data: timingMode
          wpPll,      \* the soft PLL: mode of the last spll_init(), lock state
          wpOut,      \* pps_enable and forcePpsGen: the output is their "or"
          wpPort,     \* ptp_enabled, state of the port
          wpLink,     \* "up", or "down" once wrc_ptp_link_down() was called
          wpSets      \* calls of wrc_ptp_set_mode() so far

wpVars == <<wpMode, wpTiming, wpPll, wpOut, wpPort, wpLink, wpSets>>

PortStates == {"INITIALIZING", "LISTENING", "MASTER", "UNCALIBRATED", "SLAVE", "DISABLED"}

WpTypeOK ==
    /\ wpMode \in NodeModes \cup {"UNKNOWN"}
    /\ wpTiming \in {"DISABLED", "GRAND_MASTER", "FREE_MASTER", "BOUNDARY_CLOCK"}
    /\ wpPll \in [mode : {"off", "GRAND_MASTER", "FREE_RUNNING", "SLAVE"}, locked : BOOLEAN]
    /\ wpOut \in [enable : BOOLEAN, force : BOOLEAN]
    /\ wpPort \in [enabled : BOOLEAN, state : PortStates]
    /\ wpLink \in {"up", "down"}
    /\ wpSets \in 0..MaxModeSets

(* wrc_ptp_init()                                                          *)
WpInit ==
    /\ wpMode = "UNKNOWN" /\ wpTiming = "DISABLED"
    /\ wpPll = [mode |-> "off", locked |-> FALSE]
    /\ wpOut = [enable |-> FALSE, force |-> FALSE]
    /\ wpPort = [enabled |-> FALSE, state |-> "INITIALIZING"]
    /\ wpLink = "down" /\ wpSets = 0

-----------------------------------------------------------------------------
(* The node as a record, for operations made of several calls.             *)
Node == [mode |-> wpMode, timing |-> wpTiming, pll |-> wpPll, out |-> wpOut, port |-> wpPort]

Becomes(n) ==
    /\ wpMode' = n.mode /\ wpTiming' = n.timing /\ wpPll' = n.pll
    /\ wpOut' = n.out /\ wpPort' = n.port

spll_init(n, m) == [n EXCEPT !.pll = [mode |-> m, locked |-> FALSE]]

(* wrpc_spll_check_lock_with_timeout(): the PLL locks in time or not.      *)
check_lock(n) == {[n EXCEPT !.pll.locked = l] : l \in BOOLEAN}

(* wrpc_spll_locking_reset(): a master that had become slave by the BMC    *)
(* algorithm runs free again.                                              *)
locking_reset(n) ==
    IF n.mode = "MASTER" /\ n.timing = "BOUNDARY_CLOCK"
    THEN check_lock([spll_init(n, "FREE_RUNNING") EXCEPT !.timing = "FREE_MASTER"])
    ELSE {n}

(* pp_leave_current_state(), with the state_change hook of the extension.  *)
Leave(n, s) ==
    IF n.port.state = "SLAVE"
    THEN {[x EXCEPT !.port.state = s, !.out.enable = (@ /\ n.out.force)] : x \in locking_reset(n)}
    ELSE {[n EXCEPT !.port.state = s]}

(* wrc_ptp_stop(); the foreign masters are forgotten with the port.        *)
wrc_ptp_stop(n) == {[x EXCEPT !.port.enabled = FALSE] : x \in Leave(n, "DISABLED")}

(* wrc_ptp_start(): the call of the state machine finds a port that is     *)
(* DISABLED, which has nothing to do; the state is set behind it.          *)
wrc_ptp_start(n) == [n EXCEPT !.port = [enabled |-> TRUE, state |-> "INITIALIZING"]]

(* The settings of wrc_ptp_set_mode() for each mode.                       *)
ModeSet(n, m) ==
    CASE m \in {"GM", "ABSCAL"} ->
           {[x EXCEPT !.out.enable = TRUE] :
              x \in check_lock([spll_init(n, "GRAND_MASTER") EXCEPT !.timing = "GRAND_MASTER"])}
      [] m = "MASTER" ->
           check_lock([spll_init(n, "FREE_RUNNING") EXCEPT !.timing = "FREE_MASTER",
                                                           !.out.enable = TRUE])
      [] m = "SLAVE" -> {[n EXCEPT !.timing = "BOUNDARY_CLOCK"]}

wrc_ptp_set_mode(m) ==
    /\ wpSets < MaxModeSets
    /\ wpSets' = wpSets + 1
    /\ \E stopped \in wrc_ptp_stop([Node EXCEPT !.mode = "UNKNOWN"]) :
       \E set \in ModeSet(stopped, m) : Becomes([set EXCEPT !.mode = m])
    /\ UNCHANGED wpLink

Start ==
    /\ ~wpPort.enabled /\ wpMode # "UNKNOWN"
    /\ Becomes(wrc_ptp_start(Node))
    /\ wpLink' = "up"
    /\ UNCHANGED wpSets

(* wrc_ptp_sync_mech() and assign_ptp_param(): stop, change, and go on as  *)
(* before.                                                                 *)
ChangeParameter ==
    /\ \E x \in wrc_ptp_stop(Node) :
          IF wpPort.enabled THEN Becomes(wrc_ptp_start(x))
          ELSE \E y \in wrc_ptp_stop(x) : Becomes(y)
    /\ UNCHANGED <<wpLink, wpSets>>

(* "Can happen if fiber is unplugged between locking spll in slave mode    *)
(* and entering PP_SLAVE state"                                            *)
FreeAgain(n) ==
    IF n.timing = "BOUNDARY_CLOCK"
    THEN [spll_init(n, "FREE_RUNNING") EXCEPT !.timing = "FREE_MASTER"] ELSE n

(* The link goes down: the port is stopped, then wrc_ptp_link_down().      *)
wrc_ptp_link_down ==
    /\ wpLink = "up"
    /\ wpLink' = "down"
    /\ \E x \in wrc_ptp_stop(Node) :
          IF wpMode \in {"MASTER", "GM"}
          THEN Becomes(FreeAgain([x EXCEPT !.out.enable = TRUE]))
          ELSE Becomes(x)
    /\ UNCHANGED wpSets

wrc_pps_force ==
    /\ wpOut' = [wpOut EXCEPT !.force = ~@]
    /\ UNCHANGED <<wpMode, wpTiming, wpPll, wpPort, wpLink, wpSets>>

-----------------------------------------------------------------------------
(* wrc_ptp_update() and wrc_ptp_bmc_update(): how the port moves.  A       *)
(* slave-only node is never master, a locked grand master never slave; in  *)
(* the calibration mode the BMC algorithm does not run.                    *)
MayMove(from, to) ==
    CASE from = "INITIALIZING" -> to = "LISTENING"
      [] from = "LISTENING" -> to \in {"MASTER", "UNCALIBRATED"}
      [] from = "MASTER" -> to \in {"LISTENING", "UNCALIBRATED"}
      [] from = "UNCALIBRATED" -> to \in {"LISTENING", "MASTER", "SLAVE"}
      [] from = "SLAVE" -> to \in {"LISTENING", "MASTER", "UNCALIBRATED"}
      [] OTHER -> FALSE

MayBe(to) ==
    /\ to = "MASTER" => wpMode # "SLAVE"
    /\ to \in {"UNCALIBRATED", "SLAVE"} =>
          /\ wpMode # "ABSCAL"
          /\ ~(wpMode = "GM" /\ wpPll.locked)

PortMoves ==
    /\ wpPort.enabled
    /\ \E s \in PortStates :
          /\ MayMove(wpPort.state, s) /\ MayBe(s)
          /\ \E x \in Leave(Node, s) : Becomes(x)
    /\ UNCHANGED <<wpLink, wpSets>>

(* A bug: the PLL of a grand master is reprogrammed by the handshake.      *)
LockingEnabled_Always(n) == [spll_init(n, "SLAVE") EXCEPT !.timing = "BOUNDARY_CLOCK"]

(* wrpc_spll_locking_enable()                                              *)
LockingEnabled(n) ==
    IF n.mode = "GM" THEN n ELSE [spll_init(n, "SLAVE") EXCEPT !.timing = "BOUNDARY_CLOCK"]

(* The handshake of an UNCALIBRATED port locks the PLL to the fibre.       *)
wrpc_spll_locking_enable ==
    /\ wpPort.enabled /\ wpPort.state = "UNCALIBRATED"
    /\ Becomes(LockingEnabled(Node))
    /\ UNCHANGED <<wpLink, wpSets>>

(* The servo of a slave is in phase.                                       *)
InPhase ==
    /\ wpPort.state = "SLAVE"
    /\ wpOut' = [wpOut EXCEPT !.enable = TRUE]
    /\ UNCHANGED <<wpMode, wpTiming, wpPll, wpPort, wpLink, wpSets>>

PllLock ==
    /\ wpPll.mode # "off"
    /\ wpPll' = [wpPll EXCEPT !.locked = ~@]
    /\ UNCHANGED <<wpMode, wpTiming, wpOut, wpPort, wpLink, wpSets>>

WpNext ==
    \/ \E m \in NodeModes : wrc_ptp_set_mode(m)
    \/ Start \/ ChangeParameter \/ wrc_ptp_link_down \/ wrc_pps_force
    \/ PortMoves \/ wrpc_spll_locking_enable \/ InPhase \/ PllLock

WpSpec == WpInit /\ [][WpNext]_wpVars

-----------------------------------------------------------------------------
(* Whatever the port went through: a grand master keeps the PLL on its     *)
(* external reference, even when the BMC algorithm makes it slave of a     *)
(* better clock; and a master or grand master without a link is not left   *)
(* with a PLL that follows the fibre, and keeps its PPS on.                *)
PllFollowsMode ==
    /\ wpMode = "GM" => wpPll.mode = "GRAND_MASTER" /\ wpTiming = "GRAND_MASTER"
    /\ (wpMode \in {"MASTER", "GM"} /\ wpLink = "down") =>
          wpPll.mode # "SLAVE" /\ wpTiming # "BOUNDARY_CLOCK" /\ wpOut.enable
=============================================================================
