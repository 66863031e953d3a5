------------------------------ MODULE WrsTiming ------------------------------
(***************************************************************************)
(* The timing mode of the switch: the HAL daemon owns the mode, the PLL    *)
(* and the PPS output; ppsi drives them through RPC calls that can fail,   *)
(* from its startup, from the main loop (grand_master_initialized(),       *)
(* check_PLL_state()), from the clock quality (bmc_update_clock_quality()) *)
(* and from the ports that lock to a master (time-wrs/wrs-time.c).  ppsi   *)
(* can die and be started again; the HAL goes on.                          *)
(*                                                                         *)
(* The PLL may change state between two handlers, not inside one.          *)
(***************************************************************************)
EXTENDS Integers

CONSTANTS Classes,      \* configured clock: "GM" (clockClass GM_LOCKED) or "BC"
          MaxPllChanges,\* changes of the PLL by itself
          MaxRpcErrors, \* RPC calls that fail
          MaxCrashes    \* times ppsi is killed and restarted

Modes == {"GRAND_MASTER", "FREE_MASTER", "BOUNDARY_CLOCK", "DISABLED"}
PllStates == {"locked", "unlocked", "holdover"}

VARIABLES wtClass,  \* the configured clock class, kept over restarts
          wtHal,    \* the HAL: timing mode, PLL state, PPS output
          wt,       \* the globals of ppsi
          wtLeft    \* what the environment may still do

wtVars == <<wtClass, wtHal, wt, wtLeft>>

WtTypeOK ==
    /\ wtClass \in Classes
    /\ wtHal \in [mode : Modes, pll : PllStates, pps : BOOLEAN]
    /\ wt \in [pc : {"start", "wait", "run"}, retry : 0..2, read : PllStates \cup {"none"},
               timingMode : Modes,
               locking : {"NONE", "LOCKING", "LOCKED", "ERROR"},
               initialized : BOOLEAN, tmoIndex : 0..1, expired : BOOLEAN,
               last : PllStates \cup {"none"}, port : {"idle", "locking", "slave"}]
    /\ wtLeft \in [pll : Nat, errors : Nat, crashes : Nat]

(* A fresh process: the static variables of the code.                      *)
Fresh == [pc |-> "start", retry |-> 2, read |-> "none", timingMode |-> "GRAND_MASTER",
          locking |-> "NONE", initialized |-> FALSE, tmoIndex |-> 0, expired |-> FALSE,
          last |-> "none", port |-> "idle"]

WtInit ==
    /\ wtClass \in Classes
    /\ wtHal \in [mode : Modes, pll : {"locked", "unlocked"}, pps : {FALSE}]
    /\ wt = Fresh
    /\ wtLeft = [pll |-> MaxPllChanges, errors |-> MaxRpcErrors, crashes |-> MaxCrashes]

-----------------------------------------------------------------------------
(* The handlers run on a record x = [w, h, e]: the globals, the HAL and    *)
(* the RPC errors left, and return the set of outcomes.                    *)
Failed(x) == IF x.e > 0 THEN {[x EXCEPT !.e = @ - 1]} ELSE {}

(* wrs_set_timing_mode(): the HAL programs the PLL, which has to lock anew *)
(* in this mode; the result is ignored by most callers.                    *)
set_timing_mode(x, m) ==
    Failed(x) \cup
    {[x EXCEPT !.h.mode = m, !.h.pll = "unlocked",
               !.w.timingMode = m, !.w.locking = "LOCKING"]}

(* wrs_get_timing_mode(), when the call succeeds.                          *)
got_timing_mode(x) == [x EXCEPT !.w.timingMode = x.h.mode]

(* wrs_enable_timing_output(): no caller looks at the result.              *)
enable_timing_output(x, on) == Failed(x) \cup {[x EXCEPT !.h.pps = on]}

(* wrs_get_timing_mode_state(): while the PLL is unlocked in grand master  *)
(* mode the mode is set again every TIMEOUT_REFRESH_GRAND_MASTER_MS.       *)
(* The outcomes are pairs <<state read or "error", x>>.                    *)
Refreshed(x) ==
    IF x.h.mode # "GRAND_MASTER" THEN {got_timing_mode(x)}
    ELSE LET armed == IF x.w.tmoIndex = 0
                      THEN [got_timing_mode(x) EXCEPT !.w.tmoIndex = 1, !.w.expired = FALSE]
                      ELSE got_timing_mode(x)
         IN IF armed.w.expired
            THEN {[y EXCEPT !.w.expired = FALSE] : y \in set_timing_mode(armed, "GRAND_MASTER")}
            ELSE {armed}

get_timing_mode_state(x) ==
    {<<"error", y>> : y \in Failed(x)} \cup
    IF x.h.pll = "unlocked"
    THEN {<<"unlocked", y>> : y \in Failed(x) \cup Refreshed(x)}
    ELSE {<<x.h.pll, [x EXCEPT !.w.tmoIndex = 0]>>}

(* bmc_update_clock_quality() of a grand master: when the PLL is found     *)
(* locked and was not, the timing output is enabled.                       *)
update_clock_quality(x) ==
    IF wtClass # "GM" THEN {x}
    ELSE UNION {LET st == r[1]
                    y == r[2]
                IN IF st = "error" \/ st = y.w.last THEN {y}
                   ELSE {[z EXCEPT !.w.last = st] :
                           z \in IF st = "locked" THEN enable_timing_output(y, TRUE) ELSE {y}}
                : r \in get_timing_mode_state(x)}

(* Mutant: a PLL that has locked for the first time is not noticed.         *)
WasNotLocked_Lost(w) == w.locking = "ERROR"

WasNotLocked(w) == w.locking \in {"LOCKING", "ERROR"}

(* The lock state after the PLL state has been read.                       *)
Locking(w, st) ==
    IF st = "locked" THEN "LOCKED"
    ELSE IF st = "unlocked" /\ w.locking = "LOCKED" THEN "ERROR"
    ELSE w.locking

check_PLL_state(x) ==
    UNION {LET st == r[1]
               y == r[2]
           IN IF st = "error" THEN {y}
              ELSE {[z EXCEPT !.w.locking = Locking(z.w, st)] :
                      z \in IF y.w.timingMode = "GRAND_MASTER" /\ st = "locked" /\ WasNotLocked(y.w)
                            THEN enable_timing_output(y, TRUE) ELSE {y}}
           : r \in get_timing_mode_state(x)}

(* A step of ppsi: one of the outcomes of a handler.                       *)
Step(outcomes) ==
    \E x \in outcomes :
       /\ wt' = x.w /\ wtHal' = x.h
       /\ wtLeft' = [wtLeft EXCEPT !.errors = x.e]
       /\ UNCHANGED wtClass

Now == [w |-> wt, h |-> wtHal, e |-> wtLeft.errors]

-----------------------------------------------------------------------------
(* main() of the switch: the mode found in the HAL is kept when ppsi can   *)
(* start from it, and set to free running otherwise.                       *)
KeptMode(mode) == mode = "FREE_MASTER" \/ (mode = "GRAND_MASTER" /\ wtClass = "GM")

StartMode(x) == IF KeptMode(x.h.mode) THEN {x} ELSE set_timing_mode(x, "FREE_MASTER")

Startup ==
    /\ wt.pc = "start"
    /\ Step(StartMode([got_timing_mode(Now) EXCEPT !.w.locking = "LOCKING", !.w.pc = "wait"]))

(* The wait for the PLL: two looks a second apart.                         *)
WaitPll ==
    /\ wt.pc = "wait" /\ wt.retry > 0 /\ wt.read # "locked"
    /\ Step({[r[2] EXCEPT !.w.retry = @ - 1,
                          !.w.read = IF r[1] = "error" THEN @ ELSE r[1]]
             : r \in get_timing_mode_state(Now)})

(* The end of the startup.  A state that could never be read is whatever   *)
(* the uninitialised variable holds.                                       *)
Started ==
    /\ wt.pc = "wait" /\ (wt.retry = 0 \/ wt.read = "locked")
    /\ \E st \in (IF wt.read = "none" THEN PllStates ELSE {wt.read}) :
          LET lk == IF st = "locked" THEN "LOCKED" ELSE "LOCKING"
          IN Step(enable_timing_output([Now EXCEPT !.w.locking = lk, !.w.pc = "run",
                                                   !.w.retry = 0, !.w.read = "none"],
                                       lk = "LOCKED" /\ wtClass = "GM"))

(* grand_master_initialized(): the first calls of the main loop.           *)
grand_master_initialized ==
    /\ wt.pc = "run" /\ ~wt.initialized
    /\ LET done(x) == {[y EXCEPT !.w.initialized = TRUE] : y \in update_clock_quality(x)}
           x == got_timing_mode(Now)
       IN IF wtClass # "GM" THEN Step(done(Now))
          ELSE IF wtHal.mode # "GRAND_MASTER" THEN Step(set_timing_mode(x, "GRAND_MASTER"))
          ELSE Step(done(x))

(* The BMC calculation of the main loop, followed by check_PLL_state().    *)
RunBmca ==
    /\ wt.pc = "run" /\ wt.initialized
    /\ Step(UNION {check_PLL_state(x) : x \in update_clock_quality(Now)})

(* A port of a boundary clock: wrs_locking_enable() when it starts to lock *)
(* to its master, wrs_locking_disable() when this fails, and when it       *)
(* leaves SLAVE wrs_locking_reset() and the output disabled.  A GM_LOCKED  *)
(* clock is never slave (BMC decision M1 or P1).                           *)
locking_enable ==
    /\ wt.pc = "run" /\ wt.initialized /\ wtClass = "BC" /\ wt.port = "idle"
    /\ Step(set_timing_mode([Now EXCEPT !.w.locking = "LOCKING", !.w.port = "locking"],
                            "BOUNDARY_CLOCK"))

locking_disable ==
    /\ wt.port = "locking"
    /\ LET x == [got_timing_mode(Now) EXCEPT !.w.port = "idle"]
       IN Step(IF wtHal.mode = "BOUNDARY_CLOCK" THEN set_timing_mode(x, "FREE_MASTER") ELSE {x})

(* wrs_locking_poll() finds the PLL locked; the servo of the new slave     *)
(* brings the clock in phase and enables the output.                       *)
BecomesSlave ==
    /\ wt.port = "locking" /\ wtHal.pll = "locked"
    /\ Step(enable_timing_output([Now EXCEPT !.w.port = "slave"], TRUE))

LeaveSlave(x) ==
    UNION {enable_timing_output([y EXCEPT !.w.locking = "LOCKING"], FALSE)
           : y \in set_timing_mode(x, "FREE_MASTER")}

locking_reset ==
    /\ wt.port = "slave"
    /\ Step(LeaveSlave([Now EXCEPT !.w.port = "idle"]))

-----------------------------------------------------------------------------
(* The refresh timer runs out.                                             *)
RefreshExpires ==
    /\ wt.tmoIndex = 1 /\ ~wt.expired
    /\ wt' = [wt EXCEPT !.expired = TRUE]
    /\ UNCHANGED <<wtClass, wtHal, wtLeft>>

(* The PLL locks by itself; its reference comes and goes.                  *)
PllLocks ==
    /\ wtHal.pll # "locked"
    /\ wtHal' = [wtHal EXCEPT !.pll = "locked"]
    /\ UNCHANGED <<wtClass, wt, wtLeft>>

PllChange ==
    /\ wtLeft.pll > 0
    /\ \E p \in {"unlocked"} \cup (IF wtHal.mode = "GRAND_MASTER" THEN {"holdover"} ELSE {}) :
          p # wtHal.pll /\ wtHal' = [wtHal EXCEPT !.pll = p]
    /\ wtLeft' = [wtLeft EXCEPT !.pll = @ - 1]
    /\ UNCHANGED <<wtClass, wt>>

(* ppsi dies and is started again by the switch.                           *)
Crash ==
    /\ wtLeft.crashes > 0 /\ wt # Fresh
    /\ wt' = Fresh
    /\ wtLeft' = [wtLeft EXCEPT !.crashes = @ - 1]
    /\ UNCHANGED <<wtClass, wtHal>>

Loop == Startup \/ WaitPll \/ Started \/ grand_master_initialized \/ RunBmca

WtNext ==
    \/ Loop
    \/ locking_enable \/ locking_disable \/ BecomesSlave \/ locking_reset
    \/ RefreshExpires \/ PllLocks \/ PllChange \/ Crash

WtSpec == WtInit /\ [][WtNext]_wtVars

(* The main loop always comes round; a reference that stays makes the PLL  *)
(* lock, after at most a refresh.                                          *)
WtFair == WF_wtVars(Loop) /\ WF_wtVars(PllLocks)

-----------------------------------------------------------------------------

(* Whatever mode the HAL was found in, whichever call fails and however    *)
(* often ppsi is restarted, a clock configured as grand master ends up in  *)
(* grand master mode, and with its PPS output on.                          *)
GmOn == wtClass = "GM" => wtHal.mode = "GRAND_MASTER" /\ wtHal.pps

GmOutputs == <>[]GmOn
=============================================================================
