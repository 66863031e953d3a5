------------------------------ MODULE Timeout -------------------------------
(***************************************************************************)
(* The timers of a clock (timeout.c) over a counter of milliseconds that   *)
(* wraps (jiffies).  Counters that belong to the whole clock live in the   *)
(* array of the first port.  A timer is [init, rand, tmo]: initValueMs     *)
(* (-1 disables it), which_rand and the counter value it expires at.       *)
(***************************************************************************)
EXTENDS Integers, FiniteSets

CONSTANTS
  Wrap,      \* 2 ^ (bits of unsigned long)
  Ports,     \* the instances, numbered from 0
  Own,       \* TMO_CF_INSTANCE_DEPENDENT timers with TMO_CF_ALLOW_COMMON_SET
  Shared,    \* timers of the whole clock
  Logs,      \* the logarithms of the intervals that are configured or announced
  Second,    \* 1000 ms
  LogMin,    \* TIMEOUT_MIN_LOG_VALUE
  LogMax,    \* TIMEOUT_MAX_LOG_VALUE
  MaxLate    \* how long an expired timer is left alone, a bound

Timers  == Own \cup Shared
DISABLE == -1                       \* TIMEOUT_DISABLE_VALUE
Rands   == {"NONE", "70_130", "0_200"}

VARIABLES
  tmNow,     \* calc_timeout(0), the counter itself
  tmo,       \* [Ports -> [Timers -> timer]]
  tmLeft     \* for each running timer the true time until it expires (not in the code)

tmVars == <<tmNow, tmo, tmLeft>>

(* Mutant: counter values are compared as unsigned numbers.                *)
time_after_eq_Unsigned(a, b) == a >= b

(* jiffies.h: the sign of the difference, in two's complement.             *)
time_after_eq(a, b) == (a - b) % Wrap < Wrap \div 2
time_before(a, b)   == ~time_after_eq(a, b)
time_after(a, b)    == ~time_after_eq(b, a)

calc_timeout(ms) == (tmNow + ms) % Wrap

(* __pp_get_counter()                                                      *)
Holder(p, i) == IF i \in Shared THEN 0 ELSE p

(* pp_timeout_log_to_ms(): the logarithm is clamped.                       *)
pp_timeout_log_to_ms(log) ==
  IF log >= 0 THEN 2 ^ (IF log > LogMax THEN LogMax ELSE log) * Second
  ELSE Second \div 2 ^ (IF log < LogMin THEN -LogMin ELSE -log)

Intervals == {pp_timeout_log_to_ms(log) : log \in Logs}

(* What __pp_timeout_reset() may make of ms, over all random numbers.      *)
Randomised(ms, rand) ==
  LET part == (2 * ms) \div 5
  IN  IF rand = "NONE" \/ part <= 0 THEN {IF rand = "NONE" \/ ms <= 0 THEN ms ELSE part}
      ELSE IF rand = "70_130" THEN (2 * part)..(3 * part - 1)
      ELSE 0..(5 * part - 1)

(* A running timer is never further from now, before or after, than the    *)
(* counter can tell: also two timers from each other.                      *)
ASSUME TmAssumption ==
  /\ 0 \in Ports /\ Own \cap Shared = {}
  /\ MaxLate \in Nat /\ Wrap \in Nat /\ Wrap % 2 = 0
  /\ \A ms \in Intervals, r \in Rands : \A x \in Randomised(ms, r) :
        x \in Nat /\ x + MaxLate < Wrap \div 2

Timer(p, i) == tmo[Holder(p, i)][i]

Arm(p, i, init, ms) ==
  /\ tmo' = [tmo EXCEPT ![Holder(p, i)][i].init = init,
                        ![Holder(p, i)][i].tmo = calc_timeout(ms)]
  /\ tmLeft' = [tmLeft EXCEPT ![Holder(p, i)][i] = ms]

TmInit ==
  /\ tmNow \in 0..(Wrap - 1)
  /\ \E r \in Rands :
       tmo = [p \in Ports |-> [i \in Timers |->
                [init |-> DISABLE, tmo |-> 0, rand |-> IF i \in Own THEN r ELSE "NONE"]]]
  /\ tmLeft = [p \in Ports |-> [i \in Timers |-> 0]]

(* pp_timeout_set(): the interval is replaced and the timer started.       *)
pp_timeout_set(p, i) ==
  \E ms \in Intervals : Arm(p, i, ms, ms) /\ UNCHANGED tmNow

(* __pp_timeout_reset()                                                    *)
pp_timeout_reset(p, i, multiplier) ==
  /\ Timer(p, i).init # DISABLE
  /\ \E ms \in Randomised(Timer(p, i).init * multiplier, Timer(p, i).rand) :
       Arm(p, i, Timer(p, i).init, ms)
  /\ UNCHANGED tmNow

(* pp_initializing() and the entry into the next state: pp_timeout_init()  *)
(* gives the intervals, pp_timeout_setall() starts the timers with them.   *)
pp_timeout_setall(p) ==
  \E ms \in Intervals : \E first \in [Own -> UNION {Randomised(ms, r) : r \in Rands}] :
    /\ \A i \in Own : first[i] \in Randomised(ms, tmo[p][i].rand)
    /\ tmo' = [tmo EXCEPT ![p] = [i \in Timers |->
                 IF i \in Own THEN [tmo[p][i] EXCEPT !.init = ms, !.tmo = calc_timeout(first[i])]
                 ELSE tmo[p][i]]]
    /\ tmLeft' = [tmLeft EXCEPT ![p] = [i \in Timers |-> IF i \in Own THEN first[i]
                                                         ELSE tmLeft[p][i]]]
    /\ UNCHANGED tmNow

(* pp_timeout_init() while the timers run (a new interval was announced):  *)
(* it holds from the next reset on.                                        *)
pp_timeout_init(p) ==
  /\ \A i \in Own : tmo[p][i].init # DISABLE
  /\ \E ms \in Intervals :
       tmo' = [tmo EXCEPT ![p] = [i \in Timers |->
                 IF i \in Own THEN [tmo[p][i] EXCEPT !.init = ms] ELSE tmo[p][i]]]
  /\ UNCHANGED <<tmNow, tmLeft>>

(* pp_timeout_disable_all() of one port; that of the first port disables   *)
(* the shared timers too.                                                  *)
pp_timeout_disable_all(p) ==
  /\ tmo' = [tmo EXCEPT ![p] = [i \in Timers |->
               [tmo[p][i] EXCEPT !.init = DISABLE, !.tmo = 0]]]
  /\ UNCHANGED <<tmNow, tmLeft>>

(* pp_timeout()                                                            *)
pp_timeout(p, i) == Timer(p, i).init # DISABLE /\ time_after_eq(tmNow, Timer(p, i).tmo)

Earlier(a, b) == IF time_after(a, b) THEN b ELSE a

(* pp_next_delay_1/2/3(): milliseconds until the first of the timers.      *)
pp_next_delay(p, i1, i2, i3) ==
  LET first == Earlier(Earlier(Timer(p, i1).tmo, Timer(p, i2).tmo), Timer(p, i3).tmo)
  IN  IF time_before(tmNow, first) THEN (first - tmNow) % Wrap ELSE 0

(* The counter advances; nobody leaves an expired timer alone for half a   *)
(* turn of the counter (24 days), a bound.                                 *)
CounterTick ==
  /\ \A p \in Ports, i \in Timers : tmLeft[p][i] > -MaxLate
  /\ tmNow' = (tmNow + 1) % Wrap
  /\ tmLeft' = [p \in Ports |-> [i \in Timers |-> IF tmo[p][i].init = DISABLE THEN 0
                                                  ELSE tmLeft[p][i] - 1]]
  /\ UNCHANGED tmo

TmNext ==
  \/ CounterTick
  \/ \E p \in Ports : pp_timeout_disable_all(p) \/ pp_timeout_setall(p) \/ pp_timeout_init(p)
  \/ \E p \in Ports, i \in Timers : pp_timeout_set(p, i) \/ pp_timeout_reset(p, i, 1)

TmSpec == TmInit /\ [][TmNext]_tmVars

-----------------------------------------------------------------------------
(* pp_timeout() answers when, and only when, the time it was set for has   *)
(* passed, also when the counter wrapped in between, and for a shared      *)
(* timer whichever port asks; and pp_next_delay_3() never sleeps past the  *)
(* first of running timers nor returns before it.                          *)
TimersOnTime ==
  \A p \in Ports :
    /\ \A i \in Timers : Timer(p, i).init # DISABLE =>
         (pp_timeout(p, i) <=> tmLeft[Holder(p, i)][i] <= 0)
    /\ \A i1, i2, i3 \in Timers :
         (\A i \in {i1, i2, i3} : Timer(p, i).init # DISABLE) =>
           LET left == {tmLeft[Holder(p, i)][i] : i \in {i1, i2, i3}}
               d == pp_next_delay(p, i1, i2, i3)
           IN  /\ \A x \in left : d <= x \/ d = 0
               /\ d = 0 => \E x \in left : x <= 0
=============================================================================
