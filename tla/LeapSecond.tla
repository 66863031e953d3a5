----------------------------- MODULE LeapSecond -----------------------------
(***************************************************************************)
(* A leap second on its way through a chain of clocks: the grandmaster     *)
(* reads UTC offset and leap flags from its kernel (bmc_m1()), every clock *)
(* below takes them from the Announce record of its parent (bmc_s1()) and  *)
(* passes them on (pp_lib_may_issue_announce()), around midnight each one  *)
(* trusts its own kernel (get_utc_offset() and set_utc_offset() of         *)
(* time-unix, which time-wrs uses too).                                    *)
(*                                                                         *)
(* A tick is an Announce interval.  The day starts at noon; the clocks are *)
(* synchronised, but pass a tick in any order, and an Announce may be late *)
(* or lost.                                                                *)
(***************************************************************************)
EXTENDS Integers, Sequences, FiniteSets

CONSTANTS Chain,       \* the number of clocks; clock 1 is the grandmaster
          Midnight,    \* ticks from noon to midnight
          Noon,        \* ticks from noon to noon
          Days,        \* days under study
          Leaps,       \* what may happen at the first midnight: 1, -1 or 0
          MaxLost,     \* consecutive Announces a link may lose
          MaxRestarts  \* restarts of ppsi on some clock

ASSUME LeapAssumption ==
    /\ Chain \in Nat \ {0} /\ Days \in Nat \ {0}
    /\ Midnight \in Nat /\ Midnight > 3 /\ Noon \in Nat /\ Noon > Midnight + 4
    /\ Leaps \subseteq {-1, 0, 1} /\ MaxLost \in Nat /\ MaxRestarts \in Nat

Clocks == 1..Chain
Below  == 2..Chain
Base   == 37     \* PP_DEFAULT_UTC_OFFSET

VARIABLES lsLeap,    \* the leap second of the first midnight
          lsTick,    \* per clock, ticks since the first noon
          lsKern,    \* per clock, the kernel: TAI offset, status flag, leap done
          lsProp,    \* per clock, timePropertiesDS: offset and leap (1, -1, 0)
          lsRec,     \* per clock, the Announce record of its parent, or None
          lsChan,    \* per clock, Announces on their way to it
          lsLost,    \* per clock, Announces lost in a row on the link to it
          lsRestarts

lsVars == <<lsLeap, lsTick, lsKern, lsProp, lsRec, lsChan, lsLost, lsRestarts>>

None == [off |-> 0, leap |-> 0, ok |-> FALSE]
Announces == [off : Base - 2 .. Base + 2, leap : {-1, 0, 1}, ok : {TRUE}]

LsTypeOK ==
    /\ lsLeap \in Leaps
    /\ lsTick \in [Clocks -> 0..Days * Noon]
    /\ lsKern \in [Clocks -> [tai : Base - 2 .. Base + 2, flag : {-1, 0, 1}, done : BOOLEAN]]
    /\ lsProp \in [Clocks -> [off : Base - 2 .. Base + 2, leap : {-1, 0, 1}]]
    /\ lsRec \in [Below -> Announces \cup {None}]
    /\ lsChan \in [Below -> Seq(Announces)]
    /\ lsLost \in [Below -> 0..MaxLost]
    /\ lsRestarts \in 0..MaxRestarts

(* The time of day the kernel tells.                                       *)
TimeOfDay(n) == lsTick[n] % Noon
Afternoon(t) == t < Midnight                                \* hours >= 12
Approaching(t) == t >= Midnight - 2 /\ t < Midnight
ShortAfter(t) == t >= Midnight /\ t <= Midnight + 2

(* The offset UTC really has at a tick.                                    *)
Truth(k) == Base + (IF k >= Midnight THEN lsLeap ELSE 0)

(* The leap second is in the kernel of the grandmaster since noon.         *)
LsInit ==
    /\ lsLeap \in Leaps
    /\ lsTick = [n \in Clocks |-> 0]
    /\ lsKern = [n \in Clocks |-> [tai |-> Base, flag |-> IF n = 1 THEN lsLeap ELSE 0, done |-> FALSE]]
    /\ lsProp = [n \in Clocks |-> [off |-> Base, leap |-> 0]]
    /\ lsRec = [n \in Below |-> None]
    /\ lsChan = [n \in Below |-> <<>>]
    /\ lsLost = [n \in Below |-> 0]
    /\ lsRestarts = 0

-----------------------------------------------------------------------------
(* The kernel at midnight: it does what the flag says, once, and keeps the *)
(* flag until somebody clears it.                                          *)
KernelAt(k, t) ==
    IF t = Midnight /\ k.flag # 0 /\ ~k.done
    THEN [k EXCEPT !.tai = @ + k.flag, !.done = TRUE] ELSE k

(* unix_time_clear_utc_flags()                                             *)
Cleared(k) == [k EXCEPT !.flag = 0, !.done = FALSE]

(* unix_time_get_utc_offset(): what it returns, and the flags it clears    *)
(* before noon.                                                            *)
AfterGet(k, t) == IF Afternoon(t) THEN k ELSE Cleared(k)
LeapRead(k, t) == IF Afternoon(t) THEN k.flag ELSE 0

(* unix_time_set_utc_offset()                                              *)
set_utc_offset(k, off, leap) == [Cleared(k) EXCEPT !.tai = off, !.flag = leap]

(* The state of one clock, as the handlers pass it on: kernel k, data set  *)
(* p.                                                                      *)
bmc_m1(x, t) ==
    [k |-> AfterGet(x.k, t), p |-> [off |-> x.k.tai, leap |-> LeapRead(x.k, t)]]

(* A bug: the window after midnight is left out.                           *)
bmc_s1_NoWindow(x, r, t) ==
    IF Afternoon(t)
    THEN IF Approaching(t) \/ (x.k.flag = r.leap /\ x.k.tai = r.off) THEN x
         ELSE [k |-> set_utc_offset(x.k, r.off, r.leap), p |-> [off |-> r.off, leap |-> r.leap]]
    ELSE [k |-> IF x.p.off # r.off THEN [x.k EXCEPT !.tai = r.off] ELSE x.k,
          p |-> [off |-> r.off, leap |-> r.leap]]

(* bmc_s1(), the part on the time properties: r is the record.  In the     *)
(* afternoon the data set changes only together with the kernel.           *)
bmc_s1(x, r, t) ==
    IF Afternoon(t)
    THEN IF Approaching(t) \/ (x.k.flag = r.leap /\ x.k.tai = r.off) THEN x
         ELSE [k |-> set_utc_offset(x.k, r.off, r.leap), p |-> [off |-> r.off, leap |-> r.leap]]
    ELSE IF ShortAfter(t)
    THEN [k |-> AfterGet(x.k, t), p |-> [off |-> x.k.tai, leap |-> 0]]
    ELSE [k |-> IF x.p.off # r.off THEN [x.k EXCEPT !.tai = r.off] ELSE x.k,
          p |-> [off |-> r.off, leap |-> r.leap]]

(* pp_lib_may_issue_announce(): the data set right before it is sent.      *)
issue_announce(x, t) ==
    IF ShortAfter(t)
    THEN [k |-> AfterGet(x.k, t), p |-> [off |-> x.k.tai, leap |-> 0]] ELSE x

-----------------------------------------------------------------------------
(* A tick of clock n: the kernel, the BMC decision and the Announce to the *)
(* next clock.                                                             *)
Tick(n) ==
    LET t == (lsTick[n] + 1) % Noon
        x == [k |-> KernelAt(lsKern[n], t), p |-> lsProp[n]]
        y == IF n = 1 THEN bmc_m1(x, t)
             ELSE IF lsRec[n].ok THEN bmc_s1(x, lsRec[n], t)
             ELSE x
        z == IF n = Chain THEN y ELSE issue_announce(y, t)
    IN  /\ lsTick[n] < Days * Noon
        /\ \A m \in Clocks : lsTick[n] <= lsTick[m]          \* synchronised
        /\ n \in Below => Len(lsChan[n]) < 2     \* an Announce is a tick late at most
        /\ lsTick' = [lsTick EXCEPT ![n] = @ + 1]
        /\ lsKern' = [lsKern EXCEPT ![n] = z.k]
        /\ lsProp' = [lsProp EXCEPT ![n] = z.p]
        /\ lsChan' = IF n < Chain /\ (n = 1 \/ lsRec[n].ok)
                     THEN [lsChan EXCEPT ![n + 1] =
                             Append(@, [off |-> z.p.off, leap |-> z.p.leap, ok |-> TRUE])]
                     ELSE lsChan
        /\ UNCHANGED <<lsLeap, lsRec, lsLost, lsRestarts>>

(* An Announce arrives, at most a tick late, and replaces the record.      *)
Receive(n) ==
    /\ lsChan[n] # <<>>
    /\ lsRec' = [lsRec EXCEPT ![n] = Head(lsChan[n])]
    /\ lsChan' = [lsChan EXCEPT ![n] = Tail(@)]
    /\ lsLost' = [lsLost EXCEPT ![n] = 0]
    /\ UNCHANGED <<lsLeap, lsTick, lsKern, lsProp, lsRestarts>>

Lose(n) ==
    /\ lsChan[n] # <<>> /\ lsLost[n] < MaxLost
    /\ lsChan' = [lsChan EXCEPT ![n] = Tail(@)]
    /\ lsLost' = [lsLost EXCEPT ![n] = @ + 1]
    /\ UNCHANGED <<lsLeap, lsTick, lsKern, lsProp, lsRec, lsRestarts>>

(* ppsi is restarted: the offset is read from the kernel (main()), the     *)
(* flags are not.                                                          *)
Restart(n) ==
    /\ lsRestarts < MaxRestarts
    /\ lsRestarts' = lsRestarts + 1
    /\ lsProp' = [lsProp EXCEPT ![n] = [off |-> lsKern[n].tai, leap |-> 0]]
    /\ lsRec' = [lsRec EXCEPT ![n] = None]
    /\ UNCHANGED <<lsLeap, lsTick, lsKern, lsChan, lsLost>>

LsNext ==
    \/ \E n \in Clocks : Tick(n)
    \/ \E n \in Below : Receive(n) \/ Lose(n) \/ Restart(n)

LsSpec == LsInit /\ [][LsNext]_lsVars

-----------------------------------------------------------------------------
(* Without a restart every clock has the right offset at every tick,       *)
(* before and after midnight and on the next day: the leap second happens  *)
(* once, at midnight, whatever Announces with the old offset are still on  *)
(* their way.  A clock restarted meanwhile may miss the flags, and has the *)
(* right offset again before noon.                                         *)
LeapsOnce ==
    \A n \in Clocks :
       (\/ lsRestarts = 0 /\ lsTick[n] >= 1
        \/ TimeOfDay(n) = Noon - 1 /\ (n = 1 \/ lsRec[n].ok)) =>
          /\ lsKern[n].tai = Truth(lsTick[n])
          /\ lsProp[n].off = Truth(lsTick[n])
=============================================================================
