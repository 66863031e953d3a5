------------------------------- MODULE HwTime -------------------------------
(***************************************************************************)
(* Reading the time of the switch: wrdate_get() reads three registers of   *)
(* the PPS generator, which counts on while they are read: the high and    *)
(* the low word of the seconds, and the clock cycles within the second.    *)
(* The words are read again afterwards, and all of it if they differ.      *)
(***************************************************************************)
EXTENDS Integers

CONSTANTS CyclesPerSec, \* cycles of 16 ns in a second
          LowWords,     \* seconds the low word counts before it wraps: 2^32
          MaxSweep,     \* cycles that pass, at most, while all is read once
          MaxCycles     \* cycles under study

(* Reading all registers once takes a second less, at least, than a turn   *)
(* of the low word.                                                        *)
ASSUME HwAssumption ==
    /\ {CyclesPerSec, LowWords, MaxSweep, MaxCycles} \subseteq Nat \ {0}
    /\ MaxSweep + CyclesPerSec <= CyclesPerSec * LowWords

VARIABLES hwNow,    \* the instant, in cycles
          hwRead,   \* what wrdate_get() has read so far, and where it is
          hwStart   \* the instant the current turn of its loop began at

hwVars == <<hwNow, hwRead, hwStart>>

High(now)  == now \div (CyclesPerSec * LowWords)
Low(now)   == (now \div CyclesPerSec) % LowWords
Cycle(now) == now % CyclesPerSec

Nothing == [pc |-> "taih", taih |-> 0, tail |-> 0, nsec |-> 0, tmp1 |-> 0, tmp2 |-> 0]

HwTypeOK ==
    /\ hwNow \in 0..MaxCycles /\ hwStart \in 0..MaxCycles
    /\ hwRead \in [pc : {"taih", "tail", "nsec", "tmp1", "tmp2", "done"},
                   taih : Nat, tail : Nat, nsec : Nat, tmp1 : Nat, tmp2 : Nat]

HwInit ==
    /\ hwNow \in 0..CyclesPerSec - 1
    /\ hwRead = Nothing
    /\ hwStart = hwNow

Counts ==
    /\ hwNow < MaxCycles
    /\ hwRead.pc \in {"taih", "done"} \/ hwNow - hwStart < MaxSweep
    /\ hwNow' = hwNow + 1
    /\ UNCHANGED <<hwRead, hwStart>>

(* One access to a register.                                               *)
ReadRegister(from, field, value, to) ==
    /\ hwRead.pc = from
    /\ hwRead' = [hwRead EXCEPT !.pc = to, ![field] = value]
    /\ hwStart' = IF from = "taih" THEN hwNow ELSE hwStart
    /\ UNCHANGED hwNow

(* A bug: only one of the words is compared.                               *)
Stable_HighOnly(r) == r.tmp1 = r.taih

(* The condition of the loop.                                              *)
Stable(r) == r.tmp1 = r.taih /\ r.tmp2 = r.tail

wrdate_get ==
    \/ ReadRegister("taih", "taih", High(hwNow), "tail")
    \/ ReadRegister("tail", "tail", Low(hwNow), "nsec")
    \/ ReadRegister("nsec", "nsec", Cycle(hwNow), "tmp1")
    \/ ReadRegister("tmp1", "tmp1", High(hwNow), "tmp2")
    \/ LET r == [hwRead EXCEPT !.tmp2 = Low(hwNow)]
       IN ReadRegister("tmp2", "tmp2", Low(hwNow), IF Stable(r) THEN "done" ELSE "taih")

(* The next call.                                                          *)
Again ==
    /\ hwRead.pc = "done"
    /\ hwRead' = Nothing
    /\ UNCHANGED <<hwNow, hwStart>>

HwNext == Counts \/ wrdate_get \/ Again

HwSpec == HwInit /\ [][HwNext]_hwVars

-----------------------------------------------------------------------------
(* The value returned: t->secs and t->scaled_nsecs as one number.          *)
Returned == (hwRead.taih * LowWords + hwRead.tail) * CyclesPerSec + hwRead.nsec

(* The time returned is one the clock had while the last turn of the loop  *)
(* read it, whichever counters overflowed between two of the reads.        *)
InstantRead == hwRead.pc = "done" => Returned \in hwStart..hwNow
=============================================================================
