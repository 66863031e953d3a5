----------------------------- MODULE TimeArith ------------------------------
(***************************************************************************)
(* Time stamps and their arithmetic (lib/time-arith.c, lib/div64.c,        *)
(* include/ppsi/pp-time.h).  A struct pp_time is [s |-> secs, n |->        *)
(* scaled_nsecs]; both are signed and a negative time has no positive      *)
(* part.  The size of a second, the number of fraction bits and the width  *)
(* of the integers are parameters: the algorithms do not depend on them.   *)
(***************************************************************************)
EXTENDS Integers

CONSTANTS
  NSEC,      \* PP_NSEC_PER_SEC
  FracBits,  \* TIME_FRACBITS = TIME_INTERVAL_FRACBITS
  SecBits,   \* width of secs
  WordBits,  \* half the width of the dividend of __div64_32()
  RelBits,   \* REL_DIFF_FRACBITS
  RelHalf    \* bitWeight of the first fraction bit in relative_interval_to_string()

Frac      == 2 ^ FracBits
SNS_PER_S == NSEC * Frac
Rounding  == Frac \div 2
PSEC      == NSEC * 1000

(* The powers are numbers, as the provers cannot find out by themselves.   *)
ASSUME TimeAssumption ==
  /\ NSEC \in Nat \ {0} /\ FracBits \in Nat \ {0} /\ SecBits \in Nat /\ SecBits > 8
  /\ WordBits \in Nat \ {0} /\ RelBits \in Nat \ {0} /\ RelHalf \in Nat \ {0}
  /\ Frac \in Nat \ {0} /\ 2 ^ (SecBits - 2) \in Nat \ {0}

Sign(x) == IF x < 0 THEN -1 ELSE 1
Magnitude(x) == Sign(x) * x

-----------------------------------------------------------------------------
(* The "correct" bit: a time stamp is incorrect when the two highest bits  *)
(* of secs are 10, in other words far below every time there is.           *)
is_incorrect(t) == t.s < -(2 ^ (SecBits - 2))

(* The highest bit set, the next one cleared, the four below the top four  *)
(* bits of the byte set; the other bits keep what was there.               *)
mark_incorrect(t) ==
  [t EXCEPT !.s = (@ % 2 ^ (SecBits - 8)) + 15 * 2 ^ (SecBits - 8) - 2 ^ (SecBits - 1)]

(* Mutant: an incorrect time stamp is treated as a negative one.           *)
IsNegative_Incorrect(t) == t.s < 0 \/ (t.s = 0 /\ t.n < 0)

IsNegative(t) == (t.s < 0 /\ ~is_incorrect(t)) \/ (t.s = 0 /\ t.n < 0)

(* normalize_pp_time(): the two loops carry between the fields until the   *)
(* nanoseconds are in 0 .. SNS_PER_S, both ends included, of a time whose  *)
(* sign was taken off.                                                     *)
normalize_pp_time(t) ==
  LET sign == IF IsNegative(t) THEN -1 ELSE 1
      s == sign * t.s
      n == sign * t.n
      carry == IF n < 0 THEN n \div SNS_PER_S
               ELSE IF n > SNS_PER_S THEN (n - 1) \div SNS_PER_S
               ELSE 0
  IN  [s |-> sign * (s + carry), n |-> sign * (n - carry * SNS_PER_S)]

pp_time_add(a, b) == normalize_pp_time([s |-> a.s + b.s, n |-> a.n + b.n])
pp_time_sub(a, b) == normalize_pp_time([s |-> a.s - b.s, n |-> a.n - b.n])

pp_time_add_interval(t, i) == pp_time_add(t, normalize_pp_time([s |-> 0, n |-> i]))
pp_time_sub_interval(t, i) == pp_time_sub(t, normalize_pp_time([s |-> 0, n |-> i]))

(* Arithmetic shifts; the half second of an odd number of seconds goes the *)
(* way of the sign although the shift of secs rounds down.                 *)
pp_time_div2(t) ==
  [s |-> t.s \div 2,
   n |-> t.n \div 2 + IF t.s % 2 = 1 THEN Sign(t.s) * (SNS_PER_S \div 2) ELSE 0]

-----------------------------------------------------------------------------
(* Conversions.                                                            *)

ScaledToPicos(n) == (n * 1000 + Rounding) \div Frac

pp_time_to_picos(t) ==
  LET sign == IF t.s < 0 \/ (t.s = 0 /\ t.n < 0) THEN -1 ELSE 1
  IN  sign * (sign * t.s * PSEC + ScaledToPicos(sign * t.n))

PicosToScaled(ps) == (ps * Frac + Rounding) \div 1000

picos_to_pp_time(p) ==
  LET ns == Magnitude(p) \div 1000
  IN  [s |-> Sign(p) * (ns \div NSEC),
       n |-> Sign(p) * ((ns % NSEC) * Frac + PicosToScaled(Magnitude(p) % 1000))]

(* fd is in picoseconds * Frac.                                            *)
fixedDelta_to_pp_time(fd) == normalize_pp_time([s |-> 0, n |-> fd \div 1000])

pp_time_to_interval(t) == t.s * NSEC * Frac + t.n

(* Saturates at the values lo and hi, TIME_INTERVAL_MIN/MAX_PICOS_VALUE:   *)
(* lo, 2^47 ns below zero, is the least TimeInterval there is.             *)
picos_to_interval(p, lo, hi) ==
  LET m == Magnitude(p)
      scaled(x) == (x \div 1000) * Frac + ((x % 1000) * Frac) \div 1000
  IN  IF p <= lo THEN -scaled(-lo) ELSE IF p >= hi THEN scaled(hi) ELSE Sign(p) * scaled(m)

interval_to_picos(i) == Sign(i) * ScaledToPicos(Magnitude(i))

(* What is left of the nanoseconds in whole clock periods, as nanoseconds  *)
(* (ticks) and picoseconds.                                                *)
pp_time_hardwarize(t, period) ==
  LET sign == Sign(t.n)
      ps   == ScaledToPicos(sign * t.n)
      adj  == (ps \div period) * period
  IN  [ticks |-> sign * (adj \div 1000), picos |-> sign * (ps - adj)]

(* The fields that are printed.                                            *)
time_to_string(t) ==
  LET sign == IF t.s < 0 \/ (t.s = 0 /\ t.n < 0) THEN -1 ELSE 1
  IN  <<sign, sign * t.s, (sign * t.n) \div Frac, ScaledToPicos((sign * t.n) % Frac)>>

interval_to_string(i) ==
  LET r == Magnitude(i) + Rounding \div 1000
  IN  <<Sign(i), r \div Frac, ((r % Frac) * 1000) \div Frac>>

(* Adds the halved weights of the fraction bits, most significant first.   *)
relative_interval_to_string(x) ==
  LET m == Magnitude(x)
      weight[k \in 1..RelBits] == IF k = 1 THEN RelHalf ELSE weight[k - 1] \div 2
      sum[k \in 0..RelBits] ==
        IF k = 0 THEN 0
        ELSE sum[k - 1] + ((m \div 2 ^ (RelBits - k)) % 2) * weight[k]
  IN  <<Sign(x), m \div 2 ^ RelBits, sum[RelBits]>>

-----------------------------------------------------------------------------
(* __div64_32(): the high word is reduced with a hardware division, the    *)
(* rest by shifting and subtracting.  The answer is <<quotient, rest>>.    *)

(* How often the divisor is doubled: until it reaches rem or its sign bit. *)
Shifts(base, rem) ==
  CHOOSE k \in 0..(2 * WordBits) :
    /\ \A j \in 0..(k - 1) : base * 2 ^ j < rem /\ base * 2 ^ j < 2 ^ (2 * WordBits - 1)
    /\ base * 2 ^ k >= rem \/ base * 2 ^ k >= 2 ^ (2 * WordBits - 1)

div64_32(n, base) ==
  LET high  == n \div 2 ^ WordBits
      q     == IF high >= base THEN high \div base ELSE 0
      rem0  == n - q * base * 2 ^ WordBits
      k     == Shifts(base, rem0)
      step[j \in 0..(k + 1)] ==      \* <<res, rem>> after j turns of the loop
        IF j = 0 THEN <<q * 2 ^ WordBits, rem0>>
        ELSE LET b == base * 2 ^ (k + 1 - j)
                 r == step[j - 1]
             IN  IF r[2] >= b THEN <<r[1] + 2 ^ (k + 1 - j), r[2] - b>> ELSE r
  IN  step[k + 1]

-----------------------------------------------------------------------------
(* is_timestamp_incorrect_thres(): the time stamps of mask that must all   *)
(* be correct for the caller to go on.                                     *)
is_timestamp_incorrect(ts, mask) == \E i \in mask : is_incorrect(ts[i])

-----------------------------------------------------------------------------
(* What a time stands for.                                                 *)

(* The length of a time, in scaled nanoseconds.                            *)
Instant(t) == t.s * SNS_PER_S + t.n

(* The two fields do not disagree, and the nanoseconds fit in a second.    *)
Normal(t) == /\ Magnitude(t.n) <= SNS_PER_S
             /\ t.s > 0 => t.n >= 0
             /\ t.s < 0 => t.n <= 0
=============================================================================
