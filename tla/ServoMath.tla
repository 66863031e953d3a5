----------------------------- MODULE ServoMath ------------------------------
(***************************************************************************)
(* The arithmetic of the servo (servo.c): the offset from the master out   *)
(* of the six time stamps, and the fixed point computation of the delay    *)
(* asymmetry.  A RelativeDifference has 2 * WordBits bits, all but the two *)
(* highest are its fraction.                                               *)
(***************************************************************************)
EXTENDS TimeArith

-----------------------------------------------------------------------------
(* __mulRelativeDifference(): op1 * op2 / 2^62 in 64 bit arithmetic.       *)

Word     == 2 ^ WordBits
Full     == 2 ^ (2 * WordBits)
Unit     == 2 ^ (2 * WordBits - 2)
getMsbSet(v) == CHOOSE k \in 0..(2 * WordBits) : v < 2 ^ k /\ (k = 0 \/ v >= 2 ^ (k - 1))

Carry(lower, before) == IF lower < before THEN 1 ELSE 0

mulRelativeDifference(op1, op2) ==
  LET wanted == 2 * WordBits - getMsbSet(IF op1 < op2 THEN op1 ELSE op2)
      shift  == IF wanted > WordBits THEN WordBits ELSE wanted
      kept   == 2 ^ (WordBits - shift)                       \* mask + 1
      mid1   == (op1 \div Word) * (op2 % Word)
      mid2   == (op2 \div Word) * (op1 % Word)
      middle == (mid1 + mid2) % Full
      upper0 == ((op1 \div Word) * (op2 \div Word) * 2 ^ shift) % Full
      upper1 == upper0 + (IF middle < mid1 \/ middle < mid2 THEN Word ELSE 0)
      upper2 == (upper1 + ((middle - (middle % kept)) \div kept)) % Full
      lower0 == ((op1 % Word) * (op2 % Word)) \div 2
      lower  == (lower0 + (middle % kept) * 2 ^ (WordBits - 1)) % Full
      upper  == upper2 + Carry(lower, lower0)
  IN  ((upper + lower \div 2 ^ (2 * WordBits - shift - 1)) % Full) \div 2 ^ (shift - 2)

calculateDelayAsymmetry(coeff, meanDelay, constant) ==
  LET product == mulRelativeDifference(Magnitude(coeff), Magnitude(meanDelay))
  IN  constant + IF Sign(coeff) # Sign(meanDelay) THEN -product ELSE product

(* Mutant: all the terms have one sign.                                    *)
AddTerm_NoAlternation(negative, sub, c, term) == IF negative THEN c + term + 1 ELSE c - term

AddTerm(negative, sub, c, term) ==
  IF negative THEN c + term + 1 ELSE IF sub THEN c - term ELSE c + term

(* pp_servo_calculateDelayAsymCoefficient(): alpha / (2 + alpha) as the    *)
(* sum of a geometric series; step[k] is <<sum, term, sub>> after k terms. *)
pp_servo_calculateDelayAsymCoefficient(alpha) ==
  LET a == Magnitude(alpha)
      step[k \in 0..(2 * WordBits)] ==
        IF k = 0 THEN <<a \div 2, mulRelativeDifference(a, a \div 2) \div 2, TRUE>>
        ELSE LET p == step[k - 1]
             IN  IF p[2] <= 2 THEN p
                 ELSE <<AddTerm(alpha < 0, p[3], p[1], p[2]),
                        mulRelativeDifference(a, p[2]) \div 2, ~p[3]>>
  IN  Sign(alpha) * step[2 * WordBits][1]

-----------------------------------------------------------------------------
(* pp_servo_calculate_delays(): t is the function of the six time stamps.  *)

calculate_e2e_delayMM(t) == pp_time_sub(pp_time_sub(t[4], t[1]), pp_time_sub(t[3], t[2]))
calculate_p2p_delayMM(t) == pp_time_sub(pp_time_sub(t[6], t[3]), pp_time_sub(t[5], t[4]))

(* The asymmetry is given in picoseconds here, as it is added.             *)
pp_servo_calculate_delays(t, p2p, asymPs) ==
  LET delayMM == IF p2p THEN calculate_p2p_delayMM(t) ELSE calculate_e2e_delayMM(t)
      meanPs  == pp_time_to_picos(delayMM) \div 2
      delayMS == picos_to_pp_time(meanPs + asymPs)
  IN  [meanDelay |-> picos_to_pp_time(meanPs),
       offsetFromMaster |-> pp_time_add(pp_time_sub(t[1], t[2]), delayMS)]
=============================================================================
