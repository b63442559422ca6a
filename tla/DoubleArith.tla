----------------------------- MODULE DoubleArith -----------------------------
(***************************************************************************)
(* U/ as rf_uslas of src/rf.c does it without RF_DOUBLE_ARITH: a restoring *)
(* division in place, one bit of the quotient at a time, the quotient      *)
(* growing in the low cell from which the numerator is shifted out.        *)
(***************************************************************************)
EXTENDS Cells

VARIABLES
  uh, ul, v,  \* the numerator, and later remainder and quotient; the divisor
  weight,     \* 2^(RF_WORD_SIZE_BITS - i), with i the loop's counter
  done,       \* rf_uslas has returned
  uh0, ul0    \* history: the numerator given

vars == <<uh, ul, v, weight, done, uh0, ul0>>

Init ==
  /\ uh \in Word /\ ul \in Word /\ v \in Word
  /\ uh0 = uh /\ ul0 = ul
  /\ weight = W
  /\ done = FALSE

\* Half of the divisors are refused: the shift would lose the top bit.
Refused == v >= TopBit \/ uh0 >= v

Refuse ==
  /\ ~done /\ weight = W /\ Refused
  /\ uh' = W - 1 /\ ul' = W - 1
  /\ done' = TRUE
  /\ UNCHANGED <<v, weight, uh0, ul0>>

Shifted == Wrapped(2 * uh + Flag(ul >= TopBit))

\* A loop that forgets to set the bit of the quotient where nothing is left.
SubtractsAbove == Shifted > v

Subtracts == Shifted >= v

DivideStep ==
  /\ ~done /\ ~Refused /\ weight > 1
  /\ uh' = IF Subtracts THEN Shifted - v ELSE Shifted
  /\ ul' = Wrapped(2 * ul) + Flag(Subtracts)
  /\ weight' = weight \div 2
  /\ UNCHANGED <<v, done, uh0, ul0>>

Return ==
  /\ ~done /\ ~Refused /\ weight = 1
  /\ done' = TRUE
  /\ UNCHANGED <<uh, ul, v, weight, uh0, ul0>>

Next == Refuse \/ DivideStep \/ Return

Spec == Init /\ [][Next]_vars

-----------------------------------------------------------------------------
(* Properties.                                                             *)

TypeOK ==
  /\ uh \in Word /\ ul \in Word /\ v \in Word /\ uh0 \in Word /\ ul0 \in Word
  /\ weight \in 1 .. W /\ done \in BOOLEAN

\* Half of the division is done: the numerator is split at weight, its high part
\* divided, and the low part waits above the quotient.
Halfway ==
  \E k \in 1 .. W, m \in Word, q \in Word :
    /\ weight * k = W
    /\ m < weight /\ q < k /\ uh < v
    /\ ul = m * k + q
    /\ Double(uh0, ul0) = (q * v + uh) * weight + m

\* The loop keeps to its meaning at every step.
DivisionKept == ~Refused => Halfway

\* U/ by hand is U/ with RF_DOUBLE_ARITH, for every divisor below the top bit.
Divides ==
  done /\ v < TopBit => USlash(uh0, ul0, v) = <<ul, uh>>

\* U* by hand is U* with RF_DOUBLE_ARITH, which the comment "DOUBLE ARITHMETIC"
\* has both of.
Multiplies ==
  \A h \in 1 .. W : h * h = W => UStarByHand(uh0, v, h) = UStar(uh0, v)

\* D+ and DMINUS by hand carry from the low cell to the high one.
Carries ==
  /\ DPlusByHand(uh0, ul0, v, uh0) = DPlus(uh0, ul0, v, uh0)
  /\ DMinusByHand(uh0, ul0) = DMinus(uh0, ul0)

=============================================================================
