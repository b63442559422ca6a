-------------------------------- MODULE Cells --------------------------------
(***************************************************************************)
(* The cells of the Forth machine of src/rf.c: unsigned numbers of         *)
(* WordSize bytes (uintptr_t), in memory at byte addresses, and the double *)
(* arithmetic on them, which src/rf.c has twice: with a C type of twice    *)
(* the width (RF_DOUBLE_ARITH), and by hand where the compiler has none.   *)
(* No variables: Core and DoubleArith use these operators.                 *)
(***************************************************************************)
EXTENDS Integers, Sequences

CONSTANTS
  Byte,       \* values of a byte, 256 in the code
  WordSize,   \* bytes of a cell, RF_WORD_SIZE
  BigEndian   \* RF_BE

ASSUME CellAssumption == Byte \in Nat /\ Byte > 1 /\ WordSize \in Nat \ {0}

\* Powers of Byte.
Power[i \in 0 .. WordSize] == IF i = 0 THEN 1 ELSE Power[i - 1] * Byte

W == Power[WordSize]
Word == 0 .. W - 1
TopBit == W \div 2

\* A cell holds a whole number of bits: W is a power of two.
ASSUME BitsAssumption == \A n \in 1 .. W : W % n = 0 => n = 1 \/ n % 2 = 0

Wrapped(n) == n % W
Signed(a) == IF a < TopBit THEN a ELSE a - W   \* intptr_t
Flag(p) == IF p THEN 1 ELSE 0

-----------------------------------------------------------------------------
(* Memory.                                                                 *)

\* Where the byte of weight Power[i] of the cell at a is.
Place(a, i) == IF BigEndian THEN a + WordSize - 1 - i ELSE a + i

Cell(m, a) ==
  LET sum[i \in 0 .. WordSize] ==
        IF i = 0 THEN 0 ELSE sum[i - 1] + m[Place(a, i - 1)] * Power[i - 1]
  IN  sum[WordSize]

Stored(m, a, n) ==
  LET put[i \in 0 .. WordSize] ==
        IF i = 0 THEN m
        ELSE [put[i - 1] EXCEPT ![Place(a, i - 1)] = (n \div Power[i - 1]) % Byte]
  IN  put[WordSize]

-----------------------------------------------------------------------------
(* Double numbers are pairs of the high and the low cell.                  *)

Double(h, l) == h * W + l
Split(d) == <<(d \div W) % W, d % W>>

\* A carry that is also taken where nothing was added.
DPlusOffByOne(ah, al, bh, bl) ==
  LET cl == Wrapped(al + bl)
  IN  <<Wrapped(ah + bh + Flag(cl <= al)), cl>>

\* rf_dplus without RF_DOUBLE_ARITH: a carry is seen by the low cell wrapping.
DPlusByHand(ah, al, bh, bl) ==
  LET cl == Wrapped(al + bl)
  IN  <<Wrapped(ah + bh + Flag(cl < al)), cl>>

\* rf_dminu without RF_DOUBLE_ARITH
DMinusByHand(bh, bl) == <<Wrapped(Wrapped(-bh) - Flag(bl # 0)), Wrapped(-bl)>>

\* rf_ustar without RF_DOUBLE_ARITH: four products of half cells, of Half values.
UStarByHand(a, b, Half) ==
  LET rl  == (a % Half) * (b % Half)
      rm1 == (a \div Half) * (b % Half)
      rm2 == (a % Half) * (b \div Half)
      rml == (rm1 % Half) + (rm2 % Half)
      rmh == (rm1 \div Half) + (rm2 \div Half) + Flag(rml >= Half)
  IN  <<Wrapped((a \div Half) * (b \div Half) + rmh), Wrapped(rl + rml * Half)>>

\* The same with RF_DOUBLE_ARITH.
DPlus(ah, al, bh, bl) == Split(Double(ah, al) + Double(bh, bl))
DMinus(bh, bl) == Split(-Double(bh, bl))
UStar(a, b) == Split(a * b)

\* rf_uslas with RF_DOUBLE_ARITH: the quotient and the remainder.
USlash(uh, ul, v) ==
  IF uh >= v THEN <<W - 1, W - 1>>
  ELSE <<Double(uh, ul) \div v, Double(uh, ul) % v>>

=============================================================================
