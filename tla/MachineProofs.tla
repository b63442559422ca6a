----------------------------- MODULE MachineProofs -----------------------------
(***************************************************************************)
(* Proofs about the Forth machine of src/rf.c, for cells of any number of  *)
(* bytes.                                                                  *)
(*                                                                         *)
(* The double arithmetic: U/ by hand is a division, and D+ and DMINUS by   *)
(* hand are those with RF_DOUBLE_ARITH.                                    *)
(*                                                                         *)
(* The linker of src/link.c: an image is linked in place, and becomes what *)
(* was saved.  What a cell is, the bytes of a number, where a chunk ends   *)
(* and what a move leaves are recursive functions; their values are known  *)
(* by an induction over the natural numbers, in sets (Stepwise).           *)
(***************************************************************************)
EXTENDS DoubleArith, Linker, SequenceTheorems, WellFoundedInduction, TLAPS

-----------------------------------------------------------------------------
(* Recursion over the natural numbers, in sets.                            *)

LEMMA SetInduction ==
  ASSUME NEW S, 0 \in S, \A n \in Nat : n \in S => n + 1 \in S
  PROVE  Nat \subseteq S
<1> DEFINE T == Nat \ S
           R == OpToRel(<, Nat)
<1>1. SUFFICES ASSUME T # {} PROVE FALSE
  OBVIOUS
<1>2. PICK m \in T : \A k \in T : <<k, m>> \notin R
  <2>1. IsWellFoundedOn(R, Nat)
    BY NatLessThanWellFounded
  <2> HIDE DEF R
  <2> QED
    BY <1>1, <2>1, WFMin
<1>3. \A k \in Nat : k < m => k \in S
  BY <1>2 DEF OpToRel
<1>4. m \in Nat /\ m # 0 /\ m \notin S
  BY <1>2
<1>5. m - 1 \in Nat /\ m - 1 < m /\ (m - 1) + 1 = m
  BY <1>4
<1>6. m - 1 \in S
  BY <1>3, <1>5
<1> QED
  BY <1>4, <1>5, <1>6

\* What starts with x and goes on with g exists, for any number of steps.
Repeats(f, x, g, k) == f[0] = x /\ \A i \in 1 .. k : f[i] = g[i][f[i - 1]]

LEMMA Recursion ==
  ASSUME NEW S, NEW x \in S, NEW k \in Nat, NEW g \in [1 .. k -> [S -> S]]
  PROVE  \E f \in [0 .. k -> S] : Repeats(f, x, g, k)
<1> DEFINE P == {n \in Nat : n <= k => \E f \in [0 .. n -> S] : Repeats(f, x, g, n)}
<1>1. 0 \in P
  <2> DEFINE f == [i \in 0 .. 0 |-> x]
  <2>1. f \in [0 .. 0 -> S] /\ Repeats(f, x, g, 0)
    BY DEF Repeats
  <2> QED
    BY <2>1
<1>2. ASSUME NEW n \in Nat, n \in P
      PROVE  n + 1 \in P
  <2> SUFFICES ASSUME n + 1 <= k
               PROVE  \E f \in [0 .. n + 1 -> S] : Repeats(f, x, g, n + 1)
    OBVIOUS
  <2>1. PICK e \in [0 .. n -> S] : Repeats(e, x, g, n)
    BY <1>2
  <2> DEFINE f == [i \in 0 .. n + 1 |-> IF i = n + 1 THEN g[n + 1][e[n]] ELSE e[i]]
  <2>2. n + 1 \in 1 .. k /\ n \in 0 .. n
    OBVIOUS
  <2>3. g[n + 1][e[n]] \in S
    BY <2>1, <2>2
  <2>4. f \in [0 .. n + 1 -> S]
    BY <2>1, <2>3
  <2>5. \A i \in 0 .. n : f[i] = e[i]
    BY <2>1
  <2>6. f[n + 1] = g[n + 1][e[n]]
    OBVIOUS
  <2> HIDE DEF f
  <2>7. f[0] = x
    BY <2>1, <2>5 DEF Repeats
  <2>8. ASSUME NEW i \in 1 .. n + 1 PROVE f[i] = g[i][f[i - 1]]
    <3>1. CASE i = n + 1
      <4>1. f[n] = e[n] /\ i - 1 = n
        BY <2>5, <3>1
      <4> QED
        BY <2>6, <3>1, <4>1
    <3>2. CASE i # n + 1
      <4>1. i \in 1 .. n /\ i - 1 \in 0 .. n /\ i \in 0 .. n
        BY <3>2
      <4>2. e[i] = g[i][e[i - 1]]
        BY <2>1, <4>1 DEF Repeats
      <4> QED
        BY <2>5, <4>1, <4>2
    <3> QED
      BY <3>1, <3>2
  <2> QED
    BY <2>4, <2>7, <2>8 DEF Repeats
<1>3. Nat \subseteq P
  <2> HIDE DEF P
  <2> QED
    BY <1>1, <1>2, SetInduction
<1>4. k \in P
  BY <1>3
<1> QED
  BY <1>4

-----------------------------------------------------------------------------
(* Powers of Byte, and the bytes of a number.                              *)

\* What a step of a recursion keeps.
LEMMA Kept ==
  ASSUME NEW k \in Nat, NEW h, NEW S, h[0] \in S,
         \A i \in 1 .. k : h[i - 1] \in S => h[i] \in S
  PROVE  \A i \in 0 .. k : h[i] \in S
<1> DEFINE P == {n \in Nat : n <= k => h[n] \in S}
<1>1. 0 \in P
  OBVIOUS
<1>2. ASSUME NEW n \in Nat, n \in P PROVE n + 1 \in P
  <2> SUFFICES ASSUME n + 1 <= k PROVE h[n + 1] \in S
    OBVIOUS
  <2>1. h[n] \in S
    BY <1>2
  <2>2. n + 1 \in 1 .. k /\ (n + 1) - 1 = n
    OBVIOUS
  <2> QED
    BY <2>1, <2>2
<1>3. Nat \subseteq P
  <2> HIDE DEF P
  <2> QED
    BY <1>1, <1>2, SetInduction
<1> QED
  BY <1>3

LEMMA Powers ==
  /\ \A i \in 0 .. WordSize : Power[i] \in Nat /\ Power[i] > 0
  /\ Power[0] = 1
  /\ \A i \in 1 .. WordSize : Power[i] = Power[i - 1] * Byte
<1> DEFINE S == Nat \ {0}
           g == [i \in 1 .. WordSize |-> [s \in S |-> s * Byte]]
           Is(f) == f = [i \in 0 .. WordSize |-> IF i = 0 THEN 1 ELSE f[i - 1] * Byte]
<1>0. WordSize \in Nat /\ Byte \in S
  BY CellAssumption
<1>1. \A s \in S : s * Byte \in S
  BY <1>0, Z3
<1>2. g \in [1 .. WordSize -> [S -> S]]
  BY <1>1
<1>3. PICK f \in [0 .. WordSize -> S] : Repeats(f, 1, g, WordSize)
  <2>1. PICK x : x = 1
    OBVIOUS
  <2>2. x \in S
    BY <2>1
  <2> HIDE DEF S, g
  <2>3. \E f \in [0 .. WordSize -> S] : Repeats(f, x, g, WordSize)
    BY <1>0, <1>2, <2>2, Recursion
  <2> QED
    BY <2>1, <2>3
<1>4. \A i \in 1 .. WordSize : f[i] = f[i - 1] * Byte
  <2> SUFFICES ASSUME NEW i \in 1 .. WordSize
               PROVE  f[i] = f[i - 1] * Byte
    OBVIOUS
  <2>1. i - 1 \in 0 .. WordSize
    BY <1>0
  <2>2. f[i - 1] \in S
    BY <1>3, <2>1
  <2>3. f[i] = g[i][f[i - 1]]
    <3> HIDE DEF S, g
    <3> QED
      BY <1>3 DEF Repeats
  <2> QED
    BY <2>2, <2>3
<1>5. Is(f)
  <2>0. f[0] = 1
    BY <1>3 DEF Repeats
  <2>1. f = [i \in 0 .. WordSize |-> f[i]]
    BY <1>3
  <2> HIDE DEF g, S
  <2>2. \A i \in 0 .. WordSize : i # 0 => i \in 1 .. WordSize
    BY <1>0
  <2>3. \A i \in 0 .. WordSize : f[i] = IF i = 0 THEN 1 ELSE f[i - 1] * Byte
    BY <1>4, <2>0, <2>2
  <2> QED
    BY <2>1, <2>3
<1>6. Is(Power)
  <2>1. Power = CHOOSE h : Is(h)
    BY DEF Power
  <2> HIDE DEF Is
  <2> QED
    BY <1>5, <2>1
<1>7. Power[0] = 1 /\ \A i \in 1 .. WordSize : Power[i] = Power[i - 1] * Byte
  <2>1. PICK p : p = Power
    OBVIOUS
  <2>2. p = [i \in 0 .. WordSize |-> IF i = 0 THEN 1 ELSE p[i - 1] * Byte]
    BY <1>6, <2>1
  <2>3. \A i \in 0 .. WordSize : p[i] = IF i = 0 THEN 1 ELSE p[i - 1] * Byte
    BY <2>2
  <2>4. \A i \in 1 .. WordSize : i \in 0 .. WordSize /\ i # 0
    BY <1>0
  <2>5. 0 \in 0 .. WordSize
    BY <1>0
  <2> QED
    BY <2>1, <2>3, <2>4, <2>5
<1>8. \A i \in 0 .. WordSize : Power[i] \in S
  <2>1. \A i \in 1 .. WordSize : Power[i - 1] \in S => Power[i] \in S
    BY <1>1, <1>7
  <2>2. Power[0] \in S
    BY <1>7
  <2> HIDE DEF S
  <2> QED
    BY <1>0, <2>1, <2>2, Kept
<1> QED
  BY <1>7, <1>8


LEMMA SizeFacts ==
  /\ WordSize \in Nat /\ WordSize > 0 /\ Byte \in Nat /\ Byte > 1
  /\ W \in Nat /\ W > 0 /\ W = Power[WordSize]
<1>1. WordSize \in 0 .. WordSize
  BY CellAssumption
<1> QED
  BY <1>1, CellAssumption, Powers DEF W

\* What a number between two multiples of v says of division by v.
LEMMA Quotient ==
  ASSUME NEW n \in Int, NEW q \in Int, NEW r \in Nat, NEW d \in Nat,
         n = q * d + r, r < d
  PROVE  n \div d = q /\ n % d = r
  BY Z3

LEMMA SmallRemainder ==
  ASSUME NEW n \in Nat, NEW d \in Nat, n < d
  PROVE  n % d = n
  BY Z3

\* Quotient and remainder.
LEMMA Divided ==
  ASSUME NEW n \in Int, NEW d \in Nat \ {0}
  PROVE  \E q \in Int, r \in Nat : n = q * d + r /\ r < d /\ n \div d = q /\ n % d = r
<1>1. n \div d \in Int /\ n % d \in Nat /\ n % d < d
  BY Z3
<1>2. n = (n \div d) * d + (n % d)
  BY Z3
<1> QED
  BY <1>1, <1>2

LEMMA DividedNat ==
  ASSUME NEW n \in Nat, NEW d \in Nat \ {0}
  PROVE  n \div d \in Nat
  BY Z3

\* A remainder may be taken before a sum.
LEMMA RemainderOfSum ==
  ASSUME NEW x \in Int, NEW y \in Int, NEW d \in Nat \ {0}
  PROVE  ((x % d) + y) % d = (x + y) % d
<1>1. PICK q \in Int, r \in Nat : x = q * d + r /\ r < d /\ x % d = r
  BY Divided
<1>2. PICK q2 \in Int, r2 \in Nat : r + y = q2 * d + r2 /\ r2 < d /\ (r + y) % d = r2
  <2>1. r + y \in Int
    OBVIOUS
  <2> QED
    BY <2>1, Divided
<1>3. x + y = (q + q2) * d + r2
  BY <1>1, <1>2, Z3
<1>4. (x + y) % d = r2
  <2>1. PICK z \in Int, t \in Int : z = x + y /\ t = q + q2
    OBVIOUS
  <2>2. z = t * d + r2
    BY <1>3, <2>1
  <2>3. z % d = r2
    BY <1>2, <2>2, Quotient
  <2> QED
    BY <2>1, <2>3
<1> QED
  BY <1>1, <1>2, <1>4

\* Two digits are less than the product of their bases.
LEMMA TwoDigits ==
  ASSUME NEW r \in Nat, NEW p \in Nat, r < p, NEW d \in Nat, NEW c \in Nat, d < c
  PROVE  r + d * p < p * c /\ r + d * p \in Nat
<1>1. PICK e \in Nat : c = d + 1 + e
  <2>1. c - 1 - d \in Nat /\ c = d + 1 + (c - 1 - d)
    OBVIOUS
  <2> QED
    BY <2>1
<1>2. p * c = d * p + p + p * e
  BY <1>1, Z3
<1>3. d * p \in Nat /\ p * e \in Nat
  OBVIOUS
<1> QED
  BY <1>2, <1>3

\* The byte of a number that has the weight Power[i].
ByteOf(n, i) == (n \div Power[i]) % Byte

LEMMA ByteIsByte ==
  ASSUME NEW n \in Nat, NEW i \in 0 .. WordSize
  PROVE  ByteOf(n, i) \in 0 .. Byte - 1
<1>1. PICK d \in Nat \ {0} : d = Power[i]
  BY Powers
<1>2. n \div d \in Nat
  BY DividedNat
<1>3. PICK x \in Nat : x = n \div d
  BY <1>2
<1>4. x % Byte \in 0 .. Byte - 1
  BY SizeFacts
<1> QED
  BY <1>1, <1>3, <1>4 DEF ByteOf

\* Sums of bytes b times their weights.
Sums(s, b) ==
  /\ s[0] = 0
  /\ \A i \in 1 .. WordSize : s[i] = s[i - 1] + b[i - 1] * Power[i - 1]

LEMMA SumsTyped ==
  ASSUME NEW b \in [0 .. WordSize - 1 -> Nat], NEW s, Sums(s, b)
  PROVE  \A i \in 0 .. WordSize : s[i] \in Nat
<1>1. s[0] \in Nat
  BY DEF Sums
<1>2. ASSUME NEW i \in 1 .. WordSize, s[i - 1] \in Nat PROVE s[i] \in Nat
  <2>1. i - 1 \in 0 .. WordSize - 1 /\ i - 1 \in 0 .. WordSize
    BY SizeFacts
  <2>2. PICK d \in Nat, p \in Nat, t \in Nat : d = b[i - 1] /\ p = Power[i - 1] /\ t = s[i - 1]
    BY <1>2, <2>1, Powers
  <2>3. d * p \in Nat
    OBVIOUS
  <2>4. s[i] = t + d * p
    BY <2>2 DEF Sums
  <2> QED
    BY <2>3, <2>4
<1> QED
  BY <1>1, <1>2, SizeFacts, Kept

\* The bytes of a number add up to it.
LEMMA BytesAddUp ==
  ASSUME NEW n \in Nat, NEW b \in [0 .. WordSize - 1 -> Nat], NEW s, Sums(s, b),
         \A i \in 0 .. WordSize - 1 : b[i] = ByteOf(n, i)
  PROVE  s[WordSize] = n % W
<1> DEFINE Holds(i) == s[i] = n % Power[i]
<1>1. Holds(0)
  <2>1. Power[0] = 1 /\ n % 1 = 0
    BY Powers
  <2> QED
    BY <2>1 DEF Sums
<1>2. ASSUME NEW i \in 1 .. WordSize, Holds(i - 1) PROVE Holds(i)
  <2>1. i - 1 \in 0 .. WordSize - 1 /\ i - 1 \in 0 .. WordSize /\ i \in 0 .. WordSize
    BY SizeFacts
  <2>2. PICK p \in Nat \ {0} : p = Power[i - 1]
    BY <2>1, Powers
  <2>3. Power[i] = p * Byte
    BY <2>2, Powers
  <2>4. PICK q \in Int, r \in Nat : n = q * p + r /\ r < p /\ n \div p = q /\ n % p = r
    BY Divided
  <2>5. PICK q2 \in Int, d \in Nat : q = q2 * Byte + d /\ d < Byte /\ q % Byte = d
    <3>1. Byte \in Nat \ {0}
      BY SizeFacts
    <3> QED
      BY <3>1, Divided
  <2>6. b[i - 1] = d
    BY <2>1, <2>2, <2>4, <2>5 DEF ByteOf
  <2>7. s[i] = r + d * p
    BY <1>2, <2>2, <2>4, <2>6 DEF Sums
  <2>8. n = q2 * (p * Byte) + (r + d * p)
    <3>1. (q2 * Byte + d) * p = q2 * (p * Byte) + d * p
      BY SizeFacts, Z3
    <3>2. q2 * (p * Byte) \in Int /\ d * p \in Int
      BY SizeFacts
    <3> QED
      BY <2>4, <2>5, <3>1, <3>2
  <2>9. r + d * p < p * Byte /\ r + d * p \in Nat /\ p * Byte \in Nat
    BY <2>4, <2>5, SizeFacts, TwoDigits
  <2>10. n % (p * Byte) = r + d * p
    <3>1. PICK y \in Nat, t \in Nat : y = p * Byte /\ t = r + d * p
      BY <2>9
    <3>2. n = q2 * y + t /\ t < y
      BY <2>8, <2>9, <3>1
    <3>3. n % y = t
      BY <3>2, Quotient
    <3> QED
      BY <3>1, <3>3
  <2> QED
    BY <2>3, <2>7, <2>10
<1>3. \A i \in 0 .. WordSize : Holds(i)
  <2> DEFINE h == [i \in 0 .. WordSize |-> IF Holds(i) THEN 0 ELSE 1]
  <2>1. h[0] \in {0}
    BY <1>1, SizeFacts
  <2>2. \A i \in 1 .. WordSize : h[i - 1] \in {0} => h[i] \in {0}
    <3> SUFFICES ASSUME NEW i \in 1 .. WordSize, h[i - 1] \in {0} PROVE h[i] \in {0}
      OBVIOUS
    <3>1. i - 1 \in 0 .. WordSize /\ i \in 0 .. WordSize
      BY SizeFacts
    <3>2. Holds(i - 1)
      BY <3>1
    <3>3. Holds(i)
      BY <1>2, <3>2
    <3> QED
      BY <3>1, <3>3
  <2>3. \A i \in 0 .. WordSize : h[i] \in {0}
    <3> HIDE DEF h
    <3> QED
      BY <2>1, <2>2, SizeFacts, Kept
  <2> QED
    BY <2>3
<1>4. Holds(WordSize)
  BY <1>3, SizeFacts
<1> QED
  BY <1>4, SizeFacts


\* A property of the numbers up to k, step by step.
LEMMA Stepwise ==
  ASSUME NEW k \in Nat, NEW j \in 0 .. k, NEW P, j \in P,
         \A i \in j + 1 .. k : i - 1 \in P => i \in P
  PROVE  \A i \in j .. k : i \in P
<1> DEFINE Q == {n \in Nat : j + n <= k => j + n \in P}
<1>1. 0 \in Q
  OBVIOUS
<1>2. ASSUME NEW n \in Nat, n \in Q PROVE n + 1 \in Q
  <2> SUFFICES ASSUME j + (n + 1) <= k PROVE j + (n + 1) \in P
    OBVIOUS
  <2>1. j + n \in P
    BY <1>2
  <2>2. j + (n + 1) \in j + 1 .. k /\ (j + (n + 1)) - 1 = j + n
    OBVIOUS
  <2> QED
    BY <2>1, <2>2
<1>3. Nat \subseteq Q
  <2> HIDE DEF Q
  <2> QED
    BY <1>1, <1>2, SetInduction
<1>4. \A i \in j .. k : i - j \in Nat /\ j + (i - j) = i
  OBVIOUS
<1> QED
  BY <1>3, <1>4

\* A number that is the sum of bytes is below W, and its bytes are those.
LEMMA SumsBelow ==
  ASSUME NEW b \in [0 .. WordSize - 1 -> 0 .. Byte - 1], NEW s, Sums(s, b)
  PROVE  \A i \in 0 .. WordSize : s[i] \in Nat /\ s[i] < Power[i]
<1> DEFINE P == {i \in 0 .. WordSize : s[i] \in Nat /\ s[i] < Power[i]}
<1>1. 0 \in P
  BY SizeFacts, Powers DEF Sums
<1>2. ASSUME NEW i \in 1 .. WordSize, i - 1 \in P PROVE i \in P
  <2>1. i - 1 \in 0 .. WordSize - 1 /\ i - 1 \in 0 .. WordSize /\ i \in 0 .. WordSize
    BY SizeFacts
  <2>2. PICK p \in Nat \ {0} : p = Power[i - 1]
    BY <2>1, Powers
  <2>3. Power[i] = p * Byte
    BY <2>2, Powers
  <2>4. PICK d \in Nat : d = b[i - 1] /\ d < Byte
    <3>1. b[i - 1] \in 0 .. Byte - 1
      BY <2>1
    <3> QED
      BY <3>1, SizeFacts
  <2>5. PICK r \in Nat : r = s[i - 1] /\ r < p
    BY <1>2, <2>2
  <2>6. s[i] = r + d * p
    BY <2>2, <2>4, <2>5 DEF Sums
  <2>7. r + d * p < p * Byte /\ r + d * p \in Nat
    BY <2>4, <2>5, SizeFacts, TwoDigits
  <2> QED
    BY <2>1, <2>3, <2>6, <2>7
<1>3. \A i \in 0 .. WordSize : i \in P
  <2>1. 0 \in 0 .. WordSize /\ WordSize \in Nat
    BY SizeFacts
  <2>2. \A i \in 0 + 1 .. WordSize : i - 1 \in P => i \in P
    BY <1>2
  <2> HIDE DEF P
  <2> QED
    BY <1>1, <2>1, <2>2, Stepwise
<1> QED
  BY <1>3

LEMMA BytesOfSum ==
  ASSUME NEW b \in [0 .. WordSize - 1 -> 0 .. Byte - 1], NEW s, Sums(s, b)
  PROVE  /\ s[WordSize] \in Word
         /\ \A j \in 0 .. WordSize - 1 : ByteOf(s[WordSize], j) = b[j]
<1>1. s[WordSize] \in Word
  BY SumsBelow, SizeFacts DEF Word
<1>2. ASSUME NEW j \in 0 .. WordSize - 1 PROVE ByteOf(s[WordSize], j) = b[j]
  <2>1. j \in 0 .. WordSize /\ j + 1 \in 0 .. WordSize /\ j + 1 \in 1 .. WordSize
        /\ (j + 1) - 1 = j
    BY SizeFacts
  <2>2. PICK p \in Nat \ {0} : p = Power[j]
    BY <2>1, Powers
  <2>3. PICK y \in Nat \ {0} : y = p * Byte /\ y = Power[j + 1]
    BY <2>1, <2>2, Powers
  <2>4. PICK d \in Nat : d = b[j] /\ d < Byte
    <3>1. b[j] \in 0 .. Byte - 1
      OBVIOUS
    <3> QED
      BY <3>1, SizeFacts
  <2>5. PICK r \in Nat : r = s[j] /\ r < p
    BY <2>1, <2>2, SumsBelow
  <2>6. PICK c \in Nat : c = r + d * p
    OBVIOUS
  <2> DEFINE P == {i \in j + 1 .. WordSize :
                     \E t \in Nat, u \in Nat : s[i] = t * y + c /\ Power[i] = u * y}
  <2>61. j + 1 \in P
    <3>1. s[j + 1] = 0 * y + c
      <4>1. s[j + 1] = r + d * p
        BY <2>1, <2>2, <2>4, <2>5 DEF Sums
      <4> QED
        BY <2>6, <4>1
    <3>2. Power[j + 1] = 1 * y
      BY <2>3
    <3>3. j + 1 \in j + 1 .. WordSize
      BY SizeFacts
    <3> QED
      BY <3>1, <3>2, <3>3
  <2>7. ASSUME NEW i \in (j + 1) + 1 .. WordSize, i - 1 \in P PROVE i \in P
    <3>1. i \in 1 .. WordSize /\ i - 1 \in 0 .. WordSize - 1 /\ i \in j + 1 .. WordSize
      BY SizeFacts
    <3>2. PICK t \in Nat, u \in Nat :
            s[i - 1] = t * y + c /\ Power[i - 1] = u * y
      BY <2>7
    <3>3. PICK e \in Nat : e = b[i - 1]
      <4>1. b[i - 1] \in 0 .. Byte - 1
        BY <3>1
      <4> QED
        BY <4>1, SizeFacts
    <3>4. s[i] = t * y + c + e * (u * y)
      BY <3>1, <3>2, <3>3 DEF Sums
    <3>5. t * y + c + e * (u * y) = (t + e * u) * y + c
      <4>1. (t + e * u) * y = t * y + e * (u * y)
        BY Z3
      <4>2. t * y \in Nat /\ e * (u * y) \in Nat
        OBVIOUS
      <4> QED
        BY <4>1, <4>2
    <3>6. Power[i] = (u * Byte) * y
      <4>1. Power[i] = (u * y) * Byte
        BY <3>1, <3>2, Powers
      <4>2. (u * y) * Byte = (u * Byte) * y
        BY SizeFacts, Z3
      <4> QED
        BY <4>1, <4>2
    <3>7. t + e * u \in Nat /\ u * Byte \in Nat
      BY SizeFacts
    <3> QED
      BY <3>1, <3>4, <3>5, <3>6, <3>7
  <2>8. WordSize \in P
    <3>1. \A i \in (j + 1) + 1 .. WordSize : i - 1 \in P => i \in P
      BY <2>7
    <3>2. WordSize \in j + 1 .. WordSize /\ WordSize \in Nat
      BY SizeFacts
    <3> HIDE DEF P
    <3> QED
      BY <2>1, <2>61, <3>1, <3>2, Stepwise
  <2>9. PICK t \in Nat : s[WordSize] = t * y + c
    BY <2>8
  <2>10. PICK n \in Nat : n = s[WordSize]
    BY <1>1 DEF Word
  <2>11. n = (t * Byte + d) * p + r
    <3>1. (t * Byte + d) * p = t * (p * Byte) + d * p
      BY SizeFacts, Z3
    <3>2. n = t * (p * Byte) + (r + d * p)
      BY <2>3, <2>6, <2>9, <2>10
    <3>3. PICK z1 \in Nat, z2 \in Nat : z1 = t * (p * Byte) /\ z2 = d * p
      BY SizeFacts
    <3> QED
      BY <3>1, <3>2, <3>3
  <2>12. n \div p = t * Byte + d
    <3>1. PICK q \in Int : q = t * Byte + d
      BY SizeFacts
    <3>2. n = q * p + r
      BY <2>11, <3>1
    <3>3. r < p /\ p \in Nat /\ n \in Int
      BY <2>5
    <3> HIDE DEF P
    <3>4. n \div p = q
      BY <3>2, <3>3, Quotient
    <3> QED
      BY <3>1, <3>4
  <2>13. (t * Byte + d) % Byte = d
    <3>1. PICK q \in Int : q = t * Byte + d
      BY SizeFacts
    <3>2. PICK z \in Nat : z = Byte
      BY SizeFacts
    <3>3. q = t * z + d /\ d < z
      BY <2>4, <3>1, <3>2
    <3>4. q % z = d
      BY <3>3, Quotient
    <3> QED
      BY <3>1, <3>2, <3>4
  <2> QED
    BY <2>2, <2>4, <2>10, <2>12, <2>13 DEF ByteOf
<1> QED
  BY <1>1, <1>2


-----------------------------------------------------------------------------
(* Cells in memory.                                                        *)

LEMMA Places ==
  ASSUME NEW a \in Nat
  PROVE  /\ \A i \in 0 .. WordSize - 1 : Place(a, i) \in a .. a + WordSize - 1
         /\ \A i, j \in 0 .. WordSize - 1 : Place(a, i) = Place(a, j) => i = j
         /\ \A x \in a .. a + WordSize - 1 : \E i \in 0 .. WordSize - 1 : x = Place(a, i)
         /\ \A i \in 0 .. WordSize - 1 : Place(a, i) - a = Place(0, i)
         /\ \A i \in 0 .. WordSize - 1 : Place(a, i) \in Nat
<1>1. CASE BigEndian
  <2>1. \A i : Place(a, i) = a + WordSize - 1 - i /\ Place(0, i) = 0 + WordSize - 1 - i
    BY <1>1 DEF Place
  <2>2. \A x \in a .. a + WordSize - 1 : \E i \in 0 .. WordSize - 1 : x = Place(a, i)
    <3> SUFFICES ASSUME NEW x \in a .. a + WordSize - 1
                 PROVE  \E i \in 0 .. WordSize - 1 : x = Place(a, i)
      OBVIOUS
    <3>1. a + WordSize - 1 - x \in 0 .. WordSize - 1
      BY SizeFacts
    <3>2. Place(a, a + WordSize - 1 - x) = x
      BY <2>1, SizeFacts
    <3> QED
      BY <3>1, <3>2
  <2>3. \A i \in 0 .. WordSize - 1 : Place(a, i) \in a .. a + WordSize - 1
    BY <2>1, SizeFacts
  <2>4. \A i, j \in 0 .. WordSize - 1 : Place(a, i) = Place(a, j) => i = j
    <3> SUFFICES ASSUME NEW i \in 0 .. WordSize - 1, NEW j \in 0 .. WordSize - 1,
                        Place(a, i) = Place(a, j)
                 PROVE  i = j
      OBVIOUS
    <3>1. a + WordSize - 1 - i = a + WordSize - 1 - j
      BY <2>1
    <3> QED
      BY <3>1, SizeFacts
  <2>5. \A i \in 0 .. WordSize - 1 : Place(a, i) - a = Place(0, i) /\ Place(a, i) \in Nat
    BY <2>1, SizeFacts
  <2> QED
    BY <2>2, <2>3, <2>4, <2>5
<1>2. CASE ~BigEndian
  <2>1. \A i : Place(a, i) = a + i /\ Place(0, i) = 0 + i
    BY <1>2 DEF Place
  <2>2. \A x \in a .. a + WordSize - 1 : \E i \in 0 .. WordSize - 1 : x = Place(a, i)
    <3> SUFFICES ASSUME NEW x \in a .. a + WordSize - 1
                 PROVE  \E i \in 0 .. WordSize - 1 : x = Place(a, i)
      OBVIOUS
    <3>1. x - a \in 0 .. WordSize - 1
      BY SizeFacts
    <3>2. Place(a, x - a) = x
      BY <2>1, SizeFacts
    <3> QED
      BY <3>1, <3>2
  <2>3. \A i \in 0 .. WordSize - 1 : Place(a, i) \in a .. a + WordSize - 1
    BY <2>1, SizeFacts
  <2>4. \A i, j \in 0 .. WordSize - 1 : Place(a, i) = Place(a, j) => i = j
    <3> SUFFICES ASSUME NEW i \in 0 .. WordSize - 1, NEW j \in 0 .. WordSize - 1,
                        Place(a, i) = Place(a, j)
                 PROVE  i = j
      OBVIOUS
    <3>1. a + i = a + j
      BY <2>1
    <3> QED
      BY <3>1, SizeFacts
  <2>5. \A i \in 0 .. WordSize - 1 : Place(a, i) - a = Place(0, i) /\ Place(a, i) \in Nat
    BY <2>1, SizeFacts
  <2> QED
    BY <2>2, <2>3, <2>4, <2>5
<1> QED
  BY <1>1, <1>2

\* A cell is the sum of its bytes.
LEMMA CellSum ==
  ASSUME NEW m, NEW a, NEW b \in [0 .. WordSize - 1 -> Nat],
         \A i \in 0 .. WordSize - 1 : m[Place(a, i)] = b[i]
  PROVE  \E s : Sums(s, b) /\ s[WordSize] = Cell(m, a)
<1> DEFINE g == [i \in 1 .. WordSize |-> [x \in Nat |-> x + b[i - 1] * Power[i - 1]]]
           Is(f) == f = [i \in 0 .. WordSize |->
                           IF i = 0 THEN 0 ELSE f[i - 1] + m[Place(a, i - 1)] * Power[i - 1]]
<1>0. \A i \in 1 .. WordSize : i - 1 \in 0 .. WordSize - 1 /\ i - 1 \in 0 .. WordSize /\ i # 0
  BY SizeFacts
<1>1. \A i \in 1 .. WordSize, x \in Nat : x + b[i - 1] * Power[i - 1] \in Nat
  <2> SUFFICES ASSUME NEW i \in 1 .. WordSize, NEW x \in Nat
               PROVE  x + b[i - 1] * Power[i - 1] \in Nat
    OBVIOUS
  <2>1. PICK d \in Nat, p \in Nat : d = b[i - 1] /\ p = Power[i - 1]
    BY <1>0, Powers
  <2>2. d * p \in Nat
    OBVIOUS
  <2> QED
    BY <2>1, <2>2
<1>2. g \in [1 .. WordSize -> [Nat -> Nat]]
  BY <1>1
<1>3. PICK f \in [0 .. WordSize -> Nat] : Repeats(f, 0, g, WordSize)
  <2>1. PICK x : x = 0
    OBVIOUS
  <2>2. x \in Nat
    BY <2>1
  <2> HIDE DEF g
  <2>3. \E f \in [0 .. WordSize -> Nat] : Repeats(f, x, g, WordSize)
    BY SizeFacts, <1>2, <2>2, Recursion
  <2> QED
    BY <2>1, <2>3
<1>4. \A i \in 1 .. WordSize : f[i] = f[i - 1] + b[i - 1] * Power[i - 1]
  <2> SUFFICES ASSUME NEW i \in 1 .. WordSize
               PROVE  f[i] = f[i - 1] + b[i - 1] * Power[i - 1]
    OBVIOUS
  <2>2. f[i - 1] \in Nat
    BY <1>0, <1>3
  <2>3. f[i] = g[i][f[i - 1]]
    <3> HIDE DEF g
    <3> QED
      BY <1>3 DEF Repeats
  <2> QED
    BY <2>2, <2>3
<1>5. f[0] = 0
  BY <1>3 DEF Repeats
<1>6. Is(f)
  <2>1. f = [i \in 0 .. WordSize |-> f[i]]
    BY <1>3
  <2> HIDE DEF g
  <2>2. \A i \in 0 .. WordSize : i # 0 => i \in 1 .. WordSize
    BY SizeFacts
  <2>3. \A i \in 0 .. WordSize :
          f[i] = IF i = 0 THEN 0 ELSE f[i - 1] + m[Place(a, i - 1)] * Power[i - 1]
    BY <1>0, <1>4, <1>5, <2>2
  <2> QED
    BY <2>1, <2>3
<1>7. PICK s : s = CHOOSE h : Is(h)
  OBVIOUS
<1>8. Is(s)
  <2> HIDE DEF Is
  <2> QED
    BY <1>6, <1>7
<1>9. Cell(m, a) = s[WordSize]
  BY <1>7 DEF Cell
<1>10. Sums(s, b)
  <2>1. \A i \in 0 .. WordSize :
          s[i] = IF i = 0 THEN 0 ELSE s[i - 1] + m[Place(a, i - 1)] * Power[i - 1]
    BY <1>8
  <2>2. 0 \in 0 .. WordSize /\ \A i \in 1 .. WordSize : i \in 0 .. WordSize
    BY SizeFacts
  <2> HIDE DEF Is, g
  <2> QED
    BY <1>0, <2>1, <2>2 DEF Sums
<1> QED
  BY <1>9, <1>10

\* A cell that holds the bytes of a number is that number.
LEMMA CellOfBytes ==
  ASSUME NEW m, NEW a, NEW n \in Nat,
         \A i \in 0 .. WordSize - 1 : m[Place(a, i)] = ByteOf(n, i)
  PROVE  Cell(m, a) = n % W
<1> DEFINE b == [i \in 0 .. WordSize - 1 |-> ByteOf(n, i)]
<1>1. b \in [0 .. WordSize - 1 -> Nat] /\ \A i \in 0 .. WordSize - 1 : b[i] = ByteOf(n, i)
  <2>1. \A i \in 0 .. WordSize - 1 : i \in 0 .. WordSize
    BY SizeFacts
  <2>2. \A i \in 0 .. WordSize - 1 : ByteOf(n, i) \in Nat
    BY <2>1, ByteIsByte, SizeFacts
  <2> QED
    BY <2>2
<1>2. \A i \in 0 .. WordSize - 1 : m[Place(a, i)] = b[i]
  BY <1>1
<1> HIDE DEF b
<1>3. PICK s : Sums(s, b) /\ s[WordSize] = Cell(m, a)
  BY <1>1, <1>2, CellSum
<1> QED
  BY <1>1, <1>3, BytesAddUp

\* A cell of bytes is a number below W, and those are its bytes.
LEMMA BytesOfCell ==
  ASSUME NEW m, NEW a,
         \A i \in 0 .. WordSize - 1 : m[Place(a, i)] \in 0 .. Byte - 1
  PROVE  /\ Cell(m, a) \in Word
         /\ \A i \in 0 .. WordSize - 1 : ByteOf(Cell(m, a), i) = m[Place(a, i)]
<1> DEFINE b == [i \in 0 .. WordSize - 1 |-> m[Place(a, i)]]
<1>1. b \in [0 .. WordSize - 1 -> 0 .. Byte - 1]
  OBVIOUS
<1>2. b \in [0 .. WordSize - 1 -> Nat]
  <2>1. \A d \in 0 .. Byte - 1 : d \in Nat
    BY SizeFacts
  <2> QED
    BY <2>1
<1>3. \A i \in 0 .. WordSize - 1 : m[Place(a, i)] = b[i]
  OBVIOUS
<1> HIDE DEF b
<1>4. PICK s : Sums(s, b) /\ s[WordSize] = Cell(m, a)
  BY <1>2, <1>3, CellSum
<1>5. /\ s[WordSize] \in Word
      /\ \A j \in 0 .. WordSize - 1 : ByteOf(s[WordSize], j) = b[j]
  BY <1>1, <1>4, BytesOfSum
<1> QED
  BY <1>3, <1>4, <1>5

\* What has a number stored in memory of addresses D.
HasStored(new, D, m, a, n) ==
  /\ new \in [D -> Nat]
  /\ \A i \in 0 .. WordSize - 1 : new[Place(a, i)] = ByteOf(n, i)
  /\ \A x \in D \ (a .. a + WordSize - 1) : new[x] = m[x]

\* Storing a number changes the bytes of one cell, to those of the number.
LEMMA StoredBytes ==
  ASSUME NEW D, NEW m \in [D -> Nat], NEW a \in Nat, a .. a + WordSize - 1 \subseteq D,
         NEW n \in Nat
  PROVE  HasStored(Stored(m, a, n), D, m, a, n)
<1> DEFINE S == [D -> Nat]
           g == [i \in 1 .. WordSize |->
                   [x \in S |-> [x EXCEPT ![Place(a, i - 1)] = ByteOf(n, i - 1)]]]
           Is(f) == f = [i \in 0 .. WordSize |->
                           IF i = 0 THEN m
                           ELSE [f[i - 1] EXCEPT ![Place(a, i - 1)] = (n \div Power[i - 1]) % Byte]]
<1>0. \A i \in 1 .. WordSize : i - 1 \in 0 .. WordSize - 1 /\ i - 1 \in 0 .. WordSize /\ i # 0
  BY SizeFacts
<1>1. \A i \in 1 .. WordSize, x \in S :
        [x EXCEPT ![Place(a, i - 1)] = ByteOf(n, i - 1)] \in S
  <2> SUFFICES ASSUME NEW i \in 1 .. WordSize, NEW x \in S
               PROVE  [x EXCEPT ![Place(a, i - 1)] = ByteOf(n, i - 1)] \in S
    OBVIOUS
  <2>1. ByteOf(n, i - 1) \in Nat
    BY <1>0, ByteIsByte, SizeFacts
  <2> QED
    BY <2>1
<1>2. g \in [1 .. WordSize -> [S -> S]]
  BY <1>1
<1>3. PICK f \in [0 .. WordSize -> S] : Repeats(f, m, g, WordSize)
  <2>2. m \in S
    OBVIOUS
  <2> HIDE DEF g, S
  <2> QED
    BY SizeFacts, <1>2, <2>2, Recursion
<1>4. \A i \in 1 .. WordSize :
        /\ f[i - 1] \in S
        /\ f[i] = [f[i - 1] EXCEPT ![Place(a, i - 1)] = ByteOf(n, i - 1)]
  <2> SUFFICES ASSUME NEW i \in 1 .. WordSize
               PROVE  /\ f[i - 1] \in S
                      /\ f[i] = [f[i - 1] EXCEPT ![Place(a, i - 1)] = ByteOf(n, i - 1)]
    OBVIOUS
  <2> HIDE DEF S
  <2>2. f[i - 1] \in S
    BY <1>0, <1>3
  <2>3. f[i] = g[i][f[i - 1]]
    <3> HIDE DEF g
    <3> QED
      BY <1>3 DEF Repeats
  <2> QED
    BY <2>2, <2>3
<1>5. f[0] = m
  BY <1>3 DEF Repeats
<1>6. Is(f)
  <2> HIDE DEF g, S
  <2>1. f = [i \in 0 .. WordSize |-> f[i]]
    BY <1>3
  <2>2. \A i \in 0 .. WordSize : i # 0 => i \in 1 .. WordSize
    BY SizeFacts
  <2>3. \A i \in 0 .. WordSize :
          f[i] = IF i = 0 THEN m
                 ELSE [f[i - 1] EXCEPT ![Place(a, i - 1)] = (n \div Power[i - 1]) % Byte]
    BY <1>4, <1>5, <2>2 DEF ByteOf
  <2> QED
    BY <2>1, <2>3
<1>7. PICK s : s = CHOOSE h : Is(h)
  OBVIOUS
<1>8. Is(s)
  <2> HIDE DEF Is
  <2> QED
    BY <1>6, <1>7
<1>9. Stored(m, a, n) = s[WordSize]
  BY <1>7 DEF Stored
<1>10. /\ s[0] = m
       /\ \A i \in 1 .. WordSize :
            s[i] = [s[i - 1] EXCEPT ![Place(a, i - 1)] = ByteOf(n, i - 1)]
  <2>1. \A i \in 0 .. WordSize :
          s[i] = IF i = 0 THEN m
                 ELSE [s[i - 1] EXCEPT ![Place(a, i - 1)] = (n \div Power[i - 1]) % Byte]
    BY <1>8
  <2>2. 0 \in 0 .. WordSize /\ \A i \in 1 .. WordSize : i \in 0 .. WordSize
    BY SizeFacts
  <2> HIDE DEF Is, g
  <2> QED
    BY <1>0, <2>1, <2>2 DEF ByteOf
<1> DEFINE P == {i \in 0 .. WordSize :
                   /\ s[i] \in S
                   /\ \A j \in 0 .. i - 1 : s[i][Place(a, j)] = ByteOf(n, j)
                   /\ \A x \in D \ (a .. a + WordSize - 1) : s[i][x] = m[x]}
<1>11. 0 \in P
  BY <1>10, SizeFacts
<1>12. ASSUME NEW i \in 0 + 1 .. WordSize, i - 1 \in P PROVE i \in P
  <2>0. i \in 1 .. WordSize /\ i - 1 \in 0 .. WordSize - 1 /\ i \in 0 .. WordSize
    BY SizeFacts
  <2>1. PICK t \in S : t = s[i - 1]
    BY <1>12
  <2>2. PICK q \in D : q = Place(a, i - 1) /\ q \in a .. a + WordSize - 1
    BY <2>0, Places
  <2>3. PICK d \in Nat : d = ByteOf(n, i - 1)
    BY <1>0, <2>0, ByteIsByte, SizeFacts
  <2>4. s[i] = [t EXCEPT ![q] = d]
    BY <1>10, <2>0, <2>1, <2>2, <2>3
  <2>5. s[i] \in S
    BY <2>4
  <2>6. \A x \in D \ (a .. a + WordSize - 1) : s[i][x] = m[x]
    <3>1. \A x \in D \ (a .. a + WordSize - 1) : t[x] = m[x]
      BY <1>12, <2>1
    <3> QED
      BY <2>2, <2>4, <3>1
  <2>7. ASSUME NEW j \in 0 .. i - 1 PROVE s[i][Place(a, j)] = ByteOf(n, j)
    <3>1. CASE j = i - 1
      BY <2>2, <2>3, <2>4, <3>1
    <3>2. CASE j # i - 1
      <4>1. j \in 0 .. (i - 1) - 1 /\ j \in 0 .. WordSize - 1
        BY <2>0, <3>2, SizeFacts
      <4>2. t[Place(a, j)] = ByteOf(n, j)
        BY <1>12, <2>1, <4>1
      <4>3. Place(a, j) # q /\ Place(a, j) \in D
        BY <2>0, <2>2, <3>2, <4>1, Places
      <4> QED
        BY <2>4, <4>2, <4>3
    <3> QED
      BY <3>1, <3>2
  <2> QED
    BY <2>0, <2>5, <2>6, <2>7
<1>13. WordSize \in P
  <2>1. 0 \in 0 .. WordSize /\ WordSize \in 0 .. WordSize /\ WordSize \in Nat
    BY SizeFacts
  <2> HIDE DEF P
  <2> QED
    BY <1>11, <1>12, <2>1, Stepwise
<1> QED
  BY <1>9, <1>13 DEF HasStored

\* BytesOf: the bytes of a number, as they would be stored.
LEMMA BytesOfNumber ==
  ASSUME NEW n \in Nat
  PROVE  \A i \in 0 .. WordSize - 1 : BytesOf(n)[Place(0, i)] = ByteOf(n, i)
<1>0. PICK D : D = 0 .. WordSize - 1
  OBVIOUS
<1>1. PICK m \in [D -> Nat], a \in Nat : m = [i \in 0 .. WordSize - 1 |-> 0] /\ a = 0
  BY <1>0
<1>2. a .. a + WordSize - 1 \subseteq D
  BY <1>0, <1>1, SizeFacts
<1>3. \A i \in 0 .. WordSize - 1 : Stored(m, a, n)[Place(a, i)] = ByteOf(n, i)
  BY <1>2, StoredBytes DEF HasStored
<1> QED
  BY <1>1, <1>3 DEF BytesOf


\* What has been moved in memory of addresses D.
HasMoved(new, D, m, from, to, count) ==
  /\ new \in [D -> Nat]
  /\ \A x \in D : new[x] = IF x \in to .. to + count - 1 THEN m[x - to + from] ELSE m[x]

\* A move to lower addresses, from the lowest up, is right where areas overlap.
LEMMA MovedDown ==
  ASSUME NEW D, NEW m \in [D -> Nat], NEW from \in Nat, NEW to \in Nat, NEW count \in Nat,
         to <= from, from .. from + count - 1 \subseteq D, to .. to + count - 1 \subseteq D
  PROVE  HasMoved(Moved(m, from, to, count), D, m, from, to, count)
<1> DEFINE S == [D -> Nat]
           g == [i \in 1 .. count |->
                   [x \in S |-> [x EXCEPT ![to + i - 1] = x[from + i - 1]]]]
           Is(f) == f = [i \in 0 .. count |->
                           IF i = 0 THEN m
                           ELSE [f[i - 1] EXCEPT ![to + i - 1] = f[i - 1][from + i - 1]]]
<1>0. \A i \in 1 .. count : i - 1 \in 0 .. count /\ i # 0 /\ from + i - 1 \in D
  BY SizeFacts
<1>1. \A i \in 1 .. count, x \in S :
        [x EXCEPT ![to + i - 1] = x[from + i - 1]] \in S
  <2> SUFFICES ASSUME NEW i \in 1 .. count, NEW x \in S
               PROVE  [x EXCEPT ![to + i - 1] = x[from + i - 1]] \in S
    OBVIOUS
  <2>1. x[from + i - 1] \in Nat
    BY <1>0
  <2> QED
    BY <2>1
<1>2. g \in [1 .. count -> [S -> S]]
  BY <1>1
<1>3. PICK f \in [0 .. count -> S] : Repeats(f, m, g, count)
  <2>2. m \in S
    OBVIOUS
  <2> HIDE DEF g, S
  <2> QED
    BY <1>2, <2>2, Recursion
<1>4. \A i \in 1 .. count :
        /\ f[i - 1] \in S
        /\ f[i] = [f[i - 1] EXCEPT ![to + i - 1] = f[i - 1][from + i - 1]]
  <2> SUFFICES ASSUME NEW i \in 1 .. count
               PROVE  /\ f[i - 1] \in S
                      /\ f[i] = [f[i - 1] EXCEPT ![to + i - 1] = f[i - 1][from + i - 1]]
    OBVIOUS
  <2> HIDE DEF S
  <2>2. f[i - 1] \in S
    BY <1>0, <1>3
  <2>3. f[i] = g[i][f[i - 1]]
    <3> HIDE DEF g
    <3> QED
      BY <1>3 DEF Repeats
  <2> QED
    BY <2>2, <2>3
<1>5. f[0] = m
  BY <1>3 DEF Repeats
<1>6. Is(f)
  <2> HIDE DEF g, S
  <2>1. f = [i \in 0 .. count |-> f[i]]
    BY <1>3
  <2>2. \A i \in 0 .. count : i # 0 => i \in 1 .. count
    OBVIOUS
  <2>3. \A i \in 0 .. count :
          f[i] = IF i = 0 THEN m
                 ELSE [f[i - 1] EXCEPT ![to + i - 1] = f[i - 1][from + i - 1]]
    BY <1>4, <1>5, <2>2
  <2> QED
    BY <2>1, <2>3
<1>7. PICK s : s = CHOOSE h : Is(h)
  OBVIOUS
<1>8. Is(s)
  <2> HIDE DEF Is
  <2> QED
    BY <1>6, <1>7
<1>9. Moved(m, from, to, count) = s[count]
  BY <1>7 DEF Moved
<1>10. /\ s[0] = m
       /\ \A i \in 1 .. count :
            s[i] = [s[i - 1] EXCEPT ![to + i - 1] = s[i - 1][from + i - 1]]
  <2>1. \A i \in 0 .. count :
          s[i] = IF i = 0 THEN m
                 ELSE [s[i - 1] EXCEPT ![to + i - 1] = s[i - 1][from + i - 1]]
    BY <1>8
  <2>2. 0 \in 0 .. count /\ \A i \in 1 .. count : i \in 0 .. count
    OBVIOUS
  <2> HIDE DEF Is, g
  <2> QED
    BY <1>0, <2>1, <2>2
<1> DEFINE P == {i \in 0 .. count :
                   /\ s[i] \in S
                   /\ \A x \in D : s[i][x] = IF x \in to .. to + i - 1 THEN m[x - to + from]
                                             ELSE m[x]}
<1>11. 0 \in P
  BY <1>10
<1>12. ASSUME NEW i \in 0 + 1 .. count, i - 1 \in P PROVE i \in P
  <2>0. i \in 1 .. count /\ i \in 0 .. count /\ i - 1 \in Nat
    OBVIOUS
  <2>1. PICK t \in S : t = s[i - 1]
    BY <1>12
  <2>2. PICK q \in D : q = to + i - 1
    <3>1. to + i - 1 \in to .. to + count - 1
      BY <2>0
    <3> QED
      BY <3>1
  <2>3. PICK r \in D : r = from + i - 1
    BY <1>0, <2>0
  <2>4. s[i] = [t EXCEPT ![q] = t[r]]
    BY <1>10, <2>0, <2>1, <2>2, <2>3
  <2>5. s[i] \in S
    BY <2>4
  <2>6. t[r] = m[r]
    <3>1. r \notin to .. to + (i - 1) - 1
      BY <2>0, <2>3
    <3> QED
      BY <1>12, <2>1, <3>1
  <2>7. ASSUME NEW x \in D
        PROVE  s[i][x] = IF x \in to .. to + i - 1 THEN m[x - to + from] ELSE m[x]
    <3>1. CASE x = q
      <4>1. x \in to .. to + i - 1 /\ x - to + from = r
        BY <2>0, <2>2, <2>3, <3>1
      <4>2. s[i][x] = t[r]
        BY <2>4, <3>1
      <4> QED
        BY <2>6, <4>1, <4>2
    <3>2. CASE x # q
      <4>1. s[i][x] = t[x]
        BY <2>4, <3>2
      <4>2. x \in to .. to + i - 1 <=> x \in to .. to + (i - 1) - 1
        BY <2>0, <2>2, <3>2
      <4>3. t[x] = IF x \in to .. to + (i - 1) - 1 THEN m[x - to + from] ELSE m[x]
        BY <1>12, <2>1
      <4> QED
        BY <4>1, <4>2, <4>3
    <3> QED
      BY <3>1, <3>2
  <2> QED
    BY <2>0, <2>5, <2>7
<1>13. count \in P
  <2>1. 0 \in 0 .. count /\ count \in 0 .. count
    OBVIOUS
  <2> HIDE DEF P
  <2> QED
    BY <1>11, <1>12, <2>1, Stepwise
<1> QED
  BY <1>9, <1>13 DEF HasMoved

-----------------------------------------------------------------------------
(* Chunks.                                                                 *)

LEMMA ChunkFacts ==
  ASSUME NEW c \in Chunk
  PROVE  /\ c.kind \in {"abs", "rto", "rtl", "lnk"}
         /\ c.length \in 1 .. 31
         /\ c.kind # "abs" => c.length = WordSize
<1>1. CASE c \in [kind : {"abs"}, length : 1 .. 31]
  BY <1>1
<1>2. CASE c \in [kind : {"rto", "rtl", "lnk"}, length : {WordSize}]
  <2>1. WordSize \in 1 .. 31
    BY SizeFacts, LinkAssumption
  <2> QED
    BY <1>2, <2>1
<1> QED
  BY <1>1, <1>2 DEF Chunk

\* Where a chunk ends.
LEMMA Ends ==
  ASSUME NEW cs \in Seq(Chunk)
  PROVE  /\ EndOf(cs)[0] = Origin
         /\ \A i \in 1 .. Len(cs) : EndOf(cs)[i] = EndOf(cs)[i - 1] + cs[i].length
         /\ \A i \in 0 .. Len(cs) : EndOf(cs)[i] \in Nat
<1> DEFINE k == Len(cs)
           g == [i \in 1 .. k |-> [x \in Nat |-> x + cs[i].length]]
           Is(f) == f = [i \in 0 .. k |-> IF i = 0 THEN Origin ELSE f[i - 1] + cs[i].length]
<1>0. k \in Nat /\ Origin \in Nat
  BY LinkAssumption
<1>a. \A i \in 1 .. k : cs[i].length \in Nat /\ i - 1 \in 0 .. k /\ i # 0 /\ i \in 0 .. k
  <2> SUFFICES ASSUME NEW i \in 1 .. k PROVE cs[i].length \in Nat
    BY <1>0
  <2>1. cs[i] \in Chunk
    OBVIOUS
  <2>2. PICK e \in 1 .. 31 : e = cs[i].length
    BY <2>1, ChunkFacts
  <2>3. e \in Nat
    OBVIOUS
  <2> QED
    BY <2>2, <2>3
<1> HIDE DEF k
<1>1. \A i \in 1 .. k, x \in Nat : x + cs[i].length \in Nat
  BY <1>a
<1>2. g \in [1 .. k -> [Nat -> Nat]]
  BY <1>1
<1>3. PICK f \in [0 .. k -> Nat] : Repeats(f, Origin, g, k)
  <2> HIDE DEF g
  <2> QED
    BY <1>0, <1>2, Recursion
<1>4. \A i \in 1 .. k : f[i] = f[i - 1] + cs[i].length
  <2> SUFFICES ASSUME NEW i \in 1 .. k PROVE f[i] = f[i - 1] + cs[i].length
    OBVIOUS
  <2>2. f[i - 1] \in Nat
    BY <1>a, <1>3
  <2>3. f[i] = g[i][f[i - 1]]
    <3> HIDE DEF g
    <3> QED
      BY <1>3 DEF Repeats
  <2> QED
    BY <2>2, <2>3
<1>5. f[0] = Origin
  BY <1>3 DEF Repeats
<1>6. Is(f)
  <2>1. f = [i \in 0 .. k |-> f[i]]
    BY <1>3
  <2> HIDE DEF g
  <2>2. \A i \in 0 .. k : i # 0 => i \in 1 .. k
    BY <1>0
  <2>3. \A i \in 0 .. k : f[i] = IF i = 0 THEN Origin ELSE f[i - 1] + cs[i].length
    BY <1>4, <1>5, <2>2
  <2> QED
    BY <2>1, <2>3
<1>7. PICK s : s = CHOOSE h : Is(h)
  OBVIOUS
<1>8. Is(s)
  <2> HIDE DEF Is
  <2> QED
    BY <1>6, <1>7
<1>9. EndOf(cs) = s
  BY <1>7 DEF EndOf, k
<1>10. s[0] = Origin /\ \A i \in 1 .. k : s[i] = s[i - 1] + cs[i].length
  <2>1. \A i \in 0 .. k : s[i] = IF i = 0 THEN Origin ELSE s[i - 1] + cs[i].length
    BY <1>8
  <2>2. 0 \in 0 .. k
    BY <1>0
  <2> HIDE DEF Is, g
  <2> QED
    BY <1>a, <2>1, <2>2
<1>11. \A i \in 0 .. k : s[i] \in Nat
  <2>1. s[0] \in Nat
    BY <1>0, <1>10
  <2>2. \A i \in 1 .. k : s[i - 1] \in Nat => s[i] \in Nat
    BY <1>a, <1>10
  <2> HIDE DEF Is, g
  <2> QED
    BY <1>0, <2>1, <2>2, Kept
<1> QED
  BY <1>9, <1>10, <1>11 DEF k

\* Chunks end one after the other.
LEMMA EndsGrow ==
  ASSUME NEW cs \in Seq(Chunk), NEW j \in 0 .. Len(cs)
  PROVE  \A i \in j .. Len(cs) : EndOf(cs)[j] + (i - j) <= EndOf(cs)[i]
<1> DEFINE P == {i \in j .. Len(cs) : EndOf(cs)[j] + (i - j) <= EndOf(cs)[i]}
<1>0. Len(cs) \in Nat
  OBVIOUS
<1>1. j \in P
  BY Ends
<1>2. ASSUME NEW i \in j + 1 .. Len(cs), i - 1 \in P PROVE i \in P
  <2>1. i \in 1 .. Len(cs) /\ i \in j .. Len(cs) /\ i - 1 \in 0 .. Len(cs)
    OBVIOUS
  <2>2. cs[i].length \in 1 .. 31
    <3>1. cs[i] \in Chunk
      BY <2>1
    <3> QED
      BY <3>1, ChunkFacts
  <2>3. PICK x \in Nat, y \in Nat, z \in Nat, e \in 1 .. 31 :
          x = EndOf(cs)[j] /\ y = EndOf(cs)[i - 1] /\ z = EndOf(cs)[i] /\ e = cs[i].length
    <3>1. i \in 0 .. Len(cs)
      BY <2>1
    <3> QED
      BY <2>1, <2>2, <3>1, Ends
  <2>4. z = y + e
    BY <2>1, <2>3, Ends
  <2>5. x + ((i - 1) - j) <= y
    BY <1>2, <2>3
  <2>6. x + (i - j) <= z
    BY <2>1, <2>4, <2>5
  <2> QED
    BY <2>1, <2>3, <2>6
<1>3. \A i \in j .. Len(cs) : i \in P
  <2> HIDE DEF P
  <2> QED
    BY <1>0, <1>1, <1>2, Stepwise
<1> QED
  BY <1>3


-----------------------------------------------------------------------------
(* What is saved.                                                          *)

\* Where the byte before the i-th chunk is in the image; after the last, the null.
FlagAt(cs, i) == EndOf(cs)[i - 1] - Origin + i

\* A byte of a chunk as it is saved.
SavedByte(m, c, at, j) ==
  IF c.kind = "abs" THEN m[at + j] ELSE BytesOf(Relative(c.kind, Cell(m, at)))[j]

\* The i-th chunk is in the image.
Written(img, m, cs, i) ==
  /\ img[FlagAt(cs, i)] = Flags[cs[i].kind] + cs[i].length
  /\ \A j \in 0 .. cs[i].length - 1 :
       img[FlagAt(cs, i) + 1 + j] = SavedByte(m, cs[i], EndOf(cs)[i - 1], j)

\* Chunks that may be saved, from a memory.
Plan(cs, m) ==
  /\ cs \in Seq(Chunk)
  /\ m \in [0 .. Size - 1 -> 0 .. Byte - 1]
  /\ EndOf(cs)[Len(cs)] <= Size
  /\ \A i \in 1 .. Len(cs) : cs[i].kind = "lnk" => IsCode(Cell(m, EndOf(cs)[i - 1]))

\* The first k of them are.
SavedTo(img, m, cs, k) ==
  /\ img \in Seq(Nat)
  /\ Len(img) = FlagAt(cs, k + 1) - 1
  /\ \A i \in 1 .. k : Written(img, m, cs, i)

\* Flags, chunks and their ends, as numbers.
LEMMA FlagFacts ==
  ASSUME NEW cs \in Seq(Chunk), NEW i \in 1 .. Len(cs)
  PROVE  /\ FlagAt(cs, i) \in Nat /\ FlagAt(cs, i) > 0
         /\ FlagAt(cs, i + 1) = FlagAt(cs, i) + cs[i].length + 1
         /\ \A j \in i + 1 .. Len(cs) + 1 : FlagAt(cs, i) + cs[i].length < FlagAt(cs, j)
         /\ EndOf(cs)[i - 1] \in Nat /\ EndOf(cs)[i] \in Nat
         /\ Origin <= EndOf(cs)[i - 1]
         /\ EndOf(cs)[i] = EndOf(cs)[i - 1] + cs[i].length
         /\ EndOf(cs)[i] <= EndOf(cs)[Len(cs)]
         /\ EndOf(cs)[Len(cs)] \in Nat
<1>0. Len(cs) \in Nat /\ Origin \in Nat
  BY LinkAssumption
<1>1. i - 1 \in 0 .. Len(cs) /\ i \in 0 .. Len(cs) /\ 0 \in 0 .. Len(cs) /\ Len(cs) \in 0 .. Len(cs)
  BY <1>0
<1>2. PICK x \in Nat, y \in Nat, z \in Nat :
        x = EndOf(cs)[i - 1] /\ y = EndOf(cs)[i] /\ z = EndOf(cs)[Len(cs)]
  BY <1>1, Ends
<1>3. PICK e \in 1 .. 31 : e = cs[i].length
  <2>1. cs[i] \in Chunk
    OBVIOUS
  <2> QED
    BY <2>1, ChunkFacts
<1>4. y = x + e
  BY <1>2, <1>3, Ends
<1>5. Origin <= x
  <2>1. EndOf(cs)[0] + (i - 1 - 0) <= EndOf(cs)[i - 1]
    <3>1. i - 1 \in 0 .. Len(cs)
      BY <1>1
    <3> QED
      BY <1>1, <3>1, EndsGrow
  <2>2. EndOf(cs)[0] = Origin
    BY Ends
  <2> QED
    BY <1>0, <1>2, <2>1, <2>2
<1>6. y <= z
  <2>1. EndOf(cs)[i] + (Len(cs) - i) <= EndOf(cs)[Len(cs)]
    <3>1. Len(cs) \in i .. Len(cs)
      BY <1>0
    <3> QED
      BY <1>1, <3>1, EndsGrow
  <2> QED
    BY <1>0, <1>2, <2>1
<1>7. FlagAt(cs, i) = x - Origin + i
  BY <1>2 DEF FlagAt
<1>8. FlagAt(cs, i + 1) = y - Origin + (i + 1)
  <2>1. (i + 1) - 1 = i
    OBVIOUS
  <2> QED
    BY <1>2, <2>1 DEF FlagAt
<1>9. ASSUME NEW j \in i + 1 .. Len(cs) + 1 PROVE FlagAt(cs, i) + e < FlagAt(cs, j)
  <2>1. j - 1 \in i .. Len(cs) /\ j - 1 \in 0 .. Len(cs)
    BY <1>0
  <2>2. PICK t \in Nat : t = EndOf(cs)[j - 1]
    BY <2>1, Ends
  <2>3. y + ((j - 1) - i) <= t
    BY <1>1, <1>2, <2>1, <2>2, EndsGrow
  <2>4. FlagAt(cs, j) = t - Origin + j
    BY <2>2 DEF FlagAt
  <2> QED
    BY <1>0, <1>4, <1>7, <2>3, <2>4
<1>10. FlagAt(cs, i) \in Nat /\ FlagAt(cs, i) > 0 /\ FlagAt(cs, i + 1) = FlagAt(cs, i) + e + 1
  BY <1>0, <1>4, <1>5, <1>7, <1>8
<1> QED
  BY <1>2, <1>3, <1>4, <1>5, <1>6, <1>9, <1>10

\* The cell a chunk holds is a number below W, and so is what is saved of it.
LEMMA RelativeFacts ==
  ASSUME NEW n \in Word, NEW kind \in {"rto", "rtl", "lnk"}, kind = "lnk" => IsCode(n)
  PROVE  Relative(kind, n) \in Word
<1>0. n \in Nat /\ n < W /\ Origin \in Nat /\ Limit \in Nat /\ W \in Nat \ {0}
  BY SizeFacts, LinkAssumption DEF Word
<1>1. CASE kind = "rto"
  <2>1. Relative(kind, n) = (n - Origin) % W
    BY <1>1 DEF Relative, Wrapped
  <2>2. PICK x \in Int, w \in Nat \ {0} : x = n - Origin /\ w = W
    BY <1>0
  <2>3. x % w \in Nat /\ x % w < w
    BY Z3
  <2> QED
    BY <2>1, <2>2, <2>3, <1>0 DEF Word
<1>2. CASE kind = "rtl"
  <2>1. Relative(kind, n) = (n - Limit) % W
    BY <1>2 DEF Relative, Wrapped
  <2>2. PICK x \in Int, w \in Nat \ {0} : x = n - Limit /\ w = W
    BY <1>0
  <2>3. x % w \in Nat /\ x % w < w
    BY Z3
  <2> QED
    BY <2>1, <2>2, <2>3, <1>0 DEF Word
<1>3. CASE kind = "lnk"
  <2>1. Relative(kind, n) = n - 1
    BY <1>3 DEF Relative
  <2>2. n >= 1
    BY <1>0, <1>3 DEF IsCode
  <2> QED
    BY <1>0, <2>1, <2>2 DEF Word
<1> QED
  BY <1>1, <1>2, <1>3

\* The bytes of a chunk lie in memory; those of one that is not as it is hold a cell.
LEMMA ChunkInMemory ==
  ASSUME NEW cs, NEW m, Plan(cs, m), NEW i \in 1 .. Len(cs)
  PROVE  /\ \A j \in 0 .. cs[i].length - 1 : m[EndOf(cs)[i - 1] + j] \in 0 .. Byte - 1
         /\ cs[i].kind # "abs" =>
              /\ \A j \in 0 .. WordSize - 1 : m[Place(EndOf(cs)[i - 1], j)] \in 0 .. Byte - 1
              /\ Cell(m, EndOf(cs)[i - 1]) \in Word
              /\ Relative(cs[i].kind, Cell(m, EndOf(cs)[i - 1])) \in Word
<1>0. cs \in Seq(Chunk) /\ Size \in Nat /\ cs[i] \in Chunk
  BY LinkAssumption DEF Plan
<1>1. PICK a \in Nat, e \in 1 .. 31, z \in Nat :
        /\ a = EndOf(cs)[i - 1] /\ e = cs[i].length /\ z = EndOf(cs)[Len(cs)]
        /\ a + e <= z
  <2>1. PICK e \in 1 .. 31 : e = cs[i].length
    BY <1>0, ChunkFacts
  <2>2. PICK a \in Nat, y \in Nat, z \in Nat :
          a = EndOf(cs)[i - 1] /\ y = EndOf(cs)[i] /\ z = EndOf(cs)[Len(cs)]
    BY <1>0, FlagFacts
  <2>3. y = a + e /\ y <= z
    BY <1>0, <2>1, <2>2, FlagFacts
  <2> QED
    BY <2>1, <2>2, <2>3
<1>2. z <= Size
  BY <1>1 DEF Plan
<1>3. \A x \in a .. a + e - 1 : m[x] \in 0 .. Byte - 1
  <2>1. \A x \in a .. a + e - 1 : x \in 0 .. Size - 1
    BY <1>0, <1>1, <1>2
  <2> QED
    BY <2>1 DEF Plan
<1>4. ASSUME cs[i].kind # "abs"
      PROVE  /\ \A j \in 0 .. WordSize - 1 : m[Place(a, j)] \in 0 .. Byte - 1
             /\ Cell(m, a) \in Word
             /\ Relative(cs[i].kind, Cell(m, a)) \in Word
  <2>1. e = WordSize
    BY <1>0, <1>1, <1>4, ChunkFacts
  <2>2. \A j \in 0 .. WordSize - 1 : m[Place(a, j)] \in 0 .. Byte - 1
    BY <1>3, <2>1, Places
  <2>3. Cell(m, a) \in Word
    BY <2>2, BytesOfCell
  <2>4. cs[i].kind \in {"rto", "rtl", "lnk"}
    BY <1>0, <1>4, ChunkFacts
  <2>5. cs[i].kind = "lnk" => IsCode(Cell(m, a))
    BY <1>1 DEF Plan
  <2>6. Relative(cs[i].kind, Cell(m, a)) \in Word
    BY <2>3, <2>4, <2>5, RelativeFacts
  <2> QED
    BY <2>2, <2>3, <2>6
<1>5. \A j \in 0 .. e - 1 : m[a + j] \in 0 .. Byte - 1
  BY <1>3
<1> QED
  BY <1>1, <1>4, <1>5

LEMMA SavedByteFacts ==
  ASSUME NEW cs, NEW m, Plan(cs, m), NEW i \in 1 .. Len(cs)
  PROVE  \A j \in 0 .. cs[i].length - 1 : SavedByte(m, cs[i], EndOf(cs)[i - 1], j) \in Nat
<1>1. SUFFICES ASSUME NEW j \in 0 .. cs[i].length - 1
               PROVE  SavedByte(m, cs[i], EndOf(cs)[i - 1], j) \in Nat
  OBVIOUS
<1>2. CASE cs[i].kind = "abs"
  <2>1. m[EndOf(cs)[i - 1] + j] \in 0 .. Byte - 1
    BY ChunkInMemory
  <2> QED
    BY <1>2, <2>1, SizeFacts DEF SavedByte
<1>3. CASE cs[i].kind # "abs"
  <2>1. cs[i] \in Chunk
    BY DEF Plan
  <2>2. cs[i].length = WordSize
    BY <1>3, <2>1, ChunkFacts
  <2>3. PICK n \in Nat : n = Relative(cs[i].kind, Cell(m, EndOf(cs)[i - 1]))
    BY <1>3, ChunkInMemory, SizeFacts DEF Word
  <2>4. PICK q \in 0 .. WordSize - 1 : j = Place(0, q)
    <3>1. PICK z \in Nat : z = 0
      OBVIOUS
    <3>2. j \in z .. z + WordSize - 1
      BY <2>2, <3>1, SizeFacts
    <3>3. \E q \in 0 .. WordSize - 1 : j = Place(z, q)
      BY <3>2, Places
    <3> QED
      BY <3>1, <3>3
  <2>5. BytesOf(n)[j] = ByteOf(n, q)
    BY <2>4, BytesOfNumber
  <2>6. ByteOf(n, q) \in Nat
    <3>1. q \in 0 .. WordSize
      BY SizeFacts
    <3>2. ByteOf(n, q) \in 0 .. Byte - 1
      BY <3>1, ByteIsByte
    <3> QED
      BY <3>2, SizeFacts
  <2> QED
    BY <1>3, <2>3, <2>5, <2>6 DEF SavedByte
<1> QED
  BY <1>2, <1>3


LEMMA FlagValues ==
  ASSUME NEW c \in Chunk
  PROVE  /\ Flags[c.kind] \in {0, 32, 64, 96}
         /\ c.kind = "abs" <=> Flags[c.kind] = 0
         /\ c.kind = "rto" <=> Flags[c.kind] = 32
         /\ c.kind = "rtl" <=> Flags[c.kind] = 64
         /\ c.kind = "lnk" <=> Flags[c.kind] = 96
<1>1. PICK k \in {"abs", "rto", "rtl", "lnk"} : k = c.kind
  BY ChunkFacts
<1>2. Flags["abs"] = 0 /\ Flags["rto"] = 32 /\ Flags["rtl"] = 64 /\ Flags["lnk"] = 96
  BY DEF Flags
<1> QED
  BY <1>1, <1>2

\* A chunk as it is saved.
LEMMA SavedChunkFacts ==
  ASSUME NEW cs, NEW m, Plan(cs, m), NEW i \in 1 .. Len(cs),
         NEW s, s = SavedChunk(m, cs[i], EndOf(cs)[i - 1])
  PROVE  /\ s \in Seq(Nat)
         /\ Len(s) = 1 + cs[i].length
         /\ s[1] = Flags[cs[i].kind] + cs[i].length
         /\ \A j \in 0 .. cs[i].length - 1 :
              s[2 + j] = SavedByte(m, cs[i], EndOf(cs)[i - 1], j)
<1>0. cs \in Seq(Chunk) /\ cs[i] \in Chunk
  BY DEF Plan
<1>1. PICK a \in Nat, e \in 1 .. 31, f \in Nat :
        a = EndOf(cs)[i - 1] /\ e = cs[i].length /\ f = Flags[cs[i].kind]
  <2>1. PICK e \in 1 .. 31 : e = cs[i].length
    BY <1>0, ChunkFacts
  <2>2. PICK a \in Nat : a = EndOf(cs)[i - 1]
    BY <1>0, FlagFacts
  <2>3. PICK f \in Nat : f = Flags[cs[i].kind]
    BY <1>0, FlagValues
  <2> QED
    BY <2>1, <2>2, <2>3
<1> DEFINE b == [j \in 1 .. e |-> SavedByte(m, cs[i], a, j - 1)]
<1>2. b \in [1 .. e -> Nat]
  <2>1. \A j \in 1 .. e : j - 1 \in 0 .. e - 1
    OBVIOUS
  <2>2. \A j \in 0 .. e - 1 : SavedByte(m, cs[i], a, j) \in Nat
    BY <1>1, SavedByteFacts
  <2> QED
    BY <2>1, <2>2
<1>3. s = <<f + e>> \o b
  <2>1. \A j \in 1 .. e : a + j - 1 = a + (j - 1)
    OBVIOUS
  <2>2. b = [j \in 1 .. e |-> IF cs[i].kind = "abs" THEN m[a + j - 1]
                              ELSE BytesOf(Relative(cs[i].kind, Cell(m, a)))[j - 1]]
    BY <2>1 DEF SavedByte
  <2> HIDE DEF b
  <2> QED
    BY <1>1, <2>2 DEF SavedChunk
<1>4. b \in Seq(Nat) /\ Len(b) = e /\ \A j \in 0 .. e - 1 : b[j + 1] = SavedByte(m, cs[i], a, j)
  <2>1. b \in Seq(Nat) /\ DOMAIN b = 1 .. e
    BY <1>2
  <2>2. Len(b) = e
    BY <2>1
  <2>3. \A j \in 0 .. e - 1 : j + 1 \in 1 .. e /\ (j + 1) - 1 = j
    OBVIOUS
  <2> QED
    BY <2>1, <2>2, <2>3
<1> HIDE DEF b
<1>5. PICK h \in Seq(Nat) : h = <<f + e>> /\ Len(h) = 1 /\ h[1] = f + e
  <2>1. PICK x \in Nat : x = f + e
    OBVIOUS
  <2>2. <<x>> \in Seq(Nat) /\ Len(<<x>>) = 1 /\ <<x>>[1] = x
    OBVIOUS
  <2> QED
    BY <2>1, <2>2
<1>6. /\ h \o b \in Seq(Nat) /\ Len(h \o b) = 1 + e /\ (h \o b)[1] = f + e
      /\ \A j \in 0 .. e - 1 : (h \o b)[2 + j] = b[j + 1]
  <2>1. h \o b \in Seq(Nat) /\ Len(h \o b) = 1 + e
    BY <1>4, <1>5
  <2>2. (h \o b)[1] = f + e
    BY <1>4, <1>5
  <2>3. \A j \in 0 .. e - 1 : (h \o b)[2 + j] = b[j + 1]
    BY <1>4, <1>5
  <2> QED
    BY <2>1, <2>2, <2>3
<1>7. s = h \o b
  BY <1>3, <1>5
<1> QED
  BY <1>1, <1>4, <1>6, <1>7

LEMMA Joined ==
  ASSUME NEW a \in Seq(Nat), NEW b \in Seq(Nat)
  PROVE  /\ a \o b \in Seq(Nat) /\ Len(a \o b) = Len(a) + Len(b)
         /\ \A x \in 1 .. Len(a) : (a \o b)[x] = a[x]
         /\ \A x \in 1 .. Len(b) : (a \o b)[Len(a) + x] = b[x]
<1>1. \A x \in 1 .. Len(b) : (a \o b)[Len(a) + x] = b[x]
  <2> SUFFICES ASSUME NEW x \in 1 .. Len(b) PROVE (a \o b)[Len(a) + x] = b[x]
    OBVIOUS
  <2>1. Len(a) \in Nat /\ Len(b) \in Nat
    OBVIOUS
  <2>2. Len(a) + x \in 1 .. Len(a) + Len(b) /\ ~(Len(a) + x <= Len(a)) /\ (Len(a) + x) - Len(a) = x
    BY <2>1
  <2> QED
    BY <2>1, <2>2
<1> QED
  BY <1>1

\* One more chunk is saved.
LEMMA SavedOneMore ==
  ASSUME NEW cs, NEW m, Plan(cs, m), NEW k \in Nat, k < Len(cs),
         NEW img, SavedTo(img, m, cs, k)
  PROVE  SavedTo(img \o SavedChunk(m, cs[k + 1], EndOf(cs)[k]), m, cs, k + 1)
<1>0. cs \in Seq(Chunk) /\ k + 1 \in 1 .. Len(cs) /\ (k + 1) - 1 = k /\ Len(cs) \in Nat
  BY DEF Plan
<1>1. PICK s : s = SavedChunk(m, cs[k + 1], EndOf(cs)[k])
  OBVIOUS
<1>2. PICK e \in 1 .. 31 : e = cs[k + 1].length
  <2>1. cs[k + 1] \in Chunk
    BY <1>0
  <2> QED
    BY <2>1, ChunkFacts
<1>3. /\ s \in Seq(Nat)
      /\ Len(s) = 1 + e
      /\ s[1] = Flags[cs[k + 1].kind] + e
      /\ \A j \in 0 .. e - 1 : s[2 + j] = SavedByte(m, cs[k + 1], EndOf(cs)[k], j)
  BY <1>0, <1>1, <1>2, SavedChunkFacts
<1>4. PICK n \in Nat : n = FlagAt(cs, k + 1) /\ n > 0
  BY <1>0, FlagFacts
<1>5. FlagAt(cs, (k + 1) + 1) = n + e + 1
  BY <1>0, <1>2, <1>4, FlagFacts
<1>6. img \in Seq(Nat) /\ Len(img) = n - 1
  BY <1>4 DEF SavedTo
<1>7. PICK new : new = img \o s
  OBVIOUS
<1>8. /\ new \in Seq(Nat) /\ Len(new) = n + e
      /\ \A x \in 1 .. n - 1 : new[x] = img[x]
      /\ \A x \in 1 .. 1 + e : new[n - 1 + x] = s[x]
  <2>1. s \in Seq(Nat) /\ Len(s) = 1 + e
    BY <1>3
  <2>2. /\ new \in Seq(Nat) /\ Len(new) = (n - 1) + (1 + e)
        /\ \A x \in 1 .. n - 1 : new[x] = img[x]
        /\ \A x \in 1 .. 1 + e : new[n - 1 + x] = s[x]
    <3>1. /\ new \in Seq(Nat) /\ Len(new) = Len(img) + Len(s)
          /\ \A x \in 1 .. Len(img) : new[x] = img[x]
          /\ \A x \in 1 .. Len(s) : new[Len(img) + x] = s[x]
      BY <1>6, <1>7, <2>1, Joined
    <3>2. Len(img) = n - 1 /\ Len(s) = 1 + e
      BY <1>6, <2>1
    <3> QED
      BY <3>1, <3>2
  <2>3. (n - 1) + (1 + e) = n + e
    BY <1>4
  <2> QED
    BY <2>2, <2>3
<1>9. ASSUME NEW i \in 1 .. k PROVE Written(new, m, cs, i)
  <2>0. i \in 1 .. Len(cs) /\ k + 1 \in i + 1 .. Len(cs) + 1
    BY <1>0
  <2>1. PICK d \in 1 .. 31 : d = cs[i].length
    <3>1. cs[i] \in Chunk
      BY <1>0, <2>0
    <3> QED
      BY <3>1, ChunkFacts
  <2>2. PICK p \in Nat : p = FlagAt(cs, i) /\ p > 0
    BY <1>0, <2>0, FlagFacts
  <2>3. p + d < n
    BY <1>0, <1>4, <2>0, <2>1, <2>2, FlagFacts
  <2>4. /\ img[p] = Flags[cs[i].kind] + d
        /\ \A j \in 0 .. d - 1 : img[p + 1 + j] = SavedByte(m, cs[i], EndOf(cs)[i - 1], j)
    BY <2>1, <2>2 DEF SavedTo, Written
  <2>5. p \in 1 .. n - 1 /\ \A j \in 0 .. d - 1 : p + 1 + j \in 1 .. n - 1
    BY <2>2, <2>3
  <2>6. /\ new[p] = Flags[cs[i].kind] + d
        /\ \A j \in 0 .. d - 1 : new[p + 1 + j] = SavedByte(m, cs[i], EndOf(cs)[i - 1], j)
    BY <1>8, <2>4, <2>5
  <2> QED
    BY <2>1, <2>2, <2>6 DEF Written
<1>10. Written(new, m, cs, k + 1)
  <2>1. new[n] = Flags[cs[k + 1].kind] + e
    <3>1. 1 \in 1 .. 1 + e /\ n - 1 + 1 = n
      BY <1>4
    <3> QED
      BY <1>3, <1>8, <3>1
  <2>2. ASSUME NEW j \in 0 .. e - 1
        PROVE  new[n + 1 + j] = SavedByte(m, cs[k + 1], EndOf(cs)[k], j)
    <3>1. 2 + j \in 1 .. 1 + e /\ n - 1 + (2 + j) = n + 1 + j
      BY <1>4
    <3> QED
      BY <1>3, <1>8, <3>1
  <2> QED
    BY <1>0, <1>2, <1>4, <2>1, <2>2 DEF Written
<1>11. \A i \in 1 .. k + 1 : Written(new, m, cs, i)
  <2>1. \A i \in 1 .. k + 1 : i \in 1 .. k \/ i = k + 1
    OBVIOUS
  <2> QED
    BY <1>9, <1>10, <2>1
<1>12. Len(new) = FlagAt(cs, (k + 1) + 1) - 1
  BY <1>4, <1>5, <1>8
<1> QED
  BY <1>1, <1>7, <1>8, <1>11, <1>12 DEF SavedTo


-----------------------------------------------------------------------------
(* What is linked.                                                         *)

\* An image of the chunks cs of a memory kp, with its null.
ImageOf(img, kp, cs) ==
  /\ Plan(cs, kp)
  /\ img \in Seq(Nat)
  /\ Len(img) = FlagAt(cs, Len(cs) + 1)
  /\ \A i \in 1 .. Len(cs) : Written(img, kp, cs, i)
  /\ img[Len(img)] = 0

\* Where the flag of the chunk after k is loaded.
ReadAt(cs, k) == Origin + FlagAt(cs, k + 1) - 1

Loaded(img) == (0 .. Size - 1) \cup (Origin .. Origin + Len(img) - 1)

\* The first k chunks are linked, and the others as they were loaded.
LinkedTo(m, img, kp, cs, k) ==
  /\ m \in [Loaded(img) -> Nat]
  /\ \A a \in ReadAt(cs, k) .. Origin + Len(img) - 1 : m[a] = img[a - Origin + 1]
  /\ \A a \in Origin .. EndOf(cs)[k] - 1 : m[a] = kp[a]

\* Reading is ahead of writing by the bytes before the chunks that were read.
LEMMA Ahead ==
  ASSUME NEW cs \in Seq(Chunk), NEW k \in 0 .. Len(cs)
  PROVE  /\ EndOf(cs)[k] \in Nat
         /\ ReadAt(cs, k) = EndOf(cs)[k] + k
         /\ FlagAt(cs, k + 1) = EndOf(cs)[k] - Origin + k + 1
<1>1. EndOf(cs)[k] \in Nat /\ Origin \in Nat
  BY Ends, LinkAssumption
<1>2. (k + 1) - 1 = k
  OBVIOUS
<1>3. FlagAt(cs, k + 1) = EndOf(cs)[k] - Origin + (k + 1)
  BY <1>2 DEF FlagAt
<1> QED
  <2>1. PICK x \in Nat : x = EndOf(cs)[k]
    BY <1>1
  <2>2. FlagAt(cs, k + 1) = x - Origin + k + 1
    BY <1>1, <1>3, <2>1
  <2>3. ReadAt(cs, k) = x + k
    BY <1>1, <2>2 DEF ReadAt
  <2> QED
    BY <2>1, <2>2, <2>3

\* A turn of the loop, for the chunk after k: where it reads and writes, and the
\* lengths of the chunk and of the image.
TurnAt(img, cs, k, p, q, e, l) ==
  /\ p = ReadAt(cs, k) /\ q = EndOf(cs)[k] /\ e = cs[k + 1].length /\ l = Len(img)
  /\ FlagAt(cs, k + 1) = p - Origin + 1
  /\ ReadAt(cs, k + 1) = p + 1 + e /\ EndOf(cs)[k + 1] = q + e
  /\ Origin <= q /\ q <= p /\ q + e <= Size /\ p + e < Origin + l - 1

LEMMA Turn ==
  ASSUME NEW img, NEW kp, NEW cs, ImageOf(img, kp, cs), NEW k \in Nat, k < Len(cs)
  PROVE  \E p \in Nat, q \in Nat, e \in 1 .. 31, l \in Nat : TurnAt(img, cs, k, p, q, e, l)
<1>0. /\ cs \in Seq(Chunk) /\ k + 1 \in 1 .. Len(cs) /\ (k + 1) - 1 = k /\ Len(cs) \in Nat
      /\ k \in 0 .. Len(cs) /\ k + 1 \in 0 .. Len(cs) /\ Origin \in Nat
  <2>1. cs \in Seq(Chunk)
    BY DEF ImageOf, Plan
  <2>2. Len(cs) \in Nat
    BY <2>1
  <2> QED
    BY <2>1, <2>2, LinkAssumption
<1>1. PICK e \in 1 .. 31 : e = cs[k + 1].length
  <2>1. cs[k + 1] \in Chunk
    BY <1>0
  <2> QED
    BY <2>1, ChunkFacts
<1>2. PICK q \in Nat, z \in Nat : q = EndOf(cs)[k] /\ z = EndOf(cs)[Len(cs)]
  BY <1>0, FlagFacts
<1>3. EndOf(cs)[k + 1] = q + e /\ Origin <= q /\ q + e <= z
  BY <1>0, <1>1, <1>2, FlagFacts
<1>4. ReadAt(cs, k) = q + k
  BY <1>0, <1>2, Ahead
<1>5. ReadAt(cs, k + 1) = (q + e) + (k + 1)
  BY <1>0, <1>3, Ahead
<1>6. FlagAt(cs, k + 1) = q - Origin + k + 1
  BY <1>0, <1>2, Ahead
<1>7. PICK l \in Nat : l = Len(img)
  BY DEF ImageOf
<1>8. FlagAt(cs, k + 1) + e < l
  <2>1. Len(cs) + 1 \in (k + 1) + 1 .. Len(cs) + 1
    BY <1>0
  <2>2. FlagAt(cs, k + 1) + cs[k + 1].length < FlagAt(cs, Len(cs) + 1)
    BY <1>0, <2>1, FlagFacts
  <2> QED
    BY <1>1, <1>7, <2>2 DEF ImageOf
<1>9. z <= Size
  BY <1>2 DEF ImageOf, Plan
<1>10. PICK p \in Nat : p = q + k
  OBVIOUS
<1>11. FlagAt(cs, k + 1) = p - Origin + 1
  BY <1>0, <1>6, <1>10
<1>12. ReadAt(cs, k + 1) = p + 1 + e
  BY <1>5, <1>10
<1>13. p + e < Origin + l - 1
  BY <1>0, <1>8, <1>11
<1>14. q <= p /\ p = ReadAt(cs, k)
  BY <1>4, <1>10
<1>15. q + e <= Size
  BY <1>3, <1>9, LinkAssumption
<1>16. TurnAt(img, cs, k, p, q, e, l)
  BY <1>1, <1>2, <1>3, <1>7, <1>11, <1>12, <1>13, <1>14, <1>15 DEF TurnAt
<1> QED
  BY <1>16

\* Memory m with the bytes of a chunk, of length e, where it goes, at q.
HasChunk(u, m, img, kp, c, q, e) ==
  /\ u \in [Loaded(img) -> Nat]
  /\ \A j \in 0 .. e - 1 : u[q + j] = SavedByte(kp, c, q, j)
  /\ \A x \in Loaded(img) \ (q .. q + e - 1) : u[x] = m[x]

\* A turn of the loop reads the flag of the chunk, and moves its bytes.
LEMMA TurnMoves ==
  ASSUME NEW img, NEW kp, NEW cs, ImageOf(img, kp, cs), NEW k \in Nat, k < Len(cs),
         NEW m, LinkedTo(m, img, kp, cs, k),
         NEW p \in Nat, NEW q \in Nat, NEW e \in 1 .. 31, NEW l \in Nat,
         TurnAt(img, cs, k, p, q, e, l)
  PROVE  /\ m[p] = Flags[cs[k + 1].kind] + e
         /\ HasChunk(Moved(m, p + 1, q, e), m, img, kp, cs[k + 1], q, e)
<1>1. Origin <= q /\ q <= p /\ q + e <= Size /\ p + e < Origin + l - 1
  BY DEF TurnAt
<1>2. Origin \in Nat /\ Size \in Nat
  BY LinkAssumption
<1>3. k + 1 \in 1 .. Len(cs) /\ (k + 1) - 1 = k
  BY DEF ImageOf, Plan
<1>4. PICK D : D = Loaded(img)
  OBVIOUS
<1>5. q .. q + e - 1 \subseteq D
  <2>1. q .. q + e - 1 \subseteq 0 .. Size - 1
    BY <1>1, <1>2
  <2> QED
    BY <1>4, <2>1 DEF Loaded
<1>6. p + 1 .. p + 1 + e - 1 \subseteq D
  <2>1. p + 1 .. p + 1 + e - 1 \subseteq Origin .. Origin + l - 1
    BY <1>1, <1>2
  <2>2. l = Len(img)
    BY DEF TurnAt
  <2> QED
    BY <1>4, <2>1, <2>2 DEF Loaded
<1>7. m \in [D -> Nat]
  BY <1>4 DEF LinkedTo
<1>8. /\ img[p - Origin + 1] = Flags[cs[k + 1].kind] + e
      /\ \A j \in 0 .. e - 1 : img[(p - Origin + 1) + 1 + j] = SavedByte(kp, cs[k + 1], q, j)
  <2>1. Written(img, kp, cs, k + 1)
    BY <1>3 DEF ImageOf
  <2>2. FlagAt(cs, k + 1) = p - Origin + 1 /\ e = cs[k + 1].length /\ q = EndOf(cs)[(k + 1) - 1]
    BY <1>3 DEF TurnAt
  <2> QED
    BY <2>1, <2>2 DEF Written
<1>9. \A a \in p .. Origin + l - 1 : m[a] = img[a - Origin + 1]
  <2>1. p = ReadAt(cs, k) /\ l = Len(img)
    BY DEF TurnAt
  <2> QED
    BY <2>1 DEF LinkedTo
<1>10. m[p] = Flags[cs[k + 1].kind] + e
  <2>1. p \in p .. Origin + l - 1
    BY <1>1, <1>2
  <2> QED
    BY <1>8, <1>9, <2>1
<1>11. PICK moved : moved = Moved(m, p + 1, q, e)
  OBVIOUS
<1>12. /\ moved \in [D -> Nat]
       /\ \A x \in D : moved[x] = IF x \in q .. q + e - 1 THEN m[x - q + (p + 1)] ELSE m[x]
  <2>1. PICK f \in Nat : f = p + 1
    OBVIOUS
  <2>2. q <= f /\ f .. f + e - 1 \subseteq D
    BY <1>1, <1>6, <2>1
  <2>3. PICK c \in Nat : c = e
    OBVIOUS
  <2>4. f .. f + c - 1 \subseteq D /\ q .. q + c - 1 \subseteq D
    BY <1>5, <2>2, <2>3
  <2>5. q <= f
    BY <2>2
  <2>6. HasMoved(Moved(m, f, q, c), D, m, f, q, c)
    BY <1>7, <2>4, <2>5, MovedDown
  <2> QED
    BY <1>11, <2>1, <2>3, <2>6 DEF HasMoved
<1>14. ASSUME NEW j \in 0 .. e - 1 PROVE moved[q + j] = SavedByte(kp, cs[k + 1], q, j)
  <2>1. PICK x \in q .. q + e - 1 : x = q + j
    OBVIOUS
  <2>2. x - q + (p + 1) = p + 1 + j /\ x \in D
    BY <1>5, <2>1
  <2>3. moved[x] = m[p + 1 + j]
    BY <1>12, <2>2
  <2>4. PICK a \in p .. Origin + l - 1 : a = p + 1 + j
    BY <1>1, <1>2
  <2>5. a - Origin + 1 = (p - Origin + 1) + 1 + j
    BY <1>2, <2>4
  <2>6. m[a] = img[(p - Origin + 1) + 1 + j]
    BY <1>9, <2>5
  <2> QED
    BY <1>8, <2>1, <2>3, <2>4, <2>6
<1> QED
  BY <1>4, <1>10, <1>11, <1>12, <1>14 DEF HasChunk

\* What a cell was relative to is added again.
Restored(kind, n) ==
  CASE kind = "rto" -> Wrapped(n + Origin)
    [] kind = "rtl" -> Wrapped(n + Limit)
    [] kind = "lnk" -> CodeOf(LinkCodes[n + 1])

LEMMA RelativeRestored ==
  ASSUME NEW n \in Word, NEW kind \in {"rto", "rtl", "lnk"}, kind = "lnk" => IsCode(n)
  PROVE  Restored(kind, Relative(kind, n)) = n
<1>0. n \in Nat /\ n < W /\ Origin \in Nat /\ Limit \in Nat /\ W \in Nat \ {0}
  BY SizeFacts, LinkAssumption DEF Word
<1>1. ASSUME NEW o \in Nat PROVE Wrapped(Wrapped(n - o) + o) = n
  <2>1. PICK x \in Int, w \in Nat \ {0} : x = n - o /\ w = W
    BY <1>0
  <2>2. ((x % w) + o) % w = (x + o) % w
    <3>1. PICK y \in Int : y = o
      OBVIOUS
    <3>2. ((x % w) + y) % w = (x + y) % w
      BY RemainderOfSum
    <3> QED
      BY <3>1, <3>2
  <2>3. x + o = n
    BY <1>0, <2>1
  <2>4. n % w = n
    <3>1. n < w
      BY <1>0, <2>1
    <3> QED
      BY <1>0, <3>1, SmallRemainder
  <2> QED
    BY <2>1, <2>2, <2>3, <2>4 DEF Wrapped
<1>2. CASE kind = "rto"
  <2>1. Relative(kind, n) = Wrapped(n - Origin)
    BY <1>2 DEF Relative
  <2>2. Restored(kind, Wrapped(n - Origin)) = Wrapped(Wrapped(n - Origin) + Origin)
    BY <1>2 DEF Restored
  <2> QED
    BY <1>0, <1>1, <2>1, <2>2
<1>3. CASE kind = "rtl"
  <2>1. Relative(kind, n) = Wrapped(n - Limit)
    BY <1>3 DEF Relative
  <2>2. Restored(kind, Wrapped(n - Limit)) = Wrapped(Wrapped(n - Limit) + Limit)
    BY <1>3 DEF Restored
  <2> QED
    BY <1>0, <1>1, <2>1, <2>2
<1>4. CASE kind = "lnk"
  <2>1. Relative(kind, n) = n - 1 /\ (n - 1) + 1 = n
    BY <1>0, <1>4 DEF Relative
  <2>2. Restored(kind, n - 1) = CodeOf(LinkCodes[n - 1 + 1])
    BY <1>4 DEF Restored
  <2>3. CodeOf(LinkCodes[n]) = n
    BY <1>4 DEF IsCode
  <2> QED
    BY <2>1, <2>2, <2>3
<1> QED
  BY <1>2, <1>3, <1>4


Fixed(u, q, kind) == IF kind = "abs" THEN u ELSE Stored(u, q, Restored(kind, Cell(u, q)))

\* Where the chunk is, memory is what it was when it was saved.
IsFixed(new, D, kp, u, q, e) ==
  /\ new \in [D -> Nat]
  /\ \A x \in q .. q + e - 1 : new[x] = kp[x]
  /\ \A x \in D \ (q .. q + e - 1) : new[x] = u[x]

\* The cell of a chunk, moved, is fixed up to what it was when it was saved.
LEMMA FixedUp ==
  ASSUME NEW img, NEW kp, NEW cs, ImageOf(img, kp, cs), NEW k \in Nat, k < Len(cs),
         NEW p \in Nat, NEW q \in Nat, NEW l \in Nat, TurnAt(img, cs, k, p, q, WordSize, l),
         cs[k + 1].kind # "abs",
         NEW m, NEW u, HasChunk(u, m, img, kp, cs[k + 1], q, WordSize),
         q .. q + WordSize - 1 \subseteq Loaded(img)
  PROVE  IsFixed(Fixed(u, q, cs[k + 1].kind), Loaded(img), kp, u, q, WordSize)
<1>0. Plan(cs, kp) /\ k + 1 \in 1 .. Len(cs) /\ (k + 1) - 1 = k /\ cs[k + 1] \in Chunk
  <2>1. Plan(cs, kp) /\ cs \in Seq(Chunk)
    BY DEF ImageOf, Plan
  <2>2. k + 1 \in 1 .. Len(cs)
    BY <2>1
  <2> QED
    BY <2>1, <2>2
<1>1. PICK kind \in {"rto", "rtl", "lnk"} : kind = cs[k + 1].kind
  BY <1>0, ChunkFacts
<1>a. q = EndOf(cs)[(k + 1) - 1]
  BY <1>0 DEF TurnAt
<1>b. /\ \A j \in 0 .. WordSize - 1 : kp[Place(q, j)] \in 0 .. Byte - 1
      /\ Cell(kp, q) \in Word
  BY <1>0, <1>a, ChunkInMemory
<1>2. PICK n \in Word : n = Cell(kp, q)
  BY <1>b
<1>3. \A i \in 0 .. WordSize - 1 : kp[Place(q, i)] \in 0 .. Byte - 1
  BY <1>b
<1>4. \A i \in 0 .. WordSize - 1 : ByteOf(n, i) = kp[Place(q, i)]
  BY <1>2, <1>3, BytesOfCell
<1>5. kind = "lnk" => IsCode(n)
  BY <1>0, <1>1, <1>2, <1>a DEF Plan
<1>6. PICK r \in Word : r = Relative(kind, n)
  BY <1>5, RelativeFacts
<1>7. r \in Nat /\ r < W /\ n \in Nat
  BY SizeFacts DEF Word
<1>8. \A j : SavedByte(kp, cs[k + 1], q, j) = BytesOf(r)[j]
  BY <1>1, <1>2, <1>6 DEF SavedByte
<1>9. \A i \in 0 .. WordSize - 1 : u[Place(q, i)] = ByteOf(r, i)
  <2> SUFFICES ASSUME NEW i \in 0 .. WordSize - 1 PROVE u[Place(q, i)] = ByteOf(r, i)
    OBVIOUS
  <2>1. PICK j \in 0 .. WordSize - 1 : j = Place(0, i)
    <3>1. PICK z \in Nat : z = 0
      OBVIOUS
    <3>2. Place(z, i) \in z .. z + WordSize - 1
      BY Places
    <3> QED
      BY <3>1, <3>2, SizeFacts
  <2>2. q + j = Place(q, i)
    <3>1. Place(q, i) - q = Place(0, i) /\ Place(q, i) \in Nat
      BY Places
    <3> QED
      BY <2>1, <3>1
  <2>3. u[q + j] = BytesOf(r)[j]
    BY <1>8 DEF HasChunk
  <2>4. BytesOf(r)[j] = ByteOf(r, i)
    BY <1>7, <2>1, BytesOfNumber
  <2> QED
    BY <2>2, <2>3, <2>4
<1>10. Cell(u, q) = r
  <2>1. Cell(u, q) = r % W
    BY <1>7, <1>9, CellOfBytes
  <2>2. PICK w \in Nat : w = W
    BY SizeFacts
  <2>3. PICK x \in Nat : x = r /\ x < w
    BY <1>7, <2>2
  <2>4. x % w = x
    BY <2>3, SmallRemainder
  <2> QED
    BY <2>1, <2>2, <2>3, <2>4
<1>11. Restored(kind, r) = n
  BY <1>5, <1>6, RelativeRestored
<1>12. Fixed(u, q, kind) = Stored(u, q, n)
  BY <1>1, <1>10, <1>11 DEF Fixed
<1>13. PICK D, new : D = Loaded(img) /\ new = Stored(u, q, n)
  OBVIOUS
<1>14. HasStored(new, D, u, q, n)
  <2>1. u \in [D -> Nat] /\ q .. q + WordSize - 1 \subseteq D
    BY <1>13 DEF HasChunk
  <2>2. HasStored(Stored(u, q, n), D, u, q, n)
    BY <1>7, <2>1, StoredBytes
  <2> QED
    BY <1>13, <2>2
<1>15. \A x \in q .. q + WordSize - 1 : new[x] = kp[x]
  <2>1. \A i \in 0 .. WordSize - 1 : new[Place(q, i)] = kp[Place(q, i)]
    BY <1>4, <1>14 DEF HasStored
  <2>2. \A x \in q .. q + WordSize - 1 : \E i \in 0 .. WordSize - 1 : x = Place(q, i)
    BY Places
  <2> QED
    BY <2>1, <2>2
<1>16. new \in [D -> Nat] /\ \A x \in D \ (q .. q + WordSize - 1) : new[x] = u[x]
  BY <1>14 DEF HasStored
<1> QED
  BY <1>1, <1>12, <1>13, <1>15, <1>16 DEF IsFixed

\* After a turn one more chunk is linked.
LEMMA LinkedOneMore ==
  ASSUME NEW img, NEW kp, NEW cs, ImageOf(img, kp, cs), NEW k \in Nat, k < Len(cs),
         NEW m, LinkedTo(m, img, kp, cs, k),
         NEW p \in Nat, NEW q \in Nat, NEW e \in 1 .. 31, NEW l \in Nat,
         TurnAt(img, cs, k, p, q, e, l),
         NEW u, HasChunk(u, m, img, kp, cs[k + 1], q, e)
  PROVE  LinkedTo(Fixed(u, q, cs[k + 1].kind), img, kp, cs, k + 1)
<1>0. Plan(cs, kp) /\ k + 1 \in 1 .. Len(cs) /\ (k + 1) - 1 = k /\ cs[k + 1] \in Chunk
  <2>1. Plan(cs, kp) /\ cs \in Seq(Chunk)
    BY DEF ImageOf, Plan
  <2>2. k + 1 \in 1 .. Len(cs)
    BY <2>1
  <2> QED
    BY <2>1, <2>2
<1>1. Origin <= q /\ q <= p /\ q + e <= Size /\ p + e < Origin + l - 1
  BY DEF TurnAt
<1>2. q = EndOf(cs)[k] /\ e = cs[k + 1].length /\ l = Len(img) /\ p = ReadAt(cs, k)
  BY DEF TurnAt
<1>3. Origin \in Nat /\ Size \in Nat
  BY LinkAssumption
<1>4. PICK D : D = Loaded(img)
  OBVIOUS
<1>5. q .. q + e - 1 \subseteq D
  <2>1. q .. q + e - 1 \subseteq 0 .. Size - 1
    BY <1>1, <1>3
  <2> QED
    BY <1>4, <2>1 DEF Loaded
<1>6. /\ u \in [D -> Nat]
      /\ \A j \in 0 .. e - 1 : u[q + j] = SavedByte(kp, cs[k + 1], q, j)
      /\ \A x \in D \ (q .. q + e - 1) : u[x] = m[x]
  BY <1>4 DEF HasChunk
<1>u. PICK new : new = Fixed(u, q, cs[k + 1].kind)
  OBVIOUS
<1>7. /\ new \in [D -> Nat]
      /\ \A x \in q .. q + e - 1 : new[x] = kp[x]
      /\ \A x \in D \ (q .. q + e - 1) : new[x] = u[x]
  <2>1. CASE cs[k + 1].kind = "abs"
    <3>1. new = u
      BY <1>u, <2>1 DEF Fixed
    <3>2. ASSUME NEW x \in q .. q + e - 1 PROVE u[x] = kp[x]
      <4>1. PICK j \in 0 .. e - 1 : x = q + j
        <5>1. x - q \in 0 .. e - 1 /\ x = q + (x - q)
          OBVIOUS
        <5> QED
          BY <5>1
      <4>2. u[q + j] = kp[q + j]
        BY <1>6, <2>1 DEF SavedByte
      <4> QED
        BY <4>1, <4>2
    <3> QED
      BY <1>6, <3>1, <3>2
  <2>2. CASE cs[k + 1].kind # "abs"
    <3>1. cs[k + 1].length = WordSize
      BY <1>0, <2>2, ChunkFacts
    <3>2. e = WordSize
      BY <1>2, <3>1
    <3>3. TurnAt(img, cs, k, p, q, WordSize, l) /\ HasChunk(u, m, img, kp, cs[k + 1], q, WordSize)
      BY <3>2
    <3>4. q .. q + WordSize - 1 \subseteq Loaded(img)
      BY <1>4, <1>5, <3>2
    <3>6. IsFixed(Fixed(u, q, cs[k + 1].kind), Loaded(img), kp, u, q, WordSize)
      BY <2>2, <3>3, <3>4, FixedUp
    <3>7. IsFixed(new, D, kp, u, q, e)
      BY <1>4, <1>u, <3>2, <3>6
    <3> QED
      BY <3>7 DEF IsFixed
  <2> QED
    BY <2>1, <2>2
<1>8. ReadAt(cs, k + 1) = p + 1 + e /\ EndOf(cs)[k + 1] = q + e
  BY DEF TurnAt
<1>9. ASSUME NEW a \in p + 1 + e .. Origin + l - 1 PROVE new[a] = img[a - Origin + 1]
  <2>1. a \in D \ (q .. q + e - 1)
    <3>1. a \in Origin .. Origin + l - 1
      BY <1>1, <1>3
    <3>2. a \notin q .. q + e - 1
      BY <1>1, <1>3
    <3> QED
      BY <1>2, <1>4, <3>1, <3>2 DEF Loaded
  <2>2. new[a] = m[a]
    BY <1>6, <1>7, <2>1
  <2>3. a \in p .. Origin + l - 1
    BY <1>3
  <2>4. m[a] = img[a - Origin + 1]
    BY <1>2, <2>3 DEF LinkedTo
  <2> QED
    BY <2>2, <2>4
<1>10. ASSUME NEW a \in Origin .. q + e - 1 PROVE new[a] = kp[a]
  <2>1. CASE a \in q .. q + e - 1
    BY <1>7, <2>1
  <2>2. CASE a \notin q .. q + e - 1
    <3>1. a \in 0 .. Size - 1 /\ a \in Origin .. q - 1
      BY <1>1, <1>3, <2>2
    <3>2. a \in D
      BY <1>4, <3>1 DEF Loaded
    <3>3. new[a] = m[a]
      BY <1>6, <1>7, <2>2, <3>2
    <3>4. m[a] = kp[a]
      BY <1>2, <3>1 DEF LinkedTo
    <3> QED
      BY <3>3, <3>4
  <2> QED
    BY <2>1, <2>2
<1>11. \A a \in ReadAt(cs, k + 1) .. Origin + Len(img) - 1 : new[a] = img[a - Origin + 1]
  <2>1. \A a \in p + 1 + e .. Origin + l - 1 : new[a] = img[a - Origin + 1]
    BY <1>9
  <2>2. ReadAt(cs, k + 1) = p + 1 + e /\ Len(img) = l
    BY <1>2, <1>8
  <2> QED
    BY ONLY <2>1, <2>2
<1>12. \A a \in Origin .. EndOf(cs)[k + 1] - 1 : new[a] = kp[a]
  <2>1. \A a \in Origin .. q + e - 1 : new[a] = kp[a]
    BY <1>10
  <2>2. EndOf(cs)[k + 1] = q + e
    BY <1>8
  <2> QED
    BY ONLY <2>1, <2>2
<1> QED
  BY <1>4, <1>u, <1>7, <1>11, <1>12 DEF LinkedTo

\* All chunks saved, and a null.
LEMMA NullAppended ==
  ASSUME NEW cs, NEW m, Plan(cs, m), NEW img, SavedTo(img, m, cs, Len(cs))
  PROVE  ImageOf(Append(img, 0), m, cs)
<1>0. cs \in Seq(Chunk) /\ Len(cs) \in Nat
  <2>1. cs \in Seq(Chunk)
    BY DEF Plan
  <2> QED
    BY <2>1
<1>1. img \in Seq(Nat) /\ Len(img) \in Nat
  BY DEF SavedTo
<1>2. PICK l \in Nat : l = Len(img)
  BY <1>1
<1>3. FlagAt(cs, Len(cs) + 1) = l + 1
  <2>1. FlagAt(cs, Len(cs) + 1) = EndOf(cs)[Len(cs)] - Origin + Len(cs) + 1
        /\ EndOf(cs)[Len(cs)] \in Nat
    <3>1. Len(cs) \in 0 .. Len(cs)
      BY <1>0
    <3> QED
      BY <1>0, <3>1, Ahead
  <2>2. FlagAt(cs, Len(cs) + 1) \in Int
    BY <1>0, <2>1, LinkAssumption
  <2>3. l = FlagAt(cs, Len(cs) + 1) - 1
    BY <1>2 DEF SavedTo
  <2> QED
    BY <2>2, <2>3
<1>4. PICK new : new = Append(img, 0)
  OBVIOUS
<1>5. /\ new \in Seq(Nat) /\ Len(new) = l + 1 /\ new[l + 1] = 0
      /\ \A x \in 1 .. l : new[x] = img[x]
  BY <1>1, <1>2, <1>4
<1>6. ASSUME NEW i \in 1 .. Len(cs) PROVE Written(new, m, cs, i)
  <2>1. PICK d \in 1 .. 31 : d = cs[i].length
    <3>1. cs[i] \in Chunk
      BY <1>0
    <3> QED
      BY <3>1, ChunkFacts
  <2>2. PICK p \in Nat : p = FlagAt(cs, i) /\ p > 0
    BY <1>0, FlagFacts
  <2>3. p + d < l + 1
    <3>1. Len(cs) + 1 \in i + 1 .. Len(cs) + 1
      BY <1>0
    <3>2. FlagAt(cs, i) + cs[i].length < FlagAt(cs, Len(cs) + 1)
      BY <1>0, <3>1, FlagFacts
    <3> QED
      BY <1>3, <2>1, <2>2, <3>2
  <2>4. /\ img[p] = Flags[cs[i].kind] + d
        /\ \A j \in 0 .. d - 1 : img[p + 1 + j] = SavedByte(m, cs[i], EndOf(cs)[i - 1], j)
    BY <2>1, <2>2 DEF SavedTo, Written
  <2>5. p \in 1 .. l /\ \A j \in 0 .. d - 1 : p + 1 + j \in 1 .. l
    BY <2>2, <2>3
  <2>6. /\ new[p] = Flags[cs[i].kind] + d
        /\ \A j \in 0 .. d - 1 : new[p + 1 + j] = SavedByte(m, cs[i], EndOf(cs)[i - 1], j)
    BY <1>5, <2>4, <2>5
  <2> QED
    BY <2>1, <2>2, <2>6 DEF Written
<1>7. Len(new) = FlagAt(cs, Len(cs) + 1) /\ new[Len(new)] = 0
  BY <1>3, <1>5
<1> QED
  BY <1>4, <1>5, <1>6, <1>7 DEF ImageOf

-----------------------------------------------------------------------------
(* The linker.                                                             *)

\* While saving: the first k of the chunks cs are in the image, the others are
\* still to be saved.
Saving(cs, k) ==
  /\ Plan(cs, mem)
  /\ k \in Nat /\ k <= Len(cs)
  /\ chunks \in Seq(Chunk) /\ Len(chunks) = Len(cs) - k
  /\ \A i \in 1 .. Len(chunks) : chunks[i] = cs[k + i]
  /\ pp = EndOf(cs)[k]
  /\ SavedTo(image, mem, cs, k)

\* While linking: the first k are linked, and both pointers after them.
Linking(cs, k) ==
  /\ ImageOf(image, kept, cs)
  /\ k \in Nat /\ k <= Len(cs)
  /\ pp = ReadAt(cs, k) /\ qq = EndOf(cs)[k]
  /\ LinkedTo(mem, image, kept, cs, k)

\* The inductive invariant.
LinkerInv ==
  /\ fp \in {"saving", "linking", "cold"}
  /\ fp = "saving" => \E cs, k : Saving(cs, k)
  /\ fp = "linking" => \E cs, k : Linking(cs, k)

LEMMA LinkerInitInv == LinkerInit => LinkerInv
<1> SUFFICES ASSUME LinkerInit PROVE LinkerInv
  OBVIOUS
<1>1. chunks \in Seq(Chunk) /\ Len(chunks) \in Nat
  <2>1. chunks \in Seq(Chunk)
    BY DEF LinkerInit
  <2> QED
    BY <2>1
<1>2. Plan(chunks, mem)
  <2>1. DOMAIN chunks = 1 .. Len(chunks)
    BY <1>1
  <2> QED
    BY <1>1, <2>1 DEF LinkerInit, Plan
<1>3. SavedTo(image, mem, chunks, 0)
  <2>1. image = <<>> /\ image \in Seq(Nat) /\ Len(image) = 0
    BY DEF LinkerInit
  <2>2. FlagAt(chunks, 0 + 1) = EndOf(chunks)[0] - Origin + 0 + 1
    <3>1. 0 \in 0 .. Len(chunks)
      BY <1>1
    <3> QED
      BY <1>1, <3>1, Ahead
  <2>3. EndOf(chunks)[0] = Origin /\ Origin \in Nat
    BY <1>1, Ends, LinkAssumption
  <2>4. FlagAt(chunks, 0 + 1) - 1 = 0
    BY <2>2, <2>3
  <2> QED
    BY <2>1, <2>4 DEF SavedTo
<1>4. pp = EndOf(chunks)[0]
  BY <1>1, Ends DEF LinkerInit
<1>5. Saving(chunks, 0)
  <2>1. \A i \in 1 .. Len(chunks) : chunks[i] = chunks[0 + i]
    OBVIOUS
  <2> QED
    BY <1>1, <1>2, <1>3, <1>4, <2>1 DEF Saving
<1>6. fp = "saving"
  BY DEF LinkerInit
<1> QED
  BY <1>5, <1>6 DEF LinkerInv

LEMMA SaveChunkInv ==
  ASSUME LinkerInv, SaveChunk
  PROVE  LinkerInv'
<1>1. PICK cs, k : Saving(cs, k)
  BY DEF LinkerInv, SaveChunk
<1>2. cs \in Seq(Chunk) /\ Len(cs) \in Nat /\ k \in Nat /\ chunks \in Seq(Chunk)
  <2>1. cs \in Seq(Chunk)
    BY <1>1 DEF Saving, Plan
  <2> QED
    BY <1>1, <2>1 DEF Saving
<1>3. k < Len(cs) /\ Len(chunks) > 0
  <2>1. chunks # <<>> /\ Len(chunks) \in Nat /\ Len(chunks) = Len(cs) - k
    BY <1>1, <1>2 DEF SaveChunk, Saving
  <2>2. Len(chunks) # 0
    BY <1>2, <2>1
  <2> QED
    BY <1>2, <2>1, <2>2
<1>4. Head(chunks) = cs[k + 1]
  <2>1. 1 \in 1 .. Len(chunks)
    BY <1>2, <1>3
  <2>2. chunks[1] = cs[k + 1]
    BY <1>1, <2>1 DEF Saving
  <2> QED
    BY <1>2, <1>3, <2>2
<1>5. SavedTo(image', mem', cs, k + 1)
  <2>1. SavedTo(image \o SavedChunk(mem, cs[k + 1], EndOf(cs)[k]), mem, cs, k + 1)
    BY <1>1, <1>2, <1>3, SavedOneMore DEF Saving
  <2>2. image' = image \o SavedChunk(mem, cs[k + 1], EndOf(cs)[k]) /\ mem' = mem
    BY <1>1, <1>4 DEF SaveChunk, Saving
  <2> QED
    BY <2>1, <2>2
<1>6. pp' = EndOf(cs)[k + 1]
  <2>1. k + 1 \in 1 .. Len(cs) /\ (k + 1) - 1 = k
    BY <1>2, <1>3
  <2>2. EndOf(cs)[k + 1] = EndOf(cs)[k] + cs[k + 1].length
    BY <1>2, <2>1, Ends
  <2> QED
    BY <1>1, <1>4, <2>2 DEF SaveChunk, Saving
<1>7. /\ chunks' \in Seq(Chunk) /\ Len(chunks') = Len(cs) - (k + 1)
      /\ \A i \in 1 .. Len(chunks') : chunks'[i] = cs[(k + 1) + i]
  <2>1. chunks' = Tail(chunks)
    BY DEF SaveChunk
  <2>2. Tail(chunks) \in Seq(Chunk) /\ Len(Tail(chunks)) = Len(chunks) - 1
    BY <1>2, <1>3
  <2>3. Len(Tail(chunks)) = Len(cs) - (k + 1)
    BY <1>1, <1>2, <2>2 DEF Saving
  <2>4. ASSUME NEW i \in 1 .. Len(Tail(chunks)) PROVE Tail(chunks)[i] = cs[(k + 1) + i]
    <3>1. i + 1 \in 1 .. Len(chunks) /\ k + (i + 1) = (k + 1) + i
      BY <1>2, <2>2
    <3>2. chunks[i + 1] = cs[k + (i + 1)]
      BY <1>1, <3>1 DEF Saving
    <3>3. Tail(chunks)[i] = chunks[i + 1]
      BY <1>2, <1>3, <2>2
    <3> QED
      BY <3>1, <3>2, <3>3
  <2> QED
    BY <2>1, <2>2, <2>3, <2>4
<1>8. Plan(cs, mem')
  BY <1>1 DEF Saving, SaveChunk
<1>9. k + 1 \in Nat /\ k + 1 <= Len(cs)
  BY <1>2, <1>3
<1>10. Saving(cs, k + 1)'
  BY <1>5, <1>6, <1>7, <1>8, <1>9 DEF Saving
<1>11. fp' = "saving"
  BY DEF SaveChunk
<1> QED
  BY <1>10, <1>11 DEF LinkerInv

LEMMA LoadInv ==
  ASSUME LinkerInv, Load
  PROVE  LinkerInv'
<1>1. PICK cs, k : Saving(cs, k)
  BY DEF LinkerInv, Load
<1>2. cs \in Seq(Chunk) /\ Len(cs) \in Nat /\ k = Len(cs)
  <2>1. cs \in Seq(Chunk) /\ chunks = <<>>
    BY <1>1 DEF Saving, Plan, Load
  <2>2. Len(chunks) = 0 /\ Len(cs) \in Nat
    BY <2>1
  <2>3. k \in Nat /\ Len(chunks) = Len(cs) - k
    BY <1>1 DEF Saving
  <2> QED
    BY <2>1, <2>2, <2>3
<1>3. SavedTo(image, mem, cs, Len(cs)) /\ Plan(cs, mem)
  BY <1>1, <1>2 DEF Saving
<1>4. image' = Append(image, 0) /\ kept' = mem
  BY DEF Load
<1>5. ImageOf(image', kept', cs)
  BY <1>3, <1>4, NullAppended
<1>6. /\ image \in Seq(Nat) /\ Len(image) \in Nat /\ image' \in Seq(Nat)
      /\ Len(image') = Len(image) + 1
  <2>1. image \in Seq(Nat)
    BY <1>3 DEF SavedTo
  <2> QED
    BY <1>4, <2>1
<1>7. PICK l \in Nat : l = Len(image)
  BY <1>6
<1>8. Origin + Len(image') - 1 = Origin + l /\ Origin \in Nat /\ Size \in Nat
  BY <1>6, <1>7, LinkAssumption
<1>9. mem \in [0 .. Size - 1 -> Nat]
  <2>1. mem \in [0 .. Size - 1 -> 0 .. Byte - 1]
    BY <1>3 DEF Plan
  <2>2. 0 .. Byte - 1 \subseteq Nat
    BY SizeFacts
  <2> QED
    BY <2>1, <2>2
<1>10. Loaded(image') = (0 .. Size - 1) \cup (Origin .. Origin + l)
  BY <1>8 DEF Loaded
<1>11. mem' = [a \in (0 .. Size - 1) \cup (Origin .. Origin + l) |->
                 IF a \in Origin .. Origin + l THEN image'[a - Origin + 1] ELSE mem[a]]
  <2>1. DOMAIN mem = 0 .. Size - 1
    BY <1>9
  <2> QED
    BY <1>7, <2>1 DEF Load
<1>12. \A a \in Origin .. Origin + l : image'[a - Origin + 1] \in Nat
  <2>1. \A a \in Origin .. Origin + l : a - Origin + 1 \in 1 .. Len(image')
    BY <1>6, <1>7, <1>8
  <2> QED
    BY <1>6, <2>1
<1>13. mem' \in [Loaded(image') -> Nat]
  BY <1>9, <1>10, <1>11, <1>12
<1>14. \A a \in Origin .. Origin + l : mem'[a] = image'[a - Origin + 1]
  BY <1>11
<1>15. EndOf(cs)[0] = Origin /\ ReadAt(cs, 0) = Origin
  <2>1. 0 \in 0 .. Len(cs)
    BY <1>2
  <2>2. EndOf(cs)[0] = Origin
    BY <1>2, Ends
  <2>3. ReadAt(cs, 0) = EndOf(cs)[0] + 0
    BY <1>2, <2>1, Ahead
  <2> QED
    BY <1>8, <2>2, <2>3
<1>16. LinkedTo(mem', image', kept', cs, 0)
  <2>1. \A a \in ReadAt(cs, 0) .. Origin + Len(image') - 1 : mem'[a] = image'[a - Origin + 1]
    BY <1>8, <1>14, <1>15
  <2>2. \A a \in Origin .. EndOf(cs)[0] - 1 : mem'[a] = kept'[a]
    BY <1>8, <1>15
  <2> QED
    BY <1>13, <2>1, <2>2 DEF LinkedTo
<1>17. pp' = Origin /\ qq' = Origin /\ fp' = "linking"
  BY DEF Load
<1>18. Linking(cs, 0)'
  BY <1>2, <1>5, <1>15, <1>16, <1>17 DEF Linking
<1> QED
  BY <1>17, <1>18 DEF LinkerInv


\* What is in the flag of a chunk.
LEMMA FlagRead ==
  ASSUME NEW f \in {0, 32, 64, 96}, NEW e \in 1 .. 31
  PROVE  (f + e) % 32 = e /\ (f + e) - e = f /\ f + e # 0
<1>1. CASE f = 0
  BY <1>1
<1>2. CASE f = 32
  BY <1>2
<1>3. CASE f = 64
  BY <1>3
<1>4. CASE f = 96
  BY <1>4
<1> QED
  BY <1>1, <1>2, <1>3, <1>4

LEMMA LinkChunkInv ==
  ASSUME LinkerInv, LinkChunk
  PROVE  LinkerInv'
<1>1. PICK cs, k : Linking(cs, k)
  BY DEF LinkerInv, LinkChunk
<1>2. ImageOf(image, kept, cs) /\ LinkedTo(mem, image, kept, cs, k) /\ k \in Nat
  BY <1>1 DEF Linking
<1>3. cs \in Seq(Chunk) /\ Len(cs) \in Nat /\ Origin \in Nat
  <2>1. cs \in Seq(Chunk)
    BY <1>2 DEF ImageOf, Plan
  <2> QED
    BY <2>1, LinkAssumption
<1>4. k < Len(cs)
  <2> SUFFICES ASSUME k = Len(cs) PROVE FALSE
    BY <1>1, <1>3 DEF Linking
  <2>1. PICK f \in Nat : f = Len(image)
    BY <1>2 DEF ImageOf
  <2>2. k \in 0 .. Len(cs) /\ FlagAt(cs, k + 1) = f
    BY <1>2, <1>3, <2>1 DEF ImageOf
  <2>3. ReadAt(cs, k) = Origin + f - 1
    BY <2>2 DEF ReadAt
  <2>4. pp = Origin + f - 1
    BY <1>1, <2>3 DEF Linking
  <2>5. Origin + f - 1 \in ReadAt(cs, k) .. Origin + f - 1 /\ (Origin + f - 1) - Origin + 1 = f
    BY <1>3, <2>3
  <2>6. mem[Origin + f - 1] = image[f]
    BY <1>2, <2>1, <2>5 DEF LinkedTo
  <2>7. image[f] = 0
    BY <1>2, <2>1 DEF ImageOf
  <2> QED
    BY <2>4, <2>6, <2>7 DEF LinkChunk
<1>5. PICK p \in Nat, q \in Nat, e \in 1 .. 31, l \in Nat : TurnAt(image, cs, k, p, q, e, l)
  <2>1. PICK img, kp : img = image /\ kp = kept
    OBVIOUS
  <2>2. ImageOf(img, kp, cs)
    BY <1>2, <2>1
  <2>3. \E p \in Nat, q \in Nat, e \in 1 .. 31, l \in Nat : TurnAt(img, cs, k, p, q, e, l)
    BY <1>2, <1>4, <2>2, Turn
  <2> QED
    BY <2>1, <2>3
<1>6. PICK c \in Chunk : c = cs[k + 1]
  <2>1. k + 1 \in 1 .. Len(cs)
    BY <1>2, <1>3, <1>4
  <2> QED
    BY <1>3, <2>1
<1>7. pp = p /\ qq = q
  BY <1>1, <1>5 DEF Linking, TurnAt
<1>8. /\ mem[p] = Flags[c.kind] + e
      /\ HasChunk(Moved(mem, p + 1, q, e), mem, image, kept, c, q, e)
  <2>1. PICK img, kp, m : img = image /\ kp = kept /\ m = mem
    OBVIOUS
  <2>2. ImageOf(img, kp, cs) /\ LinkedTo(m, img, kp, cs, k) /\ TurnAt(img, cs, k, p, q, e, l)
    BY <1>2, <1>5, <2>1
  <2>3. /\ m[p] = Flags[cs[k + 1].kind] + e
        /\ HasChunk(Moved(m, p + 1, q, e), m, img, kp, cs[k + 1], q, e)
    BY <1>2, <1>4, <2>2, TurnMoves
  <2> QED
    BY <1>6, <2>1, <2>3
<1>9. LinkedTo(Fixed(Moved(mem, p + 1, q, e), q, c.kind), image, kept, cs, k + 1)
  BY <1>2, <1>4, <1>5, <1>6, <1>8, LinkedOneMore
<1>10. PICK f \in {0, 32, 64, 96} : f = Flags[c.kind]
  BY FlagValues
<1>11. (f + e) % 32 = e /\ (f + e) - e = f
  BY FlagRead
<1> DEFINE u == Moved(mem, p + 1, q, e)
<1>12. /\ mem' = CASE f = 32 -> Stored(u, q, Wrapped(Cell(u, q) + Origin))
                   [] f = 64 -> Stored(u, q, Wrapped(Cell(u, q) + Limit))
                   [] f = 96 -> Stored(u, q, CodeOf(LinkCodes[Cell(u, q) + 1]))
                   [] OTHER -> u
       /\ pp' = p + 1 + e
       /\ qq' = q + e
  <2>1. mem[pp] = f + e
    BY <1>7, <1>8, <1>10
  <2> QED
    BY <1>7, <1>11, <2>1 DEF LinkChunk, FixAt
<1> HIDE DEF u
<1>13. mem' = Fixed(u, q, c.kind)
  <2>1. CASE c.kind = "abs"
    BY <1>10, <1>12, <2>1, FlagValues DEF Fixed
  <2>2. CASE c.kind = "rto"
    BY <1>10, <1>12, <2>2, FlagValues DEF Fixed, Restored
  <2>3. CASE c.kind = "rtl"
    BY <1>10, <1>12, <2>3, FlagValues DEF Fixed, Restored
  <2>4. CASE c.kind = "lnk"
    BY <1>10, <1>12, <2>4, FlagValues DEF Fixed, Restored
  <2> QED
    BY <2>1, <2>2, <2>3, <2>4, ChunkFacts
<1>14. pp' = ReadAt(cs, k + 1) /\ qq' = EndOf(cs)[k + 1]
  BY <1>5, <1>12 DEF TurnAt
<1>15. image' = image /\ kept' = kept /\ fp' = "linking"
  BY DEF LinkChunk
<1>16. Linking(cs, k + 1)'
  <2>1. LinkedTo(mem', image', kept', cs, k + 1) /\ ImageOf(image', kept', cs)
    BY <1>2, <1>9, <1>13, <1>15 DEF u
  <2>2. k + 1 \in Nat /\ k + 1 <= Len(cs)
    BY <1>2, <1>3, <1>4
  <2> QED
    BY <1>14, <2>1, <2>2 DEF Linking
<1> QED
  BY <1>15, <1>16 DEF LinkerInv

LEMMA LinkerInvLinks == LinkerInv => LinksInPlace
<1> SUFFICES ASSUME LinkerInv, fp = "linking" PROVE LinksInPlace
  BY DEF LinksInPlace, LinkReadsAhead, LinkRestores
<1>1. PICK cs, k : Linking(cs, k)
  BY DEF LinkerInv
<1>2. cs \in Seq(Chunk) /\ k \in 0 .. Len(cs) /\ k \in Nat
  <2>1. cs \in Seq(Chunk) /\ k \in Nat /\ k <= Len(cs)
    BY <1>1 DEF Linking, ImageOf, Plan
  <2> QED
    BY <2>1
<1>3. PICK q \in Nat : q = EndOf(cs)[k]
  BY <1>2, Ends
<1>4. qq = q /\ pp = q + k
  BY <1>1, <1>2, <1>3, Ahead DEF Linking
<1>5. qq <= pp
  BY <1>2, <1>4
<1>6. \A a \in pp .. Origin + Len(image) - 1 : mem[a] = image[a - Origin + 1]
  BY <1>1 DEF Linking, LinkedTo
<1>7. \A a \in Origin .. qq - 1 : mem[a] = kept[a]
  BY <1>1 DEF Linking, LinkedTo
<1> QED
  BY <1>5, <1>6, <1>7 DEF LinksInPlace, LinkReadsAhead, LinkRestores

\* Of any image that is saved, of chunks of up to 31 bytes that end in memory, what
\* link.c reads it has not yet written over, and what it has written is memory as it
\* was saved: rf_inst of src/link.c, in place.
THEOREM LinkedInPlace == LinkerSpec => []LinksInPlace
<1>1. LinkerInit => LinkerInv
  BY LinkerInitInv
<1>2. LinkerInv /\ [LinkerNext]_linker => LinkerInv'
  <2> SUFFICES ASSUME LinkerInv, [LinkerNext]_linker PROVE LinkerInv'
    OBVIOUS
  <2>1. CASE SaveChunk
    BY <2>1, SaveChunkInv
  <2>2. CASE Load
    BY <2>2, LoadInv
  <2>3. CASE LinkChunk
    BY <2>3, LinkChunkInv
  <2>4. CASE LinkDone
    BY <2>4 DEF LinkDone, LinkerInv
  <2>5. CASE UNCHANGED linker
    BY <2>5 DEF linker, LinkerInv, Saving, Linking
  <2> QED
    BY <2>1, <2>2, <2>3, <2>4, <2>5 DEF LinkerNext
<1>3. LinkerInv => LinksInPlace
  BY LinkerInvLinks
<1> QED
  BY <1>1, <1>2, <1>3, PTL DEF LinkerSpec

-----------------------------------------------------------------------------
(* The double arithmetic.                                                  *)

\* W, as a number: the proofs need no more of it.
LEMMA WordFacts ==
  /\ W \in Nat /\ W > 1 /\ W % 2 = 0
  /\ TopBit \in Nat /\ W = 2 * TopBit
<1>1. W \in Nat /\ W > 1
  <2>1. PICK k \in 1 .. WordSize : k = WordSize
    BY SizeFacts
  <2>2. k - 1 \in 0 .. WordSize
    BY SizeFacts
  <2>3. PICK p \in Nat, c \in Nat : p = Power[k - 1] /\ c = Byte /\ p > 0 /\ c > 1
    BY <2>2, SizeFacts, Powers
  <2>4. W = p * c
    BY <2>1, <2>3, SizeFacts, Powers
  <2>5. p * c > 1 /\ p * c \in Nat
    BY <2>3, Z3
  <2> QED
    BY <2>4, <2>5
<1>2. W % 2 = 0
  <2>1. W \in 1 .. W /\ W % W = 0
    BY <1>1, Z3
  <2> QED BY <2>1, <1>1, BitsAssumption
<1> QED BY <1>1, <1>2, Z3 DEF TopBit

-----------------------------------------------------------------------------
(* The division.                                                           *)

\* The remainder of a number that wraps once at most.
LEMMA OneWrap ==
  ASSUME NEW n \in Nat, NEW w \in Nat, n < 2 * w
  PROVE  (n >= w => n % w = n - w) /\ (n < w => n % w = n)
<1>1. CASE n >= w
  <2>1. n - w \in Nat /\ n - w < w /\ n = 1 * w + (n - w)
    BY <1>1
  <2> DEFINE r == n - w
  <2>2. r \in Nat /\ r < w /\ n = 1 * w + r
    BY <2>1
  <2> HIDE DEF r
  <2>3. n % w = r
    BY <2>2, Quotient
  <2> QED BY <2>3, <1>1 DEF r
<1>2. CASE n < w
  <2>1. n = 0 * w + n
    OBVIOUS
  <2> QED BY <2>1, <1>2, Quotient
<1> QED BY <1>1, <1>2

\* A shift to the left, of a number below the top bit and of one above.
LEMMA Shift ==
  ASSUME NEW a \in Word
  PROVE  Wrapped(2 * a) = 2 * a - W * Flag(a >= TopBit)
<1>1. a \in Int /\ 0 <= a /\ a < W
  BY WordFacts DEF Word
<1>2. 2 * a \in Nat /\ 2 * a < 2 * W
  BY <1>1, WordFacts
<1>3. (2 * a >= W => (2 * a) % W = 2 * a - W) /\ (2 * a < W => (2 * a) % W = 2 * a)
  BY <1>2, WordFacts, OneWrap
<1> QED BY <1>1, <1>3, WordFacts DEF Wrapped, Flag

\* The top bit of the low cell is that of the part that waits in it.
LEMMA TopBitWaits ==
  ASSUME NEW x \in Nat, NEW k \in Nat, NEW m \in Nat, NEW q \in Nat,
         (2 * x) * k = W, q < k
  PROVE  (m * k + q >= TopBit) <=> (m >= x)
<1>1. x * k = TopBit
  BY WordFacts, Z3
<1>2. CASE m >= x
  <2>1. PICK d \in Nat : m = x + d
    <3>1. m - x \in Nat /\ m = x + (m - x)
      BY <1>2
    <3> QED BY <3>1
  <2>2. m * k = x * k + d * k /\ d * k \in Nat
    BY <2>1, Z3
  <2>3. x * k \in Nat /\ m * k \in Nat
    BY Z3
  <2> QED BY <1>1, <1>2, <2>2, <2>3
<1>3. CASE m < x
  <2>1. PICK d \in Nat : x = m + 1 + d
    <3>1. x - m - 1 \in Nat /\ x = m + 1 + (x - m - 1)
      BY <1>3
    <3> QED BY <3>1
  <2>2. x * k = m * k + k + d * k /\ d * k \in Nat
    BY <2>1, Z3
  <2>3. x * k \in Nat /\ m * k \in Nat
    BY Z3
  <2> QED BY <1>1, <1>3, <2>2, <2>3
<1> QED BY <1>2, <1>3

\* The inductive invariant: the operands are kept, the loop is Halfway, and what
\* a return has left.
Inv ==
  /\ TypeOK
  /\ DivisionKept
  /\ ~done /\ weight = W => uh = uh0 /\ ul = ul0
  /\ done => IF Refused THEN uh = W - 1 /\ ul = W - 1 ELSE weight = 1

LEMMA InitInv == Init => Inv
<1> SUFFICES ASSUME Init PROVE Inv
  OBVIOUS
<1>1. W \in 1 .. W /\ 1 \in 1 .. W /\ 0 \in Word
  BY WordFacts DEF Word
<1>2. TypeOK
  BY <1>1 DEF Init, TypeOK
<1>3. ASSUME ~Refused PROVE Halfway
  <2>1. uh < v
    BY <1>3, WordFacts DEF Init, Refused, Word
  <2>2. ul \in Word /\ ul < W /\ ul = ul * 1 + 0 /\ weight * 1 = W
    BY WordFacts DEF Init, Word
  <2>3. Double(uh0, ul0) = (0 * v + uh) * weight + ul
    BY WordFacts DEF Init, Word, Double
  <2> QED
    BY <1>1, <2>1, <2>2, <2>3 DEF Halfway, Init
<1> QED BY <1>2, <1>3 DEF Inv, Init, DivisionKept

\* One bit: the numbers before and after a step of the loop, without the state.
LEMMA OneBit ==
  ASSUME NEW x \in Nat, NEW k \in Nat, NEW m \in Nat, NEW q \in Nat,
         NEW t \in Nat, NEW d \in Nat, NEW h \in Nat, NEW n \in Nat, NEW b \in {0, 1},
         NEW c \in {0, 1},
         n = (q * d + h) * (2 * x) + m,
         t = 2 * h + c - b * d
  PROVE  n = ((2 * q + b) * d + t) * x + (m - c * x)
<1>1. (2 * q + b) * d = 2 * (q * d) + b * d
  BY Z3
<1>2. (2 * q + b) * d + t = 2 * (q * d + h) + c
  <2>1. q * d \in Int /\ b * d \in Int
    OBVIOUS
  <2> QED BY <1>1, <2>1
<1> DEFINE y == q * d + h
<1>3. y \in Int
  OBVIOUS
<1>4. (2 * y + c) * x + (m - c * x) = y * (2 * x) + m
  <2> HIDE DEF y
  <2> QED BY <1>3, Z3
<1> QED BY <1>2, <1>4

\* The same for the low cell, in which the quotient grows.
LEMMA OneBitLow ==
  ASSUME NEW x \in Nat, NEW k \in Nat, NEW m \in Nat, NEW q \in Nat,
         NEW b \in {0, 1}, NEW c \in {0, 1}, NEW w \in Nat, (2 * x) * k = w
  PROVE  2 * (m * k + q) - w * c + b = (m - c * x) * (2 * k) + (2 * q + b)
<1>1. CASE c = 0
  BY <1>1, Z3
<1>2. CASE c = 1
  <2>1. (m - x) * (2 * k) = m * (2 * k) - x * (2 * k)
    BY Z3
  <2>2. x * (2 * k) = w /\ m * (2 * k) = 2 * (m * k)
    BY Z3
  <2>3. m * k \in Int
    OBVIOUS
  <2> QED BY <1>2, <2>1, <2>2, <2>3
<1> QED BY <1>1, <1>2

LEMMA StepInv ==
  ASSUME TypeOK, Halfway, DivideStep
  PROVE  TypeOK' /\ Halfway'
<1>1. PICK k \in 1 .. W, m \in Word, q \in Word :
        /\ weight * k = W
        /\ m < weight /\ q < k /\ uh < v
        /\ ul = m * k + q
        /\ Double(uh0, ul0) = (q * v + uh) * weight + m
  BY DEF Halfway
<1>2. /\ v \in Nat /\ v < TopBit /\ uh \in Nat /\ ul \in Word /\ m \in Nat /\ q \in Nat
      /\ k \in Nat /\ k > 0 /\ k \in Int
  BY WordFacts DEF TypeOK, DivideStep, Refused, Word
<1>3. PICK x \in Nat : weight = 2 * x
  <2>1. weight \in 1 .. W /\ weight > 1
    BY DEF TypeOK, DivideStep
  <2>2. W % weight = 0
    <3>1. k \in Nat /\ 0 \in Nat /\ weight \in Nat /\ W \in Nat /\ W = k * weight + 0 /\ 0 < weight
      BY <1>1, <1>2, <2>1, WordFacts
    <3> QED BY <3>1, Quotient
  <2>3. weight % 2 = 0
    BY <2>1, <2>2, BitsAssumption
  <2>4. weight \div 2 \in Nat /\ weight = 2 * (weight \div 2)
    BY <2>1, <2>3
  <2> QED BY <2>4
<1>4. x > 0 /\ weight' = x
  <2>1. weight \in 1 .. W
    BY DEF TypeOK
  <2> QED BY <1>3, <2>1 DEF DivideStep
<1> DEFINE c == Flag(ul >= TopBit)
           b == Flag(Subtracts)
<1>5. c \in {0, 1} /\ b \in {0, 1}
  BY DEF Flag
<1>6. c = Flag(m >= x)
  <2>1. (2 * x) * k = W
    BY <1>1, <1>3
  <2>2. (m * k + q >= TopBit) <=> (m >= x)
    BY <1>1, <1>2, <2>1, TopBitWaits
  <2> QED BY <1>1, <2>2 DEF Flag
<1>7. Shifted = 2 * uh + c
  <2>1. 2 * uh + c \in Nat /\ 2 * uh + c < W
    BY <1>1, <1>2, <1>5, WordFacts
  <2>2. (2 * uh + c) % W = 2 * uh + c
    <3> DEFINE n == 2 * uh + c
    <3>1. n \in Nat /\ n < W /\ n < 2 * W
      BY <2>1, WordFacts
    <3> HIDE DEF n
    <3>2. n % W = n
      BY <3>1, WordFacts, OneWrap
    <3> QED BY <3>2 DEF n
  <2> QED BY <2>2 DEF Shifted, Wrapped
<1>8. uh' = 2 * uh + c - b * v /\ uh' \in Nat /\ uh' < v /\ uh' \in Word
  <2>1. 2 * uh + c < 2 * v
    BY <1>1, <1>2, <1>5
  <2>2. CASE Shifted >= v
    <3>1. b = 1 /\ uh' = Shifted - v
      BY <2>2 DEF Flag, Subtracts, DivideStep
    <3> QED BY <3>1, <2>1, <2>2, <1>2, <1>5, <1>7, WordFacts DEF Word
  <2>3. CASE ~(Shifted >= v)
    <3>1. b = 0 /\ uh' = Shifted
      BY <2>3 DEF Flag, Subtracts, DivideStep
    <3> QED BY <3>1, <2>1, <2>3, <1>2, <1>5, <1>7, WordFacts DEF Word
  <2> QED BY <2>2, <2>3
<1>9. ul' = 2 * ul - W * c + b
  BY <1>2, Shift DEF DivideStep
<1> HIDE DEF c, b
<1>10. PICK m2 \in Nat : m2 = m - c * x /\ m2 < x
  <2>1. m < 2 * x
    BY <1>1, <1>3
  <2>2. CASE m >= x
    <3>1. c = 1 /\ m - x \in Nat /\ m - x < x
      BY <1>2, <1>6, <2>1, <2>2 DEF Flag
    <3> QED BY <3>1
  <2>3. CASE m < x
    <3>1. c = 0 
      BY <1>2, <1>6, <2>3 DEF Flag
    <3> QED BY <3>1, <1>2, <2>3
  <2> QED BY <2>2, <2>3, <1>2
<1>11. x * (2 * k) = W
  BY <1>1, <1>2, <1>3, Z3
<1>12. 2 * q + b \in Nat /\ 2 * q + b < 2 * k /\ 2 * k \in Nat
  BY <1>1, <1>2, <1>5
<1>13. 2 * k \in 1 .. W
  <2>1. x * (2 * k) = (2 * k) + (x - 1) * (2 * k) /\ (x - 1) * (2 * k) >= 0
    BY <1>2, <1>4, Z3
  <2>2. (x - 1) * (2 * k) \in Int
    BY <1>2
  <2> QED BY <1>2, <1>11, <2>1, <2>2, WordFacts
<1>14. ul' = m2 * (2 * k) + (2 * q + b)
  <2>1. (2 * x) * k = W
    BY <1>1, <1>3
  <2>2. 2 * (m * k + q) - W * c + b = (m - c * x) * (2 * k) + (2 * q + b)
    BY <2>1, <1>2, <1>5, WordFacts, OneBitLow
  <2> QED BY <1>1, <1>9, <1>10, <2>2
<1>15. Double(uh0, ul0) = ((2 * q + b) * v + uh') * x + m2
  <2>1. Double(uh0, ul0) = (q * v + uh) * (2 * x) + m
    BY <1>1, <1>3
  <2>2. Double(uh0, ul0) \in Nat
    BY WordFacts DEF Double, TypeOK, Word
  <2>3. Double(uh0, ul0) = ((2 * q + b) * v + uh') * x + (m - c * x)
    BY <2>1, <2>2, <1>2, <1>5, <1>8, OneBit
  <2> QED BY <2>3, <1>10
<1>16. ul' \in Word
  <2>1. ul < W /\ ul \in Nat
    BY <1>2, WordFacts DEF Word
  <2>2. ul' >= 0 
    <3>1. m2 * (2 * k) \in Nat
      BY <1>10, <1>12
    <3> QED BY <3>1, <1>12, <1>14
  <2>3. ul' < W
    <3> DEFINE y == 2 * k
    <3>1. PICK e \in Nat : x = m2 + 1 + e
      <4>1. x - m2 - 1 \in Nat /\ x = m2 + 1 + (x - m2 - 1)
        BY <1>10
      <4> QED BY <4>1
    <3>2. y \in Nat
      BY <1>12
    <3>3. x * y = m2 * y + y + e * y /\ e * y \in Nat /\ m2 * y \in Nat
      <4> HIDE DEF y
      <4> QED BY <3>1, <3>2, Z3
    <3> QED BY <3>2, <3>3, <1>11, <1>12, <1>14
  <2>4. ul' \in Int
    BY <2>1, <1>5, <1>9, WordFacts
  <2> QED BY <2>2, <2>3, <2>4, WordFacts DEF Word
<1>17. m2 \in Word /\ 2 * q + b \in Word
  <2>1. x <= W
    <3>1. weight \in 1 .. W
      BY DEF TypeOK
    <3> QED BY <1>3, <3>1, WordFacts
  <2> QED BY <1>10, <1>12, <1>13, <2>1, WordFacts DEF Word
<1>18. TypeOK'
  <2>1. weight' \in 1 .. W
    <3>1. weight \in 1 .. W
      BY DEF TypeOK
    <3> QED BY <1>3, <1>4, <3>1, WordFacts
  <2> QED BY <1>8, <1>16, <2>1 DEF TypeOK, DivideStep
<1>19. Halfway'
  <2>1. Double(uh0', ul0') = Double(uh0, ul0) /\ v' = v
    BY DEF DivideStep
  <2>2. weight' * (2 * k) = W /\ m2 < weight'
    BY <1>4, <1>10, <1>11
  <2>3. Double(uh0', ul0') = ((2 * q + b) * v' + uh') * weight' + m2
    BY <1>4, <1>15, <2>1
  <2> QED
    BY <1>8, <1>12, <1>13, <1>14, <1>17, <2>1, <2>2, <2>3 DEF Halfway
<1> QED BY <1>18, <1>19

LEMMA NextInv == Inv /\ [Next]_vars => Inv'
<1> SUFFICES ASSUME Inv, [Next]_vars PROVE Inv'
  OBVIOUS
<1>1. CASE Refuse
  <2>1. W - 1 \in Word
    BY WordFacts DEF Word
  <2>2. Refused' /\ done'
    BY <1>1 DEF Refuse, Refused
  <2>3. TypeOK'
    BY <1>1, <2>1 DEF Refuse, Inv, TypeOK
  <2> QED BY <1>1, <2>2, <2>3 DEF Refuse, Inv, DivisionKept
<1>2. CASE DivideStep
  <2>1. TypeOK /\ Halfway
    BY <1>2 DEF DivideStep, Inv, DivisionKept
  <2>2. TypeOK' /\ Halfway'
    BY <1>2, <2>1, StepInv
  <2>3. weight' # W /\ ~done'
    <3>1. weight \in 1 .. W
      BY <2>1 DEF TypeOK
    <3> QED BY <1>2, <3>1, WordFacts DEF DivideStep
  <2> QED BY <2>2, <2>3 DEF Inv, DivisionKept
<1>3. CASE Return
  <2>1. TypeOK' /\ (~Refused)' /\ weight' = 1
    BY <1>3 DEF Return, Inv, TypeOK, Refused
  <2>2. Halfway'
    BY <1>3 DEF Return, Inv, DivisionKept, Halfway, Double
  <2> QED BY <1>3, <2>1, <2>2 DEF Return, Inv, DivisionKept
<1>4. CASE UNCHANGED vars
  BY <1>4 DEF vars, Inv, TypeOK, DivisionKept, Halfway, Refused, Double
<1> QED BY <1>1, <1>2, <1>3, <1>4 DEF Next

\* What the invariant says when rf_uslas has returned.
LEMMA InvDivides == Inv => Divides
<1> SUFFICES ASSUME Inv, done, v < TopBit
             PROVE  USlash(uh0, ul0, v) = <<ul, uh>>
  BY DEF Divides
<1>1. CASE Refused
  <2>1. uh0 >= v
    BY <1>1, WordFacts DEF Refused, Inv, TypeOK, Word
  <2> QED BY <1>1, <2>1 DEF Inv, USlash
<1>2. CASE ~Refused
  <2>1. weight = 1 /\ Halfway
    BY <1>2 DEF Inv, DivisionKept
  <2>2. PICK k \in 1 .. W, m \in Word, q \in Word :
          /\ weight * k = W
          /\ m < weight /\ q < k /\ uh < v
          /\ ul = m * k + q
          /\ Double(uh0, ul0) = (q * v + uh) * weight + m
    BY <2>1 DEF Halfway
  <2>3. /\ uh \in Nat /\ v \in Nat /\ q \in Nat /\ ul \in Nat /\ uh0 \in Nat /\ ul0 \in Nat
        /\ ~(uh0 >= v)
    BY <1>2, WordFacts DEF Inv, TypeOK, Word, Refused
  <2>4. m = 0 /\ ul = q
    <3>1. m = 0
      BY <2>1, <2>2 DEF Word
    <3> QED BY <2>2, <2>3, <3>1
  <2>5. Double(uh0, ul0) = ul * v + uh
    BY <2>1, <2>2, <2>3, <2>4
  <2>6. Double(uh0, ul0) \in Nat
    BY <2>3, WordFacts DEF Double
  <2>7. Double(uh0, ul0) \div v = ul /\ Double(uh0, ul0) % v = uh
    <3> DEFINE n == Double(uh0, ul0)
    <3>1. n \in Int /\ n = ul * v + uh
      BY <2>5, <2>6
    <3> HIDE DEF n
    <3>2. ul \in Int /\ uh \in Nat /\ v \in Nat /\ uh < v
      BY <2>2, <2>3
    <3>3. n \div v = ul /\ n % v = uh
      BY <3>1, <3>2, Quotient
    <3> QED BY <3>3 DEF n
  <2> QED BY <2>3, <2>7 DEF USlash
<1> QED BY <1>1, <1>2

\* The loop of rf_uslas keeps to its meaning, whatever the width of a cell.
THEOREM DivisionIsKept == Spec => [](TypeOK /\ DivisionKept)
<1>1. Inv => TypeOK /\ DivisionKept
  BY DEF Inv
<1> QED BY InitInv, NextInv, <1>1, PTL DEF Spec

\* U/ by hand is the division that RF_DOUBLE_ARITH does, for every numerator and
\* every divisor below the top bit.
THEOREM DivisionIsRight == Spec => []Divides
BY InitInv, NextInv, InvDivides, PTL DEF Spec

-----------------------------------------------------------------------------
(* D+ and DMINUS.                                                          *)

\* A double number made of any high part and of a low cell.
LEMMA SplitOf ==
  ASSUME NEW h \in Int, NEW l \in Word
  PROVE  Split(h * W + l) = <<h % W, l>>
<1> DEFINE n == h * W + l
<1>1. n \in Int /\ n = h * W + l /\ l \in Nat /\ l < W /\ W \in Nat
  BY WordFacts DEF Word
<1> HIDE DEF n
<1>2. n \div W = h /\ n % W = l
  BY <1>1, Quotient
<1> QED BY <1>2 DEF n, Split

\* A low cell that is less than one of its operands shows that the sum wrapped:
\* D+ by hand carries as D+ does.
THEOREM DPlusCarries ==
  \A ah, al, bh, bl \in Word : DPlusByHand(ah, al, bh, bl) = DPlus(ah, al, bh, bl)
<1> SUFFICES ASSUME NEW ah \in Word, NEW al \in Word, NEW bh \in Word, NEW bl \in Word
             PROVE  DPlusByHand(ah, al, bh, bl) = DPlus(ah, al, bh, bl)
  OBVIOUS
<1>1. /\ ah \in Nat /\ al \in Nat /\ bh \in Nat /\ bl \in Nat
      /\ al < W /\ bl < W /\ W \in Nat
  BY WordFacts DEF Word
<1>2. /\ al + bl >= W => Wrapped(al + bl) = al + bl - W
      /\ al + bl < W => Wrapped(al + bl) = al + bl
  <2> DEFINE sum == al + bl
  <2>1. sum \in Nat /\ sum < 2 * W
    BY <1>1
  <2>2. Wrapped(al + bl) = sum % W
    BY DEF Wrapped
  <2>3. (sum >= W => sum % W = sum - W) /\ (sum < W => sum % W = sum)
    <3> HIDE DEF sum
    <3> QED BY <1>1, <2>1, OneWrap
  <2> QED BY <1>1, <2>2, <2>3
<1> DEFINE cl == Wrapped(al + bl)
           c  == Flag(cl < al)
<1>3. cl \in Word /\ c \in {0, 1} /\ al + bl = c * W + cl
  BY <1>1, <1>2 DEF Flag, Word
<1> DEFINE h == ah + bh + c
<1>4. DPlusByHand(ah, al, bh, bl) = <<h % W, cl>>
  BY DEF DPlusByHand, Wrapped
<1> HIDE DEF cl, c
<1>5. h \in Int
  BY <1>1, <1>3
<1>6. Double(ah, al) + Double(bh, bl) = h * W + cl
  BY <1>1, <1>3, Z3 DEF Double
<1>7. Split(h * W + cl) = <<h % W, cl>>
  <2> HIDE DEF h
  <2> QED BY <1>3, <1>5, SplitOf
<1> QED BY <1>4, <1>6, <1>7 DEF DPlus

\* DMINUS by hand borrows as DMINUS does.
THEOREM DMinusBorrows ==
  \A bh, bl \in Word : DMinusByHand(bh, bl) = DMinus(bh, bl)
<1> SUFFICES ASSUME NEW bh \in Word, NEW bl \in Word
             PROVE  DMinusByHand(bh, bl) = DMinus(bh, bl)
  OBVIOUS
<1>1. bh \in Nat /\ bl \in Nat /\ bh < W /\ bl < W /\ W \in Nat /\ W > 1
  BY WordFacts DEF Word
<1>2. \A b \in Word : Wrapped(-b) = IF b = 0 THEN 0 ELSE W - b
  <2> SUFFICES ASSUME NEW b \in Word PROVE Wrapped(-b) = IF b = 0 THEN 0 ELSE W - b
    OBVIOUS
  <2>1. b \in Nat /\ b < W
    BY WordFacts DEF Word
  <2> DEFINE r == IF b = 0 THEN 0 ELSE W - b
             q == IF b = 0 THEN 0 ELSE -1
             n == -b
  <2>2. r \in Nat /\ r < W /\ q \in Int /\ n \in Int /\ n = q * W + r
    BY <1>1, <2>1
  <2> HIDE DEF r, q, n
  <2>3. n % W = r
    BY <1>1, <2>2, Quotient
  <2> QED BY <2>3 DEF n, r, Wrapped
<1> DEFINE c == Flag(bl # 0)
           h == -bh - c
           l == Wrapped(-bl)
<1>3. l \in Word /\ c \in {0, 1} /\ -bl = (-c) * W + l
  BY <1>1, <1>2 DEF Flag, Word
<1>4. Wrapped(Wrapped(-bh) - c) = h % W
  <2> HIDE DEF c
  <2>1. CASE bh = 0
    <3>1. Wrapped(-bh) - c = h
      BY <1>2, <1>3, <2>1
    <3> QED BY <3>1 DEF Wrapped
  <2>2. CASE bh # 0
    <3> DEFINE g == W - bh - c
               n == h
    <3>1. Wrapped(-bh) = W - bh
      BY <1>2, <2>2
    <3>2. g \in Nat /\ g < W /\ n \in Int /\ n = (-1) * W + g
      BY <1>1, <1>3, <2>2
    <3> HIDE DEF g, n
    <3>3. n % W = g
      BY <1>1, <3>2, Quotient
    <3>4. g % W = g
      <4>1. g < 2 * W
        BY <1>1, <3>2
      <4> QED BY <1>1, <3>2, <4>1, OneWrap
    <3> QED BY <3>1, <3>3, <3>4 DEF g, n, Wrapped
  <2> QED BY <2>1, <2>2
<1>5. -Double(bh, bl) = h * W + l
  <2> HIDE DEF l, c
  <2> QED BY <1>1, <1>3, Z3 DEF Double
<1>6. Split(h * W + l) = <<h % W, l>>
  <2>1. h \in Int
    BY <1>1, <1>3
  <2> HIDE DEF h, l
  <2> QED BY <1>3, <2>1, SplitOf
<1> QED BY <1>4, <1>5, <1>6 DEF DMinusByHand, DMinus

\* The double numbers the division is given are added and negated by hand as
\* RF_DOUBLE_ARITH does it, at every step.
THEOREM CarriesKept == Spec => []Carries
<1>1. TypeOK => Carries
  BY DPlusCarries, DMinusBorrows DEF TypeOK, Carries
<1> QED
  BY <1>1, InitInv, NextInv, PTL DEF Spec, Inv

=============================================================================
