--------------------------- MODULE SoftFloatWords ---------------------------
(***************************************************************************)
(* Integers of two and four words in SoftFloat-3e (include/primitives.h).  *)
(* The modules about floating point treat such an integer as one number;   *)
(* here are the words, their wrap-around and the carries between them.     *)
(* Two words are the pair <<v64, v0>>, four words a sequence that starts   *)
(* with the least significant one.                                         *)
(***************************************************************************)
EXTENDS Integers, Sequences

CONSTANTS HalfWord,     \* bits of a half word: 32
          LongestShift  \* the longest distance a caller shifts by

WordBits == 2 * HalfWord
ASSUME WordAssumption ==
    /\ HalfWord \in Nat \ {0}
    /\ LongestShift \in Nat /\ 4 * WordBits <= LongestShift
(* Arithmetic that the provers do not know, for the exponents in use. *)
ASSUME ShiftPowers == \A n \in 0 .. LongestShift : 2^(n + 1) = 2 * 2^n

Base == 2^WordBits
Half == 2^HalfWord
Wrap(n) == n % Base
OneIf(c) == IF c THEN 1 ELSE 0
OrOne(n, c) == IF c /\ n % 2 = 0 THEN n + 1 ELSE n

(* x << d and x >> d for one word, 0 <= d < WordBits; the bits that a      *)
(* shift by dist moves into the neighbouring word.                         *)
Shl(x, d) == Wrap(x * 2^d)
Shr(x, d) == x \div 2^d
Spill(x, dist) == Shl(x, (WordBits - dist) % WordBits)

-----------------------------------------------------------------------------
softfloat_eq128(a, b) == a[1] = b[1] /\ a[2] = b[2]
softfloat_le128(a, b) == a[1] < b[1] \/ (a[1] = b[1] /\ a[2] <= b[2])
softfloat_lt128(a, b) == a[1] < b[1] \/ (a[1] = b[1] /\ a[2] < b[2])

(* Shifts by 1 .. WordBits - 1. *)
softfloat_shortShiftLeft128(a, dist) ==
    <<Shl(a[1], dist) + Shr(a[2], WordBits - dist), Shl(a[2], dist)>>
softfloat_shortShiftRight128(a, dist) ==
    <<Shr(a[1], dist), Spill(a[1], dist) + Shr(a[2], dist)>>
softfloat_shortShiftRightJam64Extra(a, extra, dist) ==
    [v |-> Shr(a, dist), extra |-> OrOne(Spill(a, dist), extra # 0)]
softfloat_shortShiftRightJam128(a, dist) ==
    LET z == softfloat_shortShiftRight128(a, dist)
    IN  <<z[1], OrOne(z[2], Spill(a[2], dist) # 0)>>
softfloat_shortShiftRightJam128Extra(a, extra, dist) ==
    [v |-> softfloat_shortShiftRight128(a, dist),
     extra |-> OrOne(Spill(a[2], dist), extra # 0)]

(* Shifts by any distance but zero. *)
softfloat_shiftRightJam128(a, dist) ==
    LET inner == dist % WordBits
    IN  IF dist < WordBits THEN softfloat_shortShiftRightJam128(a, dist)
        ELSE IF dist < 2 * WordBits - 1
        THEN <<0, OrOne(Shr(a[1], inner), a[1] % 2^inner # 0 \/ a[2] # 0)>>
        ELSE <<0, OneIf(a # <<0, 0>>)>>
softfloat_shiftRightJam128Extra(a, extra, dist) ==
    LET Z(v, x, more) == [v |-> v, extra |-> OrOne(x, extra # 0 \/ more # 0)]
    IN  IF dist < WordBits
        THEN Z(softfloat_shortShiftRight128(a, dist), Spill(a[2], dist), 0)
        ELSE IF dist = WordBits THEN Z(<<0, a[1]>>, a[2], 0)
        ELSE IF dist < 2 * WordBits
        THEN Z(<<0, Shr(a[1], dist % WordBits)>>, Spill(a[1], dist), a[2])
        ELSE Z(<<0, 0>>, IF dist = 2 * WordBits THEN a[1] ELSE OneIf(a[1] # 0), a[2])

(* A number of words shifted by 1 .. WordBits - 1. *)
softfloat_shortShiftRightJamM(size, a, dist) ==
    [i \in 1 .. size |->
        LET part == IF i = 1 THEN OrOne(Shr(a[1], dist), a[1] % 2^dist # 0)
                    ELSE Shr(a[i], dist)
        IN  IF i = size THEN part ELSE part + Spill(a[i + 1], dist)]

(* The words below the distance are jammed, the others move down whole and *)
(* then by what is left of the distance.                                   *)
ShiftRightJamWords(size, a, dist) ==
    LET words == IF dist \div WordBits > size THEN size ELSE dist \div WordBits
        inner == dist % WordBits
        kept == [i \in 1 .. size - words |-> a[i + words]]
        moved == IF inner = 0 THEN kept
                 ELSE softfloat_shortShiftRightJamM(size - words, kept, inner)
        z == [i \in 1 .. size |-> IF i > size - words THEN 0 ELSE moved[i]]
    IN  [z EXCEPT ![1] = OrOne(@, \E i \in 1 .. words : a[i] # 0)]
softfloat_shiftRightJam256M(a, dist) == ShiftRightJamWords(4, a, dist)

-----------------------------------------------------------------------------
(* Carries and borrows are read off the wrapped result. *)
softfloat_add128(a, b) ==
    LET v0 == Wrap(a[2] + b[2])
    IN  <<Wrap(a[1] + b[1] + OneIf(v0 < a[2])), v0>>
softfloat_sub128(a, b) ==
    <<Wrap(a[1] - b[1] - OneIf(a[2] < b[2])), Wrap(a[2] - b[2])>>

(* Mutant: a carry that comes in and goes out is lost. *)
AddCarry_Lost(a, b, carry) == OneIf(Wrap(a + b + carry) < a)

(* A word that comes out as it was keeps the carry that came in: the other *)
(* operand was zero without a carry, or all ones with one.                 *)
AddCarry(a, b, carry) ==
    LET z == Wrap(a + b + carry) IN IF z # a THEN OneIf(z < a) ELSE carry
(* The carry into each word, and out of the last one. *)
Carries(size, a, b, carry) ==
    LET c[i \in 1 .. size + 1] ==
          IF i = 1 THEN carry ELSE AddCarry(a[i - 1], b[i - 1], c[i - 1])
    IN  c
softfloat_add256M(a, b) ==
    LET carry == Carries(4, a, b, 0)
    IN  [i \in 1 .. 4 |-> Wrap(a[i] + b[i] + carry[i])]
SubBorrow(a, b, borrow) == OneIf(IF borrow = 1 THEN a <= b ELSE a < b)
Borrows(size, a, b) ==
    LET borrow[i \in 1 .. size + 1] ==
          IF i = 1 THEN 0 ELSE SubBorrow(a[i - 1], b[i - 1], borrow[i - 1])
    IN  borrow
softfloat_sub256M(a, b) ==
    LET borrow == Borrows(4, a, b)
    IN  [i \in 1 .. 4 |-> Wrap(a[i] - b[i] - borrow[i])]

-----------------------------------------------------------------------------
(* Products from half words. *)
softfloat_mul64ByShifted32To128(a, b) ==
    LET mid == (a % Half) * b
    IN  <<Wrap((a \div Half) * b + mid \div Half), Shl(mid, HalfWord)>>

softfloat_mul64To128(a, b) ==
    LET mid1 == (a \div Half) * (b % Half)
        mid == Wrap(mid1 + (a % Half) * (b \div Half))
        high == (a \div Half) * (b \div Half)
                  + OneIf(mid < mid1) * Half + mid \div Half
        low == Shl(mid, HalfWord)
        v0 == Wrap((a % Half) * (b % Half) + low)
    IN  <<Wrap(high + OneIf(v0 < low)), v0>>

(* The carry out of the low half is what the middle product leaves of it. *)
softfloat_mul128By32(a, b) ==
    LET v0 == Wrap(a[2] * b)
        mid == (a[2] \div Half) * b
        carry == ((v0 \div Half) - mid) % Half
    IN  <<Wrap(a[1] * b + (mid + carry) \div Half), v0>>

softfloat_mul128To256M(a, b) ==
    LET p0 == softfloat_mul64To128(a[2], b[2])
        p64 == softfloat_mul64To128(a[1], b[2])
        p128 == softfloat_mul64To128(a[1], b[1])
        q64 == softfloat_mul64To128(a[2], b[1])
        x64 == Wrap(p64[2] + p0[1])
        x128 == Wrap(p64[1] + OneIf(x64 < p64[2]) + p128[2])
        x192 == p128[1] + OneIf(x128 < p128[2])
        z64 == Wrap(x64 + q64[2])
        q == Wrap(q64[1] + OneIf(z64 < q64[2]))
        z128 == Wrap(x128 + q)
    IN  <<p0[2], z64, z128, Wrap(x192 + OneIf(z128 < q))>>
=============================================================================
