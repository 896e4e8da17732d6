-------------------------- MODULE SoftFloatArrays --------------------------
(***************************************************************************)
(* The functions on arrays of words in SoftFloat-3e, which the builds      *)
(* without fast 64-bit integers use for quadruple and extended precision.  *)
(* There a word is a uint32_t: for these functions WordBits stands for 32. *)
(* An array is a sequence that starts with the least significant word,     *)
(* whatever its order in memory (indexWord), and size is size_words.       *)
(***************************************************************************)
EXTENDS SoftFloatWords

Complement(w) == Base - 1 - w

softfloat_addCarryM(size, a, b, carry) ==
    LET c == Carries(size, a, b, carry)
    IN  [z |-> [i \in 1 .. size |-> Wrap(a[i] + b[i] + c[i])], carry |-> c[size + 1]]
softfloat_addM(size, a, b) == softfloat_addCarryM(size, a, b, 0).z
softfloat_addComplCarryM(size, a, b, carry) ==
    softfloat_addCarryM(size, a, [i \in 1 .. size |-> Complement(b[i])], carry)

softfloat_subM(size, a, b) ==
    LET borrow == Borrows(size, a, b)
    IN  [i \in 1 .. size |-> Wrap(a[i] - b[i] - borrow[i])]

(* The borrow goes on through the words that are zero, the carry through   *)
(* those that become zero.                                                 *)
softfloat_sub1XM(size, z) ==
    [i \in 1 .. size |-> IF \A j \in 1 .. i - 1 : z[j] = 0 THEN Wrap(z[i] - 1) ELSE z[i]]
softfloat_negXM(size, z) ==
    LET w[i \in 1 .. size] ==
          Wrap(Complement(z[i]) + OneIf(\A j \in 1 .. i - 1 : w[j] = 0))
    IN  w

CompareM(size, a, b) ==
    LET differ == {i \in 1 .. size : a[i] # b[i]}
        hi == CHOOSE i \in differ : \A j \in differ : j <= i
    IN  IF differ = {} THEN 0 ELSE IF a[hi] < b[hi] THEN -1 ELSE 1
softfloat_compare96M(a, b) == CompareM(3, a, b)
softfloat_compare128M(a, b) == CompareM(4, a, b)

-----------------------------------------------------------------------------
(* Shifts by 1 .. WordBits - 1. *)
softfloat_shortShiftLeftM(size, a, dist) ==
    [i \in 1 .. size |->
        Shl(a[i], dist) + (IF i = 1 THEN 0 ELSE Shr(a[i - 1], WordBits - dist))]
softfloat_shortShiftRightM(size, a, dist) ==
    [i \in 1 .. size |->
        Shr(a[i], dist) + (IF i = size THEN 0 ELSE Spill(a[i + 1], dist))]
softfloat_shortShiftLeft64To96M(a, dist) ==
    LET hi == a \div 2^(WordBits - dist)
    IN  <<Shl(Wrap(a), dist), Wrap(hi), hi \div Base>>

(* Shifts by any distance: whole words first. *)
softfloat_shiftLeftM(size, a, dist) ==
    LET words == dist \div WordBits
        inner == dist % WordBits
        moved == IF inner = 0 THEN a ELSE softfloat_shortShiftLeftM(size - words, a, inner)
    IN  [i \in 1 .. size |-> IF i <= words THEN 0 ELSE moved[i - words]]
softfloat_shiftRightM(size, a, dist) ==
    LET words == dist \div WordBits
        inner == dist % WordBits
        kept == [i \in 1 .. size - words |-> a[i + words]]
        moved == IF inner = 0 THEN kept
                 ELSE softfloat_shortShiftRightM(size - words, kept, inner)
    IN  [i \in 1 .. size |-> IF i > size - words THEN 0 ELSE moved[i]]
softfloat_shiftRightJamM(size, a, dist) == ShiftRightJamWords(size, a, dist)

-----------------------------------------------------------------------------
(* uint64_t is two words here. *)
softfloat_mul64To128M(a, b) ==
    LET Wrap64(n) == n % (Base * Base)
        mid1 == (a \div Base) * Wrap(b)
        mid == Wrap64(mid1 + Wrap(a) * (b \div Base))
        low == mid * Base
        z0 == Wrap64(Wrap(a) * Wrap(b) + low)
        z64 == (a \div Base) * (b \div Base) + OneIf(mid < mid1) * Base + mid \div Base
                 + OneIf(z0 < Wrap64(low))
    IN  <<Wrap(z0), z0 \div Base, Wrap(z64), Wrap64(z64) \div Base>>

(* The products of a number of words with one word; the high half of each  *)
(* is added to the next.                                                   *)
WordProducts(size, a, w) ==
    LET p[i \in 1 .. size] == a[i] * w + (IF i = 1 THEN 0 ELSE p[i - 1] \div Base)
    IN  p

(* One word of b after the other: its product is added in place. *)
AddRow(z, a, w, at) ==
    LET p == WordProducts(4, a, w)
        sum == softfloat_addCarryM(4, [i \in 1 .. 4 |-> Wrap(p[i])],
                                   [i \in 1 .. 4 |-> z[at + i]], 0)
    IN  [i \in 1 .. 8 |->
            IF i \in at + 1 .. at + 4 THEN sum.z[i - at]
            ELSE IF i = at + 5 THEN p[4] \div Base + sum.carry ELSE z[i]]
softfloat_mul128MTo256M(a, b) ==
    LET z[j \in 0 .. 4] == IF j = 0 THEN [i \in 1 .. 8 |-> 0]
                           ELSE AddRow(z[j - 1], a, b[j], j - 1)
    IN  z[4]

(* rem * 2^dist - b * q, modulo the size. *)
softfloat_remStepMBy32(size, rem, dist, b, q) ==
    LET p == WordProducts(size, b, q)
    IN  softfloat_subM(size, softfloat_shortShiftLeftM(size, rem, dist),
                       [i \in 1 .. size |-> Wrap(p[i])])
=============================================================================
