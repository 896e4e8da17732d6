----------------------------- MODULE SoftFloat -----------------------------
(***************************************************************************)
(* The Berkeley SoftFloat library as it is built for the emulator          *)
(* (c_emulator/SoftFloat-3e, build Linux-RISCV-GCC, RISCV specialization): *)
(* the algorithms that its interchange formats share.                      *)
(*                                                                         *)
(* The formats differ only in widths, so every algorithm takes the format  *)
(* as a parameter: F16 has 5 exponent and 10 fraction bits, F32 8 and 23,  *)
(* F64 11 and 52, F128 15 and 112; a value occupies W = 1 + E + F bits,    *)
(* and a significand that is ready to be rounded has its leading bit one   *)
(* below the top of a word of SW bits, R of which lie below its last place *)
(* (SW = W and R = E - 1 in the code for the first three; the checked      *)
(* instances need not tie the exponent range to the guard bits).  The      *)
(* constants written in hexadecimal in the code are expressions in E, F    *)
(* and R here.  A value is its bit pattern, an integer; the globals        *)
(* softfloat_roundingMode and softfloat_exceptionFlags are the parameter   *)
(* rm and the flags fl of the result.                                      *)
(*                                                                         *)
(* Division and square root start from a table-driven approximation and    *)
(* correct it.  Of the approximation the model keeps the error: err is any *)
(* error the correction has to cope with, slack the distance the code      *)
(* allows for (1 for f16, 2 and 4 units for f32 and f64).                  *)
(***************************************************************************)
EXTENDS Integers, FiniteSets

CONSTANTS F16, F32, F64, \* the formats, see FormatOK
          I32, I64,      \* widths of int32_t and int64_t
          FB             \* fraction bits softfloat_roundToI32 works on: 12

RoundingModes == {"near_even", "minMag", "min", "max", "near_maxMag", "odd"}
Flags == {"invalid", "infinite", "overflow", "underflow", "inexact"}

W(f) == 1 + f.E + f.F
R(f) == f.R
SW(f) == f.F + 2 + f.R
Bias(f) == 2^(f.E - 1) - 1
ExpMax(f) == 2^f.E - 1
Hidden(f) == 2^f.F

(* What the algorithms rely on: three rounding bits, room for the error   *)
(* of the approximations among them, and a product with bits to round.     *)
FormatOK(f) ==
    /\ f.E \in Nat /\ f.F \in Nat
    /\ f.E >= 3 /\ f.F >= 2 /\ f.R \in 3 .. f.F + 1
    /\ f.slack \in 1 .. 2^(R(f) - 1) /\ f.step \in 1 .. 2^(R(f) - 1) - 1

-----------------------------------------------------------------------------
(* A result with the flags the call raised. *)
Ret(z, fl) == [z |-> z, fl |-> fl]
When(c, fl) == IF c THEN fl ELSE {}
Bit(c) == IF c THEN 1 ELSE 0

(* include/internals.h: the fields of a bit pattern; packing adds, so that *)
(* a significand with its hidden bit carries into the exponent.            *)
Sign(f, ui) == ui \div 2^(W(f) - 1)
Exp(f, ui) == (ui \div 2^f.F) % 2^f.E
Frac(f, ui) == ui % 2^f.F
Pack(f, sign, exp, sig) == (sign * 2^(W(f) - 1) + exp * 2^f.F + sig) % 2^W(f)

Inf(f, sign) == Pack(f, sign, ExpMax(f), 0)
IsZero(f, ui) == ui % 2^(W(f) - 1) = 0
IsInf(f, ui) == Exp(f, ui) = ExpMax(f) /\ Frac(f, ui) = 0
IsNaN(f, ui) == Exp(f, ui) = ExpMax(f) /\ Frac(f, ui) # 0

(* RISCV/specialize.h *)
IsSigNaN(f, ui) == IsNaN(f, ui) /\ Frac(f, ui) < 2^(f.F - 1)
DefaultNaN(f) == Pack(f, 0, ExpMax(f), 2^(f.F - 1))
Quieted(f, ui) == IF IsSigNaN(f, ui) THEN ui + 2^(f.F - 1) ELSE ui
(* Of two NaNs the quiet one, else the larger in magnitude, else the        *)
(* positive one.                                                           *)
LargerMag(f, a, b) ==
    LET mag(u) == u % 2^(W(f) - 1)
    IN  IF mag(a) < mag(b) THEN b ELSE IF mag(b) < mag(a) THEN a
        ELSE IF a < b THEN a ELSE b
PropagatedNaN(f, a, b) ==
    CASE IsSigNaN(f, a) /\ ~IsSigNaN(f, b) -> IF IsNaN(f, b) THEN b ELSE a
      [] IsSigNaN(f, b) /\ ~IsSigNaN(f, a) -> IF IsNaN(f, a) THEN a ELSE b
      [] OTHER -> LargerMag(f, a, b)
(* Half, single and double precision forget the operands; only quadruple   *)
(* precision keeps the payload of one of them.                             *)
PropagateNaN(f, a, b) ==
    Ret(IF f.keepNaN THEN Quieted(f, PropagatedNaN(f, a, b)) ELSE DefaultNaN(f),
        When(IsSigNaN(f, a) \/ IsSigNaN(f, b), {"invalid"}))
Invalid(f) == Ret(DefaultNaN(f), {"invalid"})

(* The zero an exact cancellation leaves. *)
CancelZero(f, rm) == Ret(Pack(f, Bit(rm = "min"), 0, 0), {})

-----------------------------------------------------------------------------
(* include/primitives.h *)
Sticky(z, lost) == IF lost /\ z % 2 = 0 THEN z + 1 ELSE z
ShortShiftRightJam(a, dist) == Sticky(a \div 2^dist, a % 2^dist # 0)
ShiftRightJam(w, a, dist) ==
    IF dist < w - 1 THEN ShortShiftRightJam(a, dist) ELSE Bit(a # 0)
(* A word of w bits and the word of bits shifted out of it, of which the   *)
(* last also stands for everything that was there before.                  *)
ShiftRightJamExtra(w, a, extra, dist) ==
    CASE dist = 0 -> [v |-> a, extra |-> Sticky(0, extra # 0)]
      [] dist \in 1 .. w - 1 ->
           [v |-> a \div 2^dist,
            extra |-> Sticky((a % 2^dist) * 2^(w - dist), extra # 0)]
      [] dist = w -> [v |-> 0, extra |-> Sticky(a, extra # 0)]
      [] OTHER -> [v |-> 0, extra |-> Bit(a # 0 \/ extra # 0)]
CountLeadingZeros(w, a) == Cardinality({i \in 0 .. w - 1 : a < 2^i})

-----------------------------------------------------------------------------
(* Rounding and packing. *)
Nearest == {"near_even", "near_maxMag"}
AwayFromZero(sign) == IF sign = 1 THEN "min" ELSE "max"
RoundIncrement(bits, rm, sign) ==
    CASE rm \in Nearest -> 2^(bits - 1)
      [] rm = AwayFromZero(sign) -> 2^bits - 1
      [] OTHER -> 0

RoundPack(f, rm, sign, exp, sig) ==
    LET inc  == RoundIncrement(R(f), rm, sign)
        top  == 2^(SW(f) - 1)
        tiny == exp < -1 \/ (exp < 0 /\ sig + inc < top)
        s    == IF exp < 0 THEN ShiftRightJam(SW(f), sig, -exp) ELSE sig
        e    == IF exp < 0 THEN 0 ELSE exp
        bits == s % 2^R(f)
        z    == (s + inc) \div 2^R(f)
        odd  == bits # 0 /\ rm = "odd"
        zz   == CASE odd -> Sticky(z, TRUE)
                  [] bits = 2^(R(f) - 1) /\ rm = "near_even" -> z - (z % 2)
                  [] OTHER -> z
    IN  IF exp > ExpMax(f) - 2 \/ (exp = ExpMax(f) - 2 /\ top <= sig + inc)
        THEN Ret(Inf(f, sign) - Bit(inc = 0), {"overflow", "inexact"})
        ELSE Ret(Pack(f, sign, IF zz = 0 THEN 0 ELSE e, zz),
                 When(tiny /\ bits # 0, {"underflow"})
                   \cup When(bits # 0, {"inexact"}))

NormRoundPack(f, rm, sign, exp, sig) ==
    LET dist == CountLeadingZeros(SW(f), sig) - 1
        e    == exp - dist
    IN  IF R(f) <= dist /\ e \in 0 .. ExpMax(f) - 3
        THEN Ret(Pack(f, sign, IF sig = 0 THEN 0 ELSE e,
                      sig * 2^(dist - R(f))), {})
        ELSE RoundPack(f, rm, sign, e, sig * 2^dist)

(* The exponent and the significand of a nonzero argument, the latter with *)
(* its hidden bit.                                                         *)
NormSubnormalSig(f, sig) ==
    LET dist == CountLeadingZeros(SW(f), sig) - (R(f) + 1)
    IN  [exp |-> 1 - dist, sig |-> sig * 2^dist]
Normalized(f, ui) ==
    IF Exp(f, ui) = 0 THEN NormSubnormalSig(f, Frac(f, ui))
    ELSE [exp |-> Exp(f, ui), sig |-> Frac(f, ui) + Hidden(f)]

-----------------------------------------------------------------------------
(* Addition of magnitudes, single and double precision.  AlignedSig is the *)
(* significand of the operand with the smaller exponent, which the code    *)
(* doubles instead of adding a hidden bit when it is subnormal.            *)
AlignedSig(f, ui, hidden, shift) ==
    LET sig == Frac(f, ui) * 2^shift
    IN  IF Exp(f, ui) = 0 THEN 2 * sig ELSE hidden + sig

AddMags(f, rm, a, b) ==
    LET expA == Exp(f, a)  expB == Exp(f, b)
        big  == IF expA < expB THEN b ELSE a
        small == IF expA < expB THEN a ELSE b
        expZ == Exp(f, big)
        sh   == R(f) - 1
        hidden == 2^(SW(f) - 3)
        far  == hidden + Frac(f, big) * 2^sh
                  + ShiftRightJam(SW(f), AlignedSig(f, small, hidden, sh),
                                  expZ - Exp(f, small))
    IN  CASE expZ = ExpMax(f) ->
               IF IsNaN(f, a) \/ IsNaN(f, b) THEN PropagateNaN(f, a, b)
               ELSE Ret(Inf(f, Sign(f, a)), {})
          [] expA = expB /\ expA = 0 -> Ret(a + Frac(f, b), {})
          [] expA = expB /\ expA \in 1 .. ExpMax(f) - 1 ->
               RoundPack(f, rm, Sign(f, a), expZ,
                         (2 * Hidden(f) + Frac(f, a) + Frac(f, b)) * 2^sh)
          [] OTHER ->
               IF far < 2 * hidden
               THEN RoundPack(f, rm, Sign(f, a), expZ - 1, 2 * far)
               ELSE RoundPack(f, rm, Sign(f, a), expZ, far)

(* Single precision packs an even sum of equal exponents without rounding. *)
EvenSum(f, a, b) ==
    /\ Exp(f, a) = Exp(f, b) /\ Exp(f, a) \in 1 .. ExpMax(f) - 2
    /\ (Frac(f, a) + Frac(f, b)) % 2 = 0
PackEvenSum(f, a, b) ==
    Ret(Pack(f, Sign(f, a), Exp(f, a),
             (2 * Hidden(f) + Frac(f, a) + Frac(f, b)) \div 2), {})

(* The difference of two operands with the same exponent is exact. *)
SubSameExp(f, rm, a, b) ==
    LET diff == Frac(f, a) - Frac(f, b)
        mag  == IF diff < 0 THEN -diff ELSE diff
        signZ == IF diff < 0 THEN 1 - Sign(f, a) ELSE Sign(f, a)
        expA == IF Exp(f, a) = 0 THEN 0 ELSE Exp(f, a) - 1
        dist == CountLeadingZeros(SW(f), mag) - (R(f) + 1)
    IN  CASE Exp(f, a) = ExpMax(f) ->
               IF IsNaN(f, a) \/ IsNaN(f, b) THEN PropagateNaN(f, a, b)
               ELSE Invalid(f)
          [] Exp(f, a) # ExpMax(f) /\ diff = 0 -> CancelZero(f, rm)
          [] OTHER ->
               IF dist > expA THEN Ret(Pack(f, signZ, 0, mag * 2^expA), {})
               ELSE Ret(Pack(f, signZ, expA - dist, mag * 2^dist), {})

SubMags(f, rm, a, b) ==
    LET swap == Exp(f, a) < Exp(f, b)
        big  == IF swap THEN b ELSE a
        small == IF swap THEN a ELSE b
        signZ == IF swap THEN 1 - Sign(f, a) ELSE Sign(f, a)
        hidden == 2^(SW(f) - 2)
    IN  CASE Exp(f, a) = Exp(f, b) -> SubSameExp(f, rm, a, b)
          [] Exp(f, a) # Exp(f, b) /\ Exp(f, big) = ExpMax(f) ->
               IF IsNaN(f, big) THEN PropagateNaN(f, a, b)
               ELSE Ret(Inf(f, signZ), {})
          [] OTHER ->
               NormRoundPack(f, rm, signZ, Exp(f, big) - 1,
                   hidden + Frac(f, big) * 2^R(f)
                     - ShiftRightJam(SW(f), AlignedSig(f, small, hidden, R(f)),
                                     Exp(f, big) - Exp(f, small)))

-----------------------------------------------------------------------------
(* Half precision adds and subtracts in a double word.  An operand more    *)
(* than F + 2 places below the other one only decides the rounding.        *)
AddEpsilon(f, rm, z) ==
    CASE rm = AwayFromZero(Sign(f, z)) ->
           Ret(z + 1, {"inexact"} \cup When(IsInf(f, z + 1), {"overflow"}))
      [] rm = "odd" -> Ret(Sticky(z, TRUE), {"inexact"})
      [] OTHER -> Ret(z, {"inexact"})
SubEpsilon(f, rm, z) ==
    CASE rm \in {"minMag", AwayFromZero(1 - Sign(f, z))} ->
           Ret(z - 1, {"inexact"})
      [] rm = "odd" -> Ret(Sticky(z - 1, TRUE), {"inexact"})
      [] OTHER -> Ret(z, {"inexact"})

(* The double word, its leading bit at 2SW - 2, cut to a word; an exact     *)
(* result is packed without rounding.                                      *)
RoundPackDouble(f, rm, sign, exp, sig) ==
    LET hi == sig \div 2^SW(f)
        lo == sig % 2^SW(f)
    IN  IF lo = 0 /\ hi % 2^R(f) = 0 /\ exp \in 0 .. ExpMax(f) - 2
        THEN Ret(Pack(f, sign, exp, hi \div 2^R(f)), {})
        ELSE RoundPack(f, rm, sign, exp, Sticky(hi, lo # 0))

HalfAddMags(f, rm, a, b) ==
    LET big  == IF Exp(f, a) < Exp(f, b) THEN b ELSE a
        small == IF Exp(f, a) < Exp(f, b) THEN a ELSE b
        expZ == Exp(f, big)
        bigZ == Pack(f, Sign(f, a), expZ, Frac(f, big))
        diff == expZ - Exp(f, small)
        sigX == Hidden(f) + Frac(f, big)
        sigY == AlignedSig(f, small, Hidden(f), 0)
        sum  == (sigX * 2^diff + sigY) * 2^(2 * SW(f) - 3 - f.F - diff)
    IN  IF diff = 0
        THEN IF EvenSum(f, a, b) THEN PackEvenSum(f, a, b) ELSE AddMags(f, rm, a, b)
        ELSE IF expZ = ExpMax(f)
        THEN IF IsNaN(f, big) THEN PropagateNaN(f, a, b)
             ELSE Ret(Inf(f, Sign(f, a)), {})
        ELSE IF diff >= f.F + 3
        THEN IF IsZero(f, small) THEN Ret(bigZ, {}) ELSE AddEpsilon(f, rm, bigZ)
        ELSE IF sum < 2^(2 * SW(f) - 2)
        THEN RoundPackDouble(f, rm, Sign(f, a), expZ - 1, 2 * sum)
        ELSE RoundPackDouble(f, rm, Sign(f, a), expZ, sum)

HalfSubMags(f, rm, a, b) ==
    LET swap == Exp(f, a) < Exp(f, b)
        big  == IF swap THEN b ELSE a
        small == IF swap THEN a ELSE b
        signZ == IF swap THEN 1 - Sign(f, a) ELSE Sign(f, a)
        bigZ == Pack(f, signZ, Exp(f, big), Frac(f, big))
        diff == Exp(f, big) - Exp(f, small)
        sig  == (Hidden(f) + Frac(f, big)) * 2^diff
                  - AlignedSig(f, small, Hidden(f), 0)
        dist == CountLeadingZeros(2 * SW(f), sig) - 1
    IN  IF diff = 0 THEN SubSameExp(f, rm, a, b)
        ELSE IF Exp(f, big) = ExpMax(f)
        THEN IF IsNaN(f, big) THEN PropagateNaN(f, a, b)
             ELSE Ret(Inf(f, signZ), {})
        ELSE IF diff >= f.F + 3
        THEN IF IsZero(f, small) THEN Ret(bigZ, {})
             ELSE SubEpsilon(f, rm, bigZ)
        ELSE RoundPackDouble(f, rm, signZ,
                 Exp(f, small) + 2 * SW(f) - 3 - f.F - dist, sig * 2^dist)

-----------------------------------------------------------------------------
(* Multiplication. *)
Mul(f, rm, a, b) ==
    LET signZ == (Sign(f, a) + Sign(f, b)) % 2
        na == Normalized(f, a)  nb == Normalized(f, b)
        expZ == na.exp + nb.exp - Bias(f)
        sigZ == ShortShiftRightJam(na.sig * nb.sig, f.F + 1 - R(f))
    IN  IF IsNaN(f, a) \/ IsNaN(f, b) THEN PropagateNaN(f, a, b)
        ELSE IF IsInf(f, a) \/ IsInf(f, b)
        THEN IF IsZero(f, a) \/ IsZero(f, b) THEN Invalid(f)
             ELSE Ret(Inf(f, signZ), {})
        ELSE IF IsZero(f, a) \/ IsZero(f, b) THEN Ret(Pack(f, signZ, 0, 0), {})
        ELSE IF sigZ < 2^(SW(f) - 2) THEN RoundPack(f, rm, signZ, expZ - 1, 2 * sigZ)
        ELSE RoundPack(f, rm, signZ, expZ, sigZ)

(* A quotient or a root approximated with error err, and the correction    *)
(* made only when the bits below the rounding bit are too few to tell on   *)
(* which side of a tie or of an exact value the result lies.  floor is the *)
(* exact value rounded down, exact whether nothing was lost.               *)
Estimate(f, floor, exact, err) ==
    IF exact /\ err = f.slack THEN floor ELSE floor + err
Doubtful(f, est) == est % 2^(R(f) - 1) < f.slack
Corrected(f, floor, exact, err) ==
    LET est == Estimate(f, floor, exact, err)
        low == est - (est % 2^(R(f) - 1))
    IN  CASE ~Doubtful(f, est) -> est
          [] Doubtful(f, est) /\ floor < low -> low - f.step
          [] OTHER -> Sticky(low, ~(floor = low /\ exact))

(* Division: single precision divides a double word, the other two correct *)
(* an approximation.                                                       *)
DivSig(f, num, den, err) ==
    LET q == num \div den
    IN  IF f.fastDiv THEN IF q % 2^(R(f) - 1) = 0 THEN Sticky(q, q * den # num) ELSE q
        ELSE Corrected(f, q, q * den = num, err)

Div(f, rm, err, a, b) ==
    LET signZ == (Sign(f, a) + Sign(f, b)) % 2
        na == Normalized(f, a)  nb == Normalized(f, b)
        less == na.sig < nb.sig
        expZ == na.exp - nb.exp + Bias(f) - 1 - Bit(less)
    IN  IF IsNaN(f, a) \/ IsNaN(f, b) THEN PropagateNaN(f, a, b)
        ELSE IF IsInf(f, a)
        THEN IF IsInf(f, b) THEN Invalid(f) ELSE Ret(Inf(f, signZ), {})
        ELSE IF IsInf(f, b) THEN Ret(Pack(f, signZ, 0, 0), {})
        ELSE IF IsZero(f, b)
        THEN IF IsZero(f, a) THEN Invalid(f) ELSE Ret(Inf(f, signZ), {"infinite"})
        ELSE IF IsZero(f, a) THEN Ret(Pack(f, signZ, 0, 0), {})
        ELSE RoundPack(f, rm, signZ, expZ,
                 DivSig(f, na.sig * 2^(SW(f) - 2 + Bit(less)), nb.sig, err))

(* Square root of a radicand below 4^bits, bit by bit. *)
Root(bits, n) ==
    LET step[i \in 0 .. bits] ==
          IF i = 0 THEN 0
          ELSE LET r == 2 * step[i - 1] + 1
               IN  IF (r * 2^(bits - i)) * (r * 2^(bits - i)) <= n THEN r ELSE r - 1
    IN  step[bits]

Sqrt(f, rm, err, a) ==
    LET na == Normalized(f, a)
        odd == na.exp % 2
        expZ == (na.exp - Bias(f)) \div 2 + Bias(f) - 1
        n == na.sig * 2^(2 * SW(f) - 4 - f.F + (1 - odd))
        r == Root(SW(f) - 1, n)
    IN  IF IsNaN(f, a) THEN PropagateNaN(f, a, 0)
        ELSE IF IsZero(f, a) THEN Ret(a, {})
        ELSE IF Sign(f, a) = 1 THEN Invalid(f)
        ELSE IF IsInf(f, a) THEN Ret(a, {})
        ELSE RoundPack(f, rm, 0, expZ, Corrected([f EXCEPT !.step = 1], r, r * r = n, err))
=============================================================================
