--------------------------- MODULE SoftFloatWide ---------------------------
(***************************************************************************)
(* Quadruple precision in SoftFloat-3e.  The library holds a value in two  *)
(* 64-bit words and rounds a significand of two words with a third word of *)
(* extra bits; here a value is one pattern and the three words one         *)
(* integer, so that what differs from the narrower formats is only how     *)
(* many guard bits each algorithm keeps: a whole word when it rounds       *)
(* (F128.R is that word, I64 bits), four bits when it subtracts or         *)
(* divides, and the numbers below.                                         *)
(***************************************************************************)
EXTENDS SoftFloatOps

CONSTANTS F128,    \* the format: 15 exponent and 112 fraction bits
          GMulAdd, \* guard bits of softfloat_mulAddF128: 8
          GSqrt    \* guard bits of f128_sqrt: 5

HiF == F128.F - I64 \* the fraction bits in the upper word
Guard(n) == [F128 EXCEPT !.R = n]

(* What the instance has to satisfy for the widths to play the part they  *)
(* play in the code.                                                       *)
WideFormatsOK ==
    /\ \A f \in {F16, F32, F64, F128} : FormatOK(f)
    /\ F128.R = I64 /\ F128.keepNaN /\ HiF >= I32 + FB /\ I64 > HiF
    /\ GMulAdd >= 3 /\ 2 * I64 > F128.F + 1 - GMulAdd /\ GSqrt >= 3 /\ Bias(F128) >= I64
    /\ \A f \in {F16, F32, F64} :
         ~f.keepNaN /\ f.E < F128.E /\ SW(f) <= I64 /\ F128.F >= f.F + f.R

-----------------------------------------------------------------------------
defaultNaNF128UI == DefaultNaN(F128)
softfloat_isSigNaNF128UI(a) == IsSigNaN(F128, a)
softfloat_propagateNaNF128UI(a, b) == PropagateNaN(F128, a, b)

softfloat_roundPackToF128(rm, sign, exp, sig, extra) ==
    RoundPack(F128, rm, sign, exp, sig * 2^I64 + extra)
softfloat_normRoundPackToF128(rm, sign, exp, sig, guard) ==
    NormRoundPack(Guard(guard), rm, sign, exp, sig)
softfloat_normSubnormalF128Sig(sig) == NormSubnormalSig(F128, sig)

softfloat_addMagsF128(rm, a, b) == AddMags(F128, rm, a, b)

(* The difference of equal exponents is normalised and rounded like the    *)
(* other ones.                                                             *)
softfloat_subMagsF128(rm, a, b) ==
    LET g == Guard(4)
        diff == Frac(g, a) - Frac(g, b)
        signA == Sign(g, a)
        exp == IF Exp(g, a) = 0 THEN 1 ELSE Exp(g, a)
    IN  IF Exp(g, a) # Exp(g, b) \/ Exp(g, a) = ExpMax(g) THEN SubMags(g, rm, a, b)
        ELSE IF diff = 0 THEN CancelZero(g, rm)
        ELSE softfloat_normRoundPackToF128(rm,
                 IF diff < 0 THEN 1 - signA ELSE signA, exp - 1,
                 Magnitude(diff) * 2^4, 4)

f128_add(rm, a, b) ==
    IF Sign(F128, a) = Sign(F128, b) THEN softfloat_addMagsF128(rm, a, b)
    ELSE softfloat_subMagsF128(rm, a, b)
f128_sub(rm, a, b) ==
    IF Sign(F128, a) = Sign(F128, b) THEN softfloat_subMagsF128(rm, a, b)
    ELSE softfloat_addMagsF128(rm, a, b)
f128_mul(rm, a, b) == Mul(F128, rm, a, b)

(* Mutant: the quotient is recomputed only on a multiple of half a unit. *)
WideQuotient_Narrow(bits, q, exact, err) ==
    LET est == IF exact /\ err > 0 THEN q ELSE q + err
    IN  IF est % 2^(bits - 1) = 0 THEN Sticky(q, ~exact) ELSE est

(* The last digit of the quotient is a rounded approximation, off by one   *)
(* either way, and recomputed only next to a multiple of half a unit,      *)
(* which is 2^(bits - 1).                                                  *)
WideQuotient(bits, q, exact, err) ==
    LET est == IF exact /\ err > 0 THEN q ELSE q + err
    IN  IF (est + 1) % 2^(bits - 1) < 2 THEN Sticky(q, ~exact) ELSE est
f128_div(rm, err, a, b) ==
    LET g == Guard(4)
        na == Normalized(g, a)  nb == Normalized(g, b)
        less == na.sig < nb.sig
        num == na.sig * 2^(g.F + 4 + Bit(less))
        q == num \div nb.sig
    IN  IF \/ \E u \in {a, b} : Exp(g, u) = ExpMax(g)
           \/ IsZero(g, a) \/ IsZero(g, b)
        THEN Div(g, rm, err, a, b)
        ELSE RoundPack(g, rm, (Sign(g, a) + Sign(g, b)) % 2,
                       na.exp - nb.exp + Bias(g) - 1 - Bit(less),
                       WideQuotient(4, q, q * nb.sig = num, err))

f128_sqrt(rm, err, a) ==
    Sqrt([F128 EXCEPT !.R = GSqrt, !.slack = 3], rm, err, a)
f128_rem(rm, a, b) == Rem(Guard(2), rm, a, b)

-----------------------------------------------------------------------------
(* The fused multiply-add.  The product of the significands is top with    *)
(* GMulAdd guard bits followed by low, cut at the middle of four words; C  *)
(* is aligned with top, or the product with C, and only when the addend is *)
(* not much the larger is the sum or the difference taken in four words.   *)
MulAddLow == 2 * I64
MulAddTop == F128.F + GMulAdd + 2
Quad(top, low) == top * 2^MulAddLow + low
(* A result of four words with its leading bit anywhere: exp belongs to    *)
(* bit F + GMulAdd of the upper half.                                      *)
RoundPackQuad(rm, sign, exp, sig) ==
    LET lead == MulAddTop + MulAddLow - 1 - CountLeadingZeros(MulAddTop + MulAddLow, sig)
        e == exp - 1 + lead - (F128.F + GMulAdd + MulAddLow)
        d == lead - (F128.F + I64)
    IN  RoundPack(F128, rm, sign, e,
                  IF d >= 0 THEN ShortShiftRightJam(sig, d) ELSE sig * 2^(-d))
(* Two words with GMulAdd guard bits, with a leading bit that is at most   *)
(* one place off, and whether anything lies below.                         *)
RoundPackTop(rm, sign, exp, top, below) ==
    RoundPackQuad(rm, sign, exp, Quad(top, Bit(below)))

(* The product is four words, prod, with its leading bit one place low if  *)
(* short, and the addend two.                                              *)
SumQuad(rm, signZ, signC, expProd, expC, prod, short, sigC) ==
    LET low == prod % 2^MulAddLow
        doubled == IF short THEN 2 * prod ELSE prod
        diff == expProd - expC
        expZ == IF diff < 0 THEN expC ELSE expProd
        quadC == ShiftRightJam(MulAddTop + MulAddLow, Quad(sigC, 0), diff)
        topZ == ShiftRightJam(MulAddTop, prod \div 2^MulAddLow, -diff - Bit(short))
        less == sigC - topZ - Bit(low # 0)
        dif == IF diff < 0
               THEN Quad(sigC, 0) - (IF short THEN prod ELSE prod \div 2)
               ELSE doubled - quadC
    IN  IF signZ = signC
        THEN IF diff < 0 THEN RoundPackTop(rm, signZ, expZ, sigC + topZ, low # 0)
             ELSE RoundPackQuad(rm, signZ, expZ, doubled + quadC)
        ELSE IF diff < -1 THEN RoundPackTop(rm, signC, expZ, less, low # 0)
        ELSE IF dif = 0 THEN CancelZero(F128, rm)
        ELSE RoundPackQuad(rm, IF diff < 0 \/ dif < 0 THEN 1 - signZ ELSE signZ,
                           expZ, Magnitude(dif))

softfloat_mulAddF128(rm, a, b, c, op) ==
    LET f == F128
        signC == (Sign(f, c) + Bit(op = "subC")) % 2
        signZ == (Sign(f, a) + Sign(f, b) + Bit(op = "subProd")) % 2
        na == Normalized(f, a)  nb == Normalized(f, b)  nc == Normalized(f, c)
        prod == na.sig * nb.sig * 2^(MulAddLow - (f.F + 1 - GMulAdd))
        short == prod \div 2^MulAddLow < 2^(f.F + GMulAdd)
        expProd == na.exp + nb.exp - (Bias(f) - 1) - Bit(short)
    IN  IF SpecialProduct(f, a, b, c)
        THEN MulAddSpecial(f, rm, a, b, c, signZ, signC)
        ELSE IF IsZero(f, c)
        THEN RoundPackQuad(rm, signZ, expProd, IF short THEN 2 * prod ELSE prod)
        ELSE SumQuad(rm, signZ, signC, expProd, nc.exp, prod, short,
                     nc.sig * 2^GMulAdd)
f128_mulAdd(rm, a, b, c) == softfloat_mulAddF128(rm, a, b, c, "none")

-----------------------------------------------------------------------------
f128_roundToInt(a, rm, exact) == RoundToInt(F128, a, rm, exact)
f128_eq(a, b) == Eq(F128, a, b, FALSE)
f128_eq_signaling(a, b) == Eq(F128, a, b, TRUE)
f128_le(a, b) == Le(F128, a, b, TRUE)
f128_le_quiet(a, b) == Le(F128, a, b, FALSE)
f128_lt(a, b) == Lt(F128, a, b, TRUE)
f128_lt_quiet(a, b) == Lt(F128, a, b, FALSE)
f128_isSignalingNaN(a) == softfloat_isSigNaNF128UI(a)

f16_to_f128(a) == Widen(F16, F128, a)
f32_to_f128(a) == Widen(F32, F128, a)
f64_to_f128(a) == Widen(F64, F128, a)
f128_to_f16(rm, a) == Narrow(F128, F16, rm, a)
f128_to_f32(rm, a) == Narrow(F128, F32, rm, a)
f128_to_f64(rm, a) == Narrow(F128, F64, rm, a)
i32_to_f128(i) == FromIntExact(F128, I32, i)
ui32_to_f128(i) == FromIntExact(F128, I32, i)
i64_to_f128(i) == FromIntExact(F128, I64, i)
ui64_to_f128(i) == FromIntExact(F128, I64, i)

(* To 32 bits the lower word is a sticky bit of the upper one. *)
Upper == [F128 EXCEPT !.F = HiF, !.pre = 0]
UpperJam(a) == ShortShiftRightJam(a, I64)
f128_to_i32(a, rm, exact) == ToInt32(Upper, TRUE, UpperJam(a), rm, exact)
f128_to_ui32(a, rm, exact) == ToInt32(Upper, FALSE, UpperJam(a), rm, exact)
f128_to_i32_r_minMag(a, exact) == DoubleToInt32MinMag(Upper, TRUE, UpperJam(a), exact)
f128_to_ui32_r_minMag(a, exact) ==
    DoubleToInt32MinMag(Upper, FALSE, UpperJam(a), exact)

(* To 64 bits the two words are the integer and its extra bits. *)
WordDist(a) == Bias(F128) + HiF - Exp(F128, a)
WideToInt64(signed, a, rm, exact) ==
    LET dist == WordDist(a)
        sig == SigOf(F128, a)
        sx == IF dist <= 0
              THEN [v |-> (sig * 2^(-dist)) \div 2^I64, extra |-> (sig * 2^(-dist)) % 2^I64]
              ELSE ShiftRightJamExtra(I64, sig \div 2^I64, sig % 2^I64, dist)
    IN  IF dist < -(I64 - 1 - HiF) THEN FromSpecial(F128, I64, signed, a)
        ELSE RoundTo(I64, I64, signed, Sign(F128, a), sx.v, sx.extra, rm, exact)
f128_to_i64(a, rm, exact) == WideToInt64(TRUE, a, rm, exact)
f128_to_ui64(a, rm, exact) == WideToInt64(FALSE, a, rm, exact)

WideTruncated(a, exact) ==
    Truncated(Sign(F128, a), SigOf(F128, a), I64 + WordDist(a), exact)
(* Between 2^63 and 2^63 + 1 a magnitude still truncates to the least      *)
(* integer.                                                                *)
f128_to_i64_r_minMag(a, exact) ==
    LET lo == Frac(F128, a)
    IN  IF WordDist(a) < -(I64 - 2 - HiF)
        THEN IF Sign(F128, a) = 1 /\ Exp(F128, a) = Bias(F128) + I64 - 1
                  /\ lo < 2^(F128.F - (I64 - 1))
             THEN Ret(IntMin(I64, TRUE), When(exact /\ lo # 0, {"inexact"}))
             ELSE FromSpecial(F128, I64, TRUE, a)
        ELSE IF HiF + 1 <= WordDist(a) THEN Vanishes(F128, a, exact)
        ELSE WideTruncated(a, exact)
f128_to_ui64_r_minMag(a, exact) ==
    IF HiF + 1 <= WordDist(a) THEN Vanishes(F128, a, exact)
    ELSE IF Sign(F128, a) = 1 \/ WordDist(a) < -(I64 - 1 - HiF)
    THEN FromSpecial(F128, I64, FALSE, a)
    ELSE WideTruncated(a, exact)
=============================================================================
