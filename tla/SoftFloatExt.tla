---------------------------- MODULE SoftFloatExt ----------------------------
(***************************************************************************)
(* The 80-bit extended format in SoftFloat-3e: an exponent like quadruple  *)
(* precision's and a word of significand whose leading bit is stored.      *)
(* Significands are rounded from two words, the second one the bits beyond *)
(* the last place, or from one word when extF80_roundingPrecision (the     *)
(* parameter prec) asks for less.  The RISCV specialization declares       *)
(* softfloat_propagateNaNExtF80UI and does not define it: it is external.  *)
(***************************************************************************)
EXTENDS SoftFloatWide

CONSTANTS Drop64, Drop32, \* bits rounded away at precision 64 and 32: 11, 40
          GExtDiv,        \* bits of the last quotient digit kept: 23
          GExtSqrt        \* bits of the last root digit kept: 25

(* The fields of a value: sign, exponent and the whole significand word. *)
XF == [F128 EXCEPT !.F = I64]
XSign(a) == Sign(XF, a)
XExp(a) == Exp(XF, a)
XSig(a) == Frac(XF, a)
packToExtF80(sign, exp, sig) == Pack(XF, sign, exp, sig)
XTop == 2^(I64 - 1)
XMax == ExpMax(F128)

ExtFormatOK ==
    /\ 2 <= Drop64 /\ Drop64 < Drop32 /\ Drop32 < I64
    /\ GExtDiv \in 3 .. I64 /\ GExtSqrt \in 3 .. I64 /\ I64 >= I32 + FB + 2

XInf(sign) == packToExtF80(sign, XMax, XTop)
isNaNExtF80UI(a) == XExp(a) = XMax /\ XSig(a) % XTop # 0
XIsInf(a) == XExp(a) = XMax /\ XSig(a) % XTop = 0
softfloat_isSigNaNExtF80UI(a) == isNaNExtF80UI(a) /\ XSig(a) % XTop < XTop \div 2
defaultNaNExtF80UI == packToExtF80(0, XMax, XTop + XTop \div 2)
softfloat_propagateNaNExtF80UI(a, b) ==
    Ret(defaultNaNExtF80UI,
        When(softfloat_isSigNaNExtF80UI(a) \/ softfloat_isSigNaNExtF80UI(b), {"invalid"}))
XInvalid == Ret(defaultNaNExtF80UI, {"invalid"})
AnyExtNaN(a, b) == isNaNExtF80UI(a) \/ isNaNExtF80UI(b)

-----------------------------------------------------------------------------
(* Rounding a word of width bits, its leading bit set, n of them away. *)
RoundPackWord(width, n, rm, sign, exp, v) ==
    LET full == 2^width
        unit == 2^(n + I64 - width)
        inc  == RoundIncrement(n, rm, sign)
        tiny == exp < 0 \/ v + inc < full
        s    == IF exp <= 0 THEN ShiftRightJam(width, v, 1 - exp) ELSE v
        bits == s % 2^n
        k    == (s + inc) \div 2^n
        z    == CASE bits # 0 /\ rm = "odd" -> Sticky(k, TRUE)
                  [] bits = 2^(n - 1) /\ rm = "near_even" -> k - (k % 2)
                  [] OTHER -> k
        sig  == z * unit
    IN  IF exp > XMax - 1 \/ (exp = XMax - 1 /\ v + inc >= full)
        THEN Ret(IF inc # 0 THEN XInf(sign)
                 ELSE packToExtF80(sign, XMax - 1, 2^I64 - unit),
                 {"overflow", "inexact"})
        ELSE Ret(IF exp <= 0 THEN packToExtF80(sign, Bit(sig >= XTop), sig)
                 ELSE IF sig = 2^I64 THEN packToExtF80(sign, exp + 1, XTop)
                 ELSE packToExtF80(sign, exp, sig),
                 When(bits # 0 /\ exp <= 0 /\ tiny, {"underflow"})
                   \cup When(bits # 0, {"inexact"}))

softfloat_roundPackToExtF80(rm, sign, exp, sig, extra, prec) ==
    LET jammed == Sticky(sig, extra # 0)
    IN  CASE prec = 64 -> RoundPackWord(I64, Drop64, rm, sign, exp, jammed)
          [] prec = 32 -> RoundPackWord(I64, Drop32, rm, sign, exp, jammed)
          [] OTHER -> RoundPackWord(2 * I64, I64, rm, sign, exp, sig * 2^I64 + extra)
(* Two words at once. *)
RoundPackExt(rm, prec, sign, exp, v) ==
    softfloat_roundPackToExtF80(rm, sign, exp, v \div 2^I64, v % 2^I64, prec)
softfloat_normRoundPackToExtF80(rm, sign, exp, v, prec) ==
    LET dist == CountLeadingZeros(2 * I64, v)
    IN  RoundPackExt(rm, prec, sign, exp - dist, v * 2^dist)
softfloat_normSubnormalExtF80Sig(sig) ==
    LET dist == CountLeadingZeros(I64, sig) IN [exp |-> -dist, sig |-> sig * 2^dist]

(* Mutant: a subnormal operand keeps the exponent zero. *)
XExponent_Raw(a) == XExp(a)

(* The exponent and the significand with its leading bit set. *)
XExponent(a) == IF XExp(a) = 0 THEN 1 ELSE XExp(a)
XNormalized(a) ==
    LET n == softfloat_normSubnormalExtF80Sig(XSig(a))
    IN  IF XSig(a) >= XTop THEN [exp |-> XExponent(a), sig |-> XSig(a)]
        ELSE [exp |-> XExponent(a) + n.exp, sig |-> n.sig]

-----------------------------------------------------------------------------
(* Sums wrap in the word: a carry leaves the top bit clear, and the shift  *)
(* puts it back.                                                           *)
softfloat_addMagsExtF80(rm, prec, a, b) ==
    LET big == IF XExp(a) < XExp(b) THEN b ELSE a
        small == IF XExp(a) < XExp(b) THEN a ELSE b
        expZ == XExp(big)
        sx == ShiftRightJamExtra(I64, XSig(small), 0, expZ - XExponent(small))
        sum == (XSig(big) + sx.v) % 2^I64
        half == ShiftRightJamExtra(I64, sum, sx.extra, 1)
        n == softfloat_normSubnormalExtF80Sig(XSig(a) + XSig(b))
    IN  IF expZ = XMax
        THEN IF AnyExtNaN(a, b) THEN softfloat_propagateNaNExtF80UI(a, b)
             ELSE Ret(packToExtF80(XSign(a), XMax, XSig(big)), {})
        ELSE IF expZ = 0
        THEN softfloat_roundPackToExtF80(rm, XSign(a), n.exp + 1, n.sig, 0, prec)
        ELSE IF XExp(a) # XExp(b) /\ sum >= XTop
        THEN softfloat_roundPackToExtF80(rm, XSign(a), expZ, sum, sx.extra, prec)
        ELSE softfloat_roundPackToExtF80(rm, XSign(a), expZ + 1,
                 (half.v % XTop) + XTop, half.extra, prec)

softfloat_subMagsExtF80(rm, prec, a, b) ==
    LET less == XExp(a) < XExp(b) \/ (XExp(a) = XExp(b) /\ XSig(a) < XSig(b))
        big == IF less THEN b ELSE a
        small == IF less THEN a ELSE b
        signZ == IF less THEN 1 - XSign(a) ELSE XSign(a)
        dist == XExponent(big) - XExponent(small)
    IN  IF AnyExtNaN(a, b) THEN softfloat_propagateNaNExtF80UI(a, b)
        ELSE IF XIsInf(a) /\ XIsInf(b) THEN XInvalid
        ELSE IF XIsInf(big) THEN Ret(XInf(signZ), {})
        ELSE IF XExp(a) = XExp(b) /\ XSig(a) = XSig(b)
        THEN Ret(packToExtF80(Bit(rm = "min"), 0, 0), {})
        ELSE softfloat_normRoundPackToExtF80(rm, signZ, XExponent(big),
                 XSig(big) * 2^I64 - ShiftRightJam(2 * I64, XSig(small) * 2^I64, dist), prec)

extF80_add(rm, prec, a, b) ==
    IF XSign(a) = XSign(b) THEN softfloat_addMagsExtF80(rm, prec, a, b)
    ELSE softfloat_subMagsExtF80(rm, prec, a, b)
extF80_sub(rm, prec, a, b) ==
    IF XSign(a) = XSign(b) THEN softfloat_subMagsExtF80(rm, prec, a, b)
    ELSE softfloat_addMagsExtF80(rm, prec, a, b)

extF80_mul(rm, prec, a, b) ==
    LET na == XNormalized(a)  nb == XNormalized(b)
        signZ == (XSign(a) + XSign(b)) % 2
        prod == na.sig * nb.sig
        expZ == na.exp + nb.exp - (Bias(F128) - 1)
    IN  IF AnyExtNaN(a, b) THEN softfloat_propagateNaNExtF80UI(a, b)
        ELSE IF XIsInf(a) \/ XIsInf(b)
        THEN IF IsZero(XF, a) \/ IsZero(XF, b) THEN XInvalid ELSE Ret(XInf(signZ), {})
        ELSE IF XSig(a) = 0 \/ XSig(b) = 0 THEN Ret(packToExtF80(signZ, 0, 0), {})
        ELSE IF prod < 2^(2 * I64 - 1)
        THEN RoundPackExt(rm, prec, signZ, expZ - 1, 2 * prod)
        ELSE RoundPackExt(rm, prec, signZ, expZ, prod)

extF80_div(rm, prec, err, a, b) ==
    LET na == XNormalized(a)  nb == XNormalized(b)
        signZ == (XSign(a) + XSign(b)) % 2
        less == na.sig < nb.sig
        num == na.sig * 2^(I64 - 1 + GExtDiv + Bit(less))
        q == num \div nb.sig
        z == WideQuotient(GExtDiv, q, q * nb.sig = num, err)
    IN  IF AnyExtNaN(a, b) THEN softfloat_propagateNaNExtF80UI(a, b)
        ELSE IF XIsInf(a)
        THEN IF XIsInf(b) THEN XInvalid ELSE Ret(XInf(signZ), {})
        ELSE IF XIsInf(b) THEN Ret(packToExtF80(signZ, 0, 0), {})
        ELSE IF XSig(b) = 0
        THEN IF XSig(a) = 0 THEN XInvalid ELSE Ret(XInf(signZ), {"infinite"})
        ELSE IF XSig(a) = 0 THEN Ret(packToExtF80(signZ, 0, 0), {})
        ELSE RoundPackExt(rm, prec, signZ,
                          na.exp - nb.exp + Bias(F128) - Bit(less),
                          z * 2^(I64 - GExtDiv))

extF80_sqrt(rm, prec, err, a) ==
    LET na == XNormalized(a)
        bits == I64 + GExtSqrt
        n == na.sig * 2^(2 * bits - I64 - (na.exp % 2))
        r == Root(bits, n)
        z == Corrected([R |-> GExtSqrt, slack |-> 3, step |-> 1], r, r * r = n, err)
    IN  IF isNaNExtF80UI(a) THEN softfloat_propagateNaNExtF80UI(a, 0)
        ELSE IF a = XInf(0) THEN Ret(a, {})
        ELSE IF XSig(a) = 0 THEN Ret(packToExtF80(XSign(a), 0, 0), {})
        ELSE IF XSign(a) = 1 THEN XInvalid
        ELSE RoundPackExt(rm, prec, 0, (na.exp - Bias(F128)) \div 2 + Bias(F128),
                          z * 2^(I64 - GExtSqrt))

(* An infinite divisor has its exponent doubled, which puts it out of reach *)
(* of every dividend; a dividend too small to change is packed again.       *)
CopyA(sign, exp, sig) ==
    IF exp < 1 THEN Ret(packToExtF80(sign, 0, sig \div 2^(1 - exp)), {})
    ELSE Ret(packToExtF80(sign, exp, sig), {})

extF80_rem(rm, a, b) ==
    LET na == XNormalized(a)  nb == XNormalized(b)
        expB == IF XIsInf(b) THEN 2 * XMax ELSE nb.exp
        diff == na.exp - expB
        num == IF diff < 1 THEN na.sig ELSE 2 * Reduced(na.sig, nb.sig, diff - 1)
        den == IF diff = -1 THEN 2 * nb.sig ELSE nb.sig
        rem == NearestRem(num, den)
        signZ == IF rem < 0 THEN 1 - XSign(a) ELSE XSign(a)
    IN  IF AnyExtNaN(a, b) THEN softfloat_propagateNaNExtF80UI(a, b)
        ELSE IF XIsInf(a) \/ XSig(b) = 0 THEN XInvalid
        ELSE IF XSig(a) = 0 THEN Ret(packToExtF80(XSign(a), 0, 0), {})
        ELSE IF diff < -1
        THEN CopyA(XSign(a), na.exp, na.sig)
        ELSE softfloat_normRoundPackToExtF80(rm, signZ,
                 IF rem = 0 THEN 0 ELSE expB - Bit(diff = -1),
                 Magnitude(rem) * 2^I64, 80)

extF80_roundToInt(a, rm, exact) ==
    LET n == softfloat_normSubnormalExtF80Sig(XSig(a))
        norm == XSig(a) >= XTop \/ XExp(a) = XMax
        exp == IF norm THEN XExp(a) ELSE XExp(a) + n.exp
        sig == IF norm THEN XSig(a) ELSE n.sig
        last == 2^(Bias(F128) + I64 - 1 - exp)
        half == sig + (last \div 2)
        up == CASE rm = "near_maxMag" -> half
                [] rm = "near_even" ->
                     IF half % last = 0 /\ (half \div last) % 2 = 1
                     THEN half - last ELSE half
                [] rm = AwayFromZero(XSign(a)) -> sig + last - 1
                [] OTHER -> sig
        z == up - (up % last)
        zz == IF z # sig /\ rm = "odd" /\ (z \div last) % 2 = 0 THEN z + last ELSE z
        one == CASE rm = "near_even" -> exp = Bias(F128) - 1 /\ sig # XTop
                 [] rm = "near_maxMag" -> exp = Bias(F128) - 1
                 [] rm = "minMag" -> FALSE
                 [] rm = "odd" -> TRUE
                 [] OTHER -> rm = AwayFromZero(XSign(a))
    IN  IF XSig(a) = 0 /\ XExp(a) # XMax THEN Ret(packToExtF80(XSign(a), 0, 0), {})
        ELSE IF isNaNExtF80UI(a) THEN softfloat_propagateNaNExtF80UI(a, 0)
        ELSE IF XIsInf(a) THEN Ret(XInf(XSign(a)), {})
        ELSE IF exp >= Bias(F128) + I64 - 1 THEN Ret(packToExtF80(XSign(a), exp, sig), {})
        ELSE IF exp < Bias(F128)
        THEN Ret(IF one THEN packToExtF80(XSign(a), Bias(F128), XTop)
                 ELSE packToExtF80(XSign(a), 0, 0), When(exact, {"inexact"}))
        ELSE Ret(IF zz = 2^I64 THEN packToExtF80(XSign(a), exp + 1, XTop)
                 ELSE packToExtF80(XSign(a), exp, zz),
                 When(z # sig /\ exact, {"inexact"}))

ExtCompare(a, b, holds, signaling) ==
    IF AnyExtNaN(a, b)
    THEN Ret(0, When(signaling \/ softfloat_isSigNaNExtF80UI(a)
                       \/ softfloat_isSigNaNExtF80UI(b), {"invalid"}))
    ELSE Ret(Bit(holds), {})
extF80_eq(a, b) == ExtCompare(a, b, EqBits(XF, a, b), FALSE)
extF80_eq_signaling(a, b) == ExtCompare(a, b, EqBits(XF, a, b), TRUE)
extF80_le(a, b) == ExtCompare(a, b, LeBits(XF, a, b), TRUE)
extF80_le_quiet(a, b) == ExtCompare(a, b, LeBits(XF, a, b), FALSE)
extF80_lt(a, b) == ExtCompare(a, b, LtBits(XF, a, b), TRUE)
extF80_lt_quiet(a, b) == ExtCompare(a, b, LtBits(XF, a, b), FALSE)
extF80_isSignalingNaN(a) == softfloat_isSigNaNExtF80UI(a)

-----------------------------------------------------------------------------
(* Conversions from and to the other formats. *)
WidenToExt(f, a) ==
    LET n == Normalized(f, a)
    IN  IF IsNaN(f, a)
        THEN Ret(defaultNaNExtF80UI, When(IsSigNaN(f, a), {"invalid"}))
        ELSE IF IsInf(f, a) THEN Ret(XInf(Sign(f, a)), {})
        ELSE IF IsZero(f, a) THEN Ret(packToExtF80(Sign(f, a), 0, 0), {})
        ELSE Ret(packToExtF80(Sign(f, a), n.exp + Bias(F128) - Bias(f),
                              n.sig * 2^(I64 - 1 - f.F)), {})
f16_to_extF80(a) == WidenToExt(F16, a)
f32_to_extF80(a) == WidenToExt(F32, a)
f64_to_extF80(a) == WidenToExt(F64, a)
f128_to_extF80(rm, a) ==
    LET n == Normalized(F128, a)
    IN  IF Exp(F128, a) = XMax \/ IsZero(F128, a) THEN WidenToExt(F128, a)
        ELSE RoundPackExt(rm, 80, Sign(F128, a), n.exp,
                          n.sig * 2^(2 * I64 - 1 - F128.F))

NaNFromExt(g, a) ==
    Ret(DefaultNaN(g), When(softfloat_isSigNaNExtF80UI(a), {"invalid"}))
NarrowFromExt(g, rm, a) ==
    LET sig == ShortShiftRightJam(XSig(a), I64 + 1 - SW(g))
    IN  IF isNaNExtF80UI(a) THEN NaNFromExt(g, a)
        ELSE IF XIsInf(a) THEN Ret(Inf(g, XSign(a)), {})
        ELSE IF XExp(a) = 0 /\ sig = 0 THEN Ret(Pack(g, XSign(a), 0, 0), {})
        ELSE RoundPack(g, rm, XSign(a), XExp(a) - (Bias(F128) - Bias(g) + 1), sig)
extF80_to_f16(rm, a) == NarrowFromExt(F16, rm, a)
extF80_to_f32(rm, a) == NarrowFromExt(F32, rm, a)
extF80_to_f64(rm, a) == NarrowFromExt(F64, rm, a)
extF80_to_f128(a) ==
    IF isNaNExtF80UI(a) THEN NaNFromExt(F128, a)
    ELSE Ret(Pack(F128, XSign(a), XExp(a), (XSig(a) % XTop) * 2^(F128.F - I64 + 1)), {})

(* To integers. *)
ExtSpecial(w, signed, a) ==
    OutOfRange(w, signed, IF isNaNExtF80UI(a) THEN 0 ELSE XSign(a))
PointDist(a) == Bias(F128) + I64 - 1 - XExp(a)
ExtToInt32(signed, a, rm, exact) ==
    LET dist == PointDist(a) - FB
        s == ShiftRightJam(I64, XSig(a), IF dist <= 0 THEN 1 ELSE dist)
    IN  RoundTo(I32, FB, signed, IF isNaNExtF80UI(a) THEN 0 ELSE XSign(a),
                s \div 2^FB, s % 2^FB, rm, exact)
ExtToInt64(signed, a, rm, exact) ==
    LET sx == ShiftRightJamExtra(I64, XSig(a), 0, PointDist(a))
    IN  IF PointDist(a) < 0 THEN ExtSpecial(I64, signed, a)
        ELSE RoundTo(I64, I64, signed, XSign(a), sx.v, sx.extra, rm, exact)
extF80_to_i32(a, rm, exact) == ExtToInt32(TRUE, a, rm, exact)
extF80_to_ui32(a, rm, exact) == ExtToInt32(FALSE, a, rm, exact)
extF80_to_i64(a, rm, exact) == ExtToInt64(TRUE, a, rm, exact)
extF80_to_ui64(a, rm, exact) == ExtToInt64(FALSE, a, rm, exact)

(* Truncation: bits is the least distance at which the integer fits. *)
ExtTruncate(w, signed, bits, a, exact) ==
    IF I64 <= PointDist(a) THEN Vanishes(XF, a, exact)
    ELSE IF PointDist(a) < bits \/ (~signed /\ XSign(a) = 1)
    THEN ExtSpecial(w, signed, a)
    ELSE Truncated(XSign(a), XSig(a), PointDist(a), exact)
extF80_to_i32_r_minMag(a, exact) ==
    IF /\ XSign(a) = 1 /\ XExp(a) = Bias(F128) + I32 - 1
       /\ XSig(a) < XTop + 2^(I64 - I32)
    THEN Ret(IntMin(I32, TRUE), When(exact /\ XSig(a) % 2^(I64 - I32) # 0, {"inexact"}))
    ELSE ExtTruncate(I32, TRUE, I64 - I32 + 1, a, exact)
extF80_to_ui32_r_minMag(a, exact) == ExtTruncate(I32, FALSE, I64 - I32, a, exact)
extF80_to_i64_r_minMag(a, exact) ==
    IF a = packToExtF80(1, Bias(F128) + I64 - 1, XTop) THEN Ret(IntMin(I64, TRUE), {})
    ELSE ExtTruncate(I64, TRUE, 1, a, exact)
extF80_to_ui64_r_minMag(a, exact) == ExtTruncate(I64, FALSE, 0, a, exact)

(* From integers of w bits, exactly. *)
ExtFromInt(w, i) ==
    LET dist == CountLeadingZeros(w, Magnitude(i))
    IN  IF i = 0 THEN Ret(0, {})
        ELSE Ret(packToExtF80(Bit(i < 0), Bias(F128) + w - 1 - dist,
                              Magnitude(i) * 2^(dist + I64 - w)), {})
i32_to_extF80(i) == ExtFromInt(I32, i)
ui32_to_extF80(i) == ExtFromInt(I32, i)
i64_to_extF80(i) == ExtFromInt(I64, i)
ui64_to_extF80(i) == ExtFromInt(I64, i)
=============================================================================
