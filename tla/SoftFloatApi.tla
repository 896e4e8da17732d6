---------------------------- MODULE SoftFloatApi ----------------------------
(***************************************************************************)
(* Half, single and double precision: each function of SoftFloat-3e for    *)
(* these formats, under its own name, as an instance of an algorithm they  *)
(* share.  Where the library treats one format differently, the            *)
(* difference is here: half precision adds in a double word, single        *)
(* precision packs an even sum without rounding, double precision drops    *)
(* half of a product, and each integer width has a conversion of its own.  *)
(***************************************************************************)
EXTENDS SoftFloatOps

(* The widths play the parts they play in the library: an integer type is *)
(* as wide as a significand that is ready to be rounded, and each format   *)
(* holds the one before it with room for its rounding bits.                *)
ASSUME FormatAssumption ==
    /\ I32 \in Nat /\ I64 \in Nat /\ FB \in Nat
    /\ \A f \in {F16, F32, F64} : FormatOK(f) /\ ~f.keepNaN
    /\ SW(F32) = I32 /\ SW(F64) = I64 /\ F64.F + 1 >= I32
    /\ Bias(F32) >= I32 /\ Bias(F64) >= I64 /\ FB >= F16.F + 2
    /\ \A f \in {F32, F64} : f.F + f.pre - FB \in I32 .. Bias(f) + 1
    /\ F32.F >= F16.F + F16.R /\ F64.F >= F32.F + F32.R
    /\ F16.E < F32.E /\ F32.E < F64.E
(* What exponentiation is, as far as the widths reach: the provers only    *)
(* know powers of literals.                                                *)
ASSUME PowersOfTwo ==
    \A n \in 0 .. W(F64) \cup 0 .. I64 : 2^(n + 1) = 2 * 2^n

-----------------------------------------------------------------------------
(* Words. *)
softfloat_countLeadingZeros16(a) == CountLeadingZeros(SW(F16), a)
softfloat_countLeadingZeros32(a) == CountLeadingZeros(I32, a)
softfloat_countLeadingZeros64(a) == CountLeadingZeros(I64, a)
softfloat_shiftRightJam32(a, dist) == ShiftRightJam(I32, a, dist)
softfloat_shiftRightJam64(a, dist) == ShiftRightJam(I64, a, dist)
softfloat_shortShiftRightJam64(a, dist) == ShortShiftRightJam(a, dist)
softfloat_shiftRightJam64Extra(a, extra, dist) ==
    ShiftRightJamExtra(I64, a, extra, dist)

(* A magnitude with a fraction rounded to an integer type: FB fraction     *)
(* bits for 32 bits, a word of them for 64.                                *)
softfloat_roundToI32(sign, sig, rm, exact) ==
    RoundToSigned(I32, FB, sign, sig \div 2^FB, sig % 2^FB, rm, exact)
softfloat_roundToUI32(sign, sig, rm, exact) ==
    RoundToUnsigned(I32, FB, sign, sig \div 2^FB, sig % 2^FB, rm, exact)
softfloat_roundToI64(sign, sig, extra, rm, exact) ==
    RoundToSigned(I64, I64, sign, sig, extra, rm, exact)
softfloat_roundToUI64(sign, sig, extra, rm, exact) ==
    RoundToUnsigned(I64, I64, sign, sig, extra, rm, exact)

-----------------------------------------------------------------------------
(* Half precision. *)
softfloat_isSigNaNF16UI(a) == IsSigNaN(F16, a)
softfloat_propagateNaNF16UI(a, b) == PropagateNaN(F16, a, b)
softfloat_normSubnormalF16Sig(sig) == NormSubnormalSig(F16, sig)
softfloat_roundPackToF16(rm, sign, exp, sig) == RoundPack(F16, rm, sign, exp, sig)
softfloat_normRoundPackToF16(rm, sign, exp, sig) ==
    NormRoundPack(F16, rm, sign, exp, sig)
softfloat_addMagsF16(rm, a, b) == HalfAddMags(F16, rm, a, b)
softfloat_subMagsF16(rm, a, b) == HalfSubMags(F16, rm, a, b)
softfloat_mulAddF16(rm, a, b, c, op) == MulAdd(F16, rm, a, b, c, op)
f16_add(rm, a, b) ==
    IF Sign(F16, a) = Sign(F16, b) THEN softfloat_addMagsF16(rm, a, b)
    ELSE softfloat_subMagsF16(rm, a, b)
f16_sub(rm, a, b) ==
    IF Sign(F16, a) = Sign(F16, b) THEN softfloat_subMagsF16(rm, a, b)
    ELSE softfloat_addMagsF16(rm, a, b)
f16_mul(rm, a, b) == Mul(F16, rm, a, b)
f16_mulAdd(rm, a, b, c) == softfloat_mulAddF16(rm, a, b, c, "none")
f16_div(rm, err, a, b) == Div(F16, rm, err, a, b)
f16_rem(rm, a, b) == Rem(F16, rm, a, b)
f16_sqrt(rm, err, a) == Sqrt(F16, rm, err, a)
f16_roundToInt(a, rm, exact) == RoundToInt(F16, a, rm, exact)
f16_eq(a, b) == Eq(F16, a, b, FALSE)
f16_eq_signaling(a, b) == Eq(F16, a, b, TRUE)
f16_le(a, b) == Le(F16, a, b, TRUE)
f16_le_quiet(a, b) == Le(F16, a, b, FALSE)
f16_lt(a, b) == Lt(F16, a, b, TRUE)
f16_lt_quiet(a, b) == Lt(F16, a, b, FALSE)
f16_isSignalingNaN(a) == softfloat_isSigNaNF16UI(a)
f16_to_f32(a) == Widen(F16, F32, a)
f16_to_f64(a) == Widen(F16, F64, a)
f16_to_i32(a, rm, exact) == HalfToInt(F16, I32, TRUE, a, rm, exact)
f16_to_i32_r_minMag(a, exact) == HalfToIntMinMag(F16, I32, TRUE, a, exact)
f16_to_ui32(a, rm, exact) == HalfToInt(F16, I32, FALSE, a, rm, exact)
f16_to_ui32_r_minMag(a, exact) == HalfToIntMinMag(F16, I32, FALSE, a, exact)
f16_to_i64(a, rm, exact) == HalfToInt(F16, I64, TRUE, a, rm, exact)
f16_to_i64_r_minMag(a, exact) == HalfToIntMinMag(F16, I64, TRUE, a, exact)
f16_to_ui64(a, rm, exact) == HalfToInt(F16, I64, FALSE, a, rm, exact)
f16_to_ui64_r_minMag(a, exact) == HalfToIntMinMag(F16, I64, FALSE, a, exact)
i32_to_f16(rm, i) == FromIntNarrow(F16, I32, rm, i)
ui32_to_f16(rm, i) == FromIntNarrow(F16, I32, rm, i)
i64_to_f16(rm, i) == FromIntNarrow(F16, I64, rm, i)
ui64_to_f16(rm, i) == FromIntNarrow(F16, I64, rm, i)

-----------------------------------------------------------------------------
(* Single precision. *)
softfloat_isSigNaNF32UI(a) == IsSigNaN(F32, a)
softfloat_propagateNaNF32UI(a, b) == PropagateNaN(F32, a, b)
softfloat_normSubnormalF32Sig(sig) == NormSubnormalSig(F32, sig)
softfloat_roundPackToF32(rm, sign, exp, sig) == RoundPack(F32, rm, sign, exp, sig)
softfloat_normRoundPackToF32(rm, sign, exp, sig) ==
    NormRoundPack(F32, rm, sign, exp, sig)
softfloat_addMagsF32(rm, a, b) ==
    IF EvenSum(F32, a, b) THEN PackEvenSum(F32, a, b) ELSE AddMags(F32, rm, a, b)
softfloat_subMagsF32(rm, a, b) == SubMags(F32, rm, a, b)
softfloat_mulAddF32(rm, a, b, c, op) == MulAdd(F32, rm, a, b, c, op)
f32_add(rm, a, b) ==
    IF Sign(F32, a) = Sign(F32, b) THEN softfloat_addMagsF32(rm, a, b)
    ELSE softfloat_subMagsF32(rm, a, b)
f32_sub(rm, a, b) ==
    IF Sign(F32, a) = Sign(F32, b) THEN softfloat_subMagsF32(rm, a, b)
    ELSE softfloat_addMagsF32(rm, a, b)
f32_mul(rm, a, b) == Mul(F32, rm, a, b)
f32_mulAdd(rm, a, b, c) == softfloat_mulAddF32(rm, a, b, c, "none")
f32_div(rm, err, a, b) == Div(F32, rm, err, a, b)
f32_rem(rm, a, b) == Rem(F32, rm, a, b)
f32_sqrt(rm, err, a) == Sqrt(F32, rm, err, a)
f32_roundToInt(a, rm, exact) == RoundToInt(F32, a, rm, exact)
f32_eq(a, b) == Eq(F32, a, b, FALSE)
f32_eq_signaling(a, b) == Eq(F32, a, b, TRUE)
f32_le(a, b) == Le(F32, a, b, TRUE)
f32_le_quiet(a, b) == Le(F32, a, b, FALSE)
f32_lt(a, b) == Lt(F32, a, b, TRUE)
f32_lt_quiet(a, b) == Lt(F32, a, b, FALSE)
f32_isSignalingNaN(a) == softfloat_isSigNaNF32UI(a)
f32_to_f16(rm, a) == Narrow(F32, F16, rm, a)
f32_to_f64(a) == Widen(F32, F64, a)
f32_to_i32(a, rm, exact) == ToInt32(F32, TRUE, a, rm, exact)
f32_to_i32_r_minMag(a, exact) == ToIntMinMag(F32, I32, TRUE, a, exact)
f32_to_ui32(a, rm, exact) == ToInt32(F32, FALSE, a, rm, exact)
f32_to_ui32_r_minMag(a, exact) == ToIntMinMag(F32, I32, FALSE, a, exact)
f32_to_i64(a, rm, exact) == ToInt64(F32, TRUE, a, rm, exact)
f32_to_i64_r_minMag(a, exact) == ToIntMinMag(F32, I64, TRUE, a, exact)
f32_to_ui64(a, rm, exact) == ToInt64(F32, FALSE, a, rm, exact)
f32_to_ui64_r_minMag(a, exact) == ToIntMinMag(F32, I64, FALSE, a, exact)
i32_to_f32(rm, i) == FromIntSame(F32, rm, i)
ui32_to_f32(rm, i) == FromIntSame(F32, rm, i)
i64_to_f32(rm, i) == FromIntNarrow(F32, I64, rm, i)
ui64_to_f32(rm, i) == FromIntNarrow(F32, I64, rm, i)

-----------------------------------------------------------------------------
(* Double precision. *)
softfloat_isSigNaNF64UI(a) == IsSigNaN(F64, a)
softfloat_propagateNaNF64UI(a, b) == PropagateNaN(F64, a, b)
softfloat_normSubnormalF64Sig(sig) == NormSubnormalSig(F64, sig)
softfloat_roundPackToF64(rm, sign, exp, sig) == RoundPack(F64, rm, sign, exp, sig)
softfloat_normRoundPackToF64(rm, sign, exp, sig) ==
    NormRoundPack(F64, rm, sign, exp, sig)
softfloat_addMagsF64(rm, a, b) == AddMags(F64, rm, a, b)
softfloat_subMagsF64(rm, a, b) == SubMags(F64, rm, a, b)
softfloat_mulAddF64(rm, a, b, c, op) == MulAddDouble(F64, rm, a, b, c, op)
f64_add(rm, a, b) ==
    IF Sign(F64, a) = Sign(F64, b) THEN softfloat_addMagsF64(rm, a, b)
    ELSE softfloat_subMagsF64(rm, a, b)
f64_sub(rm, a, b) ==
    IF Sign(F64, a) = Sign(F64, b) THEN softfloat_subMagsF64(rm, a, b)
    ELSE softfloat_addMagsF64(rm, a, b)
f64_mul(rm, a, b) == Mul(F64, rm, a, b)
f64_mulAdd(rm, a, b, c) == softfloat_mulAddF64(rm, a, b, c, "none")
f64_div(rm, err, a, b) == Div(F64, rm, err, a, b)
f64_rem(rm, a, b) == Rem(F64, rm, a, b)
f64_sqrt(rm, err, a) == Sqrt(F64, rm, err, a)
f64_roundToInt(a, rm, exact) == RoundToInt(F64, a, rm, exact)
f64_eq(a, b) == Eq(F64, a, b, FALSE)
f64_eq_signaling(a, b) == Eq(F64, a, b, TRUE)
f64_le(a, b) == Le(F64, a, b, TRUE)
f64_le_quiet(a, b) == Le(F64, a, b, FALSE)
f64_lt(a, b) == Lt(F64, a, b, TRUE)
f64_lt_quiet(a, b) == Lt(F64, a, b, FALSE)
f64_isSignalingNaN(a) == softfloat_isSigNaNF64UI(a)
f64_to_f16(rm, a) == Narrow(F64, F16, rm, a)
f64_to_f32(rm, a) == Narrow(F64, F32, rm, a)
f64_to_i32(a, rm, exact) == ToInt32(F64, TRUE, a, rm, exact)
f64_to_i32_r_minMag(a, exact) == DoubleToInt32MinMag(F64, TRUE, a, exact)
f64_to_ui32(a, rm, exact) == ToInt32(F64, FALSE, a, rm, exact)
f64_to_ui32_r_minMag(a, exact) == DoubleToInt32MinMag(F64, FALSE, a, exact)
f64_to_i64(a, rm, exact) == ToInt64(F64, TRUE, a, rm, exact)
f64_to_i64_r_minMag(a, exact) == ToIntMinMag(F64, I64, TRUE, a, exact)
f64_to_ui64(a, rm, exact) == ToInt64(F64, FALSE, a, rm, exact)
f64_to_ui64_r_minMag(a, exact) == ToIntMinMag(F64, I64, FALSE, a, exact)
i32_to_f64(i) == FromIntExact(F64, I32, i)
ui32_to_f64(i) == FromIntExact(F64, I32, i)
i64_to_f64(rm, i) == FromIntSame(F64, rm, i)
ui64_to_f64(rm, i) == FromIntSame(F64, rm, i)
=============================================================================
