--------------------------- MODULE SoftFloatCalls ---------------------------
(***************************************************************************)
(* Direct calls of the library beside the wrappers: the functions that no  *)
(* instruction uses (remainder, truncating conversions, signaling          *)
(* equality), the rounding mode "odd", conversions that do not report      *)
(* inexact, and the internal functions that the others are built from.     *)
(* A direct call runs in the mode its caller set and adds to the flags; it *)
(* shares both globals with the wrappers of FloatUnit.                     *)
(***************************************************************************)
EXTENDS FloatUnit, FloatRef

CONSTANTS Arguments(_, _, _), \* argument tuples explored: function, format, first?
          CallModes(_, _),    \* rounding modes explored: function, first?
          ResumesCall(_)      \* the calls that something may follow

VARIABLE ret \* the last direct call, with its result
cvars == <<vars, ret>>
NoCall == [op |-> "none"]

-----------------------------------------------------------------------------
(* The functions of a format, called with mode m and arguments v. *)
Library16(op, m, err, v) ==
    CASE op = "add" -> f16_add(m, v[1], v[2])
      [] op = "sub" -> f16_sub(m, v[1], v[2])
      [] op = "mul" -> f16_mul(m, v[1], v[2])
      [] op = "div" -> f16_div(m, err, v[1], v[2])
      [] op = "sqrt" -> f16_sqrt(m, err, v[1])
      [] op = "mulAdd" -> f16_mulAdd(m, v[1], v[2], v[3])
      [] op = "rem" -> f16_rem(m, v[1], v[2])
      [] op = "eq_signaling" -> f16_eq_signaling(v[1], v[2])
      [] op = "isSignalingNaN" -> Ret(Bit(f16_isSignalingNaN(v[1])), {})
      [] op = "roundToInt" -> f16_roundToInt(v[1], m, TRUE)
      [] op = "to_i32" -> f16_to_i32(v[1], m, FALSE)
      [] op = "to_i32_r_minMag" -> f16_to_i32_r_minMag(v[1], v[2] = 1)
      [] op = "from_i32" -> i32_to_f16(m, v[1])
      [] op = "to_ui32" -> f16_to_ui32(v[1], m, FALSE)
      [] op = "to_ui32_r_minMag" -> f16_to_ui32_r_minMag(v[1], v[2] = 1)
      [] op = "from_ui32" -> ui32_to_f16(m, v[1])
      [] op = "to_i64" -> f16_to_i64(v[1], m, FALSE)
      [] op = "to_i64_r_minMag" -> f16_to_i64_r_minMag(v[1], v[2] = 1)
      [] op = "from_i64" -> i64_to_f16(m, v[1])
      [] op = "to_ui64" -> f16_to_ui64(v[1], m, FALSE)
      [] op = "to_ui64_r_minMag" -> f16_to_ui64_r_minMag(v[1], v[2] = 1)
      [] op = "from_ui64" -> ui64_to_f16(m, v[1])
      [] op = "propagateNaN" -> softfloat_propagateNaNF16UI(v[1], v[2])
      [] op = "roundPack" -> softfloat_roundPackToF16(m, v[1], v[2], v[3])
      [] op = "normRoundPack" -> softfloat_normRoundPackToF16(m, v[1], v[2], v[3])
      [] op = "normSubnormal" -> Ret(softfloat_normSubnormalF16Sig(v[3]), {})
Library32(op, m, err, v) ==
    CASE op = "add" -> f32_add(m, v[1], v[2])
      [] op = "sub" -> f32_sub(m, v[1], v[2])
      [] op = "mul" -> f32_mul(m, v[1], v[2])
      [] op = "div" -> f32_div(m, err, v[1], v[2])
      [] op = "sqrt" -> f32_sqrt(m, err, v[1])
      [] op = "mulAdd" -> f32_mulAdd(m, v[1], v[2], v[3])
      [] op = "rem" -> f32_rem(m, v[1], v[2])
      [] op = "eq_signaling" -> f32_eq_signaling(v[1], v[2])
      [] op = "isSignalingNaN" -> Ret(Bit(f32_isSignalingNaN(v[1])), {})
      [] op = "roundToInt" -> f32_roundToInt(v[1], m, TRUE)
      [] op = "to_f16" -> f32_to_f16(m, v[1])
      [] op = "to_i32" -> f32_to_i32(v[1], m, FALSE)
      [] op = "to_i32_r_minMag" -> f32_to_i32_r_minMag(v[1], v[2] = 1)
      [] op = "from_i32" -> i32_to_f32(m, v[1])
      [] op = "to_ui32" -> f32_to_ui32(v[1], m, FALSE)
      [] op = "to_ui32_r_minMag" -> f32_to_ui32_r_minMag(v[1], v[2] = 1)
      [] op = "from_ui32" -> ui32_to_f32(m, v[1])
      [] op = "to_i64" -> f32_to_i64(v[1], m, FALSE)
      [] op = "to_i64_r_minMag" -> f32_to_i64_r_minMag(v[1], v[2] = 1)
      [] op = "from_i64" -> i64_to_f32(m, v[1])
      [] op = "to_ui64" -> f32_to_ui64(v[1], m, FALSE)
      [] op = "to_ui64_r_minMag" -> f32_to_ui64_r_minMag(v[1], v[2] = 1)
      [] op = "from_ui64" -> ui64_to_f32(m, v[1])
      [] op = "propagateNaN" -> softfloat_propagateNaNF32UI(v[1], v[2])
      [] op = "roundPack" -> softfloat_roundPackToF32(m, v[1], v[2], v[3])
      [] op = "normRoundPack" -> softfloat_normRoundPackToF32(m, v[1], v[2], v[3])
      [] op = "normSubnormal" -> Ret(softfloat_normSubnormalF32Sig(v[3]), {})
Library64(op, m, err, v) ==
    CASE op = "add" -> f64_add(m, v[1], v[2])
      [] op = "sub" -> f64_sub(m, v[1], v[2])
      [] op = "mul" -> f64_mul(m, v[1], v[2])
      [] op = "div" -> f64_div(m, err, v[1], v[2])
      [] op = "sqrt" -> f64_sqrt(m, err, v[1])
      [] op = "mulAdd" -> f64_mulAdd(m, v[1], v[2], v[3])
      [] op = "rem" -> f64_rem(m, v[1], v[2])
      [] op = "eq_signaling" -> f64_eq_signaling(v[1], v[2])
      [] op = "isSignalingNaN" -> Ret(Bit(f64_isSignalingNaN(v[1])), {})
      [] op = "roundToInt" -> f64_roundToInt(v[1], m, TRUE)
      [] op = "to_f16" -> f64_to_f16(m, v[1])
      [] op = "to_f32" -> f64_to_f32(m, v[1])
      [] op = "to_i32" -> f64_to_i32(v[1], m, FALSE)
      [] op = "to_i32_r_minMag" -> f64_to_i32_r_minMag(v[1], v[2] = 1)
      [] op = "to_ui32" -> f64_to_ui32(v[1], m, FALSE)
      [] op = "to_ui32_r_minMag" -> f64_to_ui32_r_minMag(v[1], v[2] = 1)
      [] op = "to_i64" -> f64_to_i64(v[1], m, FALSE)
      [] op = "to_i64_r_minMag" -> f64_to_i64_r_minMag(v[1], v[2] = 1)
      [] op = "from_i64" -> i64_to_f64(m, v[1])
      [] op = "to_ui64" -> f64_to_ui64(v[1], m, FALSE)
      [] op = "to_ui64_r_minMag" -> f64_to_ui64_r_minMag(v[1], v[2] = 1)
      [] op = "from_ui64" -> ui64_to_f64(m, v[1])
      [] op = "propagateNaN" -> softfloat_propagateNaNF64UI(v[1], v[2])
      [] op = "roundPack" -> softfloat_roundPackToF64(m, v[1], v[2], v[3])
      [] op = "normRoundPack" -> softfloat_normRoundPackToF64(m, v[1], v[2], v[3])
      [] op = "normSubnormal" -> Ret(softfloat_normSubnormalF64Sig(v[3]), {})

(* The functions on words. *)
LibraryWord(op, m, v) ==
    CASE op = "roundToI32" -> softfloat_roundToI32(v[1], v[2], m, v[3] = 1)
      [] op = "roundToUI32" -> softfloat_roundToUI32(v[1], v[2], m, v[3] = 1)
      [] op = "roundToI64" -> softfloat_roundToI64(v[1], v[2], v[3], m, TRUE)
      [] op = "roundToUI64" -> softfloat_roundToUI64(v[1], v[2], v[3], m, TRUE)
      [] op = "countLeadingZeros16" -> Ret(softfloat_countLeadingZeros16(v[1]), {})
      [] op = "countLeadingZeros32" -> Ret(softfloat_countLeadingZeros32(v[1]), {})
      [] op = "countLeadingZeros64" -> Ret(softfloat_countLeadingZeros64(v[1]), {})
      [] op = "shiftRightJam32" -> Ret(softfloat_shiftRightJam32(v[1], v[2]), {})
      [] op = "shiftRightJam64" -> Ret(softfloat_shiftRightJam64(v[1], v[2]), {})
      [] op = "shortShiftRightJam64" -> Ret(softfloat_shortShiftRightJam64(v[1], v[2]), {})
      [] op = "shiftRightJam64Extra" ->
           Ret(softfloat_shiftRightJam64Extra(v[1], v[3], v[2]), {})

WordFunctions ==
    {"roundToI32", "roundToUI32", "roundToI64", "roundToUI64",
     "countLeadingZeros16", "countLeadingZeros32", "countLeadingZeros64",
     "shiftRightJam32", "shiftRightJam64", "shortShiftRightJam64",
     "shiftRightJam64Extra"}
FloatFunctions ==
    {"add", "sub", "mul", "div", "sqrt", "mulAdd",
     "rem", "eq_signaling", "isSignalingNaN", "roundToInt", "to_f16", "to_f32",
     "to_i32", "to_ui32", "to_i64", "to_ui64", "to_i32_r_minMag", "to_ui32_r_minMag",
     "to_i64_r_minMag", "to_ui64_r_minMag", "from_i32", "from_ui32", "from_i64",
     "from_ui64", "propagateNaN", "roundPack", "normRoundPack", "normSubnormal"}
Library(op, f, m, err, v) ==
    CASE f = "f16" -> Library16(op, m, err, v) [] f = "f32" -> Library32(op, m, err, v)
      [] f = "f64" -> Library64(op, m, err, v) [] f = "word" -> LibraryWord(op, m, v)

CallErrors(op, f) == IF op \in {"div", "sqrt"} THEN 0 .. Format(f).slack ELSE {0}
(* RISCV/softfloat_raiseFlags.c *)
softfloat_raiseFlags(flags) ==
    softfloat_exceptionFlags' = softfloat_exceptionFlags \cup flags

(* The function and the mode are chosen first, then its arguments. *)
Choose(op, f, m) ==
    /\ Idle("call", f) /\ ret = NoCall
    /\ ret' = [op |-> op, f |-> f, m |-> m, v |-> <<>>]
    /\ UNCHANGED vars
Call ==
    /\ ret # NoCall /\ ret.v = <<>>
    /\ \E v \in Arguments(ret.op, ret.f, First), err \in CallErrors(ret.op, ret.f) :
         LET r == Library(ret.op, ret.f, ret.m, err, v)
         IN  /\ softfloat_roundingMode' = ret.m
             /\ softfloat_raiseFlags(r.fl)
             /\ ret' = [op |-> ret.op, f |-> ret.f, m |-> ret.m, v |-> v, z |-> r.z,
                        before |-> softfloat_exceptionFlags,
                        after |-> softfloat_exceptionFlags']
             /\ UNCHANGED <<regs, frm, fflags, mstatus, fetched, insn, fd, xd, trap, saved>>
DirectFloat ==
    \E op \in FloatFunctions, f \in FloatTypes : \E m \in CallModes(op, First) : Choose(op, f, m)
DirectWord == \E op \in WordFunctions : \E m \in CallModes(op, First) : Choose(op, "word", m)
Insns == ResumesCall(ret) /\ Next /\ UNCHANGED ret

CInit == Init /\ ret = NoCall
CNext == DirectFloat \/ DirectWord \/ Call \/ Insns
CSpec == CInit /\ [][CNext]_cvars

-----------------------------------------------------------------------------
(* What each function has to return. *)
IntType(op) ==
    CASE op \in {"to_i32", "to_i32_r_minMag"} -> [w |-> I32, signed |-> TRUE]
      [] op \in {"to_ui32", "to_ui32_r_minMag"} -> [w |-> I32, signed |-> FALSE]
      [] op \in {"to_i64", "to_i64_r_minMag"} -> [w |-> I64, signed |-> TRUE]
      [] op \in {"to_ui64", "to_ui64_r_minMag"} -> [w |-> I64, signed |-> FALSE]
FloatExpected(op, f, m, v) ==
    LET a == v[1]  b == v[2]  c == v[3]
    IN  CASE op = "add" -> RefAdd(f, f, m, a, b)
          [] op = "sub" -> RefSub(f, f, m, a, b)
          [] op = "mul" -> RefMul(f, f, m, a, b)
          [] op = "div" -> RefDiv(f, f, m, a, b)
          [] op = "sqrt" -> RefSqrt(f, f, m, a)
          [] op = "mulAdd" -> RefMulAdd(f, m, a, b, c)
          [] op = "rem" -> RefRem(f, a, b)
          [] op = "eq_signaling" -> RefCompare(f, a, b, {0}, TRUE)
          [] op = "isSignalingNaN" ->
               Ret(Cardinality(RefCompare(f, a, a, {0}, FALSE).fl), {})
          [] op = "roundToInt" -> RefRoundToInt(f, a, m, TRUE)
          [] op = "to_f16" -> RefConvert(f, F16, m, a)
          [] op = "to_f32" -> RefConvert(f, F32, m, a)
          [] op \in {"to_i32", "to_ui32", "to_i64", "to_ui64"} ->
               RefToInt(f, IntType(op).w, IntType(op).signed, a, m, FALSE)
          [] op \in {"to_i32_r_minMag", "to_ui32_r_minMag",
                     "to_i64_r_minMag", "to_ui64_r_minMag"} ->
               RefToInt(f, IntType(op).w, IntType(op).signed, a, "minMag", b = 1)
          [] op \in {"from_i32", "from_ui32", "from_i64", "from_ui64"} ->
               RefFromInt(f, m, a)
          [] op = "propagateNaN" -> NaNResult(f, f, {a, b})
          [] op \in {"roundPack", "normRoundPack"} ->
               Round(f, m, a, c, b + 1 - Bias(f) - f.F - R(f))
          [] op = "normSubnormal" ->
               Ret([exp |-> Bits(c) - f.F, sig |-> c * 2^(f.F + 1 - Bits(c))], {})
WordExpected(op, m, v) ==
    CASE op \in {"roundToI32", "roundToUI32"} ->
           RefRoundToWord(I32, op = "roundToI32", v[1], v[2], -FB, m, v[3] = 1)
      [] op \in {"roundToI64", "roundToUI64"} ->
           RefRoundToWord(I64, op = "roundToI64", v[1], v[2] * 2^I64 + v[3], -I64, m, TRUE)
      [] op = "countLeadingZeros16" -> Ret(SW(F16) - Bits(v[1]), {})
      [] op = "countLeadingZeros32" -> Ret(I32 - Bits(v[1]), {})
      [] op = "countLeadingZeros64" -> Ret(I64 - Bits(v[1]), {})
      [] op \in {"shiftRightJam32", "shiftRightJam64", "shortShiftRightJam64"} ->
           Ret(Chosen(v[1], v[2], "odd", 0), {})
(* The integer part, whether the last bit shifted out was set, and whether *)
(* any of the others was.                                                  *)
ExtraExpected(v) ==
    <<v[1] \div 2^v[2], (v[1] \div 2^(v[2] - 1)) % 2 = 1,
      v[1] % 2^(v[2] - 1) # 0 \/ v[3] # 0>>
ExtraRead(z) == <<z.v, z.extra >= 2^(I64 - 1), z.extra % 2^(I64 - 1) # 0>>

(* Every direct call returns the exact result rounded once and raises      *)
(* exactly the flags due to it, on top of the ones that were there: the    *)
(* remainder and truncation at the ends of the ranges, rounding to odd,    *)
(* and the internal rounding functions for every exponent and significand  *)
(* that their contract admits.                                             *)
CallsAreExact ==
    ret # NoCall /\ ret.v # <<>> =>
      IF ret.op = "shiftRightJam64Extra" THEN ExtraRead(ret.z) = ExtraExpected(ret.v)
      ELSE LET due == IF ret.f = "word" THEN WordExpected(ret.op, ret.m, ret.v)
                      ELSE FloatExpected(ret.op, Format(ret.f), ret.m, ret.v)
           IN  /\ ret.z = due.z
               /\ ret.after = ret.before \cup due.fl
=============================================================================
