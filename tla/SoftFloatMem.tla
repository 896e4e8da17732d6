---------------------------- MODULE SoftFloatMem ----------------------------
(***************************************************************************)
(* Quadruple and extended precision as the library offers them to callers: *)
(* functions that take pointers (f128M_..., extF80M_...) and leave their   *)
(* result in memory.  A caller sets the globals, stores operands and makes *)
(* a call, which is one step.  The functions on integers of several words  *)
(* are called here too.                                                    *)
(***************************************************************************)
EXTENDS SoftFloatExt, SoftFloatArrays, FloatRef

CONSTANTS Jobs,         \* what a caller prepares: kinds of operands, see Stored
          Globals(_),   \* <<rounding mode, rounding precision, flags>> it sets
          Stored(_),    \* the operands it stores
          Target        \* the cell the result goes to

ASSUME WideAssumption == WideFormatsOK /\ ExtFormatOK

(* The operands of the functions on words: numbers of two and four words,  *)
(* an extra word and a distance.                                           *)
OneWord == 0 .. Base - 1
WordPair == OneWord \X OneWord
WordQuad == OneWord \X OneWord \X OneWord \X OneWord
ASSUME StoredAssumption ==
    /\ Stored("words128") \subseteq WordPair \X WordPair \X {0}
    /\ Stored("words256") \subseteq WordQuad \X WordQuad \X {0}
    /\ Stored("shift128") \subseteq WordPair \X OneWord \X (1 .. LongestShift)
    /\ Stored("shift256") \subseteq WordQuad \X {0} \X (1 .. LongestShift)

Cells == {"a", "b", "c"}
VARIABLES softfloat_roundingMode, softfloat_exceptionFlags,
          extF80_roundingPrecision,
          m128, m80, \* memory: the cells of both formats
          v,         \* operands passed by value: integers, narrow formats, words
          job,       \* what the caller prepared
          ret        \* the call made, with its operands and result
globals == <<softfloat_roundingMode, softfloat_exceptionFlags, extF80_roundingPrecision>>
mvars == <<globals, m128, m80, v, job, ret>>
NoCall == [f |-> "none"]

rm == softfloat_roundingMode
prec == extF80_roundingPrecision

-----------------------------------------------------------------------------
(* The end of a call: flags are added, operands and result recorded. *)
Return(f, op, args, r) ==
    /\ softfloat_exceptionFlags' = softfloat_exceptionFlags \cup r.fl
    /\ ret' = [f |-> f, op |-> op, args |-> args, z |-> r.z,
               before |-> softfloat_exceptionFlags]
    /\ UNCHANGED <<softfloat_roundingMode, extF80_roundingPrecision, v, job>>
ToRegister(f, op, args, r) == Return(f, op, args, r) /\ UNCHANGED <<m128, m80>>
To128(f, op, args, zPtr, r) ==
    /\ Return(f, op, args, r)
    /\ m128' = [m128 EXCEPT ![zPtr] = r.z]
    /\ UNCHANGED m80
To80(f, op, args, zPtr, r) ==
    /\ Return(f, op, args, r)
    /\ m80' = [m80 EXCEPT ![zPtr] = r.z]
    /\ UNCHANGED m128

-----------------------------------------------------------------------------
(* Quadruple precision. *)
f128M_add(aPtr, bPtr, zPtr) ==
    LET a == m128[aPtr]  b == m128[bPtr]
    IN  To128("f128", "add", <<a, b>>, zPtr,
              IF Sign(F128, a) = Sign(F128, b) THEN softfloat_addMagsF128(rm, a, b)
              ELSE softfloat_subMagsF128(rm, a, b))
f128M_sub(aPtr, bPtr, zPtr) ==
    LET a == m128[aPtr]  b == m128[bPtr]
    IN  To128("f128", "sub", <<a, b>>, zPtr,
              IF Sign(F128, a) = Sign(F128, b) THEN softfloat_subMagsF128(rm, a, b)
              ELSE softfloat_addMagsF128(rm, a, b))
f128M_mulAdd(aPtr, bPtr, cPtr, zPtr) ==
    LET a == m128[aPtr]  b == m128[bPtr]  c == m128[cPtr]
    IN  To128("f128", "mulAdd", <<a, b, c>>, zPtr, softfloat_mulAddF128(rm, a, b, c, "none"))
f128M_mul(aPtr, bPtr, zPtr) ==
    To128("f128", "mul", <<m128[aPtr], m128[bPtr]>>, zPtr, f128_mul(rm, m128[aPtr], m128[bPtr]))
f128M_div(err, aPtr, bPtr, zPtr) ==
    To128("f128", "div", <<m128[aPtr], m128[bPtr]>>, zPtr,
          f128_div(rm, err, m128[aPtr], m128[bPtr]))
f128M_rem(aPtr, bPtr, zPtr) ==
    To128("f128", "rem", <<m128[aPtr], m128[bPtr]>>, zPtr, f128_rem(rm, m128[aPtr], m128[bPtr]))
f128M_sqrt(err, aPtr, zPtr) ==
    To128("f128", "sqrt", <<m128[aPtr]>>, zPtr, f128_sqrt(rm, err, m128[aPtr]))
f128M_roundToInt(aPtr, exact, zPtr) ==
    To128("f128", "roundToInt", <<m128[aPtr], exact>>, zPtr,
          f128_roundToInt(m128[aPtr], rm, exact))
f128M_eq(aPtr, bPtr) ==
    ToRegister("f128", "eq", <<m128[aPtr], m128[bPtr]>>, f128_eq(m128[aPtr], m128[bPtr]))
f128M_eq_signaling(aPtr, bPtr) ==
    ToRegister("f128", "eq_signaling", <<m128[aPtr], m128[bPtr]>>, f128_eq_signaling(m128[aPtr], m128[bPtr]))
f128M_le(aPtr, bPtr) ==
    ToRegister("f128", "le", <<m128[aPtr], m128[bPtr]>>, f128_le(m128[aPtr], m128[bPtr]))
f128M_le_quiet(aPtr, bPtr) ==
    ToRegister("f128", "le_quiet", <<m128[aPtr], m128[bPtr]>>, f128_le_quiet(m128[aPtr], m128[bPtr]))
f128M_lt(aPtr, bPtr) ==
    ToRegister("f128", "lt", <<m128[aPtr], m128[bPtr]>>, f128_lt(m128[aPtr], m128[bPtr]))
f128M_lt_quiet(aPtr, bPtr) ==
    ToRegister("f128", "lt_quiet", <<m128[aPtr], m128[bPtr]>>, f128_lt_quiet(m128[aPtr], m128[bPtr]))
f128M_to_i32(aPtr, exact) ==
    ToRegister("f128", "toInt", <<m128[aPtr], exact, "i32", rm>>,
               f128_to_i32(m128[aPtr], rm, exact))
f128M_to_ui32(aPtr, exact) ==
    ToRegister("f128", "toInt", <<m128[aPtr], exact, "ui32", rm>>,
               f128_to_ui32(m128[aPtr], rm, exact))
f128M_to_i64(aPtr, exact) ==
    ToRegister("f128", "toInt", <<m128[aPtr], exact, "i64", rm>>,
               f128_to_i64(m128[aPtr], rm, exact))
f128M_to_ui64(aPtr, exact) ==
    ToRegister("f128", "toInt", <<m128[aPtr], exact, "ui64", rm>>,
               f128_to_ui64(m128[aPtr], rm, exact))
f128M_to_i32_r_minMag(aPtr, exact) ==
    ToRegister("f128", "toInt", <<m128[aPtr], exact, "i32", "minMag">>,
               f128_to_i32_r_minMag(m128[aPtr], exact))
f128M_to_ui32_r_minMag(aPtr, exact) ==
    ToRegister("f128", "toInt", <<m128[aPtr], exact, "ui32", "minMag">>,
               f128_to_ui32_r_minMag(m128[aPtr], exact))
f128M_to_i64_r_minMag(aPtr, exact) ==
    ToRegister("f128", "toInt", <<m128[aPtr], exact, "i64", "minMag">>,
               f128_to_i64_r_minMag(m128[aPtr], exact))
f128M_to_ui64_r_minMag(aPtr, exact) ==
    ToRegister("f128", "toInt", <<m128[aPtr], exact, "ui64", "minMag">>,
               f128_to_ui64_r_minMag(m128[aPtr], exact))
f128M_to_f16(aPtr) ==
    ToRegister("f128", "toFloat", <<m128[aPtr], F16>>,
               f128_to_f16(rm, m128[aPtr]))
f128M_to_f32(aPtr) ==
    ToRegister("f128", "toFloat", <<m128[aPtr], F32>>,
               f128_to_f32(rm, m128[aPtr]))
f128M_to_f64(aPtr) ==
    ToRegister("f128", "toFloat", <<m128[aPtr], F64>>,
               f128_to_f64(rm, m128[aPtr]))

f128M_to_extF80M(aPtr, zPtr) ==
    To80("f128", "toExt", <<m128[aPtr]>>, zPtr, f128_to_extF80(rm, m128[aPtr]))
f16_to_f128M(a, zPtr) ==
    To128("f128", "fromFloat", <<a, F16>>, zPtr, f16_to_f128(a))
f32_to_f128M(a, zPtr) ==
    To128("f128", "fromFloat", <<a, F32>>, zPtr, f32_to_f128(a))
f64_to_f128M(a, zPtr) ==
    To128("f128", "fromFloat", <<a, F64>>, zPtr, f64_to_f128(a))
i32_to_f128M(a, zPtr) ==
    To128("f128", "fromInt", <<a>>, zPtr, i32_to_f128(a))
ui32_to_f128M(a, zPtr) ==
    To128("f128", "fromInt", <<a>>, zPtr, ui32_to_f128(a))
i64_to_f128M(a, zPtr) ==
    To128("f128", "fromInt", <<a>>, zPtr, i64_to_f128(a))
ui64_to_f128M(a, zPtr) ==
    To128("f128", "fromInt", <<a>>, zPtr, ui64_to_f128(a))

-----------------------------------------------------------------------------
(* Extended precision. *)
extF80M_add(aPtr, bPtr, zPtr) ==
    LET a == m80[aPtr]  b == m80[bPtr]
    IN  To80("extF80", "add", <<a, b>>, zPtr,
             IF XSign(a) = XSign(b) THEN softfloat_addMagsExtF80(rm, prec, a, b)
             ELSE softfloat_subMagsExtF80(rm, prec, a, b))
extF80M_sub(aPtr, bPtr, zPtr) ==
    LET a == m80[aPtr]  b == m80[bPtr]
    IN  To80("extF80", "sub", <<a, b>>, zPtr,
             IF XSign(a) = XSign(b) THEN softfloat_subMagsExtF80(rm, prec, a, b)
             ELSE softfloat_addMagsExtF80(rm, prec, a, b))
extF80M_mul(aPtr, bPtr, zPtr) ==
    To80("extF80", "mul", <<m80[aPtr], m80[bPtr]>>, zPtr,
         extF80_mul(rm, prec, m80[aPtr], m80[bPtr]))
extF80M_div(err, aPtr, bPtr, zPtr) ==
    To80("extF80", "div", <<m80[aPtr], m80[bPtr]>>, zPtr,
         extF80_div(rm, prec, err, m80[aPtr], m80[bPtr]))
extF80M_rem(aPtr, bPtr, zPtr) ==
    To80("extF80", "rem", <<m80[aPtr], m80[bPtr]>>, zPtr,
         extF80_rem(rm, m80[aPtr], m80[bPtr]))
extF80M_sqrt(err, aPtr, zPtr) ==
    To80("extF80", "sqrt", <<m80[aPtr]>>, zPtr, extF80_sqrt(rm, prec, err, m80[aPtr]))
extF80M_roundToInt(aPtr, exact, zPtr) ==
    To80("extF80", "roundToInt", <<m80[aPtr], exact>>, zPtr,
         extF80_roundToInt(m80[aPtr], rm, exact))
extF80M_eq(aPtr, bPtr) ==
    ToRegister("extF80", "eq", <<m80[aPtr], m80[bPtr]>>, extF80_eq(m80[aPtr], m80[bPtr]))
extF80M_eq_signaling(aPtr, bPtr) ==
    ToRegister("extF80", "eq_signaling", <<m80[aPtr], m80[bPtr]>>, extF80_eq_signaling(m80[aPtr], m80[bPtr]))
extF80M_le(aPtr, bPtr) ==
    ToRegister("extF80", "le", <<m80[aPtr], m80[bPtr]>>, extF80_le(m80[aPtr], m80[bPtr]))
extF80M_le_quiet(aPtr, bPtr) ==
    ToRegister("extF80", "le_quiet", <<m80[aPtr], m80[bPtr]>>, extF80_le_quiet(m80[aPtr], m80[bPtr]))
extF80M_lt(aPtr, bPtr) ==
    ToRegister("extF80", "lt", <<m80[aPtr], m80[bPtr]>>, extF80_lt(m80[aPtr], m80[bPtr]))
extF80M_lt_quiet(aPtr, bPtr) ==
    ToRegister("extF80", "lt_quiet", <<m80[aPtr], m80[bPtr]>>, extF80_lt_quiet(m80[aPtr], m80[bPtr]))
extF80M_to_i32(aPtr, exact) ==
    ToRegister("extF80", "toInt", <<m80[aPtr], exact, "i32", rm>>,
               extF80_to_i32(m80[aPtr], rm, exact))
extF80M_to_ui32(aPtr, exact) ==
    ToRegister("extF80", "toInt", <<m80[aPtr], exact, "ui32", rm>>,
               extF80_to_ui32(m80[aPtr], rm, exact))
extF80M_to_i64(aPtr, exact) ==
    ToRegister("extF80", "toInt", <<m80[aPtr], exact, "i64", rm>>,
               extF80_to_i64(m80[aPtr], rm, exact))
extF80M_to_ui64(aPtr, exact) ==
    ToRegister("extF80", "toInt", <<m80[aPtr], exact, "ui64", rm>>,
               extF80_to_ui64(m80[aPtr], rm, exact))
extF80M_to_i32_r_minMag(aPtr, exact) ==
    ToRegister("extF80", "toInt", <<m80[aPtr], exact, "i32", "minMag">>,
               extF80_to_i32_r_minMag(m80[aPtr], exact))
extF80M_to_ui32_r_minMag(aPtr, exact) ==
    ToRegister("extF80", "toInt", <<m80[aPtr], exact, "ui32", "minMag">>,
               extF80_to_ui32_r_minMag(m80[aPtr], exact))
extF80M_to_i64_r_minMag(aPtr, exact) ==
    ToRegister("extF80", "toInt", <<m80[aPtr], exact, "i64", "minMag">>,
               extF80_to_i64_r_minMag(m80[aPtr], exact))
extF80M_to_ui64_r_minMag(aPtr, exact) ==
    ToRegister("extF80", "toInt", <<m80[aPtr], exact, "ui64", "minMag">>,
               extF80_to_ui64_r_minMag(m80[aPtr], exact))
extF80M_to_f16(aPtr) ==
    ToRegister("extF80", "toFloat", <<m80[aPtr], F16>>,
               extF80_to_f16(rm, m80[aPtr]))
extF80M_to_f32(aPtr) ==
    ToRegister("extF80", "toFloat", <<m80[aPtr], F32>>,
               extF80_to_f32(rm, m80[aPtr]))
extF80M_to_f64(aPtr) ==
    ToRegister("extF80", "toFloat", <<m80[aPtr], F64>>,
               extF80_to_f64(rm, m80[aPtr]))
extF80M_to_f128M(aPtr, zPtr) ==
    To128("extF80", "toQuad", <<m80[aPtr]>>, zPtr, extF80_to_f128(m80[aPtr]))
f16_to_extF80M(a, zPtr) ==
    To80("extF80", "fromFloat", <<a, F16>>, zPtr, f16_to_extF80(a))
f32_to_extF80M(a, zPtr) ==
    To80("extF80", "fromFloat", <<a, F32>>, zPtr, f32_to_extF80(a))
f64_to_extF80M(a, zPtr) ==
    To80("extF80", "fromFloat", <<a, F64>>, zPtr, f64_to_extF80(a))
i32_to_extF80M(a, zPtr) ==
    To80("extF80", "fromInt", <<a>>, zPtr, i32_to_extF80(a))
ui32_to_extF80M(a, zPtr) ==
    To80("extF80", "fromInt", <<a>>, zPtr, ui32_to_extF80(a))
i64_to_extF80M(a, zPtr) ==
    To80("extF80", "fromInt", <<a>>, zPtr, i64_to_extF80(a))
ui64_to_extF80M(a, zPtr) ==
    To80("extF80", "fromInt", <<a>>, zPtr, ui64_to_extF80(a))

-----------------------------------------------------------------------------
(* The caller: it sets the globals, stores the operands, makes one call. *)
SetGlobals ==
    /\ job = "none"
    /\ \E j \in Jobs : \E g \in Globals(j) :
         /\ job' = j
         /\ softfloat_roundingMode' = g[1]
         /\ extF80_roundingPrecision' = g[2]
         /\ softfloat_exceptionFlags' = g[3]
    /\ UNCHANGED <<m128, m80, v, ret>>
Cell(x) == [a |-> x[1], b |-> x[2], c |-> x[3]]
StoreOperands ==
    /\ job # "none" /\ v = <<>>
    /\ \E x \in Stored(job) :
         /\ v' = x
         /\ m128' = IF job \in {"one128", "two128", "three128"} THEN Cell(x) ELSE m128
         /\ m80' = IF job \in {"one80", "two80"} THEN Cell(x) ELSE m80
    /\ UNCHANGED <<globals, job, ret>>

Ready(j) == job = j /\ v # <<>> /\ ret = NoCall
Binary128 ==
    /\ Ready("two128")
    /\ \/ f128M_add("a", "b", Target) \/ f128M_sub("a", "b", Target)
       \/ f128M_mul("a", "b", Target) \/ f128M_rem("a", "b", Target)
       \/ \E err \in -1 .. 1 : f128M_div(err, "a", "b", Target)
       \/ f128M_eq("a", "b") \/ f128M_eq_signaling("a", "b")
       \/ f128M_le("a", "b") \/ f128M_le_quiet("a", "b")
       \/ f128M_lt("a", "b") \/ f128M_lt_quiet("a", "b")
Ternary128 == Ready("three128") /\ f128M_mulAdd("a", "b", "c", Target)
Unary128 ==
    /\ Ready("one128")
    /\ \/ \E err \in 0 .. 3 : f128M_sqrt(err, "a", Target)
       \/ f128M_to_f16("a") \/ f128M_to_f32("a") \/ f128M_to_f64("a")
       \/ f128M_to_extF80M("a", Target)
       \/ ToRegister("f128", "isSignalingNaN", <<m128["a"]>>,
                     Ret(Bit(f128_isSignalingNaN(m128["a"])), {}))
       \/ \E exact \in BOOLEAN :
            \/ f128M_roundToInt("a", exact, Target)
            \/ f128M_to_i32("a", exact) \/ f128M_to_i32_r_minMag("a", exact)
            \/ f128M_to_ui32("a", exact) \/ f128M_to_ui32_r_minMag("a", exact)
            \/ f128M_to_i64("a", exact) \/ f128M_to_i64_r_minMag("a", exact)
            \/ f128M_to_ui64("a", exact) \/ f128M_to_ui64_r_minMag("a", exact)
Binary80 ==
    /\ Ready("two80")
    /\ \/ extF80M_add("a", "b", Target) \/ extF80M_sub("a", "b", Target)
       \/ extF80M_mul("a", "b", Target) \/ extF80M_rem("a", "b", Target)
       \/ \E err \in -1 .. 1 : extF80M_div(err, "a", "b", Target)
       \/ extF80M_eq("a", "b") \/ extF80M_eq_signaling("a", "b")
       \/ extF80M_le("a", "b") \/ extF80M_le_quiet("a", "b")
       \/ extF80M_lt("a", "b") \/ extF80M_lt_quiet("a", "b")
Unary80 ==
    /\ Ready("one80")
    /\ \/ \E err \in 0 .. 3 : extF80M_sqrt(err, "a", Target)
       \/ extF80M_to_f16("a") \/ extF80M_to_f32("a") \/ extF80M_to_f64("a")
       \/ extF80M_to_f128M("a", Target)
       \/ ToRegister("extF80", "isSignalingNaN", <<m80["a"]>>,
                     Ret(Bit(extF80_isSignalingNaN(m80["a"])), {}))
       \/ \E exact \in BOOLEAN :
            \/ extF80M_roundToInt("a", exact, Target)
            \/ extF80M_to_i32("a", exact) \/ extF80M_to_i32_r_minMag("a", exact)
            \/ extF80M_to_ui32("a", exact) \/ extF80M_to_ui32_r_minMag("a", exact)
            \/ extF80M_to_i64("a", exact) \/ extF80M_to_i64_r_minMag("a", exact)
            \/ extF80M_to_ui64("a", exact) \/ extF80M_to_ui64_r_minMag("a", exact)
FromNarrow ==
    \/ Ready("f16") /\ (f16_to_f128M(v[1], Target) \/ f16_to_extF80M(v[1], Target))
    \/ Ready("f32") /\ (f32_to_f128M(v[1], Target) \/ f32_to_extF80M(v[1], Target))
    \/ Ready("f64") /\ (f64_to_f128M(v[1], Target) \/ f64_to_extF80M(v[1], Target))
FromInteger ==
    \/ Ready("i32") /\ (i32_to_f128M(v[1], Target) \/ i32_to_extF80M(v[1], Target))
    \/ Ready("ui32") /\ (ui32_to_f128M(v[1], Target) \/ ui32_to_extF80M(v[1], Target))
    \/ Ready("i64") /\ (i64_to_f128M(v[1], Target) \/ i64_to_extF80M(v[1], Target))
    \/ Ready("ui64") /\ (ui64_to_f128M(v[1], Target) \/ ui64_to_extF80M(v[1], Target))

(* The functions on words: v holds two numbers of two or four words, or a  *)
(* number, the extra word and a distance.                                  *)
OnWords(op, z) == ToRegister("words", op, v, Ret(z, {}))
TwoWords ==
    /\ Ready("words128")
    /\ \/ OnWords("eq128", softfloat_eq128(v[1], v[2]))
       \/ OnWords("le128", softfloat_le128(v[1], v[2]))
       \/ OnWords("lt128", softfloat_lt128(v[1], v[2]))
       \/ OnWords("add128", softfloat_add128(v[1], v[2]))
       \/ OnWords("sub128", softfloat_sub128(v[1], v[2]))
       \/ OnWords("mul128To256M", softfloat_mul128To256M(v[1], v[2]))
       \/ OnWords("mul64To128", softfloat_mul64To128(v[1][1], v[2][1]))
       \/ /\ v[2][1] < Half
          /\ \/ OnWords("mul128By32", softfloat_mul128By32(v[1], v[2][1]))
             \/ OnWords("mul64ByShifted32To128",
                        softfloat_mul64ByShifted32To128(v[1][1], v[2][1]))
FourWords ==
    /\ Ready("words256")
    /\ \/ OnWords("add256M", softfloat_add256M(v[1], v[2]))
       \/ OnWords("sub256M", softfloat_sub256M(v[1], v[2]))
FourWordShift ==
    /\ Ready("shift256")
    /\ OnWords("shiftRightJam256M", softfloat_shiftRightJam256M(v[1], v[3]))
TwoWordShifts ==
    /\ Ready("shift128")
    /\ \/ OnWords("shiftRightJam128", softfloat_shiftRightJam128(v[1], v[3]))
       \/ OnWords("shiftRightJam128Extra", softfloat_shiftRightJam128Extra(v[1], v[2], v[3]))
       \/ /\ v[3] < WordBits
          /\ \/ OnWords("shortShiftLeft128", softfloat_shortShiftLeft128(v[1], v[3]))
             \/ OnWords("shortShiftRight128", softfloat_shortShiftRight128(v[1], v[3]))
             \/ OnWords("shortShiftRightJam128", softfloat_shortShiftRightJam128(v[1], v[3]))
             \/ OnWords("shortShiftRightJam128Extra",
                        softfloat_shortShiftRightJam128Extra(v[1], v[2], v[3]))
             \/ OnWords("shortShiftRightJam64Extra",
                        softfloat_shortShiftRightJam64Extra(v[1][1], v[2], v[3]))

Number(w) == w[1] * Base + w[2]
Reversed(w) == <<w[2], w[1]>>

(* Arrays of three or four words, with a carry, a distance or a factor. *)
OnArrays(op, size, x, y, k, z) ==
    ToRegister("arrays", op, [size |-> size, x |-> x, y |-> y, k |-> k], Ret(z, {}))
ArrayPairs ==
    LET On(op, size, k, z) == OnArrays(op, size, v[1], v[2], k, z)
    IN  /\ Ready("words256")
        /\ \/ \E size \in 3 .. 4 :
                \/ On("addM", size, <<>>, softfloat_addM(size, v[1], v[2]))
                \/ On("subM", size, <<>>, softfloat_subM(size, v[1], v[2]))
                \/ \E c \in 0 .. 1 :
                     \/ On("addCarryM", size, <<c>>,
                           softfloat_addCarryM(size, v[1], v[2], c))
                     \/ On("addComplCarryM", size, <<c>>,
                           softfloat_addComplCarryM(size, v[1], v[2], c))
           \/ On("compareM", 3, <<>>, softfloat_compare96M(v[1], v[2]))
           \/ On("compareM", 4, <<>>, softfloat_compare128M(v[1], v[2]))
           \/ On("mul128MTo256M", 4, <<>>, softfloat_mul128MTo256M(v[1], v[2]))
           \/ \E d \in 1 .. WordBits - 1, q \in {1, Base - 1} :
                On("remStepMBy32", 4, <<d, q>>, softfloat_remStepMBy32(4, v[1], d, v[2], q))
ArrayShifts ==
    LET On(op, size, z) == OnArrays(op, size, v[1], v[1], <<v[3]>>, z)
    IN  /\ Ready("shift256")
        /\ \E size \in 3 .. 4 :
             \/ On("sub1XM", size, softfloat_sub1XM(size, v[1]))
             \/ On("negXM", size, softfloat_negXM(size, v[1]))
             \/ On("shiftLeftM", size, softfloat_shiftLeftM(size, v[1], v[3]))
             \/ On("shiftRightM", size, softfloat_shiftRightM(size, v[1], v[3]))
             \/ On("shiftRightJamM", size, softfloat_shiftRightJamM(size, v[1], v[3]))
DoubleWords ==
    LET a == Number(v[1])  b == Number(Reversed(v[1]))
        On(op, z) == OnArrays(op, 2, Reversed(v[1]), v[1], <<v[3]>>, z)
    IN  /\ Ready("shift128")
        /\ \/ On("mul64To128M", softfloat_mul64To128M(a, b))
           \/ /\ v[3] < WordBits
              /\ On("shortShiftLeft64To96M", softfloat_shortShiftLeft64To96M(a, v[3]))

MInit ==
    /\ softfloat_roundingMode = "near_even" /\ softfloat_exceptionFlags = {}
    /\ extF80_roundingPrecision = 80
    /\ m128 = [p \in Cells |-> 0] /\ m80 = [p \in Cells |-> 0]
    /\ v = <<>> /\ job = "none" /\ ret = NoCall
MNext ==
    \/ SetGlobals \/ StoreOperands
    \/ Binary128 \/ Ternary128 \/ Unary128 \/ Binary80 \/ Unary80
    \/ FromNarrow \/ FromInteger \/ TwoWords \/ FourWords \/ TwoWordShifts \/ FourWordShift
    \/ ArrayPairs \/ ArrayShifts \/ DoubleWords
MSpec == MInit /\ [][MNext]_mvars

-----------------------------------------------------------------------------
(* The reference, on the operands as they were before the call: an operand *)
(* of format f, a result rounded to format g.                              *)
WidthOf(t) == IF t \in {"i32", "ui32"} THEN I32 ELSE I64
Reference(f, g, op, x) ==
    CASE op = "add" -> RefAdd(f, g, rm, x[1], x[2])
      [] op = "sub" -> RefSub(f, g, rm, x[1], x[2])
      [] op = "mul" -> RefMul(f, g, rm, x[1], x[2])
      [] op = "div" -> RefDiv(f, g, rm, x[1], x[2])
      [] op = "sqrt" -> RefSqrt(f, g, rm, x[1])
      [] op = "mulAdd" -> RefMulAdd(f, rm, x[1], x[2], x[3])
      [] op = "rem" -> RefRem(f, x[1], x[2])
      [] op = "roundToInt" -> RefRoundToInt(f, x[1], rm, x[2])
      [] op = "eq" -> RefCompare(f, x[1], x[2], {0}, FALSE)
      [] op = "eq_signaling" -> RefCompare(f, x[1], x[2], {0}, TRUE)
      [] op = "le" -> RefCompare(f, x[1], x[2], {-1, 0}, TRUE)
      [] op = "le_quiet" -> RefCompare(f, x[1], x[2], {-1, 0}, FALSE)
      [] op = "lt" -> RefCompare(f, x[1], x[2], {-1}, TRUE)
      [] op = "lt_quiet" -> RefCompare(f, x[1], x[2], {-1}, FALSE)
      [] op = "isSignalingNaN" -> Ret(Cardinality(RefCompare(f, x[1], x[1], {}, FALSE).fl), {})
      [] op = "toInt" ->
           RefToInt(f, WidthOf(x[3]), x[3] \in {"i32", "i64"}, x[1], x[4], x[2])
      [] op = "toFloat" -> RefConvert(f, x[2], rm, x[1])
      [] op = "fromFloat" -> RefConvert(x[2], g, rm, x[1])
      [] op = "fromInt" -> RefFromInt(g, rm, x[1])

(* An extended value has an explicit leading bit; Implicit drops it,       *)
(* Explicit puts it back.  A reduced precision shortens the fraction and   *)
(* leaves the exponent its range.                                          *)
XR == [F128 EXCEPT !.F = I64 - 1, !.keepNaN = FALSE]
Implicit(a) == Pack(XR, XSign(a), XExp(a), XSig(a) % XTop)
Explicit(g, r) ==
    Ret(packToExtF80(Sign(g, r.z), Exp(g, r.z),
                     (Frac(g, r.z) + (IF Exp(g, r.z) = 0 THEN 0 ELSE Hidden(g)))
                       * 2^(I64 - 1 - g.F)), r.fl)
Reduced80 ==
    [XR EXCEPT !.F = @ - (CASE prec = 80 -> 0 [] prec = 64 -> Drop64 [] prec = 32 -> Drop32)]
Rounding == {"add", "sub", "mul", "div", "sqrt"}
ExtReference(op, x) ==
    LET g == IF op \in Rounding THEN Reduced80 ELSE XR
        y == [i \in DOMAIN x |-> IF i = 1 \/ (i = 2 /\ op \notin {"roundToInt", "toInt", "toFloat"})
                                 THEN Implicit(x[i]) ELSE x[i]]
    IN  IF op \in {"fromFloat", "fromInt"} THEN Explicit(XR, Reference(XR, XR, op, x))
        ELSE IF op = "toQuad" THEN RefConvert(XR, F128, rm, y[1])
        ELSE IF op \in Rounding \cup {"rem", "roundToInt"}
        THEN Explicit(g, Reference(XR, g, op, y))
        ELSE Reference(XR, g, op, y)

(* A NaN result of quadruple precision may be any quiet NaN. *)
Matches(due) ==
    /\ \/ ret.z = due.z
       \/ /\ ret.op \in Rounding \cup {"rem", "mulAdd", "roundToInt", "fromFloat"}
          /\ IsNaN(F128, ret.z) /\ IsNaN(F128, due.z) /\ ~IsSigNaN(F128, ret.z)
    /\ softfloat_exceptionFlags = ret.before \cup due.fl

(* Every quadruple-precision function delivers the exact result rounded    *)
(* once in the caller's mode and adds exactly the flags due, for operands  *)
(* on both sides of every carry, cancellation, word boundary and limit of  *)
(* an integer type.                                                        *)
WideIsExact ==
    ret.f = "f128" =>
      IF ret.op = "toExt" THEN ret.z = Explicit(XR, RefConvert(F128, XR, rm, ret.args[1])).z
      ELSE Matches(Reference(F128, F128, ret.op, ret.args))

(* The same for extended precision, where arithmetic also honours          *)
(* extF80_roundingPrecision and the other functions must ignore it.        *)
ExtIsExact ==
    ret.f = "extF80" =>
      LET due == ExtReference(ret.op, ret.args)
      IN  ret.z = due.z /\ softfloat_exceptionFlags = ret.before \cup due.fl

Split(z, x) == <<Number(z), x >= Base \div 2, x % (Base \div 2) # 0>>
ShiftedOut(n, extra, d) ==
    <<n \div 2^d, (n \div 2^(d - 1)) % 2 = 1, n % 2^(d - 1) # 0 \/ extra # 0>>
ArrayValue(size, w) ==
    w[1] + (w[2] + (IF size = 2 THEN 0
                    ELSE w[3] + (IF size = 3 THEN 0 ELSE w[4] * Base)) * Base) * Base
Modulus(size) == IF size = 3 THEN Base * Base * Base ELSE Base * Base * Base * Base
(* n shifted right; the last bit is set when a set bit was lost. *)
Jammed(n, d) ==
    LET k == n \div 2^d IN IF n % 2^d # 0 /\ k % 2 = 0 THEN k + 1 ELSE k
(* x * y as its high and its low four words. *)
WideProduct(x, y) ==
    LET double == Base * Base
        cross == (x \div double) * (y % double) + (x % double) * (y \div double)
        low == (x % double) * (y % double) + (cross % double) * double
    IN  <<(x \div double) * (y \div double) + cross \div double + low \div (double * double),
          low % (double * double)>>
ArraysAgree(r) ==
    LET size == r.args.size  k == r.args.k  z == r.z
        x == ArrayValue(size, r.args.x)
        y == ArrayValue(size, r.args.y)
        Is(n) == ArrayValue(size, z) = n % Modulus(size)
        AddsUp(n) == ArrayValue(size, z.z) + z.carry * Modulus(size) = n
    IN  CASE r.op = "addM" -> Is(x + y)
          [] r.op = "subM" -> Is(x - y)
          [] r.op = "addCarryM" -> AddsUp(x + y + k[1])
          [] r.op = "addComplCarryM" -> AddsUp(x + (Modulus(size) - 1 - y) + k[1])
          [] r.op = "compareM" -> z = IF x < y THEN -1 ELSE IF x = y THEN 0 ELSE 1
          [] r.op = "mul128MTo256M" ->
               <<ArrayValue(4, [i \in 1 .. 4 |-> z[i + 4]]), ArrayValue(4, z)>> = WideProduct(x, y)
          [] r.op = "remStepMBy32" -> Is(x * 2^k[1] - y * k[2])
          [] r.op = "sub1XM" -> Is(x - 1)
          [] r.op = "negXM" -> Is(-x)
          [] r.op = "shiftLeftM" ->
               Is(IF k[1] >= size * WordBits THEN 0
                  ELSE (x % 2^(size * WordBits - k[1])) * 2^k[1])
          [] r.op = "shiftRightM" -> Is(x \div 2^k[1])
          [] r.op = "shiftRightJamM" -> Is(Jammed(x, k[1]))
          [] r.op = "mul64To128M" -> ArrayValue(4, z) = x * y
          [] r.op = "shortShiftLeft64To96M" -> ArrayValue(3, z) = x * 2^k[1]
PairsAgree(r) ==
    LET x == r.args[1]  y == r.args[2]  d == r.args[3]  z == r.z
        double == Base * Base
        Is(n) == ArrayValue(4, z) = n % Modulus(4)
    IN  CASE r.op = "eq128" -> z = (x = y)
          [] r.op = "le128" -> z = (Number(x) <= Number(y))
          [] r.op = "lt128" -> z = (Number(x) < Number(y))
          [] r.op = "add128" -> Number(z) = (Number(x) + Number(y)) % double
          [] r.op = "sub128" -> Number(z) = (Number(x) - Number(y)) % double
          [] r.op = "mul128To256M" -> ArrayValue(4, z) = Number(x) * Number(y)
          [] r.op = "mul64To128" -> Number(z) = x[1] * y[1]
          [] r.op = "mul128By32" -> Number(z) = (Number(x) * y[1]) % double
          [] r.op = "mul64ByShifted32To128" -> Number(z) = x[1] * y[1] * Half
          [] r.op = "add256M" -> Is(ArrayValue(4, x) + ArrayValue(4, y))
          [] r.op = "sub256M" -> Is(ArrayValue(4, x) - ArrayValue(4, y))
          [] r.op = "shortShiftLeft128" -> Number(z) = (Number(x) * 2^d) % double
          [] r.op = "shortShiftRight128" -> Number(z) = Number(x) \div 2^d
          [] r.op = "shiftRightJam256M" -> ArrayValue(4, z) = Jammed(ArrayValue(4, x), d)
          [] r.op \in {"shiftRightJam128", "shortShiftRightJam128"} ->
               Number(z) = Jammed(Number(x), d)
          [] r.op \in {"shiftRightJam128Extra", "shortShiftRightJam128Extra"} ->
               Split(z.v, z.extra) = ShiftedOut(Number(x), y, d)
          [] r.op = "shortShiftRightJam64Extra" ->
               Split(<<0, z.v>>, z.extra) = ShiftedOut(x[1], y, d)

(* The functions on words compute what they would on integers of any size: *)
(* carries and borrows cross every word, and a shift loses no sticky bit.  *)
WordsAgree ==
    /\ ret.f = "arrays" => ArraysAgree(ret)
    /\ ret.f = "words" => PairsAgree(ret)
=============================================================================
