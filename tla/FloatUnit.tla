------------------------------ MODULE FloatUnit ------------------------------
(***************************************************************************)
(* The floating-point unit of the emulator: the instructions of the F, D,  *)
(* Zfh and Zfa extensions (model/riscv_insts_*ext.sail) on top of the C    *)
(* wrappers around SoftFloat (c_emulator/riscv_softfloat.c).               *)
(*                                                                         *)
(* A wrapper sets the library's two globals, calls one function and leaves *)
(* its result and the flags in the Sail registers float_result and         *)
(* float_fflags, from which the instruction takes them.  The instruction   *)
(* unboxes its operands, picks the rounding mode, adds the flags to fcsr,  *)
(* boxes the result and records in mstatus that the context is dirty.      *)
(***************************************************************************)
EXTENDS SoftFloatApi

CONSTANTS Operands(_, _, _), \* operand tuples explored: operation, format, first?
          RmFields(_, _),    \* rounding mode fields explored: operation, first?
          Follows(_, _, _)   \* may this operation on this format follow an instruction

VARIABLES softfloat_roundingMode, softfloat_exceptionFlags, \* softfloat_state.c
          float_result, float_fflags, \* registers of the Sail model
          frm, fflags,                \* fcsr
          FS, VS, SD,                 \* mstatus
          fetched, \* the instruction decoded and not yet executed
          insn,  \* the last instruction that retired, with its operands
          fd, xd, \* the floating-point and the integer register written last
          trap,  \* was the last one illegal
          saved  \* the context the operating system saved last

lib == <<softfloat_roundingMode, softfloat_exceptionFlags>>
regs == <<float_result, float_fflags>>
context == <<frm, fflags, fd>>
mstatus == <<FS, VS, SD>>
vars == <<lib, regs, frm, fflags, mstatus, fetched, insn, fd, xd, trap, saved>>

-----------------------------------------------------------------------------
(* riscv_softfloat.c *)
(* Mutant: the flags of the previous call are kept. *)
SOFTFLOAT_PRELUDE_Keep(rm) == [mode |-> rm, flags |-> softfloat_exceptionFlags]

SOFTFLOAT_PRELUDE(rm) == [mode |-> rm, flags |-> {}]
SOFTFLOAT_POSTLUDE(res) ==
    /\ float_result' = res
    /\ float_fflags' = softfloat_exceptionFlags'
Wrapped(rm, Call(_)) ==
    LET g == SOFTFLOAT_PRELUDE(rm)
        r == Call(g.mode)
    IN  /\ softfloat_roundingMode' = g.mode
        /\ softfloat_exceptionFlags' = g.flags \cup r.fl
        /\ SOFTFLOAT_POSTLUDE(r.z)

(* A float operand is cut to the bits of its type (a.v = v1).  An integer  *)
(* result is stored as the bits of its type; an integer operand is read    *)
(* from them.                                                              *)
Low(f, v) == v % 2^W(f)
AsBits(w, r) == Ret(r.z % 2^w, r.fl)
SignedWord(w, v) == LET u == v % 2^w IN IF u >= 2^(w - 1) THEN u - 2^w ELSE u
UnsignedWord(w, v) == v % 2^w

softfloat_f16add(rm, v1, v2) ==
    Wrapped(rm, LAMBDA m : f16_add(m, Low(F16, v1), Low(F16, v2)))
softfloat_f16sub(rm, v1, v2) ==
    Wrapped(rm, LAMBDA m : f16_sub(m, Low(F16, v1), Low(F16, v2)))
softfloat_f16mul(rm, v1, v2) ==
    Wrapped(rm, LAMBDA m : f16_mul(m, Low(F16, v1), Low(F16, v2)))
softfloat_f16div(rm, err, v1, v2) ==
    Wrapped(rm, LAMBDA m : f16_div(m, err, Low(F16, v1), Low(F16, v2)))
softfloat_f16muladd(rm, v1, v2, v3) ==
    Wrapped(rm, LAMBDA m : f16_mulAdd(m, Low(F16, v1), Low(F16, v2), Low(F16, v3)))
softfloat_f16sqrt(rm, err, v) ==
    Wrapped(rm, LAMBDA m : f16_sqrt(m, err, Low(F16, v)))
softfloat_f16toi32(rm, v) ==
    Wrapped(rm, LAMBDA m : AsBits(I32, f16_to_i32(Low(F16, v), rm, TRUE)))
softfloat_i32tof16(rm, v) ==
    Wrapped(rm, LAMBDA m : i32_to_f16(m, SignedWord(I32, v)))
softfloat_f16toui32(rm, v) ==
    Wrapped(rm, LAMBDA m : AsBits(I32, f16_to_ui32(Low(F16, v), rm, TRUE)))
softfloat_ui32tof16(rm, v) ==
    Wrapped(rm, LAMBDA m : ui32_to_f16(m, UnsignedWord(I32, v)))
softfloat_f16toi64(rm, v) ==
    Wrapped(rm, LAMBDA m : AsBits(I64, f16_to_i64(Low(F16, v), rm, TRUE)))
softfloat_i64tof16(rm, v) ==
    Wrapped(rm, LAMBDA m : i64_to_f16(m, SignedWord(I64, v)))
softfloat_f16toui64(rm, v) ==
    Wrapped(rm, LAMBDA m : AsBits(I64, f16_to_ui64(Low(F16, v), rm, TRUE)))
softfloat_ui64tof16(rm, v) ==
    Wrapped(rm, LAMBDA m : ui64_to_f16(m, UnsignedWord(I64, v)))
softfloat_f16tof32(rm, v) == Wrapped(rm, LAMBDA m : f16_to_f32(Low(F16, v)))
softfloat_f16tof64(rm, v) == Wrapped(rm, LAMBDA m : f16_to_f64(Low(F16, v)))
softfloat_f16lt(v1, v2) ==
    Wrapped("near_even", LAMBDA m : f16_lt(Low(F16, v1), Low(F16, v2)))
softfloat_f16lt_quiet(v1, v2) ==
    Wrapped("near_even", LAMBDA m : f16_lt_quiet(Low(F16, v1), Low(F16, v2)))
softfloat_f16le(v1, v2) ==
    Wrapped("near_even", LAMBDA m : f16_le(Low(F16, v1), Low(F16, v2)))
softfloat_f16le_quiet(v1, v2) ==
    Wrapped("near_even", LAMBDA m : f16_le_quiet(Low(F16, v1), Low(F16, v2)))
softfloat_f16eq(v1, v2) ==
    Wrapped("near_even", LAMBDA m : f16_eq(Low(F16, v1), Low(F16, v2)))
softfloat_f16roundToInt(rm, v, exact) ==
    Wrapped(rm, LAMBDA m : f16_roundToInt(Low(F16, v), rm, exact))

softfloat_f32add(rm, v1, v2) ==
    Wrapped(rm, LAMBDA m : f32_add(m, Low(F32, v1), Low(F32, v2)))
softfloat_f32sub(rm, v1, v2) ==
    Wrapped(rm, LAMBDA m : f32_sub(m, Low(F32, v1), Low(F32, v2)))
softfloat_f32mul(rm, v1, v2) ==
    Wrapped(rm, LAMBDA m : f32_mul(m, Low(F32, v1), Low(F32, v2)))
softfloat_f32div(rm, err, v1, v2) ==
    Wrapped(rm, LAMBDA m : f32_div(m, err, Low(F32, v1), Low(F32, v2)))
softfloat_f32muladd(rm, v1, v2, v3) ==
    Wrapped(rm, LAMBDA m : f32_mulAdd(m, Low(F32, v1), Low(F32, v2), Low(F32, v3)))
softfloat_f32sqrt(rm, err, v) ==
    Wrapped(rm, LAMBDA m : f32_sqrt(m, err, Low(F32, v)))
softfloat_f32toi32(rm, v) ==
    Wrapped(rm, LAMBDA m : AsBits(I32, f32_to_i32(Low(F32, v), rm, TRUE)))
softfloat_i32tof32(rm, v) ==
    Wrapped(rm, LAMBDA m : i32_to_f32(m, SignedWord(I32, v)))
softfloat_f32toui32(rm, v) ==
    Wrapped(rm, LAMBDA m : AsBits(I32, f32_to_ui32(Low(F32, v), rm, TRUE)))
softfloat_ui32tof32(rm, v) ==
    Wrapped(rm, LAMBDA m : ui32_to_f32(m, UnsignedWord(I32, v)))
softfloat_f32toi64(rm, v) ==
    Wrapped(rm, LAMBDA m : AsBits(I64, f32_to_i64(Low(F32, v), rm, TRUE)))
softfloat_i64tof32(rm, v) ==
    Wrapped(rm, LAMBDA m : i64_to_f32(m, SignedWord(I64, v)))
softfloat_f32toui64(rm, v) ==
    Wrapped(rm, LAMBDA m : AsBits(I64, f32_to_ui64(Low(F32, v), rm, TRUE)))
softfloat_ui64tof32(rm, v) ==
    Wrapped(rm, LAMBDA m : ui64_to_f32(m, UnsignedWord(I64, v)))
softfloat_f32tof16(rm, v) == Wrapped(rm, LAMBDA m : f32_to_f16(m, Low(F32, v)))
softfloat_f32tof64(rm, v) == Wrapped(rm, LAMBDA m : f32_to_f64(Low(F32, v)))
softfloat_f32lt(v1, v2) ==
    Wrapped("near_even", LAMBDA m : f32_lt(Low(F32, v1), Low(F32, v2)))
softfloat_f32lt_quiet(v1, v2) ==
    Wrapped("near_even", LAMBDA m : f32_lt_quiet(Low(F32, v1), Low(F32, v2)))
softfloat_f32le(v1, v2) ==
    Wrapped("near_even", LAMBDA m : f32_le(Low(F32, v1), Low(F32, v2)))
softfloat_f32le_quiet(v1, v2) ==
    Wrapped("near_even", LAMBDA m : f32_le_quiet(Low(F32, v1), Low(F32, v2)))
softfloat_f32eq(v1, v2) ==
    Wrapped("near_even", LAMBDA m : f32_eq(Low(F32, v1), Low(F32, v2)))
softfloat_f32roundToInt(rm, v, exact) ==
    Wrapped(rm, LAMBDA m : f32_roundToInt(Low(F32, v), rm, exact))

softfloat_f64add(rm, v1, v2) ==
    Wrapped(rm, LAMBDA m : f64_add(m, Low(F64, v1), Low(F64, v2)))
softfloat_f64sub(rm, v1, v2) ==
    Wrapped(rm, LAMBDA m : f64_sub(m, Low(F64, v1), Low(F64, v2)))
softfloat_f64mul(rm, v1, v2) ==
    Wrapped(rm, LAMBDA m : f64_mul(m, Low(F64, v1), Low(F64, v2)))
softfloat_f64div(rm, err, v1, v2) ==
    Wrapped(rm, LAMBDA m : f64_div(m, err, Low(F64, v1), Low(F64, v2)))
softfloat_f64muladd(rm, v1, v2, v3) ==
    Wrapped(rm, LAMBDA m : f64_mulAdd(m, Low(F64, v1), Low(F64, v2), Low(F64, v3)))
softfloat_f64sqrt(rm, err, v) ==
    Wrapped(rm, LAMBDA m : f64_sqrt(m, err, Low(F64, v)))
softfloat_f64toi32(rm, v) ==
    Wrapped(rm, LAMBDA m : AsBits(I32, f64_to_i32(Low(F64, v), rm, TRUE)))
softfloat_i32tof64(rm, v) ==
    Wrapped(rm, LAMBDA m : i32_to_f64(SignedWord(I32, v)))
softfloat_f64toui32(rm, v) ==
    Wrapped(rm, LAMBDA m : AsBits(I32, f64_to_ui32(Low(F64, v), rm, TRUE)))
softfloat_ui32tof64(rm, v) ==
    Wrapped(rm, LAMBDA m : ui32_to_f64(UnsignedWord(I32, v)))
softfloat_f64toi64(rm, v) ==
    Wrapped(rm, LAMBDA m : AsBits(I64, f64_to_i64(Low(F64, v), rm, TRUE)))
softfloat_i64tof64(rm, v) ==
    Wrapped(rm, LAMBDA m : i64_to_f64(m, SignedWord(I64, v)))
softfloat_f64toui64(rm, v) ==
    Wrapped(rm, LAMBDA m : AsBits(I64, f64_to_ui64(Low(F64, v), rm, TRUE)))
softfloat_ui64tof64(rm, v) ==
    Wrapped(rm, LAMBDA m : ui64_to_f64(m, UnsignedWord(I64, v)))
softfloat_f64tof16(rm, v) == Wrapped(rm, LAMBDA m : f64_to_f16(m, Low(F64, v)))
softfloat_f64tof32(rm, v) == Wrapped(rm, LAMBDA m : f64_to_f32(m, Low(F64, v)))
softfloat_f64lt(v1, v2) ==
    Wrapped("near_even", LAMBDA m : f64_lt(Low(F64, v1), Low(F64, v2)))
softfloat_f64lt_quiet(v1, v2) ==
    Wrapped("near_even", LAMBDA m : f64_lt_quiet(Low(F64, v1), Low(F64, v2)))
softfloat_f64le(v1, v2) ==
    Wrapped("near_even", LAMBDA m : f64_le(Low(F64, v1), Low(F64, v2)))
softfloat_f64le_quiet(v1, v2) ==
    Wrapped("near_even", LAMBDA m : f64_le_quiet(Low(F64, v1), Low(F64, v2)))
softfloat_f64eq(v1, v2) ==
    Wrapped("near_even", LAMBDA m : f64_eq(Low(F64, v1), Low(F64, v2)))
softfloat_f64roundToInt(rm, v, exact) ==
    Wrapped(rm, LAMBDA m : f64_roundToInt(Low(F64, v), rm, exact))
-----------------------------------------------------------------------------
(* riscv_softfloat_interface.sail: the wrapper behind an operation on the  *)
(* format g; v holds the operands, err is the error of an approximation.   *)
Extern16(op, t, rm, err, v) ==
    \/ op = "add" /\ softfloat_f16add(rm, v[1], v[2])
    \/ op = "sub" /\ softfloat_f16sub(rm, v[1], v[2])
    \/ op = "mul" /\ softfloat_f16mul(rm, v[1], v[2])
    \/ op = "div" /\ softfloat_f16div(rm, err, v[1], v[2])
    \/ op = "sqrt" /\ softfloat_f16sqrt(rm, err, v[1])
    \/ op = "muladd" /\ softfloat_f16muladd(rm, v[1], v[2], v[3])
    \/ op = "lt" /\ softfloat_f16lt(v[1], v[2])
    \/ op = "lt_quiet" /\ softfloat_f16lt_quiet(v[1], v[2])
    \/ op = "le" /\ softfloat_f16le(v[1], v[2])
    \/ op = "le_quiet" /\ softfloat_f16le_quiet(v[1], v[2])
    \/ op = "eq" /\ softfloat_f16eq(v[1], v[2])
    \/ op = "roundToInt" /\ softfloat_f16roundToInt(rm, v[1], FALSE)
    \/ op = "roundToIntExact" /\ softfloat_f16roundToInt(rm, v[1], TRUE)
    \/ op = "toFloat" /\ t = "f32" /\ softfloat_f16tof32(rm, v[1])
    \/ op = "toFloat" /\ t = "f64" /\ softfloat_f16tof64(rm, v[1])
    \/ op = "toInt" /\ t = "i32" /\ softfloat_f16toi32(rm, v[1])
    \/ op = "fromInt" /\ t = "i32" /\ softfloat_i32tof16(rm, v[1])
    \/ op = "toInt" /\ t = "ui32" /\ softfloat_f16toui32(rm, v[1])
    \/ op = "fromInt" /\ t = "ui32" /\ softfloat_ui32tof16(rm, v[1])
    \/ op = "toInt" /\ t = "i64" /\ softfloat_f16toi64(rm, v[1])
    \/ op = "fromInt" /\ t = "i64" /\ softfloat_i64tof16(rm, v[1])
    \/ op = "toInt" /\ t = "ui64" /\ softfloat_f16toui64(rm, v[1])
    \/ op = "fromInt" /\ t = "ui64" /\ softfloat_ui64tof16(rm, v[1])
Extern32(op, t, rm, err, v) ==
    \/ op = "add" /\ softfloat_f32add(rm, v[1], v[2])
    \/ op = "sub" /\ softfloat_f32sub(rm, v[1], v[2])
    \/ op = "mul" /\ softfloat_f32mul(rm, v[1], v[2])
    \/ op = "div" /\ softfloat_f32div(rm, err, v[1], v[2])
    \/ op = "sqrt" /\ softfloat_f32sqrt(rm, err, v[1])
    \/ op = "muladd" /\ softfloat_f32muladd(rm, v[1], v[2], v[3])
    \/ op = "lt" /\ softfloat_f32lt(v[1], v[2])
    \/ op = "lt_quiet" /\ softfloat_f32lt_quiet(v[1], v[2])
    \/ op = "le" /\ softfloat_f32le(v[1], v[2])
    \/ op = "le_quiet" /\ softfloat_f32le_quiet(v[1], v[2])
    \/ op = "eq" /\ softfloat_f32eq(v[1], v[2])
    \/ op = "roundToInt" /\ softfloat_f32roundToInt(rm, v[1], FALSE)
    \/ op = "roundToIntExact" /\ softfloat_f32roundToInt(rm, v[1], TRUE)
    \/ op = "toFloat" /\ t = "f16" /\ softfloat_f32tof16(rm, v[1])
    \/ op = "toFloat" /\ t = "f64" /\ softfloat_f32tof64(rm, v[1])
    \/ op = "toInt" /\ t = "i32" /\ softfloat_f32toi32(rm, v[1])
    \/ op = "fromInt" /\ t = "i32" /\ softfloat_i32tof32(rm, v[1])
    \/ op = "toInt" /\ t = "ui32" /\ softfloat_f32toui32(rm, v[1])
    \/ op = "fromInt" /\ t = "ui32" /\ softfloat_ui32tof32(rm, v[1])
    \/ op = "toInt" /\ t = "i64" /\ softfloat_f32toi64(rm, v[1])
    \/ op = "fromInt" /\ t = "i64" /\ softfloat_i64tof32(rm, v[1])
    \/ op = "toInt" /\ t = "ui64" /\ softfloat_f32toui64(rm, v[1])
    \/ op = "fromInt" /\ t = "ui64" /\ softfloat_ui64tof32(rm, v[1])
Extern64(op, t, rm, err, v) ==
    \/ op = "add" /\ softfloat_f64add(rm, v[1], v[2])
    \/ op = "sub" /\ softfloat_f64sub(rm, v[1], v[2])
    \/ op = "mul" /\ softfloat_f64mul(rm, v[1], v[2])
    \/ op = "div" /\ softfloat_f64div(rm, err, v[1], v[2])
    \/ op = "sqrt" /\ softfloat_f64sqrt(rm, err, v[1])
    \/ op = "muladd" /\ softfloat_f64muladd(rm, v[1], v[2], v[3])
    \/ op = "lt" /\ softfloat_f64lt(v[1], v[2])
    \/ op = "lt_quiet" /\ softfloat_f64lt_quiet(v[1], v[2])
    \/ op = "le" /\ softfloat_f64le(v[1], v[2])
    \/ op = "le_quiet" /\ softfloat_f64le_quiet(v[1], v[2])
    \/ op = "eq" /\ softfloat_f64eq(v[1], v[2])
    \/ op = "roundToInt" /\ softfloat_f64roundToInt(rm, v[1], FALSE)
    \/ op = "roundToIntExact" /\ softfloat_f64roundToInt(rm, v[1], TRUE)
    \/ op = "toFloat" /\ t = "f16" /\ softfloat_f64tof16(rm, v[1])
    \/ op = "toFloat" /\ t = "f32" /\ softfloat_f64tof32(rm, v[1])
    \/ op = "toInt" /\ t = "i32" /\ softfloat_f64toi32(rm, v[1])
    \/ op = "fromInt" /\ t = "i32" /\ softfloat_i32tof64(rm, v[1])
    \/ op = "toInt" /\ t = "ui32" /\ softfloat_f64toui32(rm, v[1])
    \/ op = "fromInt" /\ t = "ui32" /\ softfloat_ui32tof64(rm, v[1])
    \/ op = "toInt" /\ t = "i64" /\ softfloat_f64toi64(rm, v[1])
    \/ op = "fromInt" /\ t = "i64" /\ softfloat_i64tof64(rm, v[1])
    \/ op = "toInt" /\ t = "ui64" /\ softfloat_f64toui64(rm, v[1])
    \/ op = "fromInt" /\ t = "ui64" /\ softfloat_ui64tof64(rm, v[1])
Extern(g, op, t, rm, err, v) ==
    \/ g = "f16" /\ Extern16(op, t, rm, err, v)
    \/ g = "f32" /\ Extern32(op, t, rm, err, v)
    \/ g = "f64" /\ Extern64(op, t, rm, err, v)

-----------------------------------------------------------------------------
(* riscv_fdext_regs.sail: FLEN and XLEN are the widest types. *)
Format(name) == CASE name = "f16" -> F16 [] name = "f32" -> F32 [] name = "f64" -> F64
FLEN == W(F64)
nan_box(f, v) == v + (2^FLEN - 2^W(f))
nan_unbox(f, x) ==
    IF x \div 2^W(f) = 2^(FLEN - W(f)) - 1 THEN x % 2^W(f) ELSE DefaultNaN(f)
sign_extend(w, v) == IF v >= 2^(w - 1) THEN v + (2^I64 - 2^w) ELSE v

(* riscv_insts_fext.sail *)
DynamicModes == {"near_even", "minMag", "min", "max", "near_maxMag"}
select_instr_or_fcsr_rm(rm) ==
    IF rm # "dyn" THEN rm ELSE IF frm \in DynamicModes THEN frm ELSE "none"
negate(f, v) == (v + 2^(W(f) - 1)) % 2^W(f)

FloatTypes == {"f16", "f32", "f64"}
IntTypes == {"i32", "ui32", "i64", "ui64"}
Compares == {"lt", "lt_quiet", "le", "le_quiet", "eq"}
MulAdds == {"madd", "msub", "nmsub", "nmadd"}
Plain == {"add", "sub", "mul", "div", "sqrt", "roundToInt", "roundToIntExact"}
Conversions == {"toFloat", "toInt", "fromInt"}

(* Registers hold bit patterns, and only five modes and "dyn" decode. *)
ASSUME OperandsAssumption ==
    \A op \in Plain \cup MulAdds \cup Compares \cup Conversions,
       f \in FloatTypes \cup IntTypes, first \in BOOLEAN :
      /\ Operands(op, f, first) \subseteq Nat \X Nat \X Nat
      /\ RmFields(op, first) \subseteq DynamicModes \cup {"dyn"}

(* An instruction: the operation, the types it takes and delivers, its rm  *)
(* field and the registers it reads.                                       *)
Insn(op, f, to, rm, x) == [op |-> op, f |-> f, to |-> to, rm |-> rm, x |-> x]
NoInsn == Insn("none", "none", "none", "none", <<0, 0, 0>>)

(* The operands as the wrapper gets them; the four multiply-adds are one   *)
(* wrapper with its operands negated.                                      *)
Operand(i, k) ==
    LET f == Format(i.f)
        v == nan_unbox(f, i.x[k])
    IN  IF i.f \in IntTypes THEN i.x[k]
        ELSE IF \/ k = 1 /\ i.op \in {"nmsub", "nmadd"}
                \/ k = 3 /\ i.op \in {"msub", "nmadd"}
        THEN negate(f, v) ELSE v
WrapperOp(op) == IF op \in MulAdds THEN "muladd" ELSE op

(* Mutant: flags alone do not dirty the context. *)
Dirties_Registers(i, new) == i.to \in FloatTypes

(* accrue_fflags and the write of rd: a floating-point register is always  *)
(* dirtied, an integer one only by new flags.                              *)
Dirties(i, new) == i.to \in FloatTypes \/ new # fflags

Retire(i) ==
    LET new == fflags \cup float_fflags'
        dirty == Dirties(i, new)
    IN  /\ fflags' = new
        /\ fd' = IF i.to \in FloatTypes THEN nan_box(Format(i.to), float_result') ELSE fd
        /\ xd' = IF i.to \in {"i32", "ui32"} THEN sign_extend(I32, float_result')
                 ELSE IF i.to \in FloatTypes THEN xd ELSE float_result'
        /\ FS' = IF dirty THEN "Dirty" ELSE FS
        /\ SD' = (SD \/ dirty)
        /\ insn' = i
        /\ trap' = FALSE
        /\ UNCHANGED <<frm, VS, saved>>

Enabled(i) == FS # "Off" /\ select_instr_or_fcsr_rm(i.rm) # "none"
Errors(i) == IF i.op \in {"div", "sqrt"} THEN 0 .. Format(i.f).slack ELSE {0}
execute(i) ==
    /\ Enabled(i)
    /\ \E err \in Errors(i) :
         Extern(IF i.op = "fromInt" THEN i.to ELSE i.f, WrapperOp(i.op),
                IF i.op = "fromInt" THEN i.f ELSE i.to,
                select_instr_or_fcsr_rm(i.rm), err,
                <<Operand(i, 1), Operand(i, 2), Operand(i, 3)>>)
    /\ Retire(i)
handle_illegal(i) ==
    /\ ~Enabled(i)
    /\ trap' = TRUE
    /\ UNCHANGED <<lib, regs, frm, fflags, mstatus, insn, fd, xd, saved>>

(* The bound on sequences: the first instruction is any one and has the    *)
(* larger operand sets; the ones after it are those that Follows admits.   *)
First == /\ insn = NoInsn /\ softfloat_exceptionFlags = {}
         /\ mstatus = <<"Dirty", "Off", TRUE>>
Idle(op, f) == fetched = NoInsn /\ (First \/ Follows(insn, op, f))

decode(op, f, to, rms) ==
    /\ Idle(op, f)
    /\ \E rm \in rms : fetched' = Insn(op, f, to, rm, <<0, 0, 0>>)
    /\ trap' = FALSE
    /\ UNCHANGED <<lib, regs, frm, fflags, mstatus, insn, fd, xd, saved>>
Arithmetic == \E op \in Plain \cup MulAdds, f \in FloatTypes :
                decode(op, f, f, RmFields(op, First))
Comparison == \E op \in Compares, f \in FloatTypes :
                decode(op, f, "i64", {"near_even"})
Conversion == \E f, g \in FloatTypes :
                f # g /\ decode("toFloat", f, g, RmFields("toFloat", First))
ToInteger == \E f \in FloatTypes, t \in IntTypes :
                decode("toInt", f, t, RmFields("toInt", First))
FromInteger == \E f \in FloatTypes, t \in IntTypes :
                decode("fromInt", t, f, RmFields("fromInt", First))

(* The registers it reads hold any of the operands. *)
Execute ==
    /\ fetched # NoInsn
    /\ fetched' = NoInsn
    /\ \E x \in Operands(fetched.op, fetched.f, First) :
         execute([fetched EXCEPT !.x = x]) \/ handle_illegal([fetched EXCEPT !.x = x])

-----------------------------------------------------------------------------
(* CSR writes.  write_fcsr is reached through three addresses. *)
write_fcsr(m, fl) ==
    /\ FS # "Off" /\ Idle("csrw", "none")
    /\ frm' = m /\ fflags' = fl
    /\ FS' = "Dirty" /\ SD' = TRUE
    /\ insn' = Insn("csrw", "none", insn.to, m, <<fl>>)
    /\ trap' = FALSE
    /\ UNCHANGED <<lib, regs, VS, fetched, fd, xd, saved>>
CsrFrm == \E m \in RmFields("csrw", First) : write_fcsr(m, fflags)
CsrFflags == \E fl \in {{}, {"inexact"}} : write_fcsr(frm, fl)

(* Mutant: the summary leaves out the vector context. *)
legalize_mstatus_NoVS(fs, vs, xs) ==
    /\ FS' = fs /\ VS' = vs
    /\ SD' = (\E field \in {fs, xs} : field = "Dirty")

(* riscv_sys_regs.sail: the summary bit is computed from the fields as     *)
(* written, XS is then cleared.                                            *)
legalize_mstatus(fs, vs, xs) ==
    /\ FS' = fs /\ VS' = vs
    /\ SD' = (\E field \in {fs, vs, xs} : field = "Dirty")
WriteMstatus ==
    /\ Idle("mstatus", "none")
    /\ \E fs \in {"Off", "Dirty"}, vs, xs \in {"Off", "Dirty"} :
         legalize_mstatus(fs, vs, xs)
    /\ trap' = FALSE
    /\ UNCHANGED <<lib, regs, frm, fflags, fetched, insn, fd, xd, saved>>
(* The operating system saves a context and marks it clean. *)
SaveContext ==
    /\ FS # "Off" /\ Idle("mstatus", "none")
    /\ saved' = context
    /\ legalize_mstatus("Clean", VS, "Off")
    /\ trap' = FALSE
    /\ UNCHANGED <<lib, regs, frm, fflags, fetched, insn, fd, xd>>

Init ==
    /\ softfloat_roundingMode = "near_even" /\ softfloat_exceptionFlags = {}
    /\ float_result = 0 /\ float_fflags = {}
    /\ frm = "near_even" /\ fflags = {}
    /\ FS = "Off" /\ VS = "Off" /\ SD = FALSE
    /\ fetched = NoInsn /\ insn = NoInsn /\ fd = 0 /\ xd = 0 /\ trap = FALSE
    /\ saved = context
Next ==
    \/ Arithmetic \/ Comparison \/ Conversion \/ ToInteger \/ FromInteger
    \/ Execute
    \/ CsrFrm \/ CsrFflags \/ WriteMstatus \/ SaveContext
Spec == Init /\ [][Next]_vars

-----------------------------------------------------------------------------
(* An operating system that saves the floating-point context only when FS  *)
(* is Dirty loses nothing: while FS is Clean the registers and fcsr are    *)
(* what was saved.  The code marks the context in three places (wF,        *)
(* accrue_fflags, write_fcsr), the second only when a flag is new.         *)
ContextSaved == FS = "Clean" => saved = context

(* SD summarises the context fields: no dirty field is hidden from a trap  *)
(* handler that looks only at SD (legalize_mstatus, dirty_fd_context).     *)
DirtyIsSummarized == FS = "Dirty" \/ VS = "Dirty" => SD

-----------------------------------------------------------------------------
(* The instruction and its result as values: registers unboxed, integers   *)
(* read in their type.                                                     *)
IntOf(t, x) ==
    CASE t = "i32" -> SignedWord(I32, x) [] t = "ui32" -> UnsignedWord(I32, x)
      [] t = "i64" -> SignedWord(I64, x) [] t = "ui64" -> UnsignedWord(I64, x)
ValueOf(t, x) ==
    IF t \in FloatTypes THEN nan_unbox(Format(t), x)
    ELSE IF t \in IntTypes THEN IntOf(t, x) ELSE x
Delivered(t) == ValueOf(t, IF t \in FloatTypes THEN fd ELSE xd)
InsnValue ==
    [op |-> insn.op, f |-> insn.f, to |-> insn.to, rm |-> insn.rm,
     v |-> IF insn.op = "csrw" THEN insn.x
           ELSE <<ValueOf(insn.f, insn.x[1]), ValueOf(insn.f, insn.x[2]),
                ValueOf(insn.f, insn.x[3])>>]

Ieee754 == INSTANCE FloatSpec WITH insn <- InsnValue, rd <- Delivered(insn.to)

(* Every instruction that retires delivers the IEEE result of its operands *)
(* in the mode that it or frm names and adds exactly the flags it raised,  *)
(* whatever mode and flags earlier calls left in the library's globals and *)
(* in the registers between C and Sail.                                    *)
ImplementsIeee == Ieee754!Spec
=============================================================================
