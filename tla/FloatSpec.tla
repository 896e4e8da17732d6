------------------------------ MODULE FloatSpec ------------------------------
(***************************************************************************)
(* What the floating-point instructions promise to a program: the IEEE     *)
(* result of the operands in the rounding mode the instruction or frm      *)
(* names, delivered in rd, and the exceptions it raised added to fflags.   *)
(* Operands and results are values here: bit patterns of a format, and     *)
(* mathematical integers.                                                  *)
(***************************************************************************)
EXTENDS FloatRef

VARIABLES frm, fflags, \* the two fields of fcsr
          insn,        \* the last instruction that retired
          rd           \* what it delivered

DynamicModes == {"near_even", "minMag", "min", "max", "near_maxMag"}
IeeeFormat(name) == CASE name = "f16" -> F16 [] name = "f32" -> F32 [] name = "f64" -> F64
IntWidth(name) == IF name \in {"i32", "ui32"} THEN I32 ELSE I64
IsSigned(name) == name \in {"i32", "i64"}

Holds(op) == CASE op = "eq" -> {0} [] op \in {"lt", "lt_quiet"} -> {-1}
               [] op \in {"le", "le_quiet"} -> {-1, 0}
NegateIf(c, f, u) == IF c THEN Negate(f, u) ELSE u

(* The instruction i in rounding mode m.  Its operands are i.v[1], ... of  *)
(* format i.f (or an integer of type i.f), its result is of type i.to.     *)
Ieee(i, m) ==
    LET f == IeeeFormat(i.f)
        a == i.v[1]  b == i.v[2]  c == i.v[3]
    IN  CASE i.op = "add" -> RefAdd(f, f, m, a, b)
          [] i.op = "sub" -> RefSub(f, f, m, a, b)
          [] i.op = "mul" -> RefMul(f, f, m, a, b)
          [] i.op = "div" -> RefDiv(f, f, m, a, b)
          [] i.op = "sqrt" -> RefSqrt(f, f, m, a)
          [] i.op \in {"madd", "msub", "nmsub", "nmadd"} ->
               RefMulAdd(f, m, NegateIf(i.op \in {"nmsub", "nmadd"}, f, a), b,
                         NegateIf(i.op \in {"msub", "nmadd"}, f, c))
          [] i.op \in {"eq", "lt", "lt_quiet", "le", "le_quiet"} ->
               RefCompare(f, a, b, Holds(i.op), i.op \in {"lt", "le"})
          [] i.op = "roundToInt" -> RefRoundToInt(f, a, m, FALSE)
          [] i.op = "roundToIntExact" -> RefRoundToInt(f, a, m, TRUE)
          [] i.op = "toFloat" -> RefConvert(f, IeeeFormat(i.to), m, a)
          [] i.op = "toInt" -> RefToInt(f, IntWidth(i.to), IsSigned(i.to), a, m, TRUE)
          [] i.op = "fromInt" -> RefFromInt(IeeeFormat(i.to), m, a)

Mode(i) == IF i.rm = "dyn" THEN frm ELSE i.rm

(* An instruction only retires in one of the five rounding modes. *)
Deliver ==
    \E i \in {insn'} :
      LET r == Ieee(i, Mode(i))
      IN  /\ i.op # "csrw"
          /\ Mode(i) \in DynamicModes
          /\ rd' = r.z
          /\ fflags' = fflags \cup r.fl
          /\ UNCHANGED frm

(* fcsr written by the program. *)
WriteFcsr ==
    /\ insn'.op = "csrw"
    /\ frm' = insn'.rm /\ fflags' = insn'.v[1]
    /\ UNCHANGED rd

Init == frm = "near_even" /\ fflags = {} /\ insn.op = "none"
Next == Deliver \/ WriteFcsr
Spec == Init /\ [][Next]_<<frm, fflags, insn, rd>>
=============================================================================
