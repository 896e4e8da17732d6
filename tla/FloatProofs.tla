---------------------------- MODULE FloatProofs -----------------------------
(***************************************************************************)
(* The floating-point unit, for every format and every operand: the        *)
(* context and its summary, whatever the library delivers, and the         *)
(* refinement of FloatSpec by the instructions and their wrappers,         *)
(* wherever the functions they call are exact (LibraryExact).              *)
(***************************************************************************)
EXTENDS SoftFloatCalls, WellFoundedInduction, TLAPS

(* The two properties hold together, and are kept by any step that keeps   *)
(* the context, the fields of mstatus and what was saved.                  *)
FloatInv == ContextSaved /\ DirtyIsSummarized

(* A step that touches neither the context nor its status keeps both. *)
LEMMA KeepsContext ==
  ASSUME FloatInv, UNCHANGED <<frm, fflags, fd, mstatus, saved>>
  PROVE  FloatInv'
  BY DEF FloatInv, ContextSaved, DirtyIsSummarized, context, mstatus

(* An instruction that retires without dirtying the context left it alone. *)
LEMMA RetireStep ==
  ASSUME FloatInv, NEW i, Retire(i)
  PROVE  FloatInv'
  <1> DEFINE new == fflags \cup float_fflags'
  <1>1. CASE Dirties(i, new)
    <2>1. FS' = "Dirty" /\ SD' BY <1>1 DEF Retire
    <2> QED BY <2>1 DEF FloatInv, ContextSaved, DirtyIsSummarized
  <1>2. CASE ~Dirties(i, new)
    <2>1. i.to \notin FloatTypes /\ new = fflags BY <1>2 DEF Dirties
    <2>2. fd' = fd /\ fflags' = fflags BY <2>1 DEF Retire
    <2>3. FS' = FS /\ (SD => SD') /\ VS' = VS /\ frm' = frm /\ saved' = saved
      BY <1>2 DEF Retire
    <2> QED BY <2>2, <2>3 DEF FloatInv, ContextSaved, DirtyIsSummarized, context
  <1> QED BY <1>1, <1>2

(* Fetching an instruction leaves the context alone. *)
LEMMA DecodeStep ==
  ASSUME FloatInv, NEW op, NEW f, NEW to, NEW rms, decode(op, f, to, rms)
  PROVE  FloatInv'
  <1>1. UNCHANGED <<frm, fflags, fd, mstatus, saved>> BY DEF decode
  <1> QED BY <1>1, KeepsContext

(* An instruction retires, or is illegal and changes nothing. *)
LEMMA ExecuteStep ==
  ASSUME FloatInv, Execute
  PROVE  FloatInv'
  <1>1. PICK x \in Operands(fetched.op, fetched.f, First) :
          execute([fetched EXCEPT !.x = x]) \/ handle_illegal([fetched EXCEPT !.x = x])
    BY Zenon DEF Execute
  <1> DEFINE i == [fetched EXCEPT !.x = x]
  <1>2. CASE execute(i)
    <2>1. Retire(i) BY <1>2, Zenon DEF execute
    <2> HIDE DEF i
    <2> QED BY <2>1, RetireStep
  <1>3. CASE handle_illegal(i)
    <2>1. UNCHANGED <<frm, fflags, fd, mstatus, saved>> BY <1>3 DEF handle_illegal
    <2> QED BY <2>1, KeepsContext
  <1> QED BY <1>1, <1>2, <1>3

(* A write of fcsr always dirties the context. *)
LEMMA FcsrStep ==
  ASSUME FloatInv, NEW m, NEW fl, write_fcsr(m, fl)
  PROVE  FloatInv'
  BY DEF write_fcsr, FloatInv, ContextSaved, DirtyIsSummarized

(* The summary is computed from the fields as they are written. *)
LEMMA LegalizeStep ==
  ASSUME NEW fs, NEW vs, NEW xs, legalize_mstatus(fs, vs, xs)
  PROVE  DirtyIsSummarized'
  <1>1. FS' = fs /\ VS' = vs BY DEF legalize_mstatus
  <1>2. SD' = (\E field \in {fs, vs, xs} : field = "Dirty") BY DEF legalize_mstatus
  <1>3. fs = "Dirty" \/ vs = "Dirty" => SD' BY <1>2
  <1> QED BY <1>1, <1>3 DEF DirtyIsSummarized

(* A write of mstatus makes no context clean; saving the context does, and *)
(* saves it.                                                               *)
LEMMA MstatusStep ==
  ASSUME FloatInv, WriteMstatus \/ SaveContext
  PROVE  FloatInv'
  <1>1. CASE WriteMstatus
    <2>1. PICK fs \in {"Off", "Dirty"}, vs \in {"Off", "Dirty"}, xs \in {"Off", "Dirty"} :
            legalize_mstatus(fs, vs, xs)
      BY <1>1 DEF WriteMstatus
    <2>2. FS' # "Clean" BY <2>1 DEF legalize_mstatus
    <2>3. DirtyIsSummarized' BY <2>1, LegalizeStep
    <2> QED BY <2>2, <2>3 DEF FloatInv, ContextSaved
  <1>2. CASE SaveContext
    <2>1. DirtyIsSummarized' BY <1>2, LegalizeStep DEF SaveContext
    <2>2. saved' = context /\ context' = context BY <1>2 DEF SaveContext, context
    <2> QED BY <2>1, <2>2 DEF FloatInv, ContextSaved
  <1> QED BY <1>1, <1>2

(* Every instruction and every CSR write keeps both properties. *)
LEMMA InsnsStep ==
  ASSUME FloatInv, Next
  PROVE  FloatInv'
  <1>1. CASE Arithmetic BY <1>1, DecodeStep DEF Arithmetic
  <1>2. CASE Comparison BY <1>2, DecodeStep DEF Comparison
  <1>3. CASE Conversion BY <1>3, DecodeStep DEF Conversion
  <1>4. CASE ToInteger BY <1>4, DecodeStep DEF ToInteger
  <1>5. CASE FromInteger BY <1>5, DecodeStep DEF FromInteger
  <1>6. CASE Execute BY <1>6, ExecuteStep
  <1>7. CASE CsrFrm \/ CsrFflags BY <1>7, FcsrStep DEF CsrFrm, CsrFflags
  <1>8. CASE WriteMstatus \/ SaveContext BY <1>8, MstatusStep
  <1> QED BY <1>1, <1>2, <1>3, <1>4, <1>5, <1>6, <1>7, <1>8 DEF Next

(* Both properties hold over any sequence of instructions, CSR writes and  *)
(* direct calls of the library.                                            *)
THEOREM FloatInvariant == CSpec => []FloatInv
  <1>1. CInit => FloatInv
    BY DEF CInit, Init, FloatInv, ContextSaved, DirtyIsSummarized
  <1>2. FloatInv /\ [CNext]_cvars => FloatInv'
    <2> SUFFICES ASSUME FloatInv, [CNext]_cvars PROVE FloatInv' OBVIOUS
    <2>1. CASE UNCHANGED cvars
      <3>1. UNCHANGED <<frm, fflags, fd, mstatus, saved>> BY <2>1 DEF cvars, vars
      <3> QED BY <3>1, KeepsContext
    <2>2. ASSUME NEW op, NEW f, NEW m, Choose(op, f, m) PROVE FloatInv'
      <3>1. UNCHANGED <<frm, fflags, fd, mstatus, saved>> BY <2>2 DEF Choose, vars
      <3> QED BY <3>1, KeepsContext
    <2>3. CASE DirectFloat BY <2>2, <2>3 DEF DirectFloat
    <2>4. CASE DirectWord BY <2>2, <2>4 DEF DirectWord
    <2>5. CASE Call
      <3>1. UNCHANGED <<frm, fflags, fd, mstatus, saved>> BY <2>5 DEF Call
      <3> QED BY <3>1, KeepsContext
    <2>6. CASE Insns BY <2>6, InsnsStep DEF Insns
    <2> QED BY <2>1, <2>3, <2>4, <2>5, <2>6 DEF CNext
  <1> QED BY <1>1, <1>2, PTL DEF CSpec

(* An operating system that saves the context only when FS is Dirty loses  *)
(* nothing, whatever formats, operands and flags the instructions have.    *)
THEOREM FloatContextSaved == CSpec => []ContextSaved
  <1>1. FloatInv => ContextSaved BY DEF FloatInv
  <1> QED BY <1>1, FloatInvariant, PTL

(* SD never hides a dirty field. *)
THEOREM FloatDirtySummarized == CSpec => []DirtyIsSummarized
  <1>1. FloatInv => DirtyIsSummarized BY DEF FloatInv
  <1> QED BY <1>1, FloatInvariant, PTL

-----------------------------------------------------------------------------
(* Powers of two and the registers.                                        *)
(* Induction as a fact about sets. *)
LEMMA SetInduction ==
  ASSUME NEW T \in SUBSET Nat, 0 \in T, \A n \in T : n + 1 \in T
  PROVE  T = Nat
<1> SUFFICES ASSUME T # Nat PROVE FALSE
  OBVIOUS
<1> DEFINE S == Nat \ T
<1>1. S \subseteq Nat /\ S # {}
  OBVIOUS
<1>2. PICK x \in S : \A y \in S : ~(<<y, x>> \in OpToRel(<, Nat))
  BY <1>1, WFMin, NatLessThanWellFounded
<1>3. x \in Nat /\ x # 0 /\ x \notin T
  BY <1>2
<1>4. x - 1 \in Nat /\ x - 1 < x
  BY <1>3
<1>5. x - 1 \in T
  BY <1>2, <1>3, <1>4 DEF OpToRel
<1>6. (x - 1) + 1 \in T
  BY <1>5
<1> QED BY <1>3, <1>6

(* The exponents of two in use.                                            *)
Widths == 0 .. W(F64) \cup 0 .. I64

(* What the widths are. *)
LEMMA WidthFacts ==
  /\ I32 \in Nat /\ I64 \in Nat /\ 0 < I32 /\ I32 <= I64
  /\ \A f \in {F16, F32, F64} : W(f) \in Nat /\ 0 < W(f) /\ W(f) <= W(F64)
                                /\ f.E \in Nat /\ f.F \in Nat /\ f.F > 0
                                /\ W(f) = 1 + f.E + f.F
<1>1. \A f \in {F16, F32, F64} : /\ f.E \in Nat /\ f.F \in Nat /\ f.R \in Nat
                                  /\ f.E >= 3 /\ f.F >= 2 /\ f.R >= 3
  BY FormatAssumption DEF FormatOK
<1>2. F16.F <= F32.F /\ F32.F <= F64.F /\ F16.E <= F32.E /\ F32.E <= F64.E
  BY <1>1, FormatAssumption
<1>3. /\ I32 = F32.F + 2 + F32.R /\ I64 = F64.F + 2 + F64.R
      /\ F64.F + 1 >= I32 /\ I32 \in Nat /\ I64 \in Nat
  BY FormatAssumption DEF SW
<1>4. 0 < I32 /\ I32 <= I64
  BY <1>1, <1>3
<1> QED BY <1>1, <1>2, <1>3, <1>4 DEF W

(* Every power up to the widths is a positive integer. *)
LEMMA Positive ==
  ASSUME NEW n \in Widths
  PROVE  2^n \in Nat /\ 2^n > 0
<1> DEFINE T == {k \in Nat : k \in Widths => 2^k \in Nat /\ 2^k > 0}
<1>1. 0 \in T
  BY SMT
<1>2. ASSUME NEW k \in T PROVE k + 1 \in T
  <2> SUFFICES ASSUME k + 1 \in Widths PROVE 2^(k + 1) \in Nat /\ 2^(k + 1) > 0
    OBVIOUS
  <2>1. k \in Widths
    BY WidthFacts DEF Widths
  <2>2. 2^(k + 1) = 2 * 2^k
    BY <2>1, PowersOfTwo DEF Widths
  <2>3. 2^k \in Nat /\ 2^k > 0
    BY <2>1
  <2> QED BY <2>2, <2>3
<1> HIDE DEF T
<1>3. T \in SUBSET Nat
  BY DEF T
<1>4. T = Nat
  BY <1>1, <1>2, <1>3, SetInduction
<1>5. n \in Nat
  BY WidthFacts DEF Widths
<1> QED BY <1>4, <1>5 DEF T

(* The law of exponents. *)
LEMMA PowerSum ==
  ASSUME NEW m \in Nat, NEW n \in Nat, m + n \in Widths
  PROVE  2^(m + n) = 2^m * 2^n
<1> DEFINE T == {k \in Nat : m + k \in Widths => 2^(m + k) = 2^m * 2^k}
<1>0. ASSUME NEW k \in Nat, m + k \in Widths
      PROVE  m \in Widths /\ k \in Widths
  BY <1>0, WidthFacts DEF Widths
<1>1. 0 \in T
  <2> SUFFICES ASSUME m + 0 \in Widths PROVE 2^(m + 0) = 2^m * 2^0
    OBVIOUS
  <2>1. m + 0 = m /\ 2^0 = 1
    OBVIOUS
  <2>2. 2^m \in Nat
    BY <1>0, Positive
  <2> QED BY <2>1, <2>2
<1>2. ASSUME NEW k \in T PROVE k + 1 \in T
  <2> SUFFICES ASSUME m + (k + 1) \in Widths PROVE 2^(m + (k + 1)) = 2^m * 2^(k + 1)
    OBVIOUS
  <2>1. m + k \in Widths /\ k \in Widths /\ m \in Widths /\ m + (k + 1) = (m + k) + 1
    BY WidthFacts DEF Widths
  <2>2. 2^((m + k) + 1) = 2 * 2^(m + k) /\ 2^(k + 1) = 2 * 2^k
    BY <2>1, PowersOfTwo DEF Widths
  <2>3. 2^(m + k) = 2^m * 2^k
    BY <2>1
  <2>4. 2^m \in Nat /\ 2^k \in Nat
    BY <2>1, Positive
  <2>5. \A x, y \in Nat : 2 * (x * y) = x * (2 * y)
    OBVIOUS
  <2> QED BY <2>1, <2>2, <2>3, <2>4, <2>5
<1> HIDE DEF T
<1>3. T \in SUBSET Nat
  BY DEF T
<1>4. T = Nat
  BY <1>1, <1>2, <1>3, SetInduction
<1> QED BY <1>4 DEF T

(* The bit patterns of a format, and the integers of a width.              *)
Pattern(f) == 0 .. 2^W(f) - 1
Formats == {F16, F32, F64}
SignedRange(w) == -(2^(w - 1)) .. 2^(w - 1) - 1
UnsignedRange(w) == 0 .. 2^w - 1

(* Division with remainder. *)
LEMMA Remainder ==
  ASSUME NEW k \in Nat, k > 0, NEW q \in Int, NEW r \in 0 .. k - 1
  PROVE  (q * k + r) % k = r /\ (q * k + r) \div k = q
<1> DEFINE n == q * k + r
           d == n \div k
           m == n % k
<1>1. n \in Int /\ d \in Int /\ m \in 0 .. k - 1 /\ n = k * d + m
  OBVIOUS
<1> HIDE DEF d, m
<1>2. k * (q - d) = m - r
  BY <1>1
<1>3. \A e \in Int : (e >= 1 => k * e >= k) /\ (e <= -1 => k * e <= -k)
  <2>1. \A a \in Nat : k * a \in Nat
    OBVIOUS
  <2>2. \A e \in Int : /\ k * e = k * (e - 1) + k /\ k * e = -(k * (-e - 1)) - k
                       /\ k * e \in Int
    OBVIOUS
  <2> TAKE e \in Int
  <2>3. e >= 1 => k * (e - 1) \in Nat
    BY <2>1
  <2>4. e <= -1 => k * (-e - 1) \in Nat
    BY <2>1
  <2> QED BY <2>2, <2>3, <2>4
<1>4. q - d \in Int /\ m - r < k /\ m - r > -k
  BY <1>1
<1>5. q = d
  BY <1>1, <1>2, <1>3, <1>4
<1>6. m = r
  BY <1>1, <1>2, <1>5
<1> QED BY <1>5, <1>6 DEF d, m

(* A register that boxes a narrower value gives it back. *)
LEMMA Unboxed ==
  ASSUME NEW f \in Formats, NEW z \in Pattern(f)
  PROVE  nan_unbox(f, nan_box(f, z)) = z
<1> DEFINE k == 2^W(f)
           h == 2^(FLEN - W(f))
<1>1. W(f) \in Nat /\ FLEN \in Nat /\ FLEN - W(f) \in Nat /\ W(f) + (FLEN - W(f)) = FLEN
  <2>1. W(f) \in Nat /\ W(f) <= W(F64) /\ W(F64) \in Nat
    BY WidthFacts DEF Formats
  <2> HIDE DEF W
  <2> QED BY <2>1 DEF FLEN
<1>2. W(f) \in Widths /\ FLEN \in Widths /\ FLEN - W(f) \in Widths
  BY <1>1 DEF FLEN, Widths
<1>3. k \in Nat /\ k > 0 /\ h \in Nat /\ h > 0
  BY <1>2, Positive
<1>4. 2^FLEN = k * h
  BY <1>1, <1>2, PowerSum
<1>5. nan_box(f, z) = z + (k * h - k)
  BY <1>4 DEF nan_box
<1>6. nan_unbox(f, nan_box(f, z))
        = IF nan_box(f, z) \div k = h - 1 THEN nan_box(f, z) % k ELSE DefaultNaN(f)
  BY DEF nan_unbox
<1>7. z \in 0 .. k - 1
  BY DEF Pattern
<1> HIDE DEF k, h
<1>8. z + (k * h - k) = (h - 1) * k + z
  BY <1>3, <1>7
<1>9. (z + (k * h - k)) \div k = h - 1 /\ (z + (k * h - k)) % k = z
  BY <1>3, <1>7, <1>8, Remainder
<1> QED BY <1>5, <1>6, <1>9

(* What a register is read as is a bit pattern of the format. *)
LEMMA UnboxedPattern ==
  ASSUME NEW f \in Formats, NEW x \in Nat
  PROVE  nan_unbox(f, x) \in Pattern(f)
<1> DEFINE k == 2^W(f)
<1>1. k \in Nat /\ k > 0
  BY WidthFacts, Positive DEF Formats, Widths
<1>2. x % k \in 0 .. k - 1
  BY <1>1
<1>3. DefaultNaN(f) \in 0 .. k - 1
  <2>1. DefaultNaN(f) = (0 * 2^(W(f) - 1) + (2^f.E - 1) * 2^f.F + 2^(f.F - 1)) % k
    BY DEF DefaultNaN, Pack, ExpMax
  <2>2. f.E \in Widths /\ f.F \in Widths /\ f.F - 1 \in Widths /\ W(f) - 1 \in Widths
    BY WidthFacts DEF Formats, Widths
  <2>3. 2^f.E \in Nat /\ 2^f.F \in Nat /\ 2^(f.F - 1) \in Nat /\ 2^(W(f) - 1) \in Nat
    BY <2>2, Positive
  <2> HIDE DEF k
  <2>4. \A a, b, c, d \in Nat : (0 * a + (b - 1) * c + d) % k \in 0 .. k - 1
    BY <1>1
  <2> QED BY <2>1, <2>3, <2>4
<1> QED BY <1>2, <1>3 DEF nan_unbox, Pattern

(* Cutting a bit pattern to its format changes nothing. *)
LEMMA LowPattern ==
  ASSUME NEW f \in Formats, NEW z \in Pattern(f)
  PROVE  Low(f, z) = z
<1>1. 2^W(f) \in Nat /\ 2^W(f) > 0
  BY WidthFacts, Positive DEF Formats, Widths
<1> QED BY <1>1 DEF Low, Pattern

(* A negated operand is a bit pattern. *)
LEMMA NegatedPattern ==
  ASSUME NEW f \in Formats, NEW z \in Pattern(f)
  PROVE  negate(f, z) \in Pattern(f)
<1>1. 2^W(f) \in Nat /\ 2^W(f) > 0 /\ 2^(W(f) - 1) \in Nat
  BY WidthFacts, Positive DEF Formats, Widths
<1> QED BY <1>1 DEF negate, Pattern

(* An integer stored in a register of its width. *)
LEMMA WordRead ==
  ASSUME NEW w \in {I32, I64}
  PROVE  /\ \A z \in SignedRange(w) : SignedWord(w, z % 2^w) = z
         /\ \A z \in UnsignedRange(w) : UnsignedWord(w, z % 2^w) = z
         /\ \A x \in Nat : /\ SignedWord(w, x) \in SignedRange(w)
                            /\ UnsignedWord(w, x) \in UnsignedRange(w)
<1> DEFINE h == 2^(w - 1)
<1>1. w \in Nat /\ w > 0 /\ w \in Widths /\ w - 1 \in Widths
  BY WidthFacts DEF Widths
<1>2. h \in Nat /\ h > 0 /\ 2^w = 2 * h
  <2>1. 2^((w - 1) + 1) = 2 * 2^(w - 1)
    BY <1>1, PowersOfTwo DEF Widths
  <2>2. (w - 1) + 1 = w
    BY <1>1
  <2> QED BY <1>1, <2>1, <2>2, Positive
<1>3. \A z \in -h .. h - 1 :
        z = IF (z % (2 * h)) % (2 * h) >= h THEN ((z % (2 * h)) % (2 * h)) - 2 * h
            ELSE (z % (2 * h)) % (2 * h)
  <2> HIDE DEF h
  <2> TAKE z \in -h .. h - 1
  <2>0. \A y \in 0 .. 2 * h - 1 : y % (2 * h) = y
    BY <1>2
  <2>1. CASE z >= 0
    <3>1. z % (2 * h) = z
      BY <1>2, <2>1
    <3> QED BY <1>2, <2>0, <2>1, <3>1
  <2>2. CASE z < 0
    <3>1. z % (2 * h) = z + 2 * h
      BY <1>2, <2>2
    <3> QED BY <1>2, <2>0, <2>2, <3>1
  <2> QED BY <1>2, <2>1, <2>2
<1>4. \A z \in 0 .. 2 * h - 1 : (z % (2 * h)) % (2 * h) = z
  <2> HIDE DEF h
  <2> QED BY <1>2
<1>5. \A x \in Nat : x % (2 * h) \in 0 .. 2 * h - 1
  <2> HIDE DEF h
  <2> QED BY <1>2
<1>6. \A z \in SignedRange(w) : SignedWord(w, z % 2^w) = z
  BY <1>2, <1>3 DEF SignedRange, SignedWord
<1>7. \A z \in UnsignedRange(w) : UnsignedWord(w, z % 2^w) = z
  BY <1>2, <1>4 DEF UnsignedRange, UnsignedWord
<1>8. \A x \in Nat : /\ SignedWord(w, x) \in SignedRange(w)
                     /\ UnsignedWord(w, x) \in UnsignedRange(w)
  <2> TAKE x \in Nat
  <2>1. SignedWord(w, x) = IF x % (2 * h) >= h THEN (x % (2 * h)) - 2 * h ELSE x % (2 * h)
    BY <1>2 DEF SignedWord
  <2>2. /\ UnsignedWord(w, x) = x % (2 * h)
        /\ UnsignedRange(w) = 0 .. 2 * h - 1 /\ SignedRange(w) = -h .. h - 1
    BY <1>2 DEF UnsignedWord, UnsignedRange, SignedRange
  <2> HIDE DEF h
  <2> QED BY <1>2, <1>5, <2>1, <2>2
<1> QED BY <1>6, <1>7, <1>8

(* A 32-bit result is sign-extended to the register whatever its type. *)
LEMMA ExtendedRead ==
  /\ \A z \in SignedRange(I32) : SignedWord(I32, sign_extend(I32, z % 2^I32)) = z
  /\ \A z \in UnsignedRange(I32) : UnsignedWord(I32, sign_extend(I32, z % 2^I32)) = z
<1> DEFINE k == 2^I32
           h == 2^(I64 - I32)
<1>1. k \in Nat /\ k > 0 /\ h \in Nat /\ h > 0 /\ 2^I64 = k * h
  <2>1. /\ I32 \in Widths /\ I64 - I32 \in Widths /\ I64 \in Widths
        /\ I32 \in Nat /\ I64 - I32 \in Nat
        /\ I32 + (I64 - I32) = I64
    BY WidthFacts DEF Widths
  <2> QED BY <2>1, Positive, PowerSum
<1>2. ASSUME NEW y \in 0 .. k - 1
      PROVE  sign_extend(I32, y) \in Int /\ sign_extend(I32, y) % k = y
  <2>1. sign_extend(I32, y) = y \/ sign_extend(I32, y) = y + (k * h - k)
    BY <1>1 DEF sign_extend
  <2> HIDE DEF k, h
  <2>2. y + (k * h - k) = (h - 1) * k + y
    BY <1>1
  <2>3. ((h - 1) * k + y) % k = y /\ y + (k * h - k) \in Int
    <3>1. h - 1 \in Int /\ y + (k * h - k) \in Int
      BY <1>1
    <3> QED BY <1>1, <3>1, Remainder
  <2>4. y % k = y
    BY <1>1
  <2> QED BY <2>1, <2>2, <2>3, <2>4
<1>3. \A x, y : x % k = y % k => /\ SignedWord(I32, x) = SignedWord(I32, y)
                                 /\ UnsignedWord(I32, x) = UnsignedWord(I32, y)
  BY DEF SignedWord, UnsignedWord
<1>4. ASSUME NEW z \in Int
      PROVE  sign_extend(I32, z % k) % k = (z % k) % k
  <2>1. z % k \in 0 .. k - 1
    <3> HIDE DEF k
    <3> QED BY <1>1
  <2>2. (z % k) % k = z % k
    <3> HIDE DEF k
    <3> QED BY <1>1, <2>1
  <2> QED BY <1>2, <2>1, <2>2
<1>5. SignedRange(I32) \subseteq Int /\ UnsignedRange(I32) \subseteq Int
  BY DEF SignedRange, UnsignedRange
<1> QED BY <1>3, <1>4, <1>5, WordRead

-----------------------------------------------------------------------------
(* The refinement.                                                         *)
(* Three operands.                                                         *)
Triples(T) == T \X T \X T
(* A call that returned r delivered what was due, a value of type T.       *)
Returns(T, r, due) == r.z = due.z /\ r.fl = due.fl /\ due.z \in T
(* What FloatSpec requires of an operation on the values v in mode m.      *)
Required(op, f, to, m, v) ==
    Ieee754!Ieee([op |-> op, f |-> f, to |-> to, v |-> v], m)
(* The integers of a type of the instruction set.                          *)
IntBits(t) == IF t \in {"i32", "ui32"} THEN I32 ELSE I64
IntRange(t) == IF t \in {"i32", "i64"} THEN SignedRange(IntBits(t))
               ELSE UnsignedRange(IntBits(t))
(* The result and the flags that are due stand in the registers between    *)
(* C and Sail: a float as its bit pattern, an integer as the bits of its   *)
(* type.                                                                   *)
Sent(to, due) ==
    /\ float_fflags' = due.fl
    /\ to \in FloatTypes => due.z \in Pattern(Format(to)) /\ float_result' = due.z
    /\ to \in IntTypes => /\ due.z \in IntRange(to)
                          /\ float_result' = due.z % 2^IntBits(to)

(* The hypothesis of the refinement: each function of the library that a   *)
(* wrapper calls returns, for every bit pattern of its operands, in every  *)
(* mode and whatever the error of its approximation, the result and the    *)
(* flags that FloatSpec requires.                                          *)
Exact16 ==
    \A v \in Triples(Pattern(F16)), m \in DynamicModes, err \in 0 .. F16.slack :
      LET Due(op, to) == Required(op, "f16", to, m, v)
      IN  /\ Returns(Pattern(F16), f16_add(m, v[1], v[2]), Due("add", "f16"))
          /\ Returns(Pattern(F16), f16_sub(m, v[1], v[2]), Due("sub", "f16"))
          /\ Returns(Pattern(F16), f16_mul(m, v[1], v[2]), Due("mul", "f16"))
          /\ Returns(Pattern(F16), f16_div(m, err, v[1], v[2]), Due("div", "f16"))
          /\ Returns(Pattern(F16), f16_sqrt(m, err, v[1]), Due("sqrt", "f16"))
          /\ Returns(Pattern(F16), f16_mulAdd(m, v[1], v[2], v[3]), Due("madd", "f16"))
          /\ Returns(Pattern(F16), f16_roundToInt(v[1], m, FALSE), Due("roundToInt",
                     "f16"))
          /\ Returns(Pattern(F16), f16_roundToInt(v[1], m, TRUE),
                     Due("roundToIntExact", "f16"))
          /\ Returns(0 .. 1, f16_lt(v[1], v[2]), Due("lt", "i64"))
          /\ Returns(0 .. 1, f16_lt_quiet(v[1], v[2]), Due("lt_quiet", "i64"))
          /\ Returns(0 .. 1, f16_le(v[1], v[2]), Due("le", "i64"))
          /\ Returns(0 .. 1, f16_le_quiet(v[1], v[2]), Due("le_quiet", "i64"))
          /\ Returns(0 .. 1, f16_eq(v[1], v[2]), Due("eq", "i64"))
          /\ Returns(Pattern(F32), f16_to_f32(v[1]), Due("toFloat", "f32"))
          /\ Returns(Pattern(F64), f16_to_f64(v[1]), Due("toFloat", "f64"))
          /\ Returns(SignedRange(I32), f16_to_i32(v[1], m, TRUE), Due("toInt", "i32"))
          /\ Returns(UnsignedRange(I32), f16_to_ui32(v[1], m, TRUE), Due("toInt",
                     "ui32"))
          /\ Returns(SignedRange(I64), f16_to_i64(v[1], m, TRUE), Due("toInt", "i64"))
          /\ Returns(UnsignedRange(I64), f16_to_ui64(v[1], m, TRUE), Due("toInt",
                     "ui64"))
ExactFromInt16 ==
    \A m \in DynamicModes :
      /\ \A v \in Triples(SignedRange(I32)) :
           Returns(Pattern(F16), i32_to_f16(m, v[1]), Required("fromInt", "i32",
                   "f16", m, v))
      /\ \A v \in Triples(UnsignedRange(I32)) :
           Returns(Pattern(F16), ui32_to_f16(m, v[1]), Required("fromInt", "ui32",
                   "f16", m, v))
      /\ \A v \in Triples(SignedRange(I64)) :
           Returns(Pattern(F16), i64_to_f16(m, v[1]), Required("fromInt", "i64",
                   "f16", m, v))
      /\ \A v \in Triples(UnsignedRange(I64)) :
           Returns(Pattern(F16), ui64_to_f16(m, v[1]), Required("fromInt", "ui64",
                   "f16", m, v))

Exact32 ==
    \A v \in Triples(Pattern(F32)), m \in DynamicModes, err \in 0 .. F32.slack :
      LET Due(op, to) == Required(op, "f32", to, m, v)
      IN  /\ Returns(Pattern(F32), f32_add(m, v[1], v[2]), Due("add", "f32"))
          /\ Returns(Pattern(F32), f32_sub(m, v[1], v[2]), Due("sub", "f32"))
          /\ Returns(Pattern(F32), f32_mul(m, v[1], v[2]), Due("mul", "f32"))
          /\ Returns(Pattern(F32), f32_div(m, err, v[1], v[2]), Due("div", "f32"))
          /\ Returns(Pattern(F32), f32_sqrt(m, err, v[1]), Due("sqrt", "f32"))
          /\ Returns(Pattern(F32), f32_mulAdd(m, v[1], v[2], v[3]), Due("madd", "f32"))
          /\ Returns(Pattern(F32), f32_roundToInt(v[1], m, FALSE), Due("roundToInt",
                     "f32"))
          /\ Returns(Pattern(F32), f32_roundToInt(v[1], m, TRUE),
                     Due("roundToIntExact", "f32"))
          /\ Returns(0 .. 1, f32_lt(v[1], v[2]), Due("lt", "i64"))
          /\ Returns(0 .. 1, f32_lt_quiet(v[1], v[2]), Due("lt_quiet", "i64"))
          /\ Returns(0 .. 1, f32_le(v[1], v[2]), Due("le", "i64"))
          /\ Returns(0 .. 1, f32_le_quiet(v[1], v[2]), Due("le_quiet", "i64"))
          /\ Returns(0 .. 1, f32_eq(v[1], v[2]), Due("eq", "i64"))
          /\ Returns(Pattern(F16), f32_to_f16(m, v[1]), Due("toFloat", "f16"))
          /\ Returns(Pattern(F64), f32_to_f64(v[1]), Due("toFloat", "f64"))
          /\ Returns(SignedRange(I32), f32_to_i32(v[1], m, TRUE), Due("toInt", "i32"))
          /\ Returns(UnsignedRange(I32), f32_to_ui32(v[1], m, TRUE), Due("toInt",
                     "ui32"))
          /\ Returns(SignedRange(I64), f32_to_i64(v[1], m, TRUE), Due("toInt", "i64"))
          /\ Returns(UnsignedRange(I64), f32_to_ui64(v[1], m, TRUE), Due("toInt",
                     "ui64"))
ExactFromInt32 ==
    \A m \in DynamicModes :
      /\ \A v \in Triples(SignedRange(I32)) :
           Returns(Pattern(F32), i32_to_f32(m, v[1]), Required("fromInt", "i32",
                   "f32", m, v))
      /\ \A v \in Triples(UnsignedRange(I32)) :
           Returns(Pattern(F32), ui32_to_f32(m, v[1]), Required("fromInt", "ui32",
                   "f32", m, v))
      /\ \A v \in Triples(SignedRange(I64)) :
           Returns(Pattern(F32), i64_to_f32(m, v[1]), Required("fromInt", "i64",
                   "f32", m, v))
      /\ \A v \in Triples(UnsignedRange(I64)) :
           Returns(Pattern(F32), ui64_to_f32(m, v[1]), Required("fromInt", "ui64",
                   "f32", m, v))

Exact64 ==
    \A v \in Triples(Pattern(F64)), m \in DynamicModes, err \in 0 .. F64.slack :
      LET Due(op, to) == Required(op, "f64", to, m, v)
      IN  /\ Returns(Pattern(F64), f64_add(m, v[1], v[2]), Due("add", "f64"))
          /\ Returns(Pattern(F64), f64_sub(m, v[1], v[2]), Due("sub", "f64"))
          /\ Returns(Pattern(F64), f64_mul(m, v[1], v[2]), Due("mul", "f64"))
          /\ Returns(Pattern(F64), f64_div(m, err, v[1], v[2]), Due("div", "f64"))
          /\ Returns(Pattern(F64), f64_sqrt(m, err, v[1]), Due("sqrt", "f64"))
          /\ Returns(Pattern(F64), f64_mulAdd(m, v[1], v[2], v[3]), Due("madd", "f64"))
          /\ Returns(Pattern(F64), f64_roundToInt(v[1], m, FALSE), Due("roundToInt",
                     "f64"))
          /\ Returns(Pattern(F64), f64_roundToInt(v[1], m, TRUE),
                     Due("roundToIntExact", "f64"))
          /\ Returns(0 .. 1, f64_lt(v[1], v[2]), Due("lt", "i64"))
          /\ Returns(0 .. 1, f64_lt_quiet(v[1], v[2]), Due("lt_quiet", "i64"))
          /\ Returns(0 .. 1, f64_le(v[1], v[2]), Due("le", "i64"))
          /\ Returns(0 .. 1, f64_le_quiet(v[1], v[2]), Due("le_quiet", "i64"))
          /\ Returns(0 .. 1, f64_eq(v[1], v[2]), Due("eq", "i64"))
          /\ Returns(Pattern(F16), f64_to_f16(m, v[1]), Due("toFloat", "f16"))
          /\ Returns(Pattern(F32), f64_to_f32(m, v[1]), Due("toFloat", "f32"))
          /\ Returns(SignedRange(I32), f64_to_i32(v[1], m, TRUE), Due("toInt", "i32"))
          /\ Returns(UnsignedRange(I32), f64_to_ui32(v[1], m, TRUE), Due("toInt",
                     "ui32"))
          /\ Returns(SignedRange(I64), f64_to_i64(v[1], m, TRUE), Due("toInt", "i64"))
          /\ Returns(UnsignedRange(I64), f64_to_ui64(v[1], m, TRUE), Due("toInt",
                     "ui64"))
ExactFromInt64 ==
    \A m \in DynamicModes :
      /\ \A v \in Triples(SignedRange(I32)) :
           Returns(Pattern(F64), i32_to_f64(v[1]), Required("fromInt", "i32", "f64",
                   m, v))
      /\ \A v \in Triples(UnsignedRange(I32)) :
           Returns(Pattern(F64), ui32_to_f64(v[1]), Required("fromInt", "ui32",
                   "f64", m, v))
      /\ \A v \in Triples(SignedRange(I64)) :
           Returns(Pattern(F64), i64_to_f64(m, v[1]), Required("fromInt", "i64",
                   "f64", m, v))
      /\ \A v \in Triples(UnsignedRange(I64)) :
           Returns(Pattern(F64), ui64_to_f64(m, v[1]), Required("fromInt", "ui64",
                   "f64", m, v))

(* A wrapper that returns a float leaves it and its flags.                 *)
LEMMA SentFloat ==
  ASSUME NEW to \in FloatTypes, NEW r, NEW due, Returns(Pattern(Format(to)), r, due),
         float_fflags' = {} \cup r.fl, float_result' = r.z
  PROVE  Sent(to, due)
<1>1. to \notin IntTypes
  BY DEF FloatTypes, IntTypes
<1> QED BY <1>1 DEF Sent, Returns

(* A wrapper that returns an integer leaves the bits of its type.          *)
LEMMA SentInt ==
  ASSUME NEW to \in IntTypes, NEW r, NEW due, Returns(IntRange(to), r, due),
         float_fflags' = {} \cup r.fl, float_result' = r.z % 2^IntBits(to)
  PROVE  Sent(to, due)
<1>1. to \notin FloatTypes
  BY DEF FloatTypes, IntTypes
<1> QED BY <1>1 DEF Sent, Returns

(* A comparison leaves 0 or 1.                                             *)
LEMMA SentBit ==
  ASSUME NEW r, NEW due, Returns(0 .. 1, r, due),
         float_fflags' = {} \cup r.fl, float_result' = r.z
  PROVE  Sent("i64", due)
<1>1. /\ I64 - 1 \in Widths /\ I64 - 1 \in Nat /\ I64 - 1 > 0
      /\ (I64 - 1) - 1 \in Widths
      /\ ((I64 - 1) - 1) + 1 = I64 - 1 /\ (I64 - 1) + 1 = I64
  <2>1. I64 = F64.F + 2 + F64.R /\ F64.R \in Nat /\ F64.F \in Nat /\ I64 \in Nat
    BY FormatAssumption DEF SW, FormatOK
  <2> QED BY <2>1 DEF Widths
<1>2. 2^(I64 - 1) = 2 * 2^((I64 - 1) - 1) /\ 2^I64 = 2 * 2^(I64 - 1)
  BY <1>1, PowersOfTwo DEF Widths
<1>3. 2^((I64 - 1) - 1) \in Nat /\ 2^((I64 - 1) - 1) > 0 /\ 2^(I64 - 1) \in Nat
  BY <1>1, Positive
<1>4. 2^(I64 - 1) > 1 /\ 2^I64 \in Nat /\ 2^I64 > 1
  BY <1>2, <1>3
<1>5. /\ due.z \in 0 .. 1 /\ due.z % 2^I64 = due.z
      /\ due.z \in -(2^(I64 - 1)) .. 2^(I64 - 1) - 1
  BY <1>3, <1>4 DEF Returns
<1>6. "i64" \notin FloatTypes
  BY DEF FloatTypes
<1> QED BY <1>5, <1>6 DEF Sent, Returns, IntBits, IntRange, SignedRange

(* The wrappers of half precision: prelude, call and postlude leave exactly *)
(* what is due to the operands, whatever the globals held before.          *)
LEMMA Wrapper16 ==
  ASSUME Exact16, NEW op, NEW to, NEW m \in DynamicModes, NEW err \in 0 .. F16.slack,
         NEW v \in Triples(Pattern(F16)), Extern16(op, to, m, err, v), op # "fromInt",
         op \in Compares => to = "i64",
         op \in Plain \cup {"muladd"} => to = "f16"
  PROVE  Sent(to, Required(IF op = "muladd" THEN "madd" ELSE op, "f16", to, m, v))
<1> DEFINE Due(o) == Required(o, "f16", to, m, v)
<1>1. Low(F16, v[1]) = v[1] /\ Low(F16, v[2]) = v[2] /\ Low(F16, v[3]) = v[3]
  BY LowPattern DEF Formats, Triples
<1> USE DEF Wrapped, SOFTFLOAT_PRELUDE, SOFTFLOAT_POSTLUDE
<1>2. CASE op = "add" /\ softfloat_f16add(m, v[1], v[2])
  <2>1. to = "f16" /\ Returns(Pattern(F16), f16_add(m, v[1], v[2]), Due("add"))
    BY <1>2 DEF Exact16, Plain, Compares
  <2> QED BY <1>1, <1>2, <2>1, SentFloat DEF softfloat_f16add, Plain, FloatTypes, Format
<1>3. CASE op = "sub" /\ softfloat_f16sub(m, v[1], v[2])
  <2>1. to = "f16" /\ Returns(Pattern(F16), f16_sub(m, v[1], v[2]), Due("sub"))
    BY <1>3 DEF Exact16, Plain, Compares
  <2> QED BY <1>1, <1>3, <2>1, SentFloat DEF softfloat_f16sub, Plain, FloatTypes, Format
<1>4. CASE op = "mul" /\ softfloat_f16mul(m, v[1], v[2])
  <2>1. to = "f16" /\ Returns(Pattern(F16), f16_mul(m, v[1], v[2]), Due("mul"))
    BY <1>4 DEF Exact16, Plain, Compares
  <2> QED BY <1>1, <1>4, <2>1, SentFloat DEF softfloat_f16mul, Plain, FloatTypes, Format
<1>5. CASE op = "div" /\ softfloat_f16div(m, err, v[1], v[2])
  <2>1. to = "f16" /\ Returns(Pattern(F16), f16_div(m, err, v[1], v[2]), Due("div"))
    BY <1>5 DEF Exact16, Plain, Compares
  <2> QED BY <1>1, <1>5, <2>1, SentFloat DEF softfloat_f16div, Plain, FloatTypes, Format
<1>6. CASE op = "sqrt" /\ softfloat_f16sqrt(m, err, v[1])
  <2>1. to = "f16" /\ Returns(Pattern(F16), f16_sqrt(m, err, v[1]), Due("sqrt"))
    BY <1>6 DEF Exact16, Plain, Compares
  <2> QED BY <1>1, <1>6, <2>1, SentFloat
      DEF softfloat_f16sqrt, Plain, FloatTypes, Format
<1>7. CASE op = "muladd" /\ softfloat_f16muladd(m, v[1], v[2], v[3])
  <2>1. to = "f16" /\ Returns(Pattern(F16), f16_mulAdd(m, v[1], v[2], v[3]),
      Due("madd"))
    BY <1>7 DEF Exact16, Plain, Compares
  <2> QED BY <1>1, <1>7, <2>1, SentFloat
      DEF softfloat_f16muladd, Plain, FloatTypes, Format
<1>8. CASE op = "roundToInt" /\ softfloat_f16roundToInt(m, v[1], FALSE)
  <2>1. to = "f16" /\ Returns(Pattern(F16), f16_roundToInt(v[1], m, FALSE),
      Due("roundToInt"))
    BY <1>8 DEF Exact16, Plain, Compares
  <2> QED BY <1>1, <1>8, <2>1, SentFloat
      DEF softfloat_f16roundToInt, Plain, FloatTypes, Format
<1>9. CASE op = "roundToIntExact" /\ softfloat_f16roundToInt(m, v[1], TRUE)
  <2>1. to = "f16" /\ Returns(Pattern(F16), f16_roundToInt(v[1], m, TRUE),
      Due("roundToIntExact"))
    BY <1>9 DEF Exact16, Plain, Compares
  <2> QED BY <1>1, <1>9, <2>1, SentFloat
      DEF softfloat_f16roundToInt, Plain, FloatTypes, Format
<1>10. CASE op = "lt" /\ softfloat_f16lt(v[1], v[2])
  <2>1. to = "i64" /\ Returns(0 .. 1, f16_lt(v[1], v[2]), Due("lt"))
    BY <1>10 DEF Exact16, Plain, Compares
  <2> QED BY <1>1, <1>10, <2>1, SentBit DEF softfloat_f16lt, Compares
<1>11. CASE op = "lt_quiet" /\ softfloat_f16lt_quiet(v[1], v[2])
  <2>1. to = "i64" /\ Returns(0 .. 1, f16_lt_quiet(v[1], v[2]), Due("lt_quiet"))
    BY <1>11 DEF Exact16, Plain, Compares
  <2> QED BY <1>1, <1>11, <2>1, SentBit DEF softfloat_f16lt_quiet, Compares
<1>12. CASE op = "le" /\ softfloat_f16le(v[1], v[2])
  <2>1. to = "i64" /\ Returns(0 .. 1, f16_le(v[1], v[2]), Due("le"))
    BY <1>12 DEF Exact16, Plain, Compares
  <2> QED BY <1>1, <1>12, <2>1, SentBit DEF softfloat_f16le, Compares
<1>13. CASE op = "le_quiet" /\ softfloat_f16le_quiet(v[1], v[2])
  <2>1. to = "i64" /\ Returns(0 .. 1, f16_le_quiet(v[1], v[2]), Due("le_quiet"))
    BY <1>13 DEF Exact16, Plain, Compares
  <2> QED BY <1>1, <1>13, <2>1, SentBit DEF softfloat_f16le_quiet, Compares
<1>14. CASE op = "eq" /\ softfloat_f16eq(v[1], v[2])
  <2>1. to = "i64" /\ Returns(0 .. 1, f16_eq(v[1], v[2]), Due("eq"))
    BY <1>14 DEF Exact16, Plain, Compares
  <2> QED BY <1>1, <1>14, <2>1, SentBit DEF softfloat_f16eq, Compares
<1>15. CASE op = "toFloat" /\ to = "f32" /\ softfloat_f16tof32(m, v[1])
  <2>1. to = "f32" /\ Returns(Pattern(F32), f16_to_f32(v[1]), Due("toFloat"))
    BY <1>15 DEF Exact16, Plain, Compares
  <2> QED BY <1>1, <1>15, <2>1, SentFloat
      DEF softfloat_f16tof32, Plain, FloatTypes, Format
<1>16. CASE op = "toFloat" /\ to = "f64" /\ softfloat_f16tof64(m, v[1])
  <2>1. to = "f64" /\ Returns(Pattern(F64), f16_to_f64(v[1]), Due("toFloat"))
    BY <1>16 DEF Exact16, Plain, Compares
  <2> QED BY <1>1, <1>16, <2>1, SentFloat
      DEF softfloat_f16tof64, Plain, FloatTypes, Format
<1>17. CASE op = "toInt" /\ to = "i32" /\ softfloat_f16toi32(m, v[1])
  <2>1. to = "i32" /\ Returns(SignedRange(I32), f16_to_i32(v[1], m, TRUE), Due("toInt"))
    BY <1>17 DEF Exact16, Plain, Compares
  <2> QED BY <1>1, <1>17, <2>1, SentInt
      DEF softfloat_f16toi32, IntTypes, IntRange, IntBits, AsBits, Ret
<1>18. CASE op = "toInt" /\ to = "ui32" /\ softfloat_f16toui32(m, v[1])
  <2>1. to = "ui32" /\ Returns(UnsignedRange(I32), f16_to_ui32(v[1], m, TRUE),
      Due("toInt"))
    BY <1>18 DEF Exact16, Plain, Compares
  <2> QED BY <1>1, <1>18, <2>1, SentInt
      DEF softfloat_f16toui32, IntTypes, IntRange, IntBits, AsBits, Ret
<1>19. CASE op = "toInt" /\ to = "i64" /\ softfloat_f16toi64(m, v[1])
  <2>1. to = "i64" /\ Returns(SignedRange(I64), f16_to_i64(v[1], m, TRUE), Due("toInt"))
    BY <1>19 DEF Exact16, Plain, Compares
  <2> QED BY <1>1, <1>19, <2>1, SentInt
      DEF softfloat_f16toi64, IntTypes, IntRange, IntBits, AsBits, Ret
<1>20. CASE op = "toInt" /\ to = "ui64" /\ softfloat_f16toui64(m, v[1])
  <2>1. to = "ui64" /\ Returns(UnsignedRange(I64), f16_to_ui64(v[1], m, TRUE),
      Due("toInt"))
    BY <1>20 DEF Exact16, Plain, Compares
  <2> QED BY <1>1, <1>20, <2>1, SentInt
      DEF softfloat_f16toui64, IntTypes, IntRange, IntBits, AsBits, Ret
<1> QED BY <1>2, <1>3, <1>4, <1>5, <1>6, <1>7, <1>8, <1>9, <1>10, <1>11, <1>12,
    <1>13, <1>14, <1>15, <1>16, <1>17, <1>18, <1>19, <1>20 DEF Extern16

(* The wrappers of single precision: prelude, call and postlude leave exactly *)

(* what is due to the operands, whatever the globals held before.          *)
LEMMA Wrapper32 ==
  ASSUME Exact32, NEW op, NEW to, NEW m \in DynamicModes, NEW err \in 0 .. F32.slack,
         NEW v \in Triples(Pattern(F32)), Extern32(op, to, m, err, v), op # "fromInt",
         op \in Compares => to = "i64",
         op \in Plain \cup {"muladd"} => to = "f32"
  PROVE  Sent(to, Required(IF op = "muladd" THEN "madd" ELSE op, "f32", to, m, v))
<1> DEFINE Due(o) == Required(o, "f32", to, m, v)
<1>1. Low(F32, v[1]) = v[1] /\ Low(F32, v[2]) = v[2] /\ Low(F32, v[3]) = v[3]
  BY LowPattern DEF Formats, Triples
<1> USE DEF Wrapped, SOFTFLOAT_PRELUDE, SOFTFLOAT_POSTLUDE
<1>2. CASE op = "add" /\ softfloat_f32add(m, v[1], v[2])
  <2>1. to = "f32" /\ Returns(Pattern(F32), f32_add(m, v[1], v[2]), Due("add"))
    BY <1>2 DEF Exact32, Plain, Compares
  <2> QED BY <1>1, <1>2, <2>1, SentFloat DEF softfloat_f32add, Plain, FloatTypes, Format
<1>3. CASE op = "sub" /\ softfloat_f32sub(m, v[1], v[2])
  <2>1. to = "f32" /\ Returns(Pattern(F32), f32_sub(m, v[1], v[2]), Due("sub"))
    BY <1>3 DEF Exact32, Plain, Compares
  <2> QED BY <1>1, <1>3, <2>1, SentFloat DEF softfloat_f32sub, Plain, FloatTypes, Format
<1>4. CASE op = "mul" /\ softfloat_f32mul(m, v[1], v[2])
  <2>1. to = "f32" /\ Returns(Pattern(F32), f32_mul(m, v[1], v[2]), Due("mul"))
    BY <1>4 DEF Exact32, Plain, Compares
  <2> QED BY <1>1, <1>4, <2>1, SentFloat DEF softfloat_f32mul, Plain, FloatTypes, Format
<1>5. CASE op = "div" /\ softfloat_f32div(m, err, v[1], v[2])
  <2>1. to = "f32" /\ Returns(Pattern(F32), f32_div(m, err, v[1], v[2]), Due("div"))
    BY <1>5 DEF Exact32, Plain, Compares
  <2> QED BY <1>1, <1>5, <2>1, SentFloat DEF softfloat_f32div, Plain, FloatTypes, Format
<1>6. CASE op = "sqrt" /\ softfloat_f32sqrt(m, err, v[1])
  <2>1. to = "f32" /\ Returns(Pattern(F32), f32_sqrt(m, err, v[1]), Due("sqrt"))
    BY <1>6 DEF Exact32, Plain, Compares
  <2> QED BY <1>1, <1>6, <2>1, SentFloat
      DEF softfloat_f32sqrt, Plain, FloatTypes, Format
<1>7. CASE op = "muladd" /\ softfloat_f32muladd(m, v[1], v[2], v[3])
  <2>1. to = "f32" /\ Returns(Pattern(F32), f32_mulAdd(m, v[1], v[2], v[3]),
      Due("madd"))
    BY <1>7 DEF Exact32, Plain, Compares
  <2> QED BY <1>1, <1>7, <2>1, SentFloat
      DEF softfloat_f32muladd, Plain, FloatTypes, Format
<1>8. CASE op = "roundToInt" /\ softfloat_f32roundToInt(m, v[1], FALSE)
  <2>1. to = "f32" /\ Returns(Pattern(F32), f32_roundToInt(v[1], m, FALSE),
      Due("roundToInt"))
    BY <1>8 DEF Exact32, Plain, Compares
  <2> QED BY <1>1, <1>8, <2>1, SentFloat
      DEF softfloat_f32roundToInt, Plain, FloatTypes, Format
<1>9. CASE op = "roundToIntExact" /\ softfloat_f32roundToInt(m, v[1], TRUE)
  <2>1. to = "f32" /\ Returns(Pattern(F32), f32_roundToInt(v[1], m, TRUE),
      Due("roundToIntExact"))
    BY <1>9 DEF Exact32, Plain, Compares
  <2> QED BY <1>1, <1>9, <2>1, SentFloat
      DEF softfloat_f32roundToInt, Plain, FloatTypes, Format
<1>10. CASE op = "lt" /\ softfloat_f32lt(v[1], v[2])
  <2>1. to = "i64" /\ Returns(0 .. 1, f32_lt(v[1], v[2]), Due("lt"))
    BY <1>10 DEF Exact32, Plain, Compares
  <2> QED BY <1>1, <1>10, <2>1, SentBit DEF softfloat_f32lt, Compares
<1>11. CASE op = "lt_quiet" /\ softfloat_f32lt_quiet(v[1], v[2])
  <2>1. to = "i64" /\ Returns(0 .. 1, f32_lt_quiet(v[1], v[2]), Due("lt_quiet"))
    BY <1>11 DEF Exact32, Plain, Compares
  <2> QED BY <1>1, <1>11, <2>1, SentBit DEF softfloat_f32lt_quiet, Compares
<1>12. CASE op = "le" /\ softfloat_f32le(v[1], v[2])
  <2>1. to = "i64" /\ Returns(0 .. 1, f32_le(v[1], v[2]), Due("le"))
    BY <1>12 DEF Exact32, Plain, Compares
  <2> QED BY <1>1, <1>12, <2>1, SentBit DEF softfloat_f32le, Compares
<1>13. CASE op = "le_quiet" /\ softfloat_f32le_quiet(v[1], v[2])
  <2>1. to = "i64" /\ Returns(0 .. 1, f32_le_quiet(v[1], v[2]), Due("le_quiet"))
    BY <1>13 DEF Exact32, Plain, Compares
  <2> QED BY <1>1, <1>13, <2>1, SentBit DEF softfloat_f32le_quiet, Compares
<1>14. CASE op = "eq" /\ softfloat_f32eq(v[1], v[2])
  <2>1. to = "i64" /\ Returns(0 .. 1, f32_eq(v[1], v[2]), Due("eq"))
    BY <1>14 DEF Exact32, Plain, Compares
  <2> QED BY <1>1, <1>14, <2>1, SentBit DEF softfloat_f32eq, Compares
<1>15. CASE op = "toFloat" /\ to = "f16" /\ softfloat_f32tof16(m, v[1])
  <2>1. to = "f16" /\ Returns(Pattern(F16), f32_to_f16(m, v[1]), Due("toFloat"))
    BY <1>15 DEF Exact32, Plain, Compares
  <2> QED BY <1>1, <1>15, <2>1, SentFloat
      DEF softfloat_f32tof16, Plain, FloatTypes, Format
<1>16. CASE op = "toFloat" /\ to = "f64" /\ softfloat_f32tof64(m, v[1])
  <2>1. to = "f64" /\ Returns(Pattern(F64), f32_to_f64(v[1]), Due("toFloat"))
    BY <1>16 DEF Exact32, Plain, Compares
  <2> QED BY <1>1, <1>16, <2>1, SentFloat
      DEF softfloat_f32tof64, Plain, FloatTypes, Format
<1>17. CASE op = "toInt" /\ to = "i32" /\ softfloat_f32toi32(m, v[1])
  <2>1. to = "i32" /\ Returns(SignedRange(I32), f32_to_i32(v[1], m, TRUE), Due("toInt"))
    BY <1>17 DEF Exact32, Plain, Compares
  <2> QED BY <1>1, <1>17, <2>1, SentInt
      DEF softfloat_f32toi32, IntTypes, IntRange, IntBits, AsBits, Ret
<1>18. CASE op = "toInt" /\ to = "ui32" /\ softfloat_f32toui32(m, v[1])
  <2>1. to = "ui32" /\ Returns(UnsignedRange(I32), f32_to_ui32(v[1], m, TRUE),
      Due("toInt"))
    BY <1>18 DEF Exact32, Plain, Compares
  <2> QED BY <1>1, <1>18, <2>1, SentInt
      DEF softfloat_f32toui32, IntTypes, IntRange, IntBits, AsBits, Ret
<1>19. CASE op = "toInt" /\ to = "i64" /\ softfloat_f32toi64(m, v[1])
  <2>1. to = "i64" /\ Returns(SignedRange(I64), f32_to_i64(v[1], m, TRUE), Due("toInt"))
    BY <1>19 DEF Exact32, Plain, Compares
  <2> QED BY <1>1, <1>19, <2>1, SentInt
      DEF softfloat_f32toi64, IntTypes, IntRange, IntBits, AsBits, Ret
<1>20. CASE op = "toInt" /\ to = "ui64" /\ softfloat_f32toui64(m, v[1])
  <2>1. to = "ui64" /\ Returns(UnsignedRange(I64), f32_to_ui64(v[1], m, TRUE),
      Due("toInt"))
    BY <1>20 DEF Exact32, Plain, Compares
  <2> QED BY <1>1, <1>20, <2>1, SentInt
      DEF softfloat_f32toui64, IntTypes, IntRange, IntBits, AsBits, Ret
<1> QED BY <1>2, <1>3, <1>4, <1>5, <1>6, <1>7, <1>8, <1>9, <1>10, <1>11, <1>12,
    <1>13, <1>14, <1>15, <1>16, <1>17, <1>18, <1>19, <1>20 DEF Extern32

(* The wrappers of double precision: prelude, call and postlude leave exactly *)

(* what is due to the operands, whatever the globals held before.          *)
LEMMA Wrapper64 ==
  ASSUME Exact64, NEW op, NEW to, NEW m \in DynamicModes, NEW err \in 0 .. F64.slack,
         NEW v \in Triples(Pattern(F64)), Extern64(op, to, m, err, v), op # "fromInt",
         op \in Compares => to = "i64",
         op \in Plain \cup {"muladd"} => to = "f64"
  PROVE  Sent(to, Required(IF op = "muladd" THEN "madd" ELSE op, "f64", to, m, v))
<1> DEFINE Due(o) == Required(o, "f64", to, m, v)
<1>1. Low(F64, v[1]) = v[1] /\ Low(F64, v[2]) = v[2] /\ Low(F64, v[3]) = v[3]
  BY LowPattern DEF Formats, Triples
<1> USE DEF Wrapped, SOFTFLOAT_PRELUDE, SOFTFLOAT_POSTLUDE
<1>2. CASE op = "add" /\ softfloat_f64add(m, v[1], v[2])
  <2>1. to = "f64" /\ Returns(Pattern(F64), f64_add(m, v[1], v[2]), Due("add"))
    BY <1>2 DEF Exact64, Plain, Compares
  <2> QED BY <1>1, <1>2, <2>1, SentFloat DEF softfloat_f64add, Plain, FloatTypes, Format
<1>3. CASE op = "sub" /\ softfloat_f64sub(m, v[1], v[2])
  <2>1. to = "f64" /\ Returns(Pattern(F64), f64_sub(m, v[1], v[2]), Due("sub"))
    BY <1>3 DEF Exact64, Plain, Compares
  <2> QED BY <1>1, <1>3, <2>1, SentFloat DEF softfloat_f64sub, Plain, FloatTypes, Format
<1>4. CASE op = "mul" /\ softfloat_f64mul(m, v[1], v[2])
  <2>1. to = "f64" /\ Returns(Pattern(F64), f64_mul(m, v[1], v[2]), Due("mul"))
    BY <1>4 DEF Exact64, Plain, Compares
  <2> QED BY <1>1, <1>4, <2>1, SentFloat DEF softfloat_f64mul, Plain, FloatTypes, Format
<1>5. CASE op = "div" /\ softfloat_f64div(m, err, v[1], v[2])
  <2>1. to = "f64" /\ Returns(Pattern(F64), f64_div(m, err, v[1], v[2]), Due("div"))
    BY <1>5 DEF Exact64, Plain, Compares
  <2> QED BY <1>1, <1>5, <2>1, SentFloat DEF softfloat_f64div, Plain, FloatTypes, Format
<1>6. CASE op = "sqrt" /\ softfloat_f64sqrt(m, err, v[1])
  <2>1. to = "f64" /\ Returns(Pattern(F64), f64_sqrt(m, err, v[1]), Due("sqrt"))
    BY <1>6 DEF Exact64, Plain, Compares
  <2> QED BY <1>1, <1>6, <2>1, SentFloat
      DEF softfloat_f64sqrt, Plain, FloatTypes, Format
<1>7. CASE op = "muladd" /\ softfloat_f64muladd(m, v[1], v[2], v[3])
  <2>1. to = "f64" /\ Returns(Pattern(F64), f64_mulAdd(m, v[1], v[2], v[3]),
      Due("madd"))
    BY <1>7 DEF Exact64, Plain, Compares
  <2> QED BY <1>1, <1>7, <2>1, SentFloat
      DEF softfloat_f64muladd, Plain, FloatTypes, Format
<1>8. CASE op = "roundToInt" /\ softfloat_f64roundToInt(m, v[1], FALSE)
  <2>1. to = "f64" /\ Returns(Pattern(F64), f64_roundToInt(v[1], m, FALSE),
      Due("roundToInt"))
    BY <1>8 DEF Exact64, Plain, Compares
  <2> QED BY <1>1, <1>8, <2>1, SentFloat
      DEF softfloat_f64roundToInt, Plain, FloatTypes, Format
<1>9. CASE op = "roundToIntExact" /\ softfloat_f64roundToInt(m, v[1], TRUE)
  <2>1. to = "f64" /\ Returns(Pattern(F64), f64_roundToInt(v[1], m, TRUE),
      Due("roundToIntExact"))
    BY <1>9 DEF Exact64, Plain, Compares
  <2> QED BY <1>1, <1>9, <2>1, SentFloat
      DEF softfloat_f64roundToInt, Plain, FloatTypes, Format
<1>10. CASE op = "lt" /\ softfloat_f64lt(v[1], v[2])
  <2>1. to = "i64" /\ Returns(0 .. 1, f64_lt(v[1], v[2]), Due("lt"))
    BY <1>10 DEF Exact64, Plain, Compares
  <2> QED BY <1>1, <1>10, <2>1, SentBit DEF softfloat_f64lt, Compares
<1>11. CASE op = "lt_quiet" /\ softfloat_f64lt_quiet(v[1], v[2])
  <2>1. to = "i64" /\ Returns(0 .. 1, f64_lt_quiet(v[1], v[2]), Due("lt_quiet"))
    BY <1>11 DEF Exact64, Plain, Compares
  <2> QED BY <1>1, <1>11, <2>1, SentBit DEF softfloat_f64lt_quiet, Compares
<1>12. CASE op = "le" /\ softfloat_f64le(v[1], v[2])
  <2>1. to = "i64" /\ Returns(0 .. 1, f64_le(v[1], v[2]), Due("le"))
    BY <1>12 DEF Exact64, Plain, Compares
  <2> QED BY <1>1, <1>12, <2>1, SentBit DEF softfloat_f64le, Compares
<1>13. CASE op = "le_quiet" /\ softfloat_f64le_quiet(v[1], v[2])
  <2>1. to = "i64" /\ Returns(0 .. 1, f64_le_quiet(v[1], v[2]), Due("le_quiet"))
    BY <1>13 DEF Exact64, Plain, Compares
  <2> QED BY <1>1, <1>13, <2>1, SentBit DEF softfloat_f64le_quiet, Compares
<1>14. CASE op = "eq" /\ softfloat_f64eq(v[1], v[2])
  <2>1. to = "i64" /\ Returns(0 .. 1, f64_eq(v[1], v[2]), Due("eq"))
    BY <1>14 DEF Exact64, Plain, Compares
  <2> QED BY <1>1, <1>14, <2>1, SentBit DEF softfloat_f64eq, Compares
<1>15. CASE op = "toFloat" /\ to = "f16" /\ softfloat_f64tof16(m, v[1])
  <2>1. to = "f16" /\ Returns(Pattern(F16), f64_to_f16(m, v[1]), Due("toFloat"))
    BY <1>15 DEF Exact64, Plain, Compares
  <2> QED BY <1>1, <1>15, <2>1, SentFloat
      DEF softfloat_f64tof16, Plain, FloatTypes, Format
<1>16. CASE op = "toFloat" /\ to = "f32" /\ softfloat_f64tof32(m, v[1])
  <2>1. to = "f32" /\ Returns(Pattern(F32), f64_to_f32(m, v[1]), Due("toFloat"))
    BY <1>16 DEF Exact64, Plain, Compares
  <2> QED BY <1>1, <1>16, <2>1, SentFloat
      DEF softfloat_f64tof32, Plain, FloatTypes, Format
<1>17. CASE op = "toInt" /\ to = "i32" /\ softfloat_f64toi32(m, v[1])
  <2>1. to = "i32" /\ Returns(SignedRange(I32), f64_to_i32(v[1], m, TRUE), Due("toInt"))
    BY <1>17 DEF Exact64, Plain, Compares
  <2> QED BY <1>1, <1>17, <2>1, SentInt
      DEF softfloat_f64toi32, IntTypes, IntRange, IntBits, AsBits, Ret
<1>18. CASE op = "toInt" /\ to = "ui32" /\ softfloat_f64toui32(m, v[1])
  <2>1. to = "ui32" /\ Returns(UnsignedRange(I32), f64_to_ui32(v[1], m, TRUE),
      Due("toInt"))
    BY <1>18 DEF Exact64, Plain, Compares
  <2> QED BY <1>1, <1>18, <2>1, SentInt
      DEF softfloat_f64toui32, IntTypes, IntRange, IntBits, AsBits, Ret
<1>19. CASE op = "toInt" /\ to = "i64" /\ softfloat_f64toi64(m, v[1])
  <2>1. to = "i64" /\ Returns(SignedRange(I64), f64_to_i64(v[1], m, TRUE), Due("toInt"))
    BY <1>19 DEF Exact64, Plain, Compares
  <2> QED BY <1>1, <1>19, <2>1, SentInt
      DEF softfloat_f64toi64, IntTypes, IntRange, IntBits, AsBits, Ret
<1>20. CASE op = "toInt" /\ to = "ui64" /\ softfloat_f64toui64(m, v[1])
  <2>1. to = "ui64" /\ Returns(UnsignedRange(I64), f64_to_ui64(v[1], m, TRUE),
      Due("toInt"))
    BY <1>20 DEF Exact64, Plain, Compares
  <2> QED BY <1>1, <1>20, <2>1, SentInt
      DEF softfloat_f64toui64, IntTypes, IntRange, IntBits, AsBits, Ret
<1> QED BY <1>2, <1>3, <1>4, <1>5, <1>6, <1>7, <1>8, <1>9, <1>10, <1>11, <1>12,
    <1>13, <1>14, <1>15, <1>16, <1>17, <1>18, <1>19, <1>20 DEF Extern64

(* The registers x read as values of type t.                               *)
Values(t, x) == <<ValueOf(t, x[1]), ValueOf(t, x[2]), ValueOf(t, x[3])>>

(* Registers are read as bit patterns and as integers of the type.         *)
LEMMA ValuesTyped ==
  ASSUME NEW x \in Triples(Nat)
  PROVE  /\ \A t \in IntTypes : /\ Values(t, x) \in Triples(IntRange(t))
                                /\ Values(t, x)[1] = IntOf(t, x[1])
         /\ \A t \in FloatTypes : Values(t, x) \in Triples(Pattern(Format(t)))
<1>1. x[1] \in Nat /\ x[2] \in Nat /\ x[3] \in Nat
  BY DEF Triples
<1>2. ASSUME NEW t \in IntTypes, NEW n \in Nat
      PROVE  ValueOf(t, n) = IntOf(t, n) /\ IntOf(t, n) \in IntRange(t)
  <2>1. t \notin FloatTypes
    BY DEF FloatTypes, IntTypes
  <2>2. \A w \in {I32, I64} : /\ SignedWord(w, n) \in SignedRange(w)
                              /\ UnsignedWord(w, n) \in UnsignedRange(w)
    BY WordRead
  <2>3. IntOf(t, n) \in IntRange(t)
    BY <2>2 DEF IntOf, IntRange, IntBits, IntTypes
  <2> QED BY <2>1, <2>3 DEF ValueOf
<1>3. ASSUME NEW t \in FloatTypes, NEW n \in Nat
      PROVE  ValueOf(t, n) \in Pattern(Format(t))
  <2>1. Format(t) \in Formats
    BY DEF FloatTypes, Format, Formats
  <2> QED BY <2>1, UnboxedPattern DEF ValueOf
<1> QED BY <1>1, <1>2, <1>3 DEF Values, Triples

(* The conversions from integers to half precision.                        *)
LEMMA FromInt16 ==
  ASSUME ExactFromInt16, NEW t \in IntTypes, NEW m \in DynamicModes, NEW err,
         NEW x \in Triples(Nat),
         Extern16("fromInt", t, m, err, x)
  PROVE  Sent("f16", Required("fromInt", t, "f16", m, Values(t, x)))
<1> DEFINE v == Values(t, x)
<1> USE DEF Wrapped, SOFTFLOAT_PRELUDE, SOFTFLOAT_POSTLUDE
<1>1. v \in Triples(IntRange(t)) /\ v[1] = IntOf(t, x[1])
  BY ValuesTyped
<1> HIDE DEF v
<1>2. CASE t = "i32" /\ softfloat_i32tof16(m, x[1])
  <2>1. v \in Triples(SignedRange(I32)) /\ v[1] = SignedWord(I32, x[1])
    BY <1>1, <1>2 DEF IntRange, IntBits, IntOf
  <2>2. Returns(Pattern(F16), i32_to_f16(m, v[1]), Required("fromInt", t, "f16", m, v))
    BY <1>2, <2>1 DEF ExactFromInt16
  <2> QED BY <1>2, <2>1, <2>2, SentFloat DEF softfloat_i32tof16, FloatTypes, Format, v
<1>3. CASE t = "ui32" /\ softfloat_ui32tof16(m, x[1])
  <2>1. v \in Triples(UnsignedRange(I32)) /\ v[1] = UnsignedWord(I32, x[1])
    BY <1>1, <1>3 DEF IntRange, IntBits, IntOf
  <2>2. Returns(Pattern(F16), ui32_to_f16(m, v[1]), Required("fromInt", t, "f16", m, v))
    BY <1>3, <2>1 DEF ExactFromInt16
  <2> QED BY <1>3, <2>1, <2>2, SentFloat DEF softfloat_ui32tof16, FloatTypes, Format, v
<1>4. CASE t = "i64" /\ softfloat_i64tof16(m, x[1])
  <2>1. v \in Triples(SignedRange(I64)) /\ v[1] = SignedWord(I64, x[1])
    BY <1>1, <1>4 DEF IntRange, IntBits, IntOf
  <2>2. Returns(Pattern(F16), i64_to_f16(m, v[1]), Required("fromInt", t, "f16", m, v))
    BY <1>4, <2>1 DEF ExactFromInt16
  <2> QED BY <1>4, <2>1, <2>2, SentFloat DEF softfloat_i64tof16, FloatTypes, Format, v
<1>5. CASE t = "ui64" /\ softfloat_ui64tof16(m, x[1])
  <2>1. v \in Triples(UnsignedRange(I64)) /\ v[1] = UnsignedWord(I64, x[1])
    BY <1>1, <1>5 DEF IntRange, IntBits, IntOf
  <2>2. Returns(Pattern(F16), ui64_to_f16(m, v[1]), Required("fromInt", t, "f16", m, v))
    BY <1>5, <2>1 DEF ExactFromInt16
  <2> QED BY <1>5, <2>1, <2>2, SentFloat DEF softfloat_ui64tof16, FloatTypes, Format, v
<1> QED BY <1>2, <1>3, <1>4, <1>5 DEF Extern16, IntTypes

(* The conversions from integers to single precision.                      *)
LEMMA FromInt32 ==
  ASSUME ExactFromInt32, NEW t \in IntTypes, NEW m \in DynamicModes, NEW err,
         NEW x \in Triples(Nat),
         Extern32("fromInt", t, m, err, x)
  PROVE  Sent("f32", Required("fromInt", t, "f32", m, Values(t, x)))
<1> DEFINE v == Values(t, x)
<1> USE DEF Wrapped, SOFTFLOAT_PRELUDE, SOFTFLOAT_POSTLUDE
<1>1. v \in Triples(IntRange(t)) /\ v[1] = IntOf(t, x[1])
  BY ValuesTyped
<1> HIDE DEF v
<1>2. CASE t = "i32" /\ softfloat_i32tof32(m, x[1])
  <2>1. v \in Triples(SignedRange(I32)) /\ v[1] = SignedWord(I32, x[1])
    BY <1>1, <1>2 DEF IntRange, IntBits, IntOf
  <2>2. Returns(Pattern(F32), i32_to_f32(m, v[1]), Required("fromInt", t, "f32", m, v))
    BY <1>2, <2>1 DEF ExactFromInt32
  <2> QED BY <1>2, <2>1, <2>2, SentFloat DEF softfloat_i32tof32, FloatTypes, Format, v
<1>3. CASE t = "ui32" /\ softfloat_ui32tof32(m, x[1])
  <2>1. v \in Triples(UnsignedRange(I32)) /\ v[1] = UnsignedWord(I32, x[1])
    BY <1>1, <1>3 DEF IntRange, IntBits, IntOf
  <2>2. Returns(Pattern(F32), ui32_to_f32(m, v[1]), Required("fromInt", t, "f32", m, v))
    BY <1>3, <2>1 DEF ExactFromInt32
  <2> QED BY <1>3, <2>1, <2>2, SentFloat DEF softfloat_ui32tof32, FloatTypes, Format, v
<1>4. CASE t = "i64" /\ softfloat_i64tof32(m, x[1])
  <2>1. v \in Triples(SignedRange(I64)) /\ v[1] = SignedWord(I64, x[1])
    BY <1>1, <1>4 DEF IntRange, IntBits, IntOf
  <2>2. Returns(Pattern(F32), i64_to_f32(m, v[1]), Required("fromInt", t, "f32", m, v))
    BY <1>4, <2>1 DEF ExactFromInt32
  <2> QED BY <1>4, <2>1, <2>2, SentFloat DEF softfloat_i64tof32, FloatTypes, Format, v
<1>5. CASE t = "ui64" /\ softfloat_ui64tof32(m, x[1])
  <2>1. v \in Triples(UnsignedRange(I64)) /\ v[1] = UnsignedWord(I64, x[1])
    BY <1>1, <1>5 DEF IntRange, IntBits, IntOf
  <2>2. Returns(Pattern(F32), ui64_to_f32(m, v[1]), Required("fromInt", t, "f32", m, v))
    BY <1>5, <2>1 DEF ExactFromInt32
  <2> QED BY <1>5, <2>1, <2>2, SentFloat DEF softfloat_ui64tof32, FloatTypes, Format, v
<1> QED BY <1>2, <1>3, <1>4, <1>5 DEF Extern32, IntTypes

(* The conversions from integers to double precision.                      *)
LEMMA FromInt64 ==
  ASSUME ExactFromInt64, NEW t \in IntTypes, NEW m \in DynamicModes, NEW err,
         NEW x \in Triples(Nat),
         Extern64("fromInt", t, m, err, x)
  PROVE  Sent("f64", Required("fromInt", t, "f64", m, Values(t, x)))
<1> DEFINE v == Values(t, x)
<1> USE DEF Wrapped, SOFTFLOAT_PRELUDE, SOFTFLOAT_POSTLUDE
<1>1. v \in Triples(IntRange(t)) /\ v[1] = IntOf(t, x[1])
  BY ValuesTyped
<1> HIDE DEF v
<1>2. CASE t = "i32" /\ softfloat_i32tof64(m, x[1])
  <2>1. v \in Triples(SignedRange(I32)) /\ v[1] = SignedWord(I32, x[1])
    BY <1>1, <1>2 DEF IntRange, IntBits, IntOf
  <2>2. Returns(Pattern(F64), i32_to_f64(v[1]), Required("fromInt", t, "f64", m, v))
    BY <1>2, <2>1 DEF ExactFromInt64
  <2> QED BY <1>2, <2>1, <2>2, SentFloat DEF softfloat_i32tof64, FloatTypes, Format, v
<1>3. CASE t = "ui32" /\ softfloat_ui32tof64(m, x[1])
  <2>1. v \in Triples(UnsignedRange(I32)) /\ v[1] = UnsignedWord(I32, x[1])
    BY <1>1, <1>3 DEF IntRange, IntBits, IntOf
  <2>2. Returns(Pattern(F64), ui32_to_f64(v[1]), Required("fromInt", t, "f64", m, v))
    BY <1>3, <2>1 DEF ExactFromInt64
  <2> QED BY <1>3, <2>1, <2>2, SentFloat DEF softfloat_ui32tof64, FloatTypes, Format, v
<1>4. CASE t = "i64" /\ softfloat_i64tof64(m, x[1])
  <2>1. v \in Triples(SignedRange(I64)) /\ v[1] = SignedWord(I64, x[1])
    BY <1>1, <1>4 DEF IntRange, IntBits, IntOf
  <2>2. Returns(Pattern(F64), i64_to_f64(m, v[1]), Required("fromInt", t, "f64", m, v))
    BY <1>4, <2>1 DEF ExactFromInt64
  <2> QED BY <1>4, <2>1, <2>2, SentFloat DEF softfloat_i64tof64, FloatTypes, Format, v
<1>5. CASE t = "ui64" /\ softfloat_ui64tof64(m, x[1])
  <2>1. v \in Triples(UnsignedRange(I64)) /\ v[1] = UnsignedWord(I64, x[1])
    BY <1>1, <1>5 DEF IntRange, IntBits, IntOf
  <2>2. Returns(Pattern(F64), ui64_to_f64(m, v[1]), Required("fromInt", t, "f64", m, v))
    BY <1>5, <2>1 DEF ExactFromInt64
  <2> QED BY <1>5, <2>1, <2>2, SentFloat DEF softfloat_ui64tof64, FloatTypes, Format, v
<1> QED BY <1>2, <1>3, <1>4, <1>5 DEF Extern64, IntTypes

(* The library is exact.                                                   *)
LibraryExact ==
    /\ Exact16 /\ Exact32 /\ Exact64
    /\ ExactFromInt16 /\ ExactFromInt32 /\ ExactFromInt64

(* The instructions that decode, and the invariant that only they are      *)
(* fetched.                                                                *)
Decodable(op, f, to) ==
    \/ op \in Plain \cup MulAdds /\ f \in FloatTypes /\ to = f
    \/ op \in Compares /\ f \in FloatTypes /\ to = "i64"
    \/ op = "toFloat" /\ f \in FloatTypes /\ to \in FloatTypes
    \/ op = "toInt" /\ f \in FloatTypes /\ to \in IntTypes
    \/ op = "fromInt" /\ f \in IntTypes /\ to \in FloatTypes
FetchInv ==
    \/ fetched = NoInsn
    \/ \E op \in Plain \cup MulAdds \cup Compares \cup Conversions,
          f, to \in FloatTypes \cup IntTypes, rm \in DynamicModes \cup {"dyn"} :
         Decodable(op, f, to) /\ fetched = Insn(op, f, to, rm, <<0, 0, 0>>)

(* The four multiply-adds are the first with operands negated. *)
LEMMA MulAddOperands ==
  ASSUME NEW op \in MulAdds, NEW f \in FloatTypes, NEW to, NEW m, NEW rm,
         NEW x \in Triples(Nat)
  PROVE  LET i == Insn(op, f, to, rm, x)
             v == <<Operand(i, 1), Operand(i, 2), Operand(i, 3)>>
         IN  /\ v \in Triples(Pattern(Format(f)))
             /\ Required("madd", f, to, m, v) = Required(op, f, to, m, Values(f, x))
<1> DEFINE i == Insn(op, f, to, rm, x)
           g == Format(f)
           u == Values(f, x)
           v == <<Operand(i, 1), Operand(i, 2), Operand(i, 3)>>
<1>1. g \in Formats /\ f \notin IntTypes
  BY DEF FloatTypes, IntTypes, Format, Formats
<1>2. u \in Triples(Pattern(g))
  BY ValuesTyped
<1>3. u = <<nan_unbox(g, x[1]), nan_unbox(g, x[2]), nan_unbox(g, x[3])>>
  BY DEF Values, ValueOf
<1>4. /\ Operand(i, 1) = IF op \in {"nmsub", "nmadd"} THEN negate(g, u[1]) ELSE u[1]
      /\ Operand(i, 2) = u[2]
      /\ Operand(i, 3) = IF op \in {"msub", "nmadd"} THEN negate(g, u[3]) ELSE u[3]
  BY <1>1, <1>3 DEF Operand, Insn
<1> HIDE DEF u
<1>5. v \in Triples(Pattern(g))
  <2>1. u[1] \in Pattern(g) /\ u[2] \in Pattern(g) /\ u[3] \in Pattern(g)
    BY <1>2 DEF Triples
  <2>2. negate(g, u[1]) \in Pattern(g) /\ negate(g, u[3]) \in Pattern(g)
    BY <1>1, <2>1, NegatedPattern
  <2> QED BY <1>4, <2>1, <2>2 DEF Triples
<1>6. Ieee754!IeeeFormat(f) = g
  BY DEF Ieee754!IeeeFormat, Format, FloatTypes
<1>7. \A w : Ieee754!Negate(g, w) = negate(g, w)
  BY DEF Ieee754!Negate, negate, Ieee754!W, W
<1>8. ASSUME NEW w
      PROVE  /\ Required("madd", f, to, m, w)
                  = Ieee754!RefMulAdd(g, m, w[1], w[2], w[3])
             /\ Required("msub", f, to, m, w)
                  = Ieee754!RefMulAdd(g, m, w[1], w[2], negate(g, w[3]))
             /\ Required("nmsub", f, to, m, w)
                  = Ieee754!RefMulAdd(g, m, negate(g, w[1]), w[2], w[3])
             /\ Required("nmadd", f, to, m, w)
                  = Ieee754!RefMulAdd(g, m, negate(g, w[1]), w[2], negate(g, w[3]))
  BY <1>6, <1>7 DEF Required, Ieee754!Ieee, Ieee754!NegateIf
<1>9. Required(op, f, to, m, u) = Ieee754!RefMulAdd(g, m, v[1], v[2], v[3])
  BY <1>4, <1>8 DEF MulAdds
<1>10. Required("madd", f, to, m, v) = Ieee754!RefMulAdd(g, m, v[1], v[2], v[3])
  BY <1>8 DEF MulAdds
<1> QED BY <1>5, <1>9, <1>10 DEF u

(* The wrapper that an instruction calls leaves the result and the flags   *)

(* due to its operands in the registers between C and Sail.                *)
LEMMA Executed ==
  ASSUME LibraryExact, NEW op, NEW f, NEW to, Decodable(op, f, to),
         NEW rm \in DynamicModes \cup {"dyn"}, NEW x \in Triples(Nat),
         execute(Insn(op, f, to, rm, x))
  PROVE  LET m == select_instr_or_fcsr_rm(rm)
         IN  m \in DynamicModes /\ Sent(to, Required(op, f, to, m, Values(f, x)))
<1> DEFINE i == Insn(op, f, to, rm, x)
           m == select_instr_or_fcsr_rm(rm)
           v == <<Operand(i, 1), Operand(i, 2), Operand(i, 3)>>
<1>1. i.op = op /\ i.f = f /\ i.to = to /\ i.rm = rm /\ i.x = x
  BY DEF Insn
<1>2. m \in DynamicModes
  BY <1>1 DEF execute, Enabled, select_instr_or_fcsr_rm, DynamicModes
<1>3. PICK err \in Errors(i) :
        Extern(IF op = "fromInt" THEN to ELSE f, WrapperOp(op),
               IF op = "fromInt" THEN f ELSE to, m, err, v)
  BY <1>1, Zenon DEF execute
<1>4. CASE op = "fromInt"
  <2>1. f \in IntTypes /\ to \in FloatTypes
    BY <1>4 DEF Decodable, Plain, MulAdds, Compares
  <2>2. v = x
    BY <1>1, <2>1 DEF Operand, Triples
  <2>3. WrapperOp(op) = "fromInt"
    BY <1>4 DEF WrapperOp, MulAdds
  <2>4. Extern(to, "fromInt", f, m, err, x)
    BY <1>3, <1>4, <2>2, <2>3
  <2> SUFFICES Sent(to, Required(op, f, to, m, Values(f, x)))
    BY <1>2
  <2> HIDE DEF m, v, i
  <2>5. CASE to = "f16" /\ Extern16("fromInt", f, m, err, x)
    BY <1>2, <1>4, <2>1, <2>5, FromInt16 DEF LibraryExact
  <2>6. CASE to = "f32" /\ Extern32("fromInt", f, m, err, x)
    BY <1>2, <1>4, <2>1, <2>6, FromInt32 DEF LibraryExact
  <2>7. CASE to = "f64" /\ Extern64("fromInt", f, m, err, x)
    BY <1>2, <1>4, <2>1, <2>7, FromInt64 DEF LibraryExact
  <2> QED BY <2>4, <2>5, <2>6, <2>7 DEF Extern
<1>5. CASE op # "fromInt"
  <2> DEFINE wop == WrapperOp(op)
  <2>1. /\ f \in FloatTypes
        /\ op \in Compares => to = "i64"
        /\ op \in Plain \cup MulAdds => to = f
    BY <1>5 DEF Decodable, Plain, MulAdds, Compares
  <2>2. /\ wop # "fromInt"
        /\ wop \in Compares => to = "i64"
        /\ wop \in Plain \cup {"muladd"} => to = f
        /\ op # "muladd"
        /\ IF op \in MulAdds THEN wop = "muladd" ELSE wop = op
    BY <1>5, <2>1 DEF Decodable, WrapperOp, Plain, MulAdds, Compares
  <2>3. err \in 0 .. Format(f).slack
    BY <1>1, <2>1, FormatAssumption DEF Errors, Format, FloatTypes, FormatOK
  <2>4. /\ v \in Triples(Pattern(Format(f)))
        /\ Required(IF op \in MulAdds THEN "madd" ELSE op, f, to, m, v)
             = Required(op, f, to, m, Values(f, x))
    <3>1. CASE op \in MulAdds
      BY <2>1, <3>1, MulAddOperands
    <3>2. CASE op \notin MulAdds
      <4>1. v = Values(f, x)
        BY <1>1, <2>1, <3>2 DEF Operand, Values, ValueOf, MulAdds, FloatTypes, IntTypes
      <4> QED BY <2>1, <3>2, <4>1, ValuesTyped
    <3> QED BY <3>1, <3>2
  <2>5. Extern(f, wop, to, m, err, v)
    BY <1>3, <1>5
  <2> DEFINE due == Required(IF wop = "muladd" THEN "madd" ELSE wop, f, to, m, v)
  <2>6. due = Required(op, f, to, m, Values(f, x))
    BY <2>2, <2>4
  <2> SUFFICES Sent(to, due)
    BY <1>2, <2>6
  <2> HIDE DEF m, v, i, wop
  <2>7. CASE f = "f16" /\ Extern16(wop, to, m, err, v)
    <3>1. Format(f) = F16 BY <2>7 DEF Format
    <3> QED BY <1>2, <2>2, <2>3, <2>4, <2>7, <3>1, Wrapper16 DEF LibraryExact
  <2>8. CASE f = "f32" /\ Extern32(wop, to, m, err, v)
    <3>1. Format(f) = F32 BY <2>8 DEF Format
    <3> QED BY <1>2, <2>2, <2>3, <2>4, <2>8, <3>1, Wrapper32 DEF LibraryExact
  <2>9. CASE f = "f64" /\ Extern64(wop, to, m, err, v)
    <3>1. Format(f) = F64 BY <2>9 DEF Format
    <3> QED BY <1>2, <2>2, <2>3, <2>4, <2>9, <3>1, Wrapper64 DEF LibraryExact
  <2> QED BY <2>5, <2>7, <2>8, <2>9 DEF Extern
<1> QED BY <1>4, <1>5

(* What the registers between C and Sail hold reaches rd and fcsr: boxing  *)

(* and sign extension lose nothing.                                        *)
LEMMA Retired ==
  ASSUME NEW op, NEW f, NEW to \in FloatTypes \cup IntTypes, NEW rm, NEW x, NEW due,
         Sent(to, due), Retire(Insn(op, f, to, rm, x))
  PROVE  /\ fflags' = fflags \cup due.fl /\ frm' = frm
         /\ insn' = Insn(op, f, to, rm, x)
         /\ ValueOf(to, IF to \in FloatTypes THEN fd' ELSE xd') = due.z
<1> DEFINE i == Insn(op, f, to, rm, x)
<1>1. i.to = to
  BY DEF Insn
<1>2. fflags' = fflags \cup due.fl /\ frm' = frm /\ insn' = i
  BY DEF Retire, Sent
<1>3. /\ fd' = IF to \in FloatTypes THEN nan_box(Format(to), float_result') ELSE fd
      /\ xd' = IF to \in {"i32", "ui32"} THEN sign_extend(I32, float_result')
               ELSE IF to \in FloatTypes THEN xd ELSE float_result'
  BY <1>1 DEF Retire
<1>4. CASE to \in FloatTypes
  <2>1. Format(to) \in Formats
    BY <1>4 DEF FloatTypes, Format, Formats
  <2>2. due.z \in Pattern(Format(to)) /\ float_result' = due.z
    BY <1>4 DEF Sent
  <2>3. nan_unbox(Format(to), fd') = due.z
    BY <1>3, <1>4, <2>1, <2>2, Unboxed
  <2> QED BY <1>2, <1>4, <2>3 DEF ValueOf
<1>5. CASE to \in IntTypes
  <2>1. to \notin FloatTypes
    BY <1>5 DEF FloatTypes, IntTypes
  <2>2. due.z \in IntRange(to) /\ float_result' = due.z % 2^IntBits(to)
    BY <1>5 DEF Sent
  <2>3. IntOf(to, xd') = due.z
    <3>1. CASE to = "i32"
      <4>1. due.z \in SignedRange(I32) /\ xd' = sign_extend(I32, due.z % 2^I32)
        BY <1>3, <2>2, <3>1 DEF IntRange, IntBits
      <4> QED BY <3>1, <4>1, ExtendedRead DEF IntOf
    <3>2. CASE to = "ui32"
      <4>1. due.z \in UnsignedRange(I32) /\ xd' = sign_extend(I32, due.z % 2^I32)
        BY <1>3, <2>2, <3>2 DEF IntRange, IntBits
      <4> QED BY <3>2, <4>1, ExtendedRead DEF IntOf
    <3>3. CASE to = "i64"
      <4>1. due.z \in SignedRange(I64) /\ xd' = due.z % 2^I64
        BY <1>3, <2>1, <2>2, <3>3 DEF IntRange, IntBits
      <4> QED BY <3>3, <4>1, WordRead DEF IntOf
    <3>4. CASE to = "ui64"
      <4>1. due.z \in UnsignedRange(I64) /\ xd' = due.z % 2^I64
        BY <1>3, <2>1, <2>2, <3>4 DEF IntRange, IntBits
      <4> QED BY <3>4, <4>1, WordRead DEF IntOf
    <3> QED BY <1>5, <3>1, <3>2, <3>3, <3>4 DEF IntTypes
  <2> QED BY <1>2, <1>5, <2>1, <2>3 DEF ValueOf
<1> QED BY <1>4, <1>5

(* What the refinement mapping shows of a state. *)
Shown == <<frm, fflags, InsnValue, Delivered(insn.to)>>

(* A step that keeps fcsr, the last instruction and the registers written  *)

(* is a stutter.                                                           *)
LEMMA Stutter ==
  ASSUME UNCHANGED <<frm, fflags, insn, fd, xd>>
  PROVE  UNCHANGED Shown
<1>1. InsnValue' = InsnValue
  BY DEF InsnValue
<1>2. Delivered(insn.to)' = Delivered(insn.to)
  BY DEF Delivered
<1> QED BY <1>1, <1>2 DEF Shown

(* A write of fcsr by the program. *)
LEMMA FcsrWritten ==
  ASSUME NEW m, NEW fl, write_fcsr(m, fl)
  PROVE  Ieee754!WriteFcsr
<1>1. /\ insn' = Insn("csrw", "none", insn.to, m, <<fl>>)
      /\ frm' = m /\ fflags' = fl /\ fd' = fd /\ xd' = xd
  BY DEF write_fcsr
<1>2. insn'.op = "csrw" /\ insn'.to = insn.to /\ insn'.rm = m /\ insn'.x = <<fl>>
  BY <1>1 DEF Insn
<1>3. InsnValue'.op = "csrw" /\ InsnValue'.rm = m /\ InsnValue'.v = <<fl>>
  BY <1>2 DEF InsnValue
<1>4. Delivered(insn.to)' = Delivered(insn.to)
  BY <1>1, <1>2 DEF Delivered
<1>5. InsnValue'.v[1] = fl
  BY <1>3
<1> QED BY <1>1, <1>3, <1>4, <1>5 DEF Ieee754!WriteFcsr

(* The result required depends on the mode, not on the rm field. *)
LEMMA RequiredOf ==
  ASSUME NEW op, NEW f, NEW to, NEW rm, NEW v, NEW m
  PROVE  Ieee754!Ieee([op |-> op, f |-> f, to |-> to, rm |-> rm, v |-> v], m)
           = Required(op, f, to, m, v)
<1> DEFINE i == [op |-> op, f |-> f, to |-> to, rm |-> rm, v |-> v]
           j == [op |-> op, f |-> f, to |-> to, v |-> v]
<1>1. i.op = j.op /\ i.f = j.f /\ i.to = j.to /\ i.v = j.v
  OBVIOUS
<1> HIDE DEF i, j
<1>2. Ieee754!Ieee(i, m) = Ieee754!Ieee(j, m)
  BY <1>1, Zenon DEF Ieee754!Ieee
<1> QED BY <1>2 DEF i, j, Required

(* An instruction that retires delivers the IEEE result of its operands. *)
LEMMA InsnDelivers ==
  ASSUME LibraryExact, NEW op, NEW f \in FloatTypes \cup IntTypes,
         NEW to \in FloatTypes \cup IntTypes, Decodable(op, f, to),
         NEW rm \in DynamicModes \cup {"dyn"}, NEW x \in Triples(Nat),
         execute(Insn(op, f, to, rm, x))
  PROVE  Ieee754!Deliver
<1> DEFINE m == select_instr_or_fcsr_rm(rm)
           due == Required(op, f, to, m, Values(f, x))
           i == [op |-> op, f |-> f, to |-> to, rm |-> rm, v |-> Values(f, x)]
<1>1. m \in DynamicModes /\ Sent(to, due)
  BY Executed
<1>2. Retire(Insn(op, f, to, rm, x))
  BY DEF execute
<1>3. op # "csrw"
  BY DEF Decodable, Plain, MulAdds, Compares
<1>4. m = IF rm = "dyn" THEN frm ELSE rm
  BY <1>1 DEF select_instr_or_fcsr_rm, DynamicModes
<1>5. Ieee754!Ieee(i, m) = due
  BY RequiredOf
<1> HIDE DEF m, due
<1>6. /\ fflags' = fflags \cup due.fl /\ frm' = frm
      /\ insn' = Insn(op, f, to, rm, x)
      /\ ValueOf(to, IF to \in FloatTypes THEN fd' ELSE xd') = due.z
  BY <1>1, <1>2, Retired
<1>7. /\ insn'.op = op /\ insn'.f = f /\ insn'.to = to /\ insn'.rm = rm
      /\ insn'.x = x
  BY <1>6 DEF Insn
<1>8. InsnValue' = i
  BY <1>3, <1>7 DEF InsnValue, Values
<1>9. Delivered(insn.to)' = due.z
  BY <1>6, <1>7 DEF Delivered
<1>10. i.op = op /\ i.rm = rm
  OBVIOUS
<1> HIDE DEF i
<1>11. Ieee754!Mode(i) = m
  BY <1>4, <1>10 DEF Ieee754!Mode
<1>12. m \in Ieee754!DynamicModes
  BY <1>1 DEF DynamicModes, Ieee754!DynamicModes
<1> QED BY <1>3, <1>5, <1>6, <1>8, <1>9, <1>10, <1>11, <1>12 DEF Ieee754!Deliver

(* A fetched instruction is one that decodes. *)
LEMMA Decoded ==
  ASSUME NEW op \in Plain \cup MulAdds \cup Compares \cup Conversions,
         NEW f \in FloatTypes \cup IntTypes, NEW to \in FloatTypes \cup IntTypes,
         Decodable(op, f, to), NEW rms, rms \subseteq DynamicModes \cup {"dyn"},
         decode(op, f, to, rms)
  PROVE  FetchInv' /\ UNCHANGED Shown
<1>1. PICK rm \in rms : fetched' = Insn(op, f, to, rm, <<0, 0, 0>>)
  BY DEF decode
<1>2. FetchInv'
  BY <1>1 DEF FetchInv
<1>3. UNCHANGED <<frm, fflags, insn, fd, xd>>
  BY DEF decode
<1> QED BY <1>2, <1>3, Stutter

(* Executing what was fetched delivers the IEEE result, or changes nothing *)

(* the program sees but the trap.                                          *)
LEMMA ExecuteDelivers ==
  ASSUME LibraryExact, FetchInv, Execute
  PROVE  FetchInv' /\ (Ieee754!Deliver \/ UNCHANGED Shown)
<1>1. fetched # NoInsn /\ fetched' = NoInsn
  BY DEF Execute
<1>2. PICK op \in Plain \cup MulAdds \cup Compares \cup Conversions,
           f \in FloatTypes \cup IntTypes, to \in FloatTypes \cup IntTypes,
           rm \in DynamicModes \cup {"dyn"} :
        Decodable(op, f, to) /\ fetched = Insn(op, f, to, rm, <<0, 0, 0>>)
  BY <1>1 DEF FetchInv
<1>3. fetched.op = op /\ fetched.f = f
      /\ \A x : [fetched EXCEPT !.x = x] = Insn(op, f, to, rm, x)
  BY <1>2 DEF Insn
<1>4. PICK x \in Operands(op, f, First) :
        execute(Insn(op, f, to, rm, x)) \/ handle_illegal(Insn(op, f, to, rm, x))
  BY <1>3 DEF Execute
<1>5. x \in Triples(Nat)
  <2>1. First \in BOOLEAN
    BY DEF First
  <2>2. Operands(op, f, First) \subseteq Nat \X Nat \X Nat
    BY <2>1, OperandsAssumption
  <2> QED BY <2>2 DEF Triples
<1>6. CASE execute(Insn(op, f, to, rm, x))
  BY <1>1, <1>2, <1>5, <1>6, InsnDelivers DEF FetchInv
<1>7. CASE handle_illegal(Insn(op, f, to, rm, x))
  <2>1. UNCHANGED <<frm, fflags, insn, fd, xd>>
    BY <1>7 DEF handle_illegal
  <2> QED BY <1>1, <2>1, Stutter DEF FetchInv
<1> QED BY <1>4, <1>6, <1>7

(* Every step of the unit is a step of the abstract machine or a stutter. *)
LEMMA StepRefines ==
  ASSUME LibraryExact, FetchInv, [CNext]_cvars
  PROVE  FetchInv' /\ [Ieee754!Next]_Shown
<1> USE DEF Ieee754!Next
<1>1. ASSUME NEW op \in Plain \cup MulAdds \cup Compares \cup Conversions
      PROVE  RmFields(op, First) \subseteq DynamicModes \cup {"dyn"}
  <2>1. First \in BOOLEAN /\ "f16" \in FloatTypes
    BY DEF First, FloatTypes
  <2> QED BY <2>1, OperandsAssumption
<1>2. ASSUME UNCHANGED <<frm, fflags, fetched, insn, fd, xd>>
      PROVE  FetchInv' /\ [Ieee754!Next]_Shown
  BY <1>2, Stutter DEF FetchInv
<1>3. CASE Arithmetic
  <2>1. PICK op \in Plain \cup MulAdds, f \in FloatTypes :
          decode(op, f, f, RmFields(op, First))
    BY <1>3 DEF Arithmetic
  <2>2. Decodable(op, f, f) /\ RmFields(op, First) \subseteq DynamicModes \cup {"dyn"}
    BY <1>1 DEF Decodable, Conversions
  <2> QED BY <2>1, <2>2, Decoded DEF Conversions
<1>4. CASE Comparison
  <2>1. PICK op \in Compares, f \in FloatTypes : decode(op, f, "i64", {"near_even"})
    BY <1>4 DEF Comparison
  <2>2. /\ Decodable(op, f, "i64") /\ "i64" \in IntTypes
        /\ {"near_even"} \subseteq DynamicModes \cup {"dyn"}
    BY DEF Decodable, IntTypes, DynamicModes
  <2> QED BY <2>1, <2>2, Decoded DEF Conversions
<1>5. CASE Conversion
  <2>1. PICK f \in FloatTypes, g \in FloatTypes :
          decode("toFloat", f, g, RmFields("toFloat", First))
    BY <1>5 DEF Conversion
  <2>2. /\ Decodable("toFloat", f, g)
        /\ RmFields("toFloat", First) \subseteq DynamicModes \cup {"dyn"}
    BY <1>1 DEF Decodable, Conversions
  <2> QED BY <2>1, <2>2, Decoded DEF Conversions
<1>6. CASE ToInteger
  <2>1. PICK f \in FloatTypes, t \in IntTypes :
          decode("toInt", f, t, RmFields("toInt", First))
    BY <1>6 DEF ToInteger
  <2>2. /\ Decodable("toInt", f, t)
        /\ RmFields("toInt", First) \subseteq DynamicModes \cup {"dyn"}
    BY <1>1 DEF Decodable, Conversions
  <2> QED BY <2>1, <2>2, Decoded DEF Conversions
<1>7. CASE FromInteger
  <2>1. PICK f \in FloatTypes, t \in IntTypes :
          decode("fromInt", t, f, RmFields("fromInt", First))
    BY <1>7 DEF FromInteger
  <2>2. /\ Decodable("fromInt", t, f)
        /\ RmFields("fromInt", First) \subseteq DynamicModes \cup {"dyn"}
    BY <1>1 DEF Decodable, Conversions
  <2> QED BY <2>1, <2>2, Decoded DEF Conversions
<1>8. CASE Execute
  BY <1>8, ExecuteDelivers
<1>9. ASSUME NEW m, NEW fl, write_fcsr(m, fl)
      PROVE  FetchInv' /\ [Ieee754!Next]_Shown
  <2>1. fetched' = fetched
    BY <1>9 DEF write_fcsr
  <2> QED BY <1>9, <2>1, FcsrWritten DEF FetchInv
<1>10. CASE CsrFrm \/ CsrFflags
  BY <1>9, <1>10 DEF CsrFrm, CsrFflags
<1>11. CASE WriteMstatus
  BY <1>2, <1>11 DEF WriteMstatus
<1>12. CASE SaveContext
  BY <1>2, <1>12 DEF SaveContext
<1>13. CASE Insns
  BY <1>3, <1>4, <1>5, <1>6, <1>7, <1>8, <1>10, <1>11, <1>12, <1>13 DEF Insns, Next
<1>14. CASE UNCHANGED cvars
  BY <1>2, <1>14 DEF cvars, vars
<1>15. CASE DirectFloat \/ DirectWord
  <2>1. UNCHANGED vars
    BY <1>15 DEF DirectFloat, DirectWord, Choose
  <2> QED BY <1>2, <2>1 DEF vars
<1>16. CASE Call
  <2>1. UNCHANGED <<frm, fflags, fetched, insn, fd, xd>>
    BY <1>16 DEF Call
  <2> QED BY <1>2, <2>1
<1> QED BY <1>13, <1>14, <1>15, <1>16 DEF CNext

(* The unit implements IEEE 754 wherever the library it calls does. *)
THEOREM FloatRefinement == LibraryExact => (CSpec => ImplementsIeee)
<1> SUFFICES ASSUME LibraryExact PROVE CSpec => ImplementsIeee
  OBVIOUS
<1>1. CInit => FetchInv /\ Ieee754!Init
  BY DEF CInit, Init, FetchInv, Ieee754!Init, InsnValue, NoInsn, Insn
<1>2. FetchInv /\ [CNext]_cvars => FetchInv' /\ [Ieee754!Next]_Shown
  BY StepRefines
<1>3. CSpec => Ieee754!Init /\ [][Ieee754!Next]_Shown
  BY <1>1, <1>2, PTL DEF CSpec
<1> QED BY <1>3 DEF ImplementsIeee, Ieee754!Spec, Shown
=============================================================================
