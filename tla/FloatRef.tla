------------------------------ MODULE FloatRef ------------------------------
(***************************************************************************)
(* What IEEE 754 and the RISC-V manual require of each operation of the    *)
(* SoftFloat library: the exact result, rounded once.  A finite operand is *)
(* the rational m * 2^x; every operation below computes its exact value,   *)
(* or a value on the same side of every rounding boundary, and hands it to *)
(* Round.  Nothing here knows about guard bits, packing or approximations. *)
(***************************************************************************)
EXTENDS SoftFloat, FiniteSetsExt

Mantissa(f, u) == Frac(f, u) + (IF Exp(f, u) = 0 THEN 0 ELSE Hidden(f))
Scale(f, u) == (IF Exp(f, u) = 0 THEN 1 ELSE Exp(f, u)) - Bias(f) - f.F
Signed(sign, n) == IF sign = 1 THEN -n ELSE n
Value(f, u) == Signed(Sign(f, u), Mantissa(f, u))

Abs(n) == IF n < 0 THEN -n ELSE n
Sgn(n) == IF n < 0 THEN -1 ELSE IF n = 0 THEN 0 ELSE 1
(* The length of n in bits. *)
Length[n \in Nat] == IF n = 0 THEN 0 ELSE 1 + Length[n \div 2]
Bits(n) == Length[n]

(* n / 2^s rounded to an integer, for a natural n: any s beyond the bits of *)
(* n leaves less than a quarter.                                           *)
Within(n, s) == Min({s, Bits(n) + 2})
Chosen(n, s, rm, sign) ==
    LET d == 2^Within(n, s)
        k == n \div d
        r == n % d
    IN  CASE r = 0 -> k
          [] r # 0 /\ rm = "near_even" ->
               IF r > d - r \/ (r = d - r /\ k % 2 = 1) THEN k + 1 ELSE k
          [] r # 0 /\ rm = "near_maxMag" -> IF r >= d - r THEN k + 1 ELSE k
          [] r # 0 /\ rm = "minMag" -> k
          [] r # 0 /\ rm = "min" -> k + sign
          [] r # 0 /\ rm = "max" -> k + 1 - sign
          [] r # 0 /\ rm = "odd" -> IF k % 2 = 0 THEN k + 1 ELSE k
Inexact(n, s) == s > 0 /\ n % 2^Within(n, s) # 0

(* n * 2^x rounded to a multiple of 2^q, in units of 2^q. *)
Quantized(n, x, q, rm, sign) ==
    IF q <= x THEN n * 2^(x - q) ELSE Chosen(n, q - x, rm, sign)

(* The value n * 2^x in format f: its quantum is the last place of its     *)
(* binade, or of the least one.  Overflow is judged on the rounded value,  *)
(* tininess on the value rounded as if exponents were unbounded.           *)
Round(f, rm, sign, n, x) ==
    LET emin  == 1 - Bias(f)
        ulp   == Bits(n) + x - 1 - f.F
        q     == IF ulp < emin - f.F THEN emin - f.F ELSE ulp
        k     == Quantized(n, x, q, rm, sign)
        lost  == Inexact(n, q - x)
        tiny  == Bits(Quantized(n, x, ulp, rm, sign)) + ulp <= emin
        away  == rm \in {"near_even", "near_maxMag", AwayFromZero(sign)}
    IN  IF n = 0 THEN Ret(Pack(f, sign, 0, 0), {})
        ELSE IF Bits(k) + q > Bias(f) + 1
        THEN Ret(Inf(f, sign) - Bit(~away), {"overflow", "inexact"})
        ELSE Ret(Pack(f, sign, q + f.F + Bias(f) - 1, k),
                 When(lost, {"inexact"}) \cup When(lost /\ tiny, {"underflow"}))
RoundSigned(f, rm, n, x) == Round(f, rm, Bit(n < 0), Abs(n), x)

(* Two rationals added: exactly when they are comparable in size, else to *)
(* 1/8 of the coarser one's unit, with the last bit set when some of the   *)
(* finer one was cut off (no rounding boundary is that near).              *)
Sum(n1, x1, n2, x2) ==
    LET hi == IF x1 >= x2 THEN [n |-> n1, x |-> x1] ELSE [n |-> n2, x |-> x2]
        lo == IF x1 >= x2 THEN [n |-> n2, x |-> x2] ELSE [n |-> n1, x |-> x1]
        d  == hi.x - lo.x
        cut == 2^(Min({d, Bits(Abs(lo.n)) + 4}) - 3)
    IN  CASE hi.n = 0 -> lo
          [] hi.n # 0 /\ (d <= 3 \/ Bits(Abs(hi.n)) + d <= Bits(Abs(lo.n)) + 2) ->
               [n |-> hi.n * 2^d + lo.n, x |-> lo.x]
          [] OTHER ->
               [n |-> 2 * (8 * hi.n + (lo.n \div cut)) + Bit(lo.n % cut # 0),
                x |-> hi.x - 4]

(* Any NaN operand gives the canonical NaN; a signaling one is invalid. *)
AnyNaN(f, us) == \E u \in us : IsNaN(f, u)
NaNResult(f, g, us) ==
    Ret(DefaultNaN(g), When(\E u \in us : IsSigNaN(f, u), {"invalid"}))

(* Operands of format f, the result rounded to format g. *)
RefAdd(f, g, rm, a, b) ==
    LET s == Sum(Value(f, a), Scale(f, a), Value(f, b), Scale(f, b))
    IN  IF AnyNaN(f, {a, b}) THEN NaNResult(f, g, {a, b})
        ELSE IF IsInf(f, a) /\ IsInf(f, b) /\ a # b THEN Invalid(g)
        ELSE IF IsInf(f, a) THEN Ret(Inf(g, Sign(f, a)), {})
        ELSE IF IsInf(f, b) THEN Ret(Inf(g, Sign(f, b)), {})
        ELSE IF s.n # 0 THEN RoundSigned(g, rm, s.n, s.x)
        ELSE IF IsZero(f, a) /\ a = b THEN Ret(Pack(g, Sign(f, a), 0, 0), {})
        ELSE CancelZero(g, rm)
Negate(f, u) == (u + 2^(W(f) - 1)) % 2^W(f)
RefSub(f, g, rm, a, b) ==
    IF AnyNaN(f, {a, b}) THEN NaNResult(f, g, {a, b})
    ELSE RefAdd(f, g, rm, a, Negate(f, b))

ProductSign(f, a, b) == (Sign(f, a) + Sign(f, b)) % 2
RefMul(f, g, rm, a, b) ==
    IF AnyNaN(f, {a, b}) THEN NaNResult(f, g, {a, b})
    ELSE IF (IsInf(f, a) /\ IsZero(f, b)) \/ (IsInf(f, b) /\ IsZero(f, a))
    THEN Invalid(g)
    ELSE IF IsInf(f, a) \/ IsInf(f, b) THEN Ret(Inf(g, ProductSign(f, a, b)), {})
    ELSE Round(g, rm, ProductSign(f, a, b), Mantissa(f, a) * Mantissa(f, b),
               Scale(f, a) + Scale(f, b))

(* A sum of signaling and quiet causes: infinity times zero is invalid     *)
(* even when the addend is a quiet NaN.                                    *)
RefMulAdd(f, rm, a, b, c) ==
    LET sign == ProductSign(f, a, b)
        s == Sum(Signed(sign, Mantissa(f, a) * Mantissa(f, b)),
                 Scale(f, a) + Scale(f, b), Value(f, c), Scale(f, c))
        infinite == IsInf(f, a) \/ IsInf(f, b)
        invalid == infinite /\ (IsZero(f, a) \/ IsZero(f, b))
    IN  IF AnyNaN(f, {a, b, c})
        THEN Ret(DefaultNaN(f), NaNResult(f, f, {a, b, c}).fl
                                  \cup When(invalid /\ ~AnyNaN(f, {a, b}), {"invalid"}))
        ELSE IF invalid \/ (infinite /\ IsInf(f, c) /\ Sign(f, c) # sign)
        THEN Invalid(f)
        ELSE IF infinite THEN Ret(Inf(f, sign), {})
        ELSE IF IsInf(f, c) THEN Ret(c, {})
        ELSE IF s.n # 0 THEN RoundSigned(f, rm, s.n, s.x)
        ELSE IF Sign(f, c) = sign /\ IsZero(f, c) THEN Ret(c, {})
        ELSE CancelZero(f, rm)

(* A quotient or a root cut off beyond the last place, its last bit set    *)
(* when something was cut off.                                             *)
RefDiv(f, g, rm, a, b) ==
    LET sign == ProductSign(f, a, b)
        k == Bits(Mantissa(f, b)) - Bits(Mantissa(f, a)) + f.F + 3
        n == Mantissa(f, a) * 2^k
        d == Mantissa(f, b)
    IN  IF AnyNaN(f, {a, b}) THEN NaNResult(f, g, {a, b})
        ELSE IF (IsInf(f, a) /\ IsInf(f, b)) \/ (IsZero(f, a) /\ IsZero(f, b))
        THEN Invalid(g)
        ELSE IF IsInf(f, a) THEN Ret(Inf(g, sign), {})
        ELSE IF IsZero(f, b) THEN Ret(Inf(g, sign), {"infinite"})
        ELSE IF IsInf(f, b) THEN Ret(Pack(g, sign, 0, 0), {})
        ELSE Round(g, rm, sign, 2 * (n \div d) + Bit(n % d # 0),
                   Scale(f, a) - Scale(f, b) - k - 1)

IntegerRoot(n, bits) ==
    LET root[i \in 0 .. bits] ==
          IF i = 0 THEN 0
          ELSE LET r == 2 * root[i - 1] + 1
               IN  IF r * r <= n \div 4^(bits - i) THEN r ELSE r - 1
    IN  root[bits]
RefSqrt(f, g, rm, a) ==
    LET k == 2 * f.F + 4 - Bits(Mantissa(f, a))
        up == k - ((Scale(f, a) - k) % 2)
        n == Mantissa(f, a) * 2^up
        r == IntegerRoot(n, f.F + 2)
    IN  IF IsNaN(f, a) THEN NaNResult(f, g, {a})
        ELSE IF IsZero(f, a) THEN Ret(Pack(g, Sign(f, a), 0, 0), {})
        ELSE IF a = Inf(f, 0) THEN Ret(Inf(g, 0), {})
        ELSE IF Sign(f, a) = 1 THEN Invalid(g)
        ELSE Round(g, rm, 0, 2 * r + Bit(r * r # n), (Scale(f, a) - up) \div 2 - 1)

(* a - n * b for the integer n nearest to a / b, the even one of two. *)
ModScaled(m, s, d) ==
    LET r[i \in 0 .. s] == IF i = 0 THEN m % d ELSE (2 * r[i - 1]) % d IN r[s]
RefRem(f, a, b) ==
    LET s  == Scale(f, a) - Scale(f, b)
        d  == IF s >= 0 THEN Mantissa(f, b) ELSE Mantissa(f, b) * 2^(-s)
        t  == IF s >= 0 THEN ModScaled(Mantissa(f, a), s, 2 * d) ELSE Mantissa(f, a)
        r  == CASE 2 * t <= d -> t
                [] 2 * t > d /\ 2 * t < 3 * d -> t - d
                [] 2 * t >= 3 * d -> t - 2 * d
    IN  IF AnyNaN(f, {a, b}) THEN NaNResult(f, f, {a, b})
        ELSE IF IsInf(f, a) \/ IsZero(f, b) THEN Invalid(f)
        ELSE IF IsInf(f, b) \/ s < -(f.F + 2) THEN Ret(a, {})
        ELSE IF r < 0 THEN Round(f, "minMag", 1 - Sign(f, a), -r,
                                 Min({Scale(f, a), Scale(f, b)}))
        ELSE Round(f, "minMag", Sign(f, a), r, Min({Scale(f, a), Scale(f, b)}))

RefRoundToInt(f, a, rm, exact) ==
    LET k == Chosen(Mantissa(f, a), -Scale(f, a), rm, Sign(f, a))
    IN  IF IsNaN(f, a) THEN NaNResult(f, f, {a})
        ELSE IF IsInf(f, a) \/ Scale(f, a) >= 0 THEN Ret(a, {})
        ELSE Ret(Round(f, "minMag", Sign(f, a), k, 0).z,
                 When(exact /\ Inexact(Mantissa(f, a), -Scale(f, a)), {"inexact"}))

(* The order of the numbers; an infinity decodes as a number beyond them. *)
Order(f, a, b) == Sgn(Sum(Value(f, a), Scale(f, a), -Value(f, b), Scale(f, b)).n)
RefCompare(f, a, b, holds, signaling) ==
    IF AnyNaN(f, {a, b})
    THEN Ret(0, When(signaling \/ \E u \in {a, b} : IsSigNaN(f, u), {"invalid"}))
    ELSE Ret(Bit(Order(f, a, b) \in holds), {})

RefConvert(f, g, rm, a) ==
    IF IsNaN(f, a) THEN Ret(DefaultNaN(g), NaNResult(f, f, {a}).fl)
    ELSE IF IsInf(f, a) THEN Ret(Inf(g, Sign(f, a)), {})
    ELSE Round(g, rm, Sign(f, a), Mantissa(f, a), Scale(f, a))

(* The integer that n * 2^x rounds to, or the nearest end of the range     *)
(* with invalid.                                                           *)
RefRoundToWord(w, signed, sign, n, x, rm, exact) ==
    LET lo == IF signed THEN -(2^(w - 1)) ELSE 0
        hi == IF signed THEN 2^(w - 1) - 1 ELSE 2^w - 1
        k  == Signed(sign, Quantized(n, x, 0, rm, sign))
    IN  IF Bits(n) + x > w + 1 \/ k \notin lo .. hi
        THEN Ret(IF sign = 1 THEN lo ELSE hi, {"invalid"})
        ELSE Ret(k, When(exact /\ Inexact(n, -x), {"inexact"}))
(* An infinity is out of range, a NaN counts as the positive one. *)
RefToInt(f, w, signed, a, rm, exact) ==
    LET sign == IF IsNaN(f, a) THEN 0 ELSE Sign(f, a)
    IN  IF Exp(f, a) = ExpMax(f) THEN RefRoundToWord(w, signed, sign, 1, w + 1, rm, exact)
        ELSE RefRoundToWord(w, signed, sign, Mantissa(f, a), Scale(f, a), rm, exact)

RefFromInt(f, rm, i) == RoundSigned(f, rm, i, 0)
=============================================================================
