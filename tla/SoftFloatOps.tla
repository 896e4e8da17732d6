---------------------------- MODULE SoftFloatOps ----------------------------
(***************************************************************************)
(* The rest of what the three formats share in SoftFloat-3e: the fused     *)
(* multiply-add, the IEEE remainder, rounding to an integral value, the    *)
(* comparisons and the conversions.                                        *)
(***************************************************************************)
EXTENDS SoftFloat

(* The arguments of a multiply-add that never reach the arithmetic: NaNs,  *)
(* infinities and a zero product.  A NaN the product makes is propagated   *)
(* together with the addend.                                               *)
SpecialProduct(f, a, b, c) ==
    \/ \E u \in {a, b, c} : Exp(f, u) = ExpMax(f)
    \/ IsZero(f, a) \/ IsZero(f, b)
PropagateTo(f, r, c) ==
    LET p == PropagateNaN(f, r.z, c) IN Ret(p.z, r.fl \cup p.fl)
InfProdArg(f, a, b, c, signProd, signC) ==
    IF IsZero(f, a) \/ IsZero(f, b) THEN PropagateTo(f, Invalid(f), c)
    ELSE IF IsNaN(f, c) THEN PropagateNaN(f, Inf(f, signProd), c)
    ELSE IF IsInf(f, c) /\ signProd # signC THEN Invalid(f)
    ELSE Ret(Inf(f, signProd), {})
ZeroProd(f, rm, c, signProd, signC) ==
    IF IsZero(f, c) /\ signProd # signC THEN CancelZero(f, rm) ELSE Ret(c, {})
MulAddSpecial(f, rm, a, b, c, signProd, signC) ==
    IF IsNaN(f, a) \/ IsNaN(f, b)
    THEN PropagateTo(f, PropagateNaN(f, a, b), c)
    ELSE IF IsInf(f, a) \/ IsInf(f, b) THEN InfProdArg(f, a, b, c, signProd, signC)
    ELSE IF IsNaN(f, c) THEN PropagateNaN(f, 0, c)
    ELSE IF IsInf(f, c) THEN Ret(c, {})
    ELSE ZeroProd(f, rm, c, signProd, signC)

(* A double word with its leading bit anywhere, shifted so that a word     *)
(* with the leading bit at SW - 2 remains.                                  *)
NormDouble(f, rm, sign, exp, sig) ==
    LET w == SW(f)
        dist == CountLeadingZeros(2 * w, sig) - 1
    IN  IF dist < w
        THEN RoundPack(f, rm, sign, exp - dist, ShortShiftRightJam(sig, w - dist))
        ELSE RoundPack(f, rm, sign, exp - dist, sig * 2^(dist - w))

(* Half and single precision. *)
MulAdd(f, rm, a, b, c, op) ==
    LET signC == (Sign(f, c) + Bit(op = "subC")) % 2
        signProd == (Sign(f, a) + Sign(f, b) + Bit(op = "subProd")) % 2
        w == SW(f)
        na == Normalized(f, a)  nb == Normalized(f, b)  nc == Normalized(f, c)
        full == na.sig * 2^R(f) * nb.sig * 2^R(f)
        short == full < 2^(2 * w - 3)
        prod == IF short THEN 2 * full ELSE full
        expProd == na.exp + nb.exp - (Bias(f) - 1) - Bit(short)
        sigC == nc.sig * 2^(R(f) - 1)
        diff == expProd - nc.exp
        expZ == IF diff <= 0 THEN nc.exp ELSE expProd
        sum == IF diff <= 0
               THEN sigC + ShiftRightJam(2 * w, prod, w - diff)
               ELSE ShortShiftRightJam(
                        prod + ShiftRightJam(2 * w, sigC * 2^w, diff), w)
        dif == IF diff < 0 THEN sigC * 2^w - ShiftRightJam(2 * w, prod, -diff)
               ELSE prod - ShiftRightJam(2 * w, sigC * 2^w, diff)
    IN  CASE SpecialProduct(f, a, b, c) ->
               MulAddSpecial(f, rm, a, b, c, signProd, signC)
          [] ~SpecialProduct(f, a, b, c) /\ IsZero(f, c) ->
               RoundPack(f, rm, signProd, expProd - 1,
                         ShortShiftRightJam(prod, w - 1))
          [] OTHER ->
               IF signProd = signC
               THEN IF sum < 2^(w - 2)
                    THEN RoundPack(f, rm, signProd, expZ - 1, 2 * sum)
                    ELSE RoundPack(f, rm, signProd, expZ, sum)
               ELSE IF dif = 0 THEN CancelZero(f, rm)
               ELSE IF dif < 0 THEN NormDouble(f, rm, 1 - signProd, expZ, -dif)
               ELSE NormDouble(f, rm, IF diff < 0 THEN signC ELSE signProd,
                               expZ, dif)

(* Double precision drops the low half of the product when the addend is   *)
(* the larger and the low half can only matter as a sticky bit.            *)
SumDouble(f, rm, signProd, signC, expProd, expC, prod, sigC) ==
    LET w == SW(f)
        diff == expProd - expC
        aligned == CASE diff >= 0 -> prod
                     [] diff < 0 /\ (signProd = signC \/ diff < -1) ->
                          ShiftRightJam(w, prod \div 2^w, -diff) * 2^w + (prod % 2^w)
                     [] OTHER -> ShortShiftRightJam(prod, 1)
        addend == IF diff > 0 THEN ShiftRightJam(2 * w, sigC * 2^w, diff)
                  ELSE sigC * 2^w
        expZ == IF diff < 0 THEN expC ELSE expProd
        total == aligned + addend
        sum == Sticky(total \div 2^w, total % 2^w # 0)
        dif == aligned - addend
    IN  IF signProd = signC
        THEN IF sum < 2^(w - 2) THEN RoundPack(f, rm, signProd, expZ - 1, 2 * sum)
             ELSE RoundPack(f, rm, signProd, expZ, sum)
        ELSE IF dif = 0 THEN CancelZero(f, rm)
        ELSE NormDouble(f, rm, IF dif < 0 THEN 1 - signProd ELSE signProd,
                        expZ, IF dif < 0 THEN -dif ELSE dif)

MulAddDouble(f, rm, a, b, c, op) ==
    LET signC == (Sign(f, c) + Bit(op = "subC")) % 2
        signProd == (Sign(f, a) + Sign(f, b) + Bit(op = "subProd")) % 2
        w == SW(f)
        na == Normalized(f, a)  nb == Normalized(f, b)  nc == Normalized(f, c)
        full == na.sig * 2^R(f) * nb.sig * 2^R(f)
        short == full \div 2^w < 2^(w - 3)
        prod == IF short THEN 2 * full ELSE full
        expProd == na.exp + nb.exp - (Bias(f) - 1) - Bit(short)
    IN  IF SpecialProduct(f, a, b, c)
        THEN MulAddSpecial(f, rm, a, b, c, signProd, signC)
        ELSE IF IsZero(f, c)
        THEN RoundPack(f, rm, signProd, expProd - 1,
                       Sticky((prod \div 2^w) * 2, prod % 2^w # 0))
        ELSE SumDouble(f, rm, signProd, signC, expProd, nc.exp, prod,
                       nc.sig * 2^(R(f) - 1))

-----------------------------------------------------------------------------
(* IEEE remainder.  The loop reduces the dividend a few bits of the        *)
(* quotient at a time; modulo the divisor it computes what Reduced does.   *)
(* The last quotient is approximate, off by at most one either way; the    *)
(* subtractions after it end with the pair of remainders around zero.      *)
Reduced(num, den, bits) ==
    LET r[i \in 0 .. bits] == IF i = 0 THEN num % den ELSE (2 * r[i - 1]) % den
    IN  r[bits]

(* Mutant: a remainder of half the divisor keeps the odd quotient. *)
NearestRem_Down(num, den) ==
    LET rem == num - (num \div den + 1) * den
        alt == rem + den
    IN  IF rem + alt <= 0 THEN alt ELSE rem

NearestRem(num, den) ==
    LET q == num \div den + 1
        rem == num - q * den
        alt == rem + den
        mean == rem + alt
    IN  IF mean < 0 \/ (mean = 0 /\ q % 2 = 1) THEN alt ELSE rem

Rem(f, rm, a, b) ==
    LET na == Normalized(f, a)  nb == Normalized(f, b)
        diff == na.exp - nb.exp
        den == nb.sig * 2^(R(f) - 1)
        num == IF diff = -1 THEN na.sig * 2^(R(f) - 2)
               ELSE IF diff < 1 THEN na.sig * 2^(R(f) - 1)
               ELSE Reduced(na.sig, nb.sig, diff - 1) * 2^R(f)
        chosen == NearestRem(num, den)
    IN  IF IsNaN(f, a) \/ IsNaN(f, b) THEN PropagateNaN(f, a, b)
        ELSE IF IsInf(f, a) \/ IsZero(f, b) THEN Invalid(f)
        ELSE IF IsInf(f, b) \/ IsZero(f, a) \/ diff < -1 THEN Ret(a, {})
        ELSE IF chosen < 0
        THEN NormRoundPack(f, rm, 1 - Sign(f, a), nb.exp, -chosen)
        ELSE NormRoundPack(f, rm, Sign(f, a), nb.exp, chosen)

-----------------------------------------------------------------------------
(* Rounding to an integral value in the same format. *)
RoundsToOne(f, rm, a) ==
    CASE rm = "near_even" -> Exp(f, a) = Bias(f) - 1 /\ Frac(f, a) # 0
      [] rm = "near_maxMag" -> Exp(f, a) = Bias(f) - 1
      [] rm = "minMag" -> FALSE
      [] rm = "odd" -> TRUE
      [] OTHER -> rm = AwayFromZero(Sign(f, a))

RoundToInt(f, a, rm, exact) ==
    LET exp == Exp(f, a)
        last == 2^(Bias(f) + f.F - exp)
        half == a + (last \div 2)
        up   == CASE rm = "near_maxMag" -> half
                  [] rm = "near_even" ->
                       IF half % last = 0 /\ (half \div last) % 2 = 1
                       THEN half - last ELSE half
                  [] rm = AwayFromZero(Sign(f, a)) -> a + last - 1
                  [] OTHER -> a
        z    == up - (up % last)
        zz   == IF z # a /\ rm = "odd" /\ (z \div last) % 2 = 0 THEN z + last ELSE z
    IN  IF exp < Bias(f)
        THEN IF IsZero(f, a) THEN Ret(a, {})
             ELSE Ret(Pack(f, Sign(f, a), IF RoundsToOne(f, rm, a)
                                          THEN Bias(f) ELSE 0, 0),
                      When(exact, {"inexact"}))
        ELSE IF exp >= Bias(f) + f.F
        THEN IF IsNaN(f, a) THEN PropagateNaN(f, a, 0) ELSE Ret(a, {})
        ELSE Ret(zz, When(z # a /\ exact, {"inexact"}))

-----------------------------------------------------------------------------
(* Comparisons; a signaling one raises invalid for every NaN. *)
CompareNaN(f, a, b, signaling) ==
    Ret(0, When(signaling \/ IsSigNaN(f, a) \/ IsSigNaN(f, b), {"invalid"}))
Unordered(f, a, b) == IsNaN(f, a) \/ IsNaN(f, b)

BothZero(f, a, b) == IsZero(f, a) /\ IsZero(f, b)
EqBits(f, a, b) == a = b \/ BothZero(f, a, b)
LeBits(f, a, b) ==
    IF Sign(f, a) # Sign(f, b) THEN Sign(f, a) = 1 \/ BothZero(f, a, b)
    ELSE a = b \/ ((Sign(f, a) = 1) # (a < b))
LtBits(f, a, b) ==
    IF Sign(f, a) # Sign(f, b) THEN Sign(f, a) = 1 /\ ~BothZero(f, a, b)
    ELSE a # b /\ ((Sign(f, a) = 1) # (a < b))

Compare(f, a, b, holds, signaling) ==
    IF Unordered(f, a, b) THEN CompareNaN(f, a, b, signaling) ELSE Ret(Bit(holds), {})
Eq(f, a, b, signaling) == Compare(f, a, b, EqBits(f, a, b), signaling)
Le(f, a, b, signaling) == Compare(f, a, b, LeBits(f, a, b), signaling)
Lt(f, a, b, signaling) == Compare(f, a, b, LtBits(f, a, b), signaling)

-----------------------------------------------------------------------------
(* Conversions between formats: RISCV/specialize.h drops the payload of a  *)
(* NaN and raises invalid for a signaling one.                             *)
ConvertNaN(f, g, a) == Ret(DefaultNaN(g), When(IsSigNaN(f, a), {"invalid"}))

Widen(f, g, a) ==
    LET n == Normalized(f, a)
    IN  IF IsNaN(f, a) THEN ConvertNaN(f, g, a)
        ELSE IF IsInf(f, a) THEN Ret(Inf(g, Sign(f, a)), {})
        ELSE IF IsZero(f, a) THEN Ret(Pack(g, Sign(f, a), 0, 0), {})
        ELSE Ret(Pack(g, Sign(f, a), n.exp - 1 + Bias(g) - Bias(f),
                      n.sig * 2^(g.F - f.F)), {})

Narrow(f, g, rm, a) ==
    LET frac == ShortShiftRightJam(Frac(f, a), f.F - (SW(g) - 2))
    IN  IF IsNaN(f, a) THEN ConvertNaN(f, g, a)
        ELSE IF IsInf(f, a) THEN Ret(Inf(g, Sign(f, a)), {})
        ELSE IF Exp(f, a) = 0 /\ frac = 0 THEN Ret(Pack(g, Sign(f, a), 0, 0), {})
        ELSE RoundPack(g, rm, Sign(f, a), Exp(f, a) - (Bias(f) - Bias(g) + 1),
                       2^(SW(g) - 2) + frac)

-----------------------------------------------------------------------------
(* Conversions to integers of w bits.  RISCV/specialize.h: what does not   *)
(* fit becomes the nearest end of the range, a NaN the positive end.       *)
IntMax(w, signed) == IF signed THEN 2^(w - 1) - 1 ELSE 2^w - 1
IntMin(w, signed) == IF signed THEN -(2^(w - 1)) ELSE 0
OutOfRange(w, signed, sign) ==
    Ret(IF sign = 1 THEN IntMin(w, signed) ELSE IntMax(w, signed), {"invalid"})
FromSpecial(f, w, signed, a) ==
    OutOfRange(w, signed, IF IsNaN(f, a) THEN 0 ELSE Sign(f, a))

(* A magnitude sig with n further bits extra, rounded. *)
RoundsUp(n, extra, rm, away) ==
    IF rm \in Nearest THEN 2^(n - 1) <= extra ELSE extra # 0 /\ rm \in away
RoundedMagnitude(n, sig, extra, rm, away) ==
    LET up == RoundsUp(n, extra, rm, away)
        z  == sig + Bit(up)
    IN  IF up /\ extra = 2^(n - 1) /\ rm = "near_even" THEN z - (z % 2) ELSE z

RoundToSigned(w, n, sign, sig, extra, rm, exact) ==
    LET m == RoundedMagnitude(n, sig, extra, rm,
                              IF sign = 1 THEN {"min", "odd"} ELSE {"max"})
        z == IF sign = 1 THEN -m ELSE m
    IN  IF z \notin IntMin(w, TRUE) .. IntMax(w, TRUE) THEN OutOfRange(w, TRUE, sign)
        ELSE Ret(IF extra # 0 /\ rm = "odd" THEN Sticky(z, TRUE) ELSE z,
                 When(extra # 0 /\ exact, {"inexact"}))

RoundToUnsigned(w, n, sign, sig, extra, rm, exact) ==
    LET m == RoundedMagnitude(n, sig, extra, rm, IF sign = 1 THEN {} ELSE {"max"})
    IN  IF sign = 1 /\ rm \notin Nearest /\ sig = 0 /\ extra = 0 THEN Ret(0, {})
        ELSE IF sign = 1 /\ rm \in {"min", "odd"} THEN OutOfRange(w, FALSE, sign)
        ELSE IF m >= 2^w \/ (sign = 1 /\ m # 0) THEN OutOfRange(w, FALSE, sign)
        ELSE Ret(IF extra # 0 /\ rm = "odd" THEN Sticky(m, TRUE) ELSE m,
                 When(extra # 0 /\ exact, {"inexact"}))

RoundTo(w, n, signed, sign, sig, extra, rm, exact) ==
    IF signed THEN RoundToSigned(w, n, sign, sig, extra, rm, exact)
    ELSE RoundToUnsigned(w, n, sign, sig, extra, rm, exact)

(* Single and double precision to 32 bits, through FB fraction bits. *)
SigOf(f, a) == Frac(f, a) + (IF Exp(f, a) = 0 THEN 0 ELSE Hidden(f))
ToInt32(f, signed, a, rm, exact) ==
    LET sig  == SigOf(f, a) * 2^f.pre
        dist == Bias(f) + f.F + f.pre - FB - Exp(f, a)
        s    == IF dist > 0 THEN ShiftRightJam(I64, sig, dist) ELSE sig
    IN  RoundTo(I32, FB, signed, IF IsNaN(f, a) THEN 0 ELSE Sign(f, a),
                s \div 2^FB, s % 2^FB, rm, exact)

(* Single and double precision to 64 bits, through a word of extra bits. *)
ToInt64(f, signed, a, rm, exact) ==
    LET dist == Bias(f) + f.F - Exp(f, a)
        sx   == ShiftRightJamExtra(I64, SigOf(f, a) * 2^(I64 - 1 - f.F), 0,
                                   dist + I64 - 1 - f.F)
    IN  IF dist < -(I64 - 1 - f.F) THEN FromSpecial(f, I64, signed, a)
        ELSE RoundTo(I64, I64, signed, Sign(f, a), sx.v, sx.extra, rm, exact)

(* Half precision fits every integer type, but for the infinities. *)
HalfToInt(f, w, signed, a, rm, exact) ==
    LET exp  == Exp(f, a)
        left == exp - (Bias(f) + f.F)
        dist == exp - (Bias(f) + f.F - FB)
        s    == IF dist > 0 THEN SigOf(f, a) * 2^dist ELSE SigOf(f, a)
    IN  IF exp = ExpMax(f) THEN FromSpecial(f, w, signed, a)
        ELSE IF left >= 0 /\ (signed \/ Sign(f, a) = 0)
        THEN Ret((IF Sign(f, a) = 1 THEN -1 ELSE 1) * SigOf(f, a) * 2^left, {})
        ELSE RoundTo(w, FB, signed, Sign(f, a), s \div 2^FB, s % 2^FB, rm, exact)

(* The conversions that truncate. *)
Truncated(sign, sig, dist, exact) ==
    Ret((IF sign = 1 THEN -1 ELSE 1) * (sig \div 2^dist),
        When(exact /\ sig % 2^dist # 0, {"inexact"}))
Vanishes(f, a, exact) == Ret(0, When(exact /\ ~IsZero(f, a), {"inexact"}))

HalfToIntMinMag(f, w, signed, a, exact) ==
    LET dist == Exp(f, a) - Bias(f)
    IN  IF dist < 0 THEN Vanishes(f, a, exact)
        ELSE IF Exp(f, a) = ExpMax(f) \/ (~signed /\ Sign(f, a) = 1)
        THEN FromSpecial(f, w, signed, a)
        ELSE Truncated(Sign(f, a), SigOf(f, a) * 2^dist, f.F, exact)

ToIntMinMag(f, w, signed, a, exact) ==
    LET dist == Bias(f) + w - 1 - Exp(f, a)
        sig  == SigOf(f, a) * 2^(w - 1 - f.F)
    IN  IF w <= dist THEN Vanishes(f, a, exact)
        ELSE IF signed /\ dist <= 0
        THEN IF a = Pack(f, 1, Bias(f) + w - 1, 0) THEN Ret(IntMin(w, TRUE), {})
             ELSE FromSpecial(f, w, TRUE, a)
        ELSE IF ~signed /\ (Sign(f, a) = 1 \/ dist < 0)
        THEN FromSpecial(f, w, FALSE, a)
        ELSE Truncated(Sign(f, a), sig, dist, exact)

(* Double precision is wider than 32 bits: the magnitudes between 2^31 and *)
(* 2^31 + 1 still truncate to the least integer.                           *)
DoubleToInt32MinMag(f, signed, a, exact) ==
    LET dist == Bias(f) + f.F - Exp(f, a)
    IN  IF f.F + 1 <= dist THEN Vanishes(f, a, exact)
        ELSE IF signed /\ dist < f.F + 2 - I32
        THEN IF Sign(f, a) = 1 /\ Exp(f, a) = Bias(f) + I32 - 1
                  /\ Frac(f, a) < 2^(f.F + 1 - I32)
             THEN Ret(IntMin(I32, TRUE), When(exact /\ Frac(f, a) # 0, {"inexact"}))
             ELSE FromSpecial(f, I32, TRUE, a)
        ELSE IF ~signed /\ (Sign(f, a) = 1 \/ dist < f.F + 1 - I32)
        THEN FromSpecial(f, I32, FALSE, a)
        ELSE Truncated(Sign(f, a), SigOf(f, a), dist, exact)

-----------------------------------------------------------------------------
(* Conversions from a w-bit integer of magnitude mag. *)
Magnitude(i) == IF i < 0 THEN -i ELSE i

(* Into a format narrower than the integer. *)
FromIntNarrow(f, w, rm, i) ==
    LET mag  == Magnitude(i)
        dist == CountLeadingZeros(w, mag) - (w - f.F - 1)
        d    == dist + R(f)
        sig  == IF d < 0 THEN ShortShiftRightJam(mag, -d) ELSE mag * 2^d
    IN  IF dist >= 0
        THEN Ret(IF i = 0 THEN 0
                 ELSE Pack(f, Bit(i < 0), Bias(f) + f.F - 1 - dist, mag * 2^dist), {})
        ELSE RoundPack(f, rm, Bit(i < 0), Bias(f) + f.F - 1 + R(f) - d, sig)

(* Into the format of the same width: the top bit has to be shifted out. *)
FromIntSame(f, rm, i) ==
    LET mag == Magnitude(i)
    IN  IF i = 0 THEN Ret(0, {})
        ELSE IF i = -(2^(SW(f) - 1))
        THEN Ret(Pack(f, 1, Bias(f) + SW(f) - 1, 0), {})
        ELSE IF mag >= 2^(SW(f) - 1)
        THEN RoundPack(f, rm, 0, Bias(f) + SW(f) - 2, ShortShiftRightJam(mag, 1))
        ELSE NormRoundPack(f, rm, Bit(i < 0), Bias(f) + SW(f) - 3, mag)

(* Into a format that holds every such integer exactly. *)
FromIntExact(f, w, i) ==
    LET dist == CountLeadingZeros(w, Magnitude(i)) + f.F + 1 - w
    IN  IF i = 0 THEN Ret(0, {})
        ELSE Ret(Pack(f, Bit(i < 0), Bias(f) + f.F - 1 - dist,
                      Magnitude(i) * 2^dist), {})
=============================================================================
