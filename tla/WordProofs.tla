----------------------------- MODULE WordProofs -----------------------------
(***************************************************************************)
(* Proofs about SoftFloatMem: the functions on numbers of several words    *)
(* (SoftFloatWords, SoftFloatArrays) compute what they would on integers   *)
(* of any size, whatever the width of a word and whatever words the caller *)
(* stores.                                                                 *)
(*                                                                         *)
(* A loop over words is followed digit by digit: each step takes a word of *)
(* the operands and a carry, and leaves a word of the result and the next  *)
(* carry (Carried, Borrowed, CarriedOut).  Summed puts the digits together *)
(* to one equation between numbers, and ValueIs reads the result off that  *)
(* equation, since the result is below its modulus.  Shifts go the same    *)
(* way, a word being the sum of the part that stays and the part that      *)
(* moves on (LeftParts, RightParts).                                       *)
(***************************************************************************)
EXTENDS SoftFloatMem, WellFoundedInduction, TLAPS

-----------------------------------------------------------------------------
(* Powers of two, remainders, words. *)

(* Induction as a fact about sets. *)
LEMMA SetInduction ==
  ASSUME NEW T \in SUBSET Nat, 0 \in T, \A n \in T : n + 1 \in T
  PROVE  T = Nat
<1> SUFFICES ASSUME T # Nat PROVE FALSE
  OBVIOUS
<1> DEFINE S == Nat \ T
<1>1. S \subseteq Nat /\ S # {}
  OBVIOUS
<1>2. PICK x \in S : \A y \in S : ~(<<y, x>> \in OpToRel(<, Nat))
  BY <1>1, WFMin, NatLessThanWellFounded
<1>3. x \in Nat /\ x # 0 /\ x \notin T
  BY <1>2
<1>4. x - 1 \in Nat /\ x - 1 < x
  BY <1>3
<1>5. x - 1 \in T
  BY <1>2, <1>3, <1>4 DEF OpToRel
<1>6. (x - 1) + 1 \in T
  BY <1>5
<1> QED BY <1>3, <1>6

(* Every power in use is a positive integer. *)
LEMMA PowerPositive ==
  ASSUME NEW n \in 0 .. LongestShift
  PROVE  2^n \in Nat /\ 2^n > 0
<1> DEFINE T == {k \in Nat : k <= LongestShift => 2^k \in Nat /\ 2^k > 0}
<1>1. 0 \in T
  BY SMT
<1>2. ASSUME NEW k \in T PROVE k + 1 \in T
  <2> SUFFICES ASSUME k + 1 <= LongestShift PROVE 2^(k + 1) \in Nat /\ 2^(k + 1) > 0
    OBVIOUS
  <2>1. k \in 0 .. LongestShift
    BY WordAssumption
  <2>2. 2^(k + 1) = 2 * 2^k
    BY <2>1, ShiftPowers
  <2>3. 2^k \in Nat /\ 2^k > 0
    BY <2>1
  <2> QED BY <2>2, <2>3
<1> HIDE DEF T
<1>3. T \in SUBSET Nat
  BY DEF T
<1>4. T = Nat
  BY <1>1, <1>2, <1>3, SetInduction
<1>5. n \in Nat /\ n <= LongestShift
  BY WordAssumption
<1> QED BY <1>4, <1>5 DEF T

(* The law of exponents. *)
LEMMA PowerSum ==
  ASSUME NEW m \in Nat, NEW n \in Nat, m + n <= LongestShift
  PROVE  2^(m + n) = 2^m * 2^n
<1> DEFINE T == {k \in Nat : m + k <= LongestShift => 2^(m + k) = 2^m * 2^k}
<1>0. ASSUME NEW k \in Nat, m + k <= LongestShift
      PROVE  m \in 0 .. LongestShift /\ k \in 0 .. LongestShift
  BY <1>0, WordAssumption
<1>1. 0 \in T
  <2> SUFFICES ASSUME m + 0 <= LongestShift PROVE 2^(m + 0) = 2^m * 2^0
    OBVIOUS
  <2>1. m + 0 = m /\ 2^0 = 1
    OBVIOUS
  <2>2. 2^m \in Nat
    BY <1>0, PowerPositive
  <2> QED BY <2>1, <2>2
<1>2. ASSUME NEW k \in T PROVE k + 1 \in T
  <2> SUFFICES ASSUME m + (k + 1) <= LongestShift
               PROVE  2^(m + (k + 1)) = 2^m * 2^(k + 1)
    OBVIOUS
  <2>1. /\ m + k \in 0 .. LongestShift /\ k \in 0 .. LongestShift
        /\ m \in 0 .. LongestShift /\ m + (k + 1) = (m + k) + 1 /\ m + k <= LongestShift
    BY WordAssumption
  <2>2. 2^((m + k) + 1) = 2 * 2^(m + k) /\ 2^(k + 1) = 2 * 2^k
    BY <2>1, ShiftPowers
  <2>3. 2^(m + k) = 2^m * 2^k
    BY <2>1
  <2>4. 2^m \in Nat /\ 2^k \in Nat
    BY <2>1, PowerPositive
  <2>5. \A x, y \in Nat : 2 * (x * y) = x * (2 * y)
    OBVIOUS
  <2> QED BY <2>1, <2>2, <2>3, <2>4, <2>5
<1> HIDE DEF T
<1>3. T \in SUBSET Nat
  BY DEF T
<1>4. T = Nat
  BY <1>1, <1>2, <1>3, SetInduction
<1> QED BY <1>4 DEF T

(* Division with remainder. *)
LEMMA Remainder ==
  ASSUME NEW k \in Nat, k > 0, NEW q \in Int, NEW r \in 0 .. k - 1
  PROVE  (q * k + r) % k = r /\ (q * k + r) \div k = q
<1> DEFINE n == q * k + r
           d == n \div k
           m == n % k
<1>1. n \in Int /\ d \in Int /\ m \in 0 .. k - 1 /\ n = k * d + m
  OBVIOUS
<1> HIDE DEF d, m
<1>2. k * (q - d) = m - r
  BY <1>1
<1>3. \A e \in Int : (e >= 1 => k * e >= k) /\ (e <= -1 => k * e <= -k)
  <2>1. \A a \in Nat : k * a \in Nat
    OBVIOUS
  <2>2. \A e \in Int : /\ k * e = k * (e - 1) + k /\ k * e = -(k * (-e - 1)) - k
                       /\ k * e \in Int
    OBVIOUS
  <2> TAKE e \in Int
  <2>3. e >= 1 => k * (e - 1) \in Nat
    BY <2>1
  <2>4. e <= -1 => k * (-e - 1) \in Nat
    BY <2>1
  <2> QED BY <2>2, <2>3, <2>4
<1>4. q - d \in Int /\ m - r < k /\ m - r > -k
  BY <1>1
<1>5. q = d
  BY <1>1, <1>2, <1>3, <1>4
<1>6. m = r
  BY <1>1, <1>2, <1>5
<1> QED BY <1>5, <1>6 DEF d, m

(* An integer is its quotient and its remainder. *)
LEMMA Divided ==
  ASSUME NEW k \in Nat, k > 0, NEW n \in Int
  PROVE  n \div k \in Int /\ n % k \in 0 .. k - 1 /\ n = (n \div k) * k + (n % k)
  OBVIOUS

(* A word and its halves. *)
LEMMA WordFacts ==
  /\ Half \in Nat /\ Half > 1 /\ Base \in Nat /\ Base > 1 /\ Base = Half * Half
  /\ WordBits \in Nat /\ WordBits > 1
<1>1. /\ HalfWord \in Nat /\ HalfWord > 0 /\ LongestShift \in Nat
      /\ HalfWord + HalfWord = WordBits /\ WordBits \in Nat /\ WordBits > 1
      /\ WordBits <= LongestShift
      /\ HalfWord - 1 \in Nat /\ (HalfWord - 1) + 1 = HalfWord
      /\ HalfWord - 1 \in 0 .. LongestShift /\ HalfWord \in 0 .. LongestShift
  BY WordAssumption DEF WordBits
<1>2. 2^((HalfWord - 1) + 1) = 2 * 2^(HalfWord - 1)
  BY <1>1, ShiftPowers
<1>3. 2^(HalfWord - 1) \in Nat /\ 2^(HalfWord - 1) > 0
  BY <1>1, PowerPositive
<1>4. Half \in Nat /\ Half > 1
  BY <1>1, <1>2, <1>3 DEF Half
<1>5. 2^(HalfWord + HalfWord) = 2^HalfWord * 2^HalfWord
  BY <1>1, PowerSum
<1>6. Base = Half * Half
  BY <1>1, <1>5 DEF Base, Half
<1>7. \A h \in Nat : h > 1 => h * h \in Nat /\ h * h > 1
  OBVIOUS
<1> QED BY <1>1, <1>4, <1>6, <1>7

(* The two parts a shift within a word cuts it into. *)
LEMMA ShiftFacts ==
  ASSUME NEW d \in 1 .. WordBits - 1
  PROVE  /\ 2^d \in Nat /\ 2^d > 1 /\ 2^(WordBits - d) \in Nat /\ 2^(WordBits - d) > 1
         /\ 2^d * 2^(WordBits - d) = Base
<1>1. /\ WordBits \in Nat /\ WordBits <= LongestShift /\ LongestShift \in Nat
  BY WordAssumption, WordFacts DEF WordBits
<1>2. ASSUME NEW e \in 1 .. WordBits - 1
      PROVE  2^e \in Nat /\ 2^e > 1
  <2>1. e - 1 \in 0 .. LongestShift /\ (e - 1) + 1 = e
    BY <1>1
  <2>2. 2^((e - 1) + 1) = 2 * 2^(e - 1)
    BY <2>1, ShiftPowers
  <2>3. 2^(e - 1) \in Nat /\ 2^(e - 1) > 0
    BY <2>1, PowerPositive
  <2> QED BY <2>1, <2>2, <2>3
<1>3. /\ WordBits - d \in 1 .. WordBits - 1 /\ d \in Nat /\ WordBits - d \in Nat
      /\ d + (WordBits - d) = WordBits
  BY <1>1
<1>4. 2^(d + (WordBits - d)) = 2^d * 2^(WordBits - d)
  BY <1>1, <1>3, PowerSum
<1> QED BY <1>2, <1>3, <1>4 DEF Base

-----------------------------------------------------------------------------
(* Digits of a number. *)

(* A number below k is its own remainder. *)
LEMMA OwnRemainder ==
  ASSUME NEW k \in Nat, k > 0, NEW r \in 0 .. k - 1
  PROVE  r % k = r /\ r \div k = 0
  OBVIOUS

(* A digit above others: the range of the number. *)
LEMMA DigitRange ==
  ASSUME NEW B \in Nat, B > 0, NEW M \in Nat, NEW x \in 0 .. B - 1, NEW P \in 0 .. M - 1
  PROVE  x + P * B \in 0 .. (M * B) - 1
<1>1. \A a, b \in Nat : a * b \in Nat
  OBVIOUS
<1>2. (M - 1 - P) * B \in Nat /\ P * B \in Nat
  BY <1>1
<1>3. (M - 1 - P) * B = M * B - B - P * B
  OBVIOUS
<1>4. M * B \in Nat
  BY <1>1
<1> QED BY <1>2, <1>3, <1>4

(* The order of two numbers is that of their highest different digits. *)
LEMMA DigitOrder ==
  ASSUME NEW B \in Nat, B > 0, NEW x \in 0 .. B - 1, NEW y \in 0 .. B - 1,
         NEW P \in Int, NEW Q \in Int, P < Q
  PROVE  x + P * B < y + Q * B
<1>1. \A a, b \in Nat : a * b \in Nat
  OBVIOUS
<1>2. (Q - 1 - P) * B \in Nat
  BY <1>1
<1>3. (Q - 1 - P) * B = Q * B - B - P * B /\ Q * B \in Int /\ P * B \in Int
  OBVIOUS
<1> QED BY <1>2, <1>3

-----------------------------------------------------------------------------
(* One word of a sum or a difference; the value of an array. *)

(* What Wrap keeps and what it drops. *)
LEMMA Wrapped ==
  ASSUME NEW n \in Int
  PROVE  /\ Wrap(n) \in OneWord
         /\ n \in OneWord => Wrap(n) = n
         /\ \A k \in Int, r \in OneWord : n = r + k * Base => Wrap(n) = r
<1>1. Base \in Nat /\ Base > 0
  BY WordFacts
<1>2. Wrap(n) \in OneWord
  BY <1>1 DEF Wrap, OneWord
<1>3. n \in OneWord => Wrap(n) = n
  BY <1>1, OwnRemainder DEF Wrap, OneWord
<1>4. ASSUME NEW k \in Int, NEW r \in OneWord, n = r + k * Base
      PROVE  Wrap(n) = r
  <2>1. r \in 0 .. Base - 1 /\ k * Base + r = r + k * Base
    BY <1>1 DEF OneWord
  <2>2. (k * Base + r) % Base = r
    BY <1>1, <2>1, Remainder
  <2> QED BY <1>4, <2>1, <2>2 DEF Wrap
<1> QED BY <1>2, <1>3, <1>4

(* A sum of two words and a carry, wrapped and with its carry out. *)
LEMMA Carried ==
  ASSUME NEW a \in OneWord, NEW b \in OneWord, NEW c \in 0 .. 1
  PROVE  /\ AddCarry(a, b, c) \in 0 .. 1 /\ Wrap(a + b + c) \in OneWord
         /\ (a + b) + c = Wrap(a + b + c) + AddCarry(a, b, c) * Base
<1>1. Base \in Nat /\ Base > 1 /\ a \in 0 .. Base - 1 /\ b \in 0 .. Base - 1
  BY WordFacts DEF OneWord
<1>2. CASE a + b + c < Base
  <2>1. a + b + c \in OneWord
    BY <1>1, <1>2 DEF OneWord
  <2>2. Wrap(a + b + c) = a + b + c
    BY <1>1, <2>1, Wrapped
  <2>3. AddCarry(a, b, c) = 0
    BY <1>1, <2>2 DEF AddCarry, OneIf
  <2> QED BY <1>1, <2>1, <2>2, <2>3
<1>3. CASE a + b + c >= Base
  <2>1. a + b + c - Base \in OneWord /\ a + b + c = (a + b + c - Base) + 1 * Base
    BY <1>1, <1>3 DEF OneWord
  <2>2. Wrap(a + b + c) = a + b + c - Base
    BY <1>1, <2>1, Wrapped
  <2>3. AddCarry(a, b, c) = 1
    BY <1>1, <2>2 DEF AddCarry, OneIf
  <2> QED BY <1>1, <2>1, <2>2, <2>3
<1> QED BY <1>1, <1>2, <1>3

(* Without a carry coming in, either operand tells whether one goes out. *)
LEMMA CarriedOut ==
  ASSUME NEW a \in OneWord, NEW b \in OneWord
  PROVE  /\ Wrap(a + b) \in OneWord
         /\ OneIf(Wrap(a + b) < a) \in 0 .. 1
         /\ a + b = Wrap(a + b) + OneIf(Wrap(a + b) < a) * Base
         /\ OneIf(Wrap(a + b) < b) = OneIf(Wrap(a + b) < a)
<1>1. Base \in Nat /\ Base > 1 /\ a \in 0 .. Base - 1 /\ b \in 0 .. Base - 1
  BY WordFacts DEF OneWord
<1>2. CASE a + b < Base
  <2>1. a + b \in OneWord
    BY <1>1, <1>2 DEF OneWord
  <2>2. Wrap(a + b) = a + b
    BY <1>1, <2>1, Wrapped
  <2>3. OneIf(Wrap(a + b) < a) = 0 /\ OneIf(Wrap(a + b) < b) = 0
    BY <1>1, <2>2 DEF OneIf
  <2> QED BY <1>1, <2>1, <2>2, <2>3
<1>3. CASE a + b >= Base
  <2>1. a + b - Base \in OneWord /\ a + b = (a + b - Base) + 1 * Base
    BY <1>1, <1>3 DEF OneWord
  <2>2. Wrap(a + b) = a + b - Base
    BY <1>1, <2>1, Wrapped
  <2>3. OneIf(Wrap(a + b) < a) = 1 /\ OneIf(Wrap(a + b) < b) = 1
    BY <1>1, <2>2 DEF OneIf
  <2> QED BY <1>1, <2>1, <2>2, <2>3
<1> QED BY <1>1, <1>2, <1>3

(* A difference of two words and a borrow. *)
LEMMA Borrowed ==
  ASSUME NEW a \in OneWord, NEW b \in OneWord, NEW c \in 0 .. 1
  PROVE  /\ SubBorrow(a, b, c) \in 0 .. 1 /\ Wrap(a - b - c) \in OneWord
         /\ (a - b) + (-c) = Wrap(a - b - c) + (-SubBorrow(a, b, c)) * Base
<1>1. Base \in Nat /\ Base > 1 /\ a \in 0 .. Base - 1 /\ b \in 0 .. Base - 1
  BY WordFacts DEF OneWord
<1>2. CASE a - b - c >= 0
  <2>1. a - b - c \in OneWord
    BY <1>1, <1>2 DEF OneWord
  <2>2. Wrap(a - b - c) = a - b - c
    BY <1>1, <2>1, Wrapped
  <2>3. SubBorrow(a, b, c) = 0
    BY <1>1, <1>2 DEF SubBorrow, OneIf
  <2> QED BY <1>1, <2>1, <2>2, <2>3
<1>3. CASE a - b - c < 0
  <2>1. a - b - c + Base \in OneWord /\ a - b - c = (a - b - c + Base) + (-1) * Base
    BY <1>1, <1>3 DEF OneWord
  <2>2. Wrap(a - b - c) = a - b - c + Base
    <3>1. -1 \in Int /\ a - b - c \in Int
      BY <1>1
    <3> QED BY <2>1, <3>1, Wrapped
  <2>3. SubBorrow(a, b, c) = 1
    BY <1>1, <1>3 DEF SubBorrow, OneIf
  <2> QED BY <1>1, <2>1, <2>2, <2>3
<1> QED BY <1>1, <1>2, <1>3

(* The value of an array, digit by digit, and its range. *)
LEMMA ValueDigits ==
  ASSUME NEW w, w[1] \in Int, w[2] \in Int
  PROVE  /\ ArrayValue(2, w) = w[1] + w[2] * Base
         /\ w[3] \in Int => ArrayValue(3, w) = w[1] + (w[2] + w[3] * Base) * Base
         /\ ArrayValue(4, w) = w[1] + (w[2] + (w[3] + w[4] * Base) * Base) * Base
<1>1. Base \in Nat
  BY WordFacts
<1>2. ArrayValue(2, w) = w[1] + (w[2] + (0) * Base) * Base
  BY DEF ArrayValue
<1>3. ArrayValue(3, w) = w[1] + (w[2] + (w[3] + (0)) * Base) * Base
  BY DEF ArrayValue
<1>4. w[2] + (0) * Base = w[2]
  BY <1>1
<1>5. w[3] \in Int => w[3] + 0 = w[3]
  OBVIOUS
<1> QED BY <1>2, <1>3, <1>4, <1>5 DEF ArrayValue

(* The moduli are positive powers of the base. *)
LEMMA ModulusFacts ==
  /\ Base * Base \in Nat /\ Base * Base > 1
  /\ Modulus(3) = Base * Base * Base /\ Modulus(3) \in Nat /\ Modulus(3) > 0
  /\ Modulus(4) = Base * Base * Base * Base /\ Modulus(4) \in Nat /\ Modulus(4) > 0
<1>1. \A x, y \in Nat : x > 1 /\ y > 1 => x * y \in Nat /\ x * y > 1
  <2> TAKE x \in Nat, y \in Nat
  <2> SUFFICES ASSUME x > 1, y > 1 PROVE x * y \in Nat /\ x * y > 1
    OBVIOUS
  <2>1. (x - 1) * (y - 1) \in Nat /\ (x - 1) * (y - 1) = x * y - x - y + 1 /\ x * y \in Nat
    OBVIOUS
  <2> QED BY <2>1
<1>2. Base \in Nat /\ Base > 1
  BY WordFacts
<1>3. Base * Base \in Nat /\ Base * Base > 1
  BY <1>1, <1>2
<1>4. Base * Base * Base \in Nat /\ Base * Base * Base > 1
  BY <1>1, <1>2, <1>3
<1>5. Base * Base * Base * Base \in Nat /\ Base * Base * Base * Base > 1
  BY <1>1, <1>2, <1>4
<1> QED BY <1>3, <1>4, <1>5 DEF Modulus

(* A number of size words lies below its modulus. *)
LEMMA ValueRange ==
  ASSUME NEW size \in 3 .. 4, NEW w, \A i \in 1 .. size : w[i] \in OneWord
  PROVE  ArrayValue(size, w) \in 0 .. Modulus(size) - 1
<1>1. Base \in Nat /\ Base > 0 /\ Base * Base \in Nat /\ Base * Base * Base \in Nat
  BY WordFacts, ModulusFacts
<1>2. w[1] \in 0 .. Base - 1 /\ w[2] \in 0 .. Base - 1 /\ w[3] \in 0 .. Base - 1
  BY DEF OneWord
<1>3. CASE size = 3
  <2>1. w[2] + w[3] * Base \in 0 .. (Base * Base) - 1
    BY <1>1, <1>2, DigitRange
  <2>2. w[1] + (w[2] + w[3] * Base) * Base \in 0 .. (Base * Base * Base) - 1
    BY <1>1, <1>2, <2>1, DigitRange
  <2>3. ArrayValue(3, w) = w[1] + (w[2] + w[3] * Base) * Base
    BY <1>1, <1>2, ValueDigits
  <2> QED BY <1>3, <2>2, <2>3, ModulusFacts
<1>4. CASE size = 4
  <2>0. w[4] \in 0 .. Base - 1
    BY <1>4 DEF OneWord
  <2>1. w[3] + w[4] * Base \in 0 .. (Base * Base) - 1
    BY <1>1, <1>2, <2>0, DigitRange
  <2>2. w[2] + (w[3] + w[4] * Base) * Base \in 0 .. (Base * Base * Base) - 1
    BY <1>1, <1>2, <2>1, DigitRange
  <2>3. w[1] + (w[2] + (w[3] + w[4] * Base) * Base) * Base \in 0 .. (Base * Base * Base * Base) - 1
    BY <1>1, <1>2, <2>2, DigitRange
  <2>4. ArrayValue(4, w) = w[1] + (w[2] + (w[3] + w[4] * Base) * Base) * Base
    BY <1>1, <1>2, ValueDigits
  <2> QED BY <1>4, <2>3, <2>4, ModulusFacts
<1> QED BY <1>3, <1>4

(* Two words are two digits. *)
LEMMA NumberFacts ==
  ASSUME NEW w, w[1] \in OneWord, w[2] \in OneWord
  PROVE  /\ Number(w) = w[2] + w[1] * Base
         /\ Number(w) \in 0 .. (Base * Base) - 1
<1>1. Base \in Nat /\ Base > 0 /\ w[1] \in 0 .. Base - 1 /\ w[2] \in 0 .. Base - 1
  BY WordFacts DEF OneWord
<1>2. w[2] + w[1] * Base \in 0 .. (Base * Base) - 1
  BY <1>1, DigitRange
<1> QED BY <1>1, <1>2 DEF Number

-----------------------------------------------------------------------------
(* The carries, borrows and products of the loops. *)

(* Words and their sums: the fixed points of the recursive definitions. *)
LEMMA CarriesFacts ==
  ASSUME NEW size \in 3 .. 4, NEW a, NEW b, NEW carry
  PROVE  LET c == Carries(size, a, b, carry)
         IN  /\ c[1] = carry
             /\ \A i \in 1 .. size : c[i + 1] = AddCarry(a[i], b[i], c[i])
<1> DEFINE c2 == AddCarry(a[1], b[1], carry)
           c3 == AddCarry(a[2], b[2], c2)
           c4 == AddCarry(a[3], b[3], c3)
           c5 == AddCarry(a[4], b[4], c4)
           g == [i \in 1 .. size + 1 |->
                   IF i = 1 THEN carry ELSE IF i = 2 THEN c2 ELSE IF i = 3 THEN c3
                   ELSE IF i = 4 THEN c4 ELSE c5]
           Is(c) == c = [i \in 1 .. size + 1 |->
                           IF i = 1 THEN carry ELSE AddCarry(a[i - 1], b[i - 1], c[i - 1])]
<1>1. Is(g)
  <2>1. ASSUME NEW i \in 1 .. size + 1
        PROVE  g[i] = IF i = 1 THEN carry ELSE AddCarry(a[i - 1], b[i - 1], g[i - 1])
    <3>1. i \in 1 .. 5
      OBVIOUS
    <3>2. CASE i = 1
      BY <3>2
    <3>3. CASE i = 2
      BY <3>3
    <3>4. CASE i = 3
      BY <3>4
    <3>5. CASE i = 4
      BY <3>5
    <3>6. CASE i = 5
      BY <3>6
    <3> QED BY <3>1, <3>2, <3>3, <3>4, <3>5, <3>6
  <2> HIDE DEF c2, c3, c4, c5
  <2> QED BY <2>1
<1> HIDE DEF g
<1>2. Is(Carries(size, a, b, carry))
  BY <1>1 DEF Carries
<1> DEFINE c == Carries(size, a, b, carry)
<1> HIDE DEF c
<1>3. Is(c)
  BY <1>2 DEF c
<1>4. c[1] = carry
  BY <1>3
<1>5. ASSUME NEW i \in 1 .. size PROVE c[i + 1] = AddCarry(a[i], b[i], c[i])
  <2>1. i + 1 \in 1 .. size + 1 /\ i + 1 # 1 /\ (i + 1) - 1 = i
    OBVIOUS
  <2> QED BY <1>3, <2>1
<1> QED BY <1>4, <1>5 DEF c

(* The borrows of a difference, from the lowest word up. *)
LEMMA BorrowsFacts ==
  ASSUME NEW size \in 3 .. 4, NEW a, NEW b
  PROVE  LET c == Borrows(size, a, b)
         IN  /\ c[1] = 0
             /\ \A i \in 1 .. size : c[i + 1] = SubBorrow(a[i], b[i], c[i])
<1> DEFINE c2 == SubBorrow(a[1], b[1], 0)
           c3 == SubBorrow(a[2], b[2], c2)
           c4 == SubBorrow(a[3], b[3], c3)
           c5 == SubBorrow(a[4], b[4], c4)
           g == [i \in 1 .. size + 1 |->
                   IF i = 1 THEN 0 ELSE IF i = 2 THEN c2 ELSE IF i = 3 THEN c3
                   ELSE IF i = 4 THEN c4 ELSE c5]
           Is(c) == c = [i \in 1 .. size + 1 |->
                           IF i = 1 THEN 0 ELSE SubBorrow(a[i - 1], b[i - 1], c[i - 1])]
<1>1. Is(g)
  <2>1. ASSUME NEW i \in 1 .. size + 1
        PROVE  g[i] = IF i = 1 THEN 0 ELSE SubBorrow(a[i - 1], b[i - 1], g[i - 1])
    <3>1. i \in 1 .. 5
      OBVIOUS
    <3>2. CASE i = 1
      BY <3>2
    <3>3. CASE i = 2
      BY <3>3
    <3>4. CASE i = 3
      BY <3>4
    <3>5. CASE i = 4
      BY <3>5
    <3>6. CASE i = 5
      BY <3>6
    <3> QED BY <3>1, <3>2, <3>3, <3>4, <3>5, <3>6
  <2> HIDE DEF c2, c3, c4, c5
  <2> QED BY <2>1
<1> HIDE DEF g
<1>2. Is(Borrows(size, a, b))
  BY <1>1 DEF Borrows
<1> DEFINE c == Borrows(size, a, b)
<1> HIDE DEF c
<1>3. Is(c)
  BY <1>2 DEF c
<1>4. c[1] = 0
  BY <1>3
<1>5. ASSUME NEW i \in 1 .. size PROVE c[i + 1] = SubBorrow(a[i], b[i], c[i])
  <2>1. i + 1 \in 1 .. size + 1 /\ i + 1 # 1 /\ (i + 1) - 1 = i
    OBVIOUS
  <2> QED BY <1>3, <2>1
<1> QED BY <1>4, <1>5 DEF c

(* The products of WordProducts, from the lowest word up. *)
LEMMA ProductsFacts ==
  ASSUME NEW size \in 3 .. 4, NEW a, NEW w
  PROVE  LET p == WordProducts(size, a, w)
         IN  /\ p[1] = a[1] * w + 0
             /\ \A i \in 1 .. size - 1 : p[i + 1] = a[i + 1] * w + p[i] \div Base
<1> DEFINE p1 == a[1] * w + 0
           p2 == a[2] * w + p1 \div Base
           p3 == a[3] * w + p2 \div Base
           p4 == a[4] * w + p3 \div Base
           g == [i \in 1 .. size |->
                   IF i = 1 THEN p1 ELSE IF i = 2 THEN p2 ELSE IF i = 3 THEN p3 ELSE p4]
           Is(p) == p = [i \in 1 .. size |-> a[i] * w + (IF i = 1 THEN 0 ELSE p[i - 1] \div Base)]
<1>1. Is(g)
  <2>1. ASSUME NEW i \in 1 .. size
        PROVE  g[i] = a[i] * w + (IF i = 1 THEN 0 ELSE g[i - 1] \div Base)
    <3> HIDE DEF p1, p2, p3, p4
    <3>1. i \in 1 .. 4
      OBVIOUS
    <3>2. CASE i = 1
      BY <3>2 DEF p1
    <3>3. CASE i = 2
      BY <3>3 DEF p2
    <3>4. CASE i = 3
      BY <3>4 DEF p3
    <3>5. CASE i = 4
      BY <3>5 DEF p4
    <3> QED BY <3>1, <3>2, <3>3, <3>4, <3>5
  <2> HIDE DEF p1, p2, p3, p4
  <2> QED BY <2>1
<1> HIDE DEF g
<1>2. Is(WordProducts(size, a, w))
  BY <1>1 DEF WordProducts
<1> DEFINE p == WordProducts(size, a, w)
<1> HIDE DEF p
<1>3. Is(p)
  BY <1>2 DEF p
<1>4. p[1] = a[1] * w + 0
  BY <1>3
<1>5. ASSUME NEW i \in 1 .. size - 1 PROVE p[i + 1] = a[i + 1] * w + p[i] \div Base
  <2>1. i + 1 \in 1 .. size /\ i + 1 # 1 /\ (i + 1) - 1 = i
    OBVIOUS
  <2> QED BY <1>3, <2>1
<1> QED BY <1>4, <1>5 DEF p

-----------------------------------------------------------------------------
(* From the digits to the number. *)

(* A number of size words. *)
Words(size, w) == \A i \in 1 .. size : w[i] \in OneWord

(* From the sums of the digits to the sum of the numbers. *)
LEMMA Summed ==
  ASSUME NEW size \in 3 .. 4, NEW x, NEW c, NEW z,
         \A i \in 1 .. size : x[i] \in Int /\ z[i] \in Int,
         \A i \in 1 .. size + 1 : c[i] \in Int,
         \A i \in 1 .. size : x[i] + c[i] = z[i] + c[i + 1] * Base
  PROVE  ArrayValue(size, x) + c[1] = ArrayValue(size, z) + c[size + 1] * Modulus(size)
<1>1. PICK B \in Nat : B = Base
  BY WordFacts
<1>2. PICK x1 \in Int, x2 \in Int, x3 \in Int : x1 = x[1] /\ x2 = x[2] /\ x3 = x[3]
  OBVIOUS
<1>3. PICK z1 \in Int, z2 \in Int, z3 \in Int : z1 = z[1] /\ z2 = z[2] /\ z3 = z[3]
  OBVIOUS
<1>4. PICK c1 \in Int, c2 \in Int, c3 \in Int, c4 \in Int :
        c1 = c[1] /\ c2 = c[2] /\ c3 = c[3] /\ c4 = c[4]
  OBVIOUS
<1>5. x1 + c1 = z1 + c2 * B /\ x2 + c2 = z2 + c3 * B /\ x3 + c3 = z3 + c4 * B
  <2>1. 1 + 1 = 2 /\ 2 + 1 = 3 /\ 3 + 1 = 4 /\ 1 \in 1 .. size /\ 2 \in 1 .. size /\ 3 \in 1 .. size
    OBVIOUS
  <2> QED BY <1>1, <1>2, <1>3, <1>4, <2>1
<1>6. CASE size = 3
  <2>1. ArrayValue(3, x) = x1 + (x2 + x3 * B) * B
    BY <1>1, <1>2, ValueDigits
  <2>2. ArrayValue(3, z) = z1 + (z2 + z3 * B) * B
    BY <1>1, <1>3, ValueDigits
  <2>3. (x2 + x3 * B) + c2 = (z2 + z3 * B) + c4 * (B * B)
    BY <1>5
  <2>4. (x1 + (x2 + x3 * B) * B) + c1 = (z1 + (z2 + z3 * B) * B) + c4 * (B * B * B)
    BY <1>5, <2>3
  <2>5. size + 1 = 4 /\ Modulus(size) = B * B * B
    BY <1>1, <1>6, ModulusFacts
  <2> QED BY <1>4, <1>6, <2>1, <2>2, <2>4, <2>5
<1>7. CASE size = 4
  <2>0. PICK x4 \in Int, z4 \in Int, c5 \in Int : x4 = x[4] /\ z4 = z[4] /\ c5 = c[5]
    BY <1>7
  <2>1. x4 + c4 = z4 + c5 * B
    <3>1. 4 + 1 = 5 /\ 4 \in 1 .. size
      BY <1>7
    <3> QED BY <1>1, <1>4, <2>0, <3>1
  <2>2. ArrayValue(4, x) = x1 + (x2 + (x3 + x4 * B) * B) * B
    BY <1>1, <1>2, <2>0, ValueDigits
  <2>3. ArrayValue(4, z) = z1 + (z2 + (z3 + z4 * B) * B) * B
    BY <1>1, <1>3, <2>0, ValueDigits
  <2>4. (x3 + x4 * B) + c3 = (z3 + z4 * B) + c5 * (B * B)
    BY <1>5, <2>1
  <2>5. (x2 + (x3 + x4 * B) * B) + c2 = (z2 + (z3 + z4 * B) * B) + c5 * (B * B * B)
    BY <1>5, <2>4
  <2>6. (x1 + (x2 + (x3 + x4 * B) * B) * B) + c1
          = (z1 + (z2 + (z3 + z4 * B) * B) * B) + c5 * (B * B * B * B)
    BY <1>5, <2>5
  <2>7. size + 1 = 5 /\ Modulus(size) = B * B * B * B
    BY <1>1, <1>7, ModulusFacts
  <2> QED BY <1>4, <1>7, <2>0, <2>2, <2>3, <2>6, <2>7
<1> QED BY <1>6, <1>7

(* The value is an integer and linear in the words. *)
LEMMA ValueInt ==
  ASSUME NEW size \in 3 .. 4, NEW a, \A i \in 1 .. size : a[i] \in Int
  PROVE  ArrayValue(size, a) \in Int
<1>1. Base \in Nat /\ a[1] \in Int /\ a[2] \in Int /\ a[3] \in Int
  BY WordFacts
<1>2. CASE size = 3
  <2>1. ArrayValue(3, a) = a[1] + (a[2] + a[3] * Base) * Base
    BY <1>1, ValueDigits
  <2> QED BY <1>1, <1>2, <2>1
<1>3. CASE size = 4
  <2>1. ArrayValue(4, a) = a[1] + (a[2] + (a[3] + a[4] * Base) * Base) * Base
    BY <1>1, ValueDigits
  <2> QED BY <1>1, <1>3, <2>1
<1> QED BY <1>2, <1>3

(* The value of a sum of words. *)
LEMMA ValueSum ==
  ASSUME NEW size \in 3 .. 4, NEW a, NEW b, \A i \in 1 .. size : a[i] \in Int /\ b[i] \in Int
  PROVE  ArrayValue(size, [i \in 1 .. size |-> a[i] + b[i]])
           = ArrayValue(size, a) + ArrayValue(size, b)
<1> DEFINE s == [i \in 1 .. size |-> a[i] + b[i]]
<1>1. /\ Base \in Nat /\ a[1] \in Int /\ a[2] \in Int /\ a[3] \in Int /\ b[1] \in Int /\ b[2] \in Int /\ b[3] \in Int
      /\ s[1] = a[1] + b[1] /\ s[2] = a[2] + b[2] /\ s[3] = a[3] + b[3]
  BY WordFacts
<1> SUFFICES ArrayValue(size, s) = ArrayValue(size, a) + ArrayValue(size, b)
  OBVIOUS
<1>2. CASE size = 3
  <2> HIDE DEF s
  <2>1. s[1] \in Int /\ s[2] \in Int /\ s[3] \in Int
    BY <1>1
  <2>2. /\ ArrayValue(3, s) = s[1] + (s[2] + s[3] * Base) * Base
        /\ ArrayValue(3, a) = a[1] + (a[2] + a[3] * Base) * Base
        /\ ArrayValue(3, b) = b[1] + (b[2] + b[3] * Base) * Base
    BY <1>1, <2>1, ValueDigits
  <2>3. ArrayValue(3, s) = ArrayValue(3, a) + ArrayValue(3, b)
    BY <1>1, <2>2
  <2> QED BY <1>2, <2>3
<1>3. CASE size = 4
  <2>0. s[4] = a[4] + b[4] /\ a[4] \in Int /\ b[4] \in Int
    BY <1>3
  <2> HIDE DEF s
  <2>1. s[1] \in Int /\ s[2] \in Int
    BY <1>1
  <2>2. /\ ArrayValue(4, s) = s[1] + (s[2] + (s[3] + s[4] * Base) * Base) * Base
        /\ ArrayValue(4, a) = a[1] + (a[2] + (a[3] + a[4] * Base) * Base) * Base
        /\ ArrayValue(4, b) = b[1] + (b[2] + (b[3] + b[4] * Base) * Base) * Base
    BY <1>1, <2>1, ValueDigits
  <2>3. ArrayValue(4, s) = ArrayValue(4, a) + ArrayValue(4, b)
    BY <1>1, <2>0, <2>2
  <2> QED BY <1>3, <2>3
<1> QED BY <1>2, <1>3

(* The value of a difference of words. *)
LEMMA ValueDifference ==
  ASSUME NEW size \in 3 .. 4, NEW a, NEW b, \A i \in 1 .. size : a[i] \in Int /\ b[i] \in Int
  PROVE  ArrayValue(size, [i \in 1 .. size |-> a[i] - b[i]])
           = ArrayValue(size, a) - ArrayValue(size, b)
<1> DEFINE s == [i \in 1 .. size |-> a[i] - b[i]]
<1>1. /\ Base \in Nat /\ a[1] \in Int /\ a[2] \in Int /\ a[3] \in Int /\ b[1] \in Int /\ b[2] \in Int /\ b[3] \in Int
      /\ s[1] = a[1] - b[1] /\ s[2] = a[2] - b[2] /\ s[3] = a[3] - b[3]
  BY WordFacts
<1> SUFFICES ArrayValue(size, s) = ArrayValue(size, a) - ArrayValue(size, b)
  OBVIOUS
<1>2. CASE size = 3
  <2> HIDE DEF s
  <2>1. s[1] \in Int /\ s[2] \in Int /\ s[3] \in Int
    BY <1>1
  <2>2. /\ ArrayValue(3, s) = s[1] + (s[2] + s[3] * Base) * Base
        /\ ArrayValue(3, a) = a[1] + (a[2] + a[3] * Base) * Base
        /\ ArrayValue(3, b) = b[1] + (b[2] + b[3] * Base) * Base
    BY <1>1, <2>1, ValueDigits
  <2>3. ArrayValue(3, s) = ArrayValue(3, a) - ArrayValue(3, b)
    BY <1>1, <2>2
  <2> QED BY <1>2, <2>3
<1>3. CASE size = 4
  <2>0. s[4] = a[4] - b[4] /\ a[4] \in Int /\ b[4] \in Int
    BY <1>3
  <2> HIDE DEF s
  <2>1. s[1] \in Int /\ s[2] \in Int
    BY <1>1
  <2>2. /\ ArrayValue(4, s) = s[1] + (s[2] + (s[3] + s[4] * Base) * Base) * Base
        /\ ArrayValue(4, a) = a[1] + (a[2] + (a[3] + a[4] * Base) * Base) * Base
        /\ ArrayValue(4, b) = b[1] + (b[2] + (b[3] + b[4] * Base) * Base) * Base
    BY <1>1, <2>1, ValueDigits
  <2>3. ArrayValue(4, s) = ArrayValue(4, a) - ArrayValue(4, b)
    BY <1>1, <2>0, <2>2
  <2> QED BY <1>3, <2>3
<1> QED BY <1>2, <1>3

(* The value of words scaled by a factor. *)
LEMMA ValueScaled ==
  ASSUME NEW size \in 3 .. 4, NEW a, NEW k \in Int, \A i \in 1 .. size : a[i] \in Int
  PROVE  ArrayValue(size, [i \in 1 .. size |-> a[i] * k])
           = ArrayValue(size, a) * k
<1> DEFINE s == [i \in 1 .. size |-> a[i] * k]
<1>1. /\ Base \in Nat /\ a[1] \in Int /\ a[2] \in Int /\ a[3] \in Int
      /\ s[1] = a[1] * k /\ s[2] = a[2] * k /\ s[3] = a[3] * k
  BY WordFacts
<1> SUFFICES ArrayValue(size, s) = ArrayValue(size, a) * k
  OBVIOUS
<1>2. CASE size = 3
  <2> HIDE DEF s
  <2>1. s[1] \in Int /\ s[2] \in Int /\ s[3] \in Int
    BY <1>1
  <2>2. /\ ArrayValue(3, s) = s[1] + (s[2] + s[3] * Base) * Base
        /\ ArrayValue(3, a) = a[1] + (a[2] + a[3] * Base) * Base
    BY <1>1, <2>1, ValueDigits
  <2>3. ArrayValue(3, s) = ArrayValue(3, a) * k
    BY <1>1, <2>2
  <2> QED BY <1>2, <2>3
<1>3. CASE size = 4
  <2>0. s[4] = a[4] * k /\ a[4] \in Int
    BY <1>3
  <2> HIDE DEF s
  <2>1. s[1] \in Int /\ s[2] \in Int
    BY <1>1
  <2>2. /\ ArrayValue(4, s) = s[1] + (s[2] + (s[3] + s[4] * Base) * Base) * Base
        /\ ArrayValue(4, a) = a[1] + (a[2] + (a[3] + a[4] * Base) * Base) * Base
    BY <1>1, <2>1, ValueDigits
  <2>3. ArrayValue(4, s) = ArrayValue(4, a) * k
    BY <1>1, <2>0, <2>2
  <2> QED BY <1>3, <2>3
<1> QED BY <1>2, <1>3

(* A result in range is the remainder by the modulus. *)
LEMMA ValueIs ==
  ASSUME NEW size \in 3 .. 4, NEW z, Words(size, z), NEW n \in Int, NEW m \in Int,
         n = ArrayValue(size, z) + m * Modulus(size)
  PROVE  ArrayValue(size, z) = n % Modulus(size)
<1>1. Modulus(size) \in Nat /\ Modulus(size) > 0
  <2>1. size = 3 \/ size = 4
    OBVIOUS
  <2> QED BY <2>1, ModulusFacts
<1>2. ArrayValue(size, z) \in 0 .. Modulus(size) - 1
  BY ValueRange DEF Words
<1>3. (m * Modulus(size) + ArrayValue(size, z)) % Modulus(size) = ArrayValue(size, z)
  BY <1>1, <1>2, Remainder
<1>4. n = m * Modulus(size) + ArrayValue(size, z)
  BY <1>1, <1>2
<1> QED BY <1>3, <1>4

-----------------------------------------------------------------------------
(* Sums and differences. *)

(* addCarryM: every word and the carry out are right. *)
LEMMA AddCarryMExact ==
  ASSUME NEW size \in 3 .. 4, NEW a, NEW b, Words(size, a), Words(size, b), NEW carry \in 0 .. 1
  PROVE  LET r == softfloat_addCarryM(size, a, b, carry)
         IN  /\ r.carry \in 0 .. 1 /\ Words(size, r.z)
             /\ ArrayValue(size, r.z) + r.carry * Modulus(size)
                  = ArrayValue(size, a) + ArrayValue(size, b) + carry
<1> DEFINE c == Carries(size, a, b, carry)
           z == [i \in 1 .. size |-> Wrap(a[i] + b[i] + c[i])]
           x == [i \in 1 .. size |-> a[i] + b[i]]
<1>0. softfloat_addCarryM(size, a, b, carry) = [z |-> z, carry |-> c[size + 1]]
  BY DEF softfloat_addCarryM
<1> HIDE DEF c
<1>1. c[1] = carry /\ \A i \in 1 .. size : c[i + 1] = AddCarry(a[i], b[i], c[i])
  BY CarriesFacts DEF c
<1>2. \A i \in 1 .. size : a[i] \in OneWord /\ b[i] \in OneWord /\ a[i] \in Int /\ b[i] \in Int
  BY WordFacts DEF Words, OneWord
<1>3. \A i \in 1 .. size + 1 : c[i] \in 0 .. 1
  <2>1. c[1] \in 0 .. 1
    BY <1>1
  <2>2. \A i \in 1 .. size : c[i] \in 0 .. 1 => c[i + 1] \in 0 .. 1
    BY <1>1, <1>2, Carried
  <2>3. c[2] \in 0 .. 1
    <3>1. 1 \in 1 .. size /\ 1 + 1 = 2
      OBVIOUS
    <3> QED BY <2>1, <2>2, <3>1
  <2>4. c[3] \in 0 .. 1
    <3>1. 2 \in 1 .. size /\ 2 + 1 = 3
      OBVIOUS
    <3> QED BY <2>2, <2>3, <3>1
  <2>5. c[4] \in 0 .. 1
    <3>1. 3 \in 1 .. size /\ 3 + 1 = 4
      OBVIOUS
    <3> QED BY <2>2, <2>4, <3>1
  <2>6. size = 4 => c[5] \in 0 .. 1
    <3>1. size = 4 => 4 \in 1 .. size /\ 4 + 1 = 5
      OBVIOUS
    <3> QED BY <2>2, <2>5, <3>1
  <2> QED BY <2>1, <2>3, <2>4, <2>5, <2>6
<1>4. \A i \in 1 .. size : /\ z[i] \in OneWord
                           /\ x[i] + c[i] = z[i] + c[i + 1] * Base
  <2> TAKE i \in 1 .. size
  <2>1. a[i] \in OneWord /\ b[i] \in OneWord /\ c[i] \in 0 .. 1
    BY <1>2, <1>3
  <2>2. /\ Wrap(a[i] + b[i] + c[i]) \in OneWord
        /\ (a[i] + b[i]) + c[i] = Wrap(a[i] + b[i] + c[i]) + AddCarry(a[i], b[i], c[i]) * Base
    BY <2>1, Carried
  <2> QED BY <1>1, <2>2
<1>5. /\ \A i \in 1 .. size : x[i] \in Int /\ z[i] \in Int
      /\ \A i \in 1 .. size + 1 : c[i] \in Int
  BY <1>2, <1>3, <1>4, WordFacts DEF OneWord
<1>6. Words(size, z)
  BY <1>4 DEF Words
<1>7. ArrayValue(size, x) = ArrayValue(size, a) + ArrayValue(size, b)
  BY <1>2, ValueSum
<1> HIDE DEF x, z
<1>8. ArrayValue(size, x) + c[1] = ArrayValue(size, z) + c[size + 1] * Modulus(size)
  BY <1>4, <1>5, Summed
<1>9. c[size + 1] \in 0 .. 1
  BY <1>3
<1> QED BY <1>0, <1>1, <1>6, <1>7, <1>8, <1>9

(* subM: a difference modulo the size. *)
LEMMA SubMExact ==
  ASSUME NEW size \in 3 .. 4, NEW a, NEW b, Words(size, a), Words(size, b)
  PROVE  /\ Words(size, softfloat_subM(size, a, b))
         /\ \E m \in 0 .. 1 : ArrayValue(size, a) - ArrayValue(size, b)
                                = ArrayValue(size, softfloat_subM(size, a, b)) + (-m) * Modulus(size)
<1> DEFINE c == Borrows(size, a, b)
           z == [i \in 1 .. size |-> Wrap(a[i] - b[i] - c[i])]
           x == [i \in 1 .. size |-> a[i] - b[i]]
           n == [i \in 1 .. size + 1 |-> -c[i]]
<1>0. softfloat_subM(size, a, b) = z
  BY DEF softfloat_subM
<1> HIDE DEF c
<1>1. c[1] = 0 /\ \A i \in 1 .. size : c[i + 1] = SubBorrow(a[i], b[i], c[i])
  BY BorrowsFacts DEF c
<1>2. \A i \in 1 .. size : a[i] \in OneWord /\ b[i] \in OneWord /\ a[i] \in Int /\ b[i] \in Int
  BY WordFacts DEF Words, OneWord
<1>3. \A i \in 1 .. size + 1 : c[i] \in 0 .. 1
  <2>1. c[1] \in 0 .. 1
    BY <1>1
  <2>2. \A i \in 1 .. size : c[i] \in 0 .. 1 => c[i + 1] \in 0 .. 1
    BY <1>1, <1>2, Borrowed
  <2>3. c[2] \in 0 .. 1
    <3>1. 1 \in 1 .. size /\ 1 + 1 = 2
      OBVIOUS
    <3> QED BY <2>1, <2>2, <3>1
  <2>4. c[3] \in 0 .. 1
    <3>1. 2 \in 1 .. size /\ 2 + 1 = 3
      OBVIOUS
    <3> QED BY <2>2, <2>3, <3>1
  <2>5. c[4] \in 0 .. 1
    <3>1. 3 \in 1 .. size /\ 3 + 1 = 4
      OBVIOUS
    <3> QED BY <2>2, <2>4, <3>1
  <2>6. size = 4 => c[5] \in 0 .. 1
    <3>1. size = 4 => 4 \in 1 .. size /\ 4 + 1 = 5
      OBVIOUS
    <3> QED BY <2>2, <2>5, <3>1
  <2> QED BY <2>1, <2>3, <2>4, <2>5, <2>6
<1>4. \A i \in 1 .. size : /\ z[i] \in OneWord
                           /\ x[i] + n[i] = z[i] + n[i + 1] * Base
  <2> TAKE i \in 1 .. size
  <2>1. a[i] \in OneWord /\ b[i] \in OneWord /\ c[i] \in 0 .. 1 /\ i + 1 \in 1 .. size + 1
    BY <1>2, <1>3
  <2>2. /\ Wrap(a[i] - b[i] - c[i]) \in OneWord
        /\ (a[i] - b[i]) + (-c[i]) = Wrap(a[i] - b[i] - c[i]) + (-SubBorrow(a[i], b[i], c[i])) * Base
    BY <2>1, Borrowed
  <2>3. n[i] = -c[i] /\ n[i + 1] = -SubBorrow(a[i], b[i], c[i])
    BY <1>1, <2>1
  <2> QED BY <2>2, <2>3
<1>5. /\ \A i \in 1 .. size : x[i] \in Int /\ z[i] \in Int
      /\ \A i \in 1 .. size + 1 : n[i] \in Int
  <2>1. \A i \in 1 .. size : x[i] \in Int
    BY <1>2
  <2>2. \A i \in 1 .. size : z[i] \in Int
    <3>1. OneWord \subseteq Int
      BY WordFacts DEF OneWord
    <3>2. \A i \in 1 .. size : z[i] \in OneWord
      BY <1>4
    <3> HIDE DEF z
    <3> QED BY <3>1, <3>2
  <2>3. \A i \in 1 .. size + 1 : n[i] \in Int
    BY <1>3
  <2> QED BY <2>1, <2>2, <2>3
<1>6. Words(size, z)
  BY <1>4 DEF Words
<1>7. ArrayValue(size, x) = ArrayValue(size, a) - ArrayValue(size, b) 
  BY <1>2, ValueDifference
<1>8. ArrayValue(size, a) \in Int /\ ArrayValue(size, b) \in Int
  BY <1>2, ValueInt
<1>9. n[1] = 0 /\ n[size + 1] = -c[size + 1] /\ c[size + 1] \in 0 .. 1
  BY <1>1, <1>3
<1> HIDE DEF x, z, n
<1>10. ArrayValue(size, x) + n[1] = ArrayValue(size, z) + n[size + 1] * Modulus(size)
  BY <1>4, <1>5, Summed
<1>11. ArrayValue(size, a) - ArrayValue(size, b)
         = ArrayValue(size, z) + (-c[size + 1]) * Modulus(size)
  BY <1>7, <1>8, <1>9, <1>10
<1> QED BY <1>0, <1>6, <1>9, <1>11

(* addM and subM, and their versions for four words. *)
LEMMA AddMExact ==
  ASSUME NEW size \in 3 .. 4, NEW a, NEW b, Words(size, a), Words(size, b)
  PROVE  /\ ArrayValue(size, softfloat_addM(size, a, b))
              = (ArrayValue(size, a) + ArrayValue(size, b)) % Modulus(size)
         /\ ArrayValue(size, softfloat_subM(size, a, b))
              = (ArrayValue(size, a) - ArrayValue(size, b)) % Modulus(size)
<1>1. \A i \in 1 .. size : a[i] \in Int /\ b[i] \in Int
  BY WordFacts DEF Words, OneWord
<1>2. ArrayValue(size, a) \in Int /\ ArrayValue(size, b) \in Int
  BY <1>1, ValueInt
<1>3. ArrayValue(size, softfloat_addM(size, a, b))
        = (ArrayValue(size, a) + ArrayValue(size, b)) % Modulus(size)
  <2> DEFINE r == softfloat_addCarryM(size, a, b, 0)
  <2>1. /\ r.carry \in 0 .. 1 /\ Words(size, r.z)
        /\ ArrayValue(size, r.z) + r.carry * Modulus(size)
             = ArrayValue(size, a) + ArrayValue(size, b) + 0
    BY AddCarryMExact
  <2>2. softfloat_addM(size, a, b) = r.z
    BY DEF softfloat_addM
  <2> HIDE DEF r
  <2>3. /\ r.carry \in Int /\ ArrayValue(size, a) + ArrayValue(size, b) \in Int
        /\ ArrayValue(size, a) + ArrayValue(size, b) + 0
             = ArrayValue(size, a) + ArrayValue(size, b)
    BY <1>2, <2>1
  <2> QED BY <2>1, <2>2, <2>3, ValueIs
<1>4. ArrayValue(size, softfloat_subM(size, a, b))
        = (ArrayValue(size, a) - ArrayValue(size, b)) % Modulus(size)
  <2> DEFINE z == softfloat_subM(size, a, b)
  <2>1. Words(size, z)
    BY SubMExact
  <2>2. PICK m \in 0 .. 1 : ArrayValue(size, a) - ArrayValue(size, b)
                              = ArrayValue(size, z) + (-m) * Modulus(size)
    BY SubMExact
  <2> HIDE DEF z
  <2>3. -m \in Int /\ ArrayValue(size, a) - ArrayValue(size, b) \in Int
    BY <1>2
  <2>4. ArrayValue(size, z) = (ArrayValue(size, a) - ArrayValue(size, b)) % Modulus(size)
    BY <2>1, <2>2, <2>3, ValueIs
  <2> QED BY <2>4 DEF z
<1> QED BY <1>3, <1>4

(* add256M and sub256M, modulo four words. *)
LEMMA Add256MExact ==
  ASSUME NEW a, NEW b, Words(4, a), Words(4, b)
  PROVE  /\ ArrayValue(4, softfloat_add256M(a, b))
              = (ArrayValue(4, a) + ArrayValue(4, b)) % Modulus(4)
         /\ ArrayValue(4, softfloat_sub256M(a, b))
              = (ArrayValue(4, a) - ArrayValue(4, b)) % Modulus(4)
<1>1. softfloat_add256M(a, b) = softfloat_addM(4, a, b)
  BY DEF softfloat_add256M, softfloat_addM, softfloat_addCarryM
<1>2. softfloat_sub256M(a, b) = softfloat_subM(4, a, b)
  BY DEF softfloat_sub256M, softfloat_subM
<1>3. 4 \in 3 .. 4
  OBVIOUS
<1> QED BY <1>1, <1>2, <1>3, AddMExact

-----------------------------------------------------------------------------
(* Comparison and complement. *)

(* The comparison looks at the highest words that differ. *)
LEMMA CompareAt ==
  ASSUME NEW size \in 3 .. 4, NEW a, NEW b, NEW t \in 1 .. size,
         a[t] # b[t], \A j \in 1 .. size : j > t => a[j] = b[j]
  PROVE  CompareM(size, a, b) = IF a[t] < b[t] THEN -1 ELSE 1
<1> DEFINE differ == {i \in 1 .. size : a[i] # b[i]}
           hi == CHOOSE i \in differ : \A j \in differ : j <= i
<1>1. t \in differ /\ \A j \in differ : j <= t
  OBVIOUS
<1>2. hi \in differ /\ \A j \in differ : j <= hi
  BY <1>1
<1>3. hi = t
  <2> HIDE DEF hi
  <2> QED BY <1>1, <1>2
<1>4. CompareM(size, a, b) = IF differ = {} THEN 0 ELSE IF a[hi] < b[hi] THEN -1 ELSE 1
  BY DEF CompareM
<1> HIDE DEF hi
<1> QED BY <1>1, <1>3, <1>4

(* Equal words compare as equal. *)
LEMMA CompareSame ==
  ASSUME NEW size \in 3 .. 4, NEW a, NEW b, \A j \in 1 .. size : a[j] = b[j]
  PROVE  CompareM(size, a, b) = 0
<1>1. {i \in 1 .. size : a[i] # b[i]} = {}
  OBVIOUS
<1> QED BY <1>1 DEF CompareM

(* compareM gives the order of the numbers. *)
LEMMA CompareExact ==
  ASSUME NEW size \in 3 .. 4, NEW a, NEW b, Words(size, a), Words(size, b)
  PROVE  CompareM(size, a, b)
           = IF ArrayValue(size, a) < ArrayValue(size, b) THEN -1
             ELSE IF ArrayValue(size, a) = ArrayValue(size, b) THEN 0 ELSE 1
<1>1. PICK B \in Nat : B = Base /\ B > 0
  BY WordFacts
<1>2. PICK a1 \in 0 .. B - 1, a2 \in 0 .. B - 1, a3 \in 0 .. B - 1 :
        a1 = a[1] /\ a2 = a[2] /\ a3 = a[3]
  BY <1>1 DEF Words, OneWord
<1>3. PICK b1 \in 0 .. B - 1, b2 \in 0 .. B - 1, b3 \in 0 .. B - 1 :
        b1 = b[1] /\ b2 = b[2] /\ b3 = b[3]
  BY <1>1 DEF Words, OneWord
<1>4. \A x, y \in 0 .. B - 1 : \A P, Q \in Int : P < Q => x + P * B < y + Q * B
  BY <1>1, DigitOrder
<1>5. PICK a4 \in 0 .. B - 1, b4 \in 0 .. B - 1 :
        IF size = 4 THEN a4 = a[4] /\ b4 = b[4] ELSE a4 = 0 /\ b4 = 0
  <2>1. CASE size = 4
    BY <1>1, <2>1 DEF Words, OneWord
  <2>2. CASE size # 4
    BY <1>1, <2>2
  <2> QED BY <2>1, <2>2
<1> DEFINE P4 == a3 + a4 * B
           Q4 == b3 + b4 * B
           P3 == a2 + P4 * B
           Q3 == b2 + Q4 * B
           P2 == a1 + P3 * B
           Q2 == b1 + Q3 * B
<1>6. P4 \in Int /\ Q4 \in Int /\ P3 \in Int /\ Q3 \in Int /\ P2 \in Int /\ Q2 \in Int
  OBVIOUS
<1>7. ArrayValue(size, a) = P2 /\ ArrayValue(size, b) = Q2
  <2>1. CASE size = 4
    BY <1>1, <1>2, <1>3, <1>5, <2>1, ValueDigits
  <2>2. CASE size = 3
    <3>1. ArrayValue(3, a) = a1 + (a2 + a3 * B) * B /\ ArrayValue(3, b) = b1 + (b2 + b3 * B) * B
      BY <1>1, <1>2, <1>3, ValueDigits
    <3>2. a4 = 0 /\ b4 = 0
      BY <1>5, <2>2
    <3>3. P4 = a3 /\ Q4 = b3
      BY <3>2
    <3> QED BY <2>2, <3>1, <3>3
  <2> QED BY <2>1, <2>2
<1>8. /\ a4 < b4 => P4 < Q4
      /\ b4 < a4 => Q4 < P4
      /\ a4 = b4 => (a3 < b3 => P4 < Q4) /\ (b3 < a3 => Q4 < P4) /\ (a3 = b3 => P4 = Q4)
  BY <1>4
<1> HIDE DEF P4, Q4
<1>9. /\ P4 < Q4 => P3 < Q3
      /\ Q4 < P4 => Q3 < P3
      /\ P4 = Q4 => (a2 < b2 => P3 < Q3) /\ (b2 < a2 => Q3 < P3) /\ (a2 = b2 => P3 = Q3)
  BY <1>4, <1>6
<1> HIDE DEF P3, Q3
<1>10. /\ P3 < Q3 => P2 < Q2
       /\ Q3 < P3 => Q2 < P2
       /\ P3 = Q3 => (a1 < b1 => P2 < Q2) /\ (b1 < a1 => Q2 < P2) /\ (a1 = b1 => P2 = Q2)
  BY <1>4, <1>6
<1> HIDE DEF P2, Q2
<1>11. CASE a4 # b4
  <2>1. size = 4 /\ 4 \in 1 .. size /\ a[4] # b[4] /\ \A j \in 1 .. size : j > 4 => a[j] = b[j]
    BY <1>5, <1>11
  <2>2. CompareM(size, a, b) = IF a4 < b4 THEN -1 ELSE 1
    BY <1>5, <2>1, CompareAt
  <2> QED BY <1>6, <1>7, <1>8, <1>9, <1>10, <1>11, <2>2
<1>12. CASE a4 = b4 /\ a3 # b3
  <2>1. 3 \in 1 .. size /\ a[3] # b[3] /\ \A j \in 1 .. size : j > 3 => a[j] = b[j]
    <3>1. \A j \in 1 .. size : j > 3 => j = 4 /\ size = 4
      OBVIOUS
    <3>2. a[3] # b[3]
      BY <1>2, <1>3, <1>12
    <3>3. size = 4 => a[4] = b[4]
      BY <1>5, <1>12
    <3> QED BY <3>1, <3>2, <3>3
  <2>2. CompareM(size, a, b) = IF a3 < b3 THEN -1 ELSE 1
    BY <1>2, <1>3, <2>1, CompareAt
  <2> QED BY <1>6, <1>7, <1>8, <1>9, <1>10, <1>12, <2>2
<1>13. CASE a4 = b4 /\ a3 = b3 /\ a2 # b2
  <2>1. 2 \in 1 .. size /\ a[2] # b[2] /\ \A j \in 1 .. size : j > 2 => a[j] = b[j]
    <3>1. \A j \in 1 .. size : j > 2 => j = 3 \/ (j = 4 /\ size = 4)
      OBVIOUS
    <3>2. a[2] # b[2] /\ a[3] = b[3]
      BY <1>2, <1>3, <1>13
    <3>3. size = 4 => a[4] = b[4]
      BY <1>5, <1>13
    <3> QED BY <3>1, <3>2, <3>3
  <2>2. CompareM(size, a, b) = IF a2 < b2 THEN -1 ELSE 1
    BY <1>2, <1>3, <2>1, CompareAt
  <2> QED BY <1>6, <1>7, <1>8, <1>9, <1>10, <1>13, <2>2
<1>14. CASE a4 = b4 /\ a3 = b3 /\ a2 = b2 /\ a1 # b1
  <2>1. 1 \in 1 .. size /\ a[1] # b[1] /\ \A j \in 1 .. size : j > 1 => a[j] = b[j]
    <3>1. \A j \in 1 .. size : j > 1 => j = 2 \/ j = 3 \/ (j = 4 /\ size = 4)
      OBVIOUS
    <3>2. a[1] # b[1] /\ a[2] = b[2] /\ a[3] = b[3]
      BY <1>2, <1>3, <1>14
    <3>3. size = 4 => a[4] = b[4]
      BY <1>5, <1>14
    <3> QED BY <3>1, <3>2, <3>3
  <2>2. CompareM(size, a, b) = IF a1 < b1 THEN -1 ELSE 1
    BY <1>2, <1>3, <2>1, CompareAt
  <2> QED BY <1>6, <1>7, <1>8, <1>9, <1>10, <1>14, <2>2
<1>15. CASE a4 = b4 /\ a3 = b3 /\ a2 = b2 /\ a1 = b1
  <2>1. \A j \in 1 .. size : a[j] = b[j]
    <3>1. \A j \in 1 .. size : j = 1 \/ j = 2 \/ j = 3 \/ (j = 4 /\ size = 4)
      OBVIOUS
    <3>2. a[1] = b[1] /\ a[2] = b[2] /\ a[3] = b[3]
      BY <1>2, <1>3, <1>15
    <3>3. size = 4 => a[4] = b[4]
      BY <1>5, <1>15
    <3> QED BY <3>1, <3>2, <3>3
  <2>2. CompareM(size, a, b) = 0
    BY <2>1, CompareSame
  <2> QED BY <1>6, <1>7, <1>8, <1>9, <1>10, <1>15, <2>2
<1> QED BY <1>11, <1>12, <1>13, <1>14, <1>15

(* The complement of all words. *)
LEMMA ComplementValue ==
  ASSUME NEW size \in 3 .. 4, NEW b, Words(size, b)
  PROVE  /\ Words(size, [i \in 1 .. size |-> Complement(b[i])])
         /\ ArrayValue(size, [i \in 1 .. size |-> Complement(b[i])])
              = Modulus(size) - 1 - ArrayValue(size, b)
<1> DEFINE c == [i \in 1 .. size |-> Complement(b[i])]
           s == [i \in 1 .. size |-> c[i] + b[i]]
<1>1. PICK B \in Nat : B = Base /\ B > 1
  BY WordFacts
<1>2. \A i \in 1 .. size : /\ b[i] \in OneWord /\ b[i] \in Int
                           /\ c[i] \in OneWord /\ c[i] \in Int
                           /\ s[i] = B - 1
  BY <1>1 DEF Words, OneWord, Complement
<1>3. Words(size, c)
  BY <1>2 DEF Words
<1> HIDE DEF c
<1>4. ArrayValue(size, s) = ArrayValue(size, c) + ArrayValue(size, b)
  BY <1>2, ValueSum
<1>5. ArrayValue(size, b) \in Int /\ ArrayValue(size, c) \in Int
  BY <1>2, ValueInt
<1>6. s[1] = B - 1 /\ s[2] = B - 1 /\ s[3] = B - 1 /\ B - 1 \in Int
  BY <1>2
<1>7. CASE size = 3
  <2> HIDE DEF s
  <2>1. ArrayValue(3, s) = (B - 1) + ((B - 1) + (B - 1) * B) * B
    BY <1>1, <1>6, ValueDigits
  <2>2. (B - 1) + ((B - 1) + (B - 1) * B) * B = B * B * B - 1
    OBVIOUS
  <2>3. Modulus(size) = B * B * B /\ Modulus(size) \in Int
    BY <1>1, <1>7, ModulusFacts
  <2>4. ArrayValue(size, c) = Modulus(size) - 1 - ArrayValue(size, b)
    BY <1>4, <1>5, <1>7, <2>1, <2>2, <2>3
  <2> QED BY <1>3, <2>4 DEF c
<1>8. CASE size = 4
  <2>0. s[4] = B - 1
    BY <1>2, <1>8
  <2> HIDE DEF s
  <2>1. ArrayValue(4, s) = (B - 1) + ((B - 1) + ((B - 1) + (B - 1) * B) * B) * B
    BY <1>1, <1>6, <2>0, ValueDigits
  <2>2. (B - 1) + ((B - 1) + ((B - 1) + (B - 1) * B) * B) * B = B * B * B * B - 1
    OBVIOUS
  <2>3. Modulus(size) = B * B * B * B /\ Modulus(size) \in Int
    BY <1>1, <1>8, ModulusFacts
  <2>4. ArrayValue(size, c) = Modulus(size) - 1 - ArrayValue(size, b)
    BY <1>4, <1>5, <1>8, <2>1, <2>2, <2>3
  <2> QED BY <1>3, <2>4 DEF c
<1> QED BY <1>7, <1>8

-----------------------------------------------------------------------------
(* Decrement and negation. *)

(* sub1XM: one is subtracted. *)
LEMMA Sub1XMExact ==
  ASSUME NEW size \in 3 .. 4, NEW a, Words(size, a)
  PROVE  ArrayValue(size, softfloat_sub1XM(size, a)) = (ArrayValue(size, a) - 1) % Modulus(size)
<1> DEFINE z == [i \in 1 .. size |->
                   IF \A j \in 1 .. i - 1 : a[j] = 0 THEN Wrap(a[i] - 1) ELSE a[i]]
           c == [i \in 1 .. size + 1 |-> IF \A j \in 1 .. i - 1 : a[j] = 0 THEN -1 ELSE 0]
<1>1. PICK B \in Nat : B = Base /\ B > 1
  BY WordFacts
<1>2. \A i \in 1 .. size : a[i] \in OneWord /\ a[i] \in 0 .. B - 1 /\ a[i] \in Int
  BY <1>1 DEF Words, OneWord
<1>3. ASSUME NEW i \in 1 .. size
      PROVE  z[i] \in OneWord /\ a[i] + c[i] = z[i] + c[i + 1] * B
  <2>0. i + 1 \in 1 .. size + 1 /\ (i + 1) - 1 = i
    OBVIOUS
  <2>1. PICK x \in 0 .. B - 1 : x = a[i]
    BY <1>2
  <2>2. CASE \E j \in 1 .. i - 1 : a[j] # 0
    <3>1. \E j \in 1 .. (i + 1) - 1 : a[j] # 0
      BY <2>2
    <3>2. c[i] = 0 /\ c[i + 1] = 0 /\ z[i] = a[i]
      BY <2>0, <2>2, <3>1
    <3> QED BY <1>1, <1>2, <2>1, <3>2
  <2>3. CASE (\A j \in 1 .. i - 1 : a[j] = 0) /\ x = 0
    <3>1. \A j \in 1 .. (i + 1) - 1 : a[j] = 0
      <4>1. \A j \in 1 .. (i + 1) - 1 : j \in 1 .. i - 1 \/ j = i
        OBVIOUS
      <4>2. a[i] = 0
        BY <2>1, <2>3
      <4> HIDE DEF z, c
      <4> QED BY <2>3, <4>1, <4>2
    <3>2. c[i] = -1 /\ c[i + 1] = -1 /\ z[i] = Wrap(a[i] - 1)
      BY <2>0, <2>3, <3>1
    <3>3. Wrap(a[i] - 1) = B - 1 /\ B - 1 \in OneWord
      <4>1. B - 1 \in OneWord /\ -1 \in Int /\ a[i] - 1 \in Int /\ a[i] - 1 = (B - 1) + (-1) * Base
        BY <1>1, <2>1, <2>3 DEF OneWord
      <4> QED BY <4>1, Wrapped
    <3> HIDE DEF z, c
    <3>4. a[i] = 0 /\ c[i] = -1 /\ c[i + 1] = -1 /\ z[i] = B - 1
      BY <2>1, <2>3, <3>2, <3>3
    <3>5. 0 + (-1) = (B - 1) + (-1) * B
      OBVIOUS
    <3> QED BY <3>3, <3>4, <3>5
  <2>4. CASE (\A j \in 1 .. i - 1 : a[j] = 0) /\ x # 0
    <3>1. ~ \A j \in 1 .. (i + 1) - 1 : a[j] = 0
      BY <2>1, <2>4
    <3>2. c[i] = -1 /\ c[i + 1] = 0 /\ z[i] = Wrap(a[i] - 1)
      BY <2>0, <2>4, <3>1
    <3>3. Wrap(a[i] - 1) = x - 1 /\ x - 1 \in OneWord
      <4>1. x - 1 \in OneWord /\ a[i] - 1 = x - 1 /\ a[i] - 1 \in Int
        BY <1>1, <2>1, <2>4 DEF OneWord
      <4> QED BY <4>1, Wrapped
    <3> HIDE DEF z, c
    <3> QED BY <1>1, <2>1, <2>4, <3>2, <3>3
  <2> QED BY <2>2, <2>3, <2>4
<1>4. \A i \in 1 .. size + 1 : c[i] \in Int
  OBVIOUS
<1>5. c[1] = -1
  OBVIOUS
<1>6. softfloat_sub1XM(size, a) = z
  BY DEF softfloat_sub1XM
<1> HIDE DEF z, c
<1>7. Words(size, z) /\ \A i \in 1 .. size : a[i] \in Int /\ z[i] \in Int
  BY <1>1, <1>2, <1>3 DEF Words, OneWord
<1>8. ArrayValue(size, a) + c[1] = ArrayValue(size, z) + c[size + 1] * Modulus(size)
  BY <1>1, <1>3, <1>4, <1>7, Summed
<1>9. ArrayValue(size, a) \in Int
  BY <1>7, ValueInt
<1>10. /\ ArrayValue(size, a) - 1 = ArrayValue(size, z) + c[size + 1] * Modulus(size)
       /\ ArrayValue(size, a) - 1 \in Int /\ c[size + 1] \in Int
  BY <1>4, <1>5, <1>8, <1>9
<1> QED BY <1>6, <1>7, <1>10, ValueIs

(* negXM: the recursion and its result. *)
LEMMA NegXMFacts ==
  ASSUME NEW size \in 3 .. 4, NEW a
  PROVE  LET w == softfloat_negXM(size, a)
         IN  \A i \in 1 .. size : w[i] = Wrap(Complement(a[i]) + (IF \A j \in 1 .. i - 1 : w[j] = 0 THEN 1 ELSE 0))
<1> DEFINE w1 == Wrap(Complement(a[1]) + 1)
           w2 == Wrap(Complement(a[2]) + (IF w1 = 0 THEN 1 ELSE 0))
           w3 == Wrap(Complement(a[3]) + (IF w1 = 0 /\ w2 = 0 THEN 1 ELSE 0))
           w4 == Wrap(Complement(a[4]) + (IF w1 = 0 /\ w2 = 0 /\ w3 = 0 THEN 1 ELSE 0))
           g == [i \in 1 .. size |->
                   IF i = 1 THEN w1 ELSE IF i = 2 THEN w2 ELSE IF i = 3 THEN w3 ELSE w4]
           Is(w) == w = [i \in 1 .. size |->
                           Wrap(Complement(a[i]) + (IF \A j \in 1 .. i - 1 : w[j] = 0 THEN 1 ELSE 0))]
<1>1. Is(g)
  <2>1. ASSUME NEW i \in 1 .. size
        PROVE  g[i] = Wrap(Complement(a[i]) + (IF \A j \in 1 .. i - 1 : g[j] = 0 THEN 1 ELSE 0))
    <3> HIDE DEF w1, w2, w3, w4
    <3>1. g[1] = w1 /\ g[2] = w2 /\ g[3] = w3 /\ (size = 4 => g[4] = w4)
      OBVIOUS
    <3> HIDE DEF g
    <3>2. CASE i = 1
      <4>1. \A j \in 1 .. i - 1 : g[j] = 0
        BY <3>2
      <4>2. (IF \A j \in 1 .. i - 1 : g[j] = 0 THEN 1 ELSE 0) = 1
        BY <4>1
      <4> QED BY <3>1, <3>2, <4>2 DEF w1
    <3>3. CASE i = 2
      <4>1. (\A j \in 1 .. i - 1 : g[j] = 0) <=> w1 = 0
        BY <3>1, <3>3
      <4>2. (IF \A j \in 1 .. i - 1 : g[j] = 0 THEN 1 ELSE 0) = IF w1 = 0 THEN 1 ELSE 0
        BY <4>1
      <4> QED BY <3>1, <3>3, <4>2 DEF w2
    <3>4. CASE i = 3
      <4>1. (\A j \in 1 .. i - 1 : g[j] = 0) <=> w1 = 0 /\ w2 = 0
        <5>1. \A j \in 1 .. i - 1 : j = 1 \/ j = 2
          BY <3>4
        <5>2. 1 \in 1 .. i - 1 /\ 2 \in 1 .. i - 1
          BY <3>4
        <5> QED BY <3>1, <5>1, <5>2
      <4>2. (IF \A j \in 1 .. i - 1 : g[j] = 0 THEN 1 ELSE 0) = IF w1 = 0 /\ w2 = 0 THEN 1 ELSE 0
        BY <4>1
      <4> QED BY <3>1, <3>4, <4>2 DEF w3
    <3>5. CASE i = 4
      <4>1. (\A j \in 1 .. i - 1 : g[j] = 0) <=> w1 = 0 /\ w2 = 0 /\ w3 = 0
        <5>1. \A j \in 1 .. i - 1 : j = 1 \/ j = 2 \/ j = 3
          BY <3>5
        <5>2. 1 \in 1 .. i - 1 /\ 2 \in 1 .. i - 1 /\ 3 \in 1 .. i - 1
          BY <3>5
        <5> QED BY <3>1, <5>1, <5>2
      <4>2. (IF \A j \in 1 .. i - 1 : g[j] = 0 THEN 1 ELSE 0) = IF w1 = 0 /\ w2 = 0 /\ w3 = 0 THEN 1 ELSE 0
        BY <4>1
      <4>3. size = 4
        BY <3>5
      <4> QED BY <3>1, <3>5, <4>2, <4>3 DEF w4
    <3>6. i = 1 \/ i = 2 \/ i = 3 \/ i = 4
      OBVIOUS
    <3> QED BY <3>2, <3>3, <3>4, <3>5, <3>6
  <2> HIDE DEF w1, w2, w3, w4
  <2> QED BY <2>1
<1> HIDE DEF g
<1>2. Is(softfloat_negXM(size, a))
  BY <1>1 DEF softfloat_negXM, OneIf
<1> DEFINE w == softfloat_negXM(size, a)
<1> HIDE DEF w
<1>3. Is(w)
  BY <1>2 DEF w
<1>4. \A i \in 1 .. size : w[i] = Wrap(Complement(a[i]) + (IF \A j \in 1 .. i - 1 : w[j] = 0 THEN 1 ELSE 0))
  BY <1>3
<1> QED BY <1>4 DEF w

(* negXM: the complement and a carry that runs while words become zero. *)
LEMMA NegXMExact ==
  ASSUME NEW size \in 3 .. 4, NEW a, Words(size, a)
  PROVE  ArrayValue(size, softfloat_negXM(size, a)) = (-ArrayValue(size, a)) % Modulus(size)
<1> DEFINE z == softfloat_negXM(size, a)
           x == [i \in 1 .. size |-> Complement(a[i])]
           c == [i \in 1 .. size + 1 |-> IF \A j \in 1 .. i - 1 : z[j] = 0 THEN 1 ELSE 0]
<1>1. PICK B \in Nat : B = Base /\ B > 1
  BY WordFacts
<1>2. /\ Words(size, x)
      /\ ArrayValue(size, x) = Modulus(size) - 1 - ArrayValue(size, a)
  BY ComplementValue
<1>3. \A i \in 1 .. size : z[i] = Wrap(Complement(a[i]) + (IF \A j \in 1 .. i - 1 : z[j] = 0 THEN 1 ELSE 0))
  BY NegXMFacts
<1> HIDE DEF z
<1>4. ASSUME NEW i \in 1 .. size
      PROVE  z[i] \in OneWord /\ x[i] + c[i] = z[i] + c[i + 1] * B
  <2>0. i + 1 \in 1 .. size + 1 /\ (i + 1) - 1 = i
    OBVIOUS
  <2>1. PICK y \in 0 .. B - 1 : y = x[i]
    BY <1>1, <1>2 DEF Words, OneWord
  <2>2. z[i] = Wrap(x[i] + (IF \A j \in 1 .. i - 1 : z[j] = 0 THEN 1 ELSE 0))
    BY <1>3
  <2> HIDE DEF x
  <2>3. CASE ~ \A j \in 1 .. i - 1 : z[j] = 0
    <3>1. ~ \A j \in 1 .. (i + 1) - 1 : z[j] = 0
      BY <2>3
    <3>2. c[i] = 0 /\ c[i + 1] = 0
      BY <2>0, <2>3, <3>1
    <3>3. z[i] = y /\ y \in OneWord
      <4>1. z[i] = Wrap(y + 0)
        BY <2>1, <2>2, <2>3
      <4>2. y + 0 = y /\ y \in OneWord /\ y \in Int
        BY <1>1 DEF OneWord
      <4> QED BY <4>1, <4>2, Wrapped
    <3> HIDE DEF c
    <3> QED BY <2>1, <3>2, <3>3
  <2>4. CASE (\A j \in 1 .. i - 1 : z[j] = 0) /\ y < B - 1
    <3>1. c[i] = 1
      BY <2>0, <2>4
    <3>2. z[i] = y + 1 /\ y + 1 \in OneWord
      <4>1. z[i] = Wrap(y + 1)
        BY <2>1, <2>2, <2>4
      <4>2. y + 1 \in OneWord /\ y + 1 \in Int
        BY <1>1, <2>4 DEF OneWord
      <4> QED BY <4>1, <4>2, Wrapped
    <3>3. ~ \A j \in 1 .. (i + 1) - 1 : z[j] = 0
      BY <3>2
    <3>4. c[i + 1] = 0
      BY <2>0, <3>3
    <3> HIDE DEF c
    <3> QED BY <2>1, <3>1, <3>2, <3>4
  <2>5. CASE (\A j \in 1 .. i - 1 : z[j] = 0) /\ y = B - 1
    <3>1. c[i] = 1
      BY <2>0, <2>5
    <3>2. z[i] = 0 /\ 0 \in OneWord
      <4>1. z[i] = Wrap(y + 1)
        BY <2>1, <2>2, <2>5
      <4>2. 0 \in OneWord /\ y + 1 \in Int /\ y + 1 = 0 + 1 * Base
        BY <1>1, <2>5 DEF OneWord
      <4> QED BY <4>1, <4>2, Wrapped
    <3>3. \A j \in 1 .. (i + 1) - 1 : z[j] = 0
      BY <2>5, <3>2
    <3>4. c[i + 1] = 1
      BY <2>0, <3>3
    <3> HIDE DEF c
    <3> QED BY <2>1, <2>5, <3>1, <3>2, <3>4
  <2> QED BY <2>3, <2>4, <2>5
<1>5. \A i \in 1 .. size + 1 : c[i] \in Int
  OBVIOUS
<1>6. c[1] = 1
  OBVIOUS
<1> HIDE DEF x, c
<1>7. Words(size, z) /\ \A i \in 1 .. size : x[i] \in Int /\ z[i] \in Int
  BY <1>1, <1>2, <1>4 DEF Words, OneWord
<1>8. ArrayValue(size, x) + c[1] = ArrayValue(size, z) + c[size + 1] * Modulus(size)
  BY <1>1, <1>4, <1>5, <1>7, Summed
<1>9. ArrayValue(size, a) \in Int
  <2>1. \A i \in 1 .. size : a[i] \in Int
    BY WordFacts DEF Words, OneWord
  <2> QED BY <2>1, ValueInt
<1>10. PICK M \in Nat : M = Modulus(size)
  <2>1. size = 3 \/ size = 4
    OBVIOUS
  <2> QED BY <2>1, ModulusFacts
<1>11. PICK v1 \in Int, v2 \in Int, k \in Int :
         v1 = ArrayValue(size, a) /\ v2 = ArrayValue(size, z) /\ k = c[size + 1]
  <2>1. ArrayValue(size, z) \in Int /\ c[size + 1] \in Int
    BY <1>5, <1>7, ValueInt
  <2> QED BY <1>9, <2>1
<1>12. (M - 1 - v1) + 1 = v2 + k * M
  BY <1>2, <1>6, <1>8, <1>10, <1>11
<1>13. -v1 = v2 + (k - 1) * M
  BY <1>12
<1>14. /\ -ArrayValue(size, a) = ArrayValue(size, z) + (k - 1) * Modulus(size)
       /\ -ArrayValue(size, a) \in Int /\ k - 1 \in Int
  BY <1>10, <1>11, <1>13
<1>15. ArrayValue(size, z) = (-ArrayValue(size, a)) % Modulus(size)
  BY <1>7, <1>14, ValueIs
<1> QED BY <1>15 DEF z

-----------------------------------------------------------------------------
(* Products with one word; the parts of a shifted word. *)

(* addComplCarryM adds the complement. *)
LEMMA AddComplCarryMExact ==
  ASSUME NEW size \in 3 .. 4, NEW a, NEW b, Words(size, a), Words(size, b), NEW carry \in 0 .. 1
  PROVE  LET r == softfloat_addComplCarryM(size, a, b, carry)
         IN  ArrayValue(size, r.z) + r.carry * Modulus(size)
               = ArrayValue(size, a) + (Modulus(size) - 1 - ArrayValue(size, b)) + carry
<1> DEFINE c == [i \in 1 .. size |-> Complement(b[i])]
<1>1. Words(size, c) /\ ArrayValue(size, c) = Modulus(size) - 1 - ArrayValue(size, b)
  BY ComplementValue
<1>2. softfloat_addComplCarryM(size, a, b, carry) = softfloat_addCarryM(size, a, c, carry)
  BY DEF softfloat_addComplCarryM
<1> HIDE DEF c
<1>3. LET r == softfloat_addCarryM(size, a, c, carry)
      IN  ArrayValue(size, r.z) + r.carry * Modulus(size)
            = ArrayValue(size, a) + ArrayValue(size, c) + carry
  BY <1>1, AddCarryMExact
<1> QED BY <1>1, <1>2, <1>3

(* The products with one word, and what is carried above them. *)
LEMMA ProductsValue ==
  ASSUME NEW size \in 3 .. 4, NEW a, Words(size, a), NEW w \in OneWord
  PROVE  LET p == WordProducts(size, a, w)
             low == [i \in 1 .. size |-> Wrap(p[i])]
         IN  /\ p[size] \div Base \in Int /\ Words(size, low)
             /\ ArrayValue(size, a) * w = ArrayValue(size, low) + (p[size] \div Base) * Modulus(size)
<1> DEFINE p == WordProducts(size, a, w)
           low == [i \in 1 .. size |-> Wrap(p[i])]
           c == [i \in 1 .. size + 1 |-> IF i = 1 THEN 0 ELSE p[i - 1] \div Base]
           x == [i \in 1 .. size |-> a[i] * w]
<1>1. Base \in Nat /\ Base > 0
  BY WordFacts
<1>2. w \in Int /\ \A i \in 1 .. size : a[i] \in Int
  BY <1>1 DEF Words, OneWord
<1>3. p[1] = a[1] * w + 0 /\ \A i \in 1 .. size - 1 : p[i + 1] = a[i + 1] * w + p[i] \div Base
  BY ProductsFacts
<1> HIDE DEF p
<1>4. ASSUME NEW i \in 1 .. size PROVE p[i] \in Int /\ p[i] = x[i] + c[i]
  <2>0. a[1] \in Int /\ a[2] \in Int /\ a[3] \in Int /\ (size = 4 => a[4] \in Int)
    BY <1>2
  <2>1. p[1] \in Int
    BY <1>2, <1>3, <2>0
  <2>2. p[2] \in Int
    <3>1. 1 \in 1 .. size - 1 /\ 1 + 1 = 2
      OBVIOUS
    <3>2. p[2] = a[2] * w + p[1] \div Base
      BY <1>3, <3>1
    <3>3. p[1] \div Base \in Int
      BY <1>1, <2>1
    <3> QED BY <1>2, <2>0, <3>2, <3>3
  <2>3. p[3] \in Int
    <3>1. 2 \in 1 .. size - 1 /\ 2 + 1 = 3
      OBVIOUS
    <3>2. p[3] = a[3] * w + p[2] \div Base
      BY <1>3, <3>1
    <3>3. p[2] \div Base \in Int
      BY <1>1, <2>2
    <3> QED BY <1>2, <2>0, <3>2, <3>3
  <2>4. size = 4 => p[4] \in Int
    <3> SUFFICES ASSUME size = 4 PROVE p[4] \in Int
      OBVIOUS
    <3>1. 3 \in 1 .. size - 1 /\ 3 + 1 = 4
      OBVIOUS
    <3>2. p[4] = a[4] * w + p[3] \div Base
      BY <1>3, <3>1
    <3>3. p[3] \div Base \in Int
      BY <1>1, <2>3
    <3> QED BY <1>2, <2>0, <3>2, <3>3
  <2>5. i = 1 \/ i = 2 \/ i = 3 \/ (i = 4 /\ size = 4)
    OBVIOUS
  <2>6. p[i] \in Int
    BY <2>1, <2>2, <2>3, <2>4, <2>5
  <2>7. p[i] = x[i] + c[i]
    <3>1. CASE i = 1
      BY <1>3, <3>1
    <3>2. CASE i # 1
      <4>1. i - 1 \in 1 .. size - 1 /\ (i - 1) + 1 = i
        BY <3>2
      <4>2. p[i] = a[i] * w + p[i - 1] \div Base
        BY <1>3, <4>1
      <4> QED BY <3>2, <4>2
    <3> QED BY <3>1, <3>2
  <2> QED BY <2>6, <2>7
<1>5. \A i \in 1 .. size : low[i] \in OneWord
  BY <1>4, Wrapped
<1>6. \A i \in 1 .. size : x[i] + c[i] = low[i] + c[i + 1] * Base
  <2> TAKE i \in 1 .. size
  <2>1. PICK n \in Int : n = p[i]
    BY <1>4
  <2>2. n = (n \div Base) * Base + (n % Base)
    BY <1>1, Divided
  <2>3. low[i] = n % Base /\ c[i + 1] = n \div Base
    <3>1. i + 1 \in 1 .. size + 1 /\ i + 1 # 1 /\ (i + 1) - 1 = i
      OBVIOUS
    <3> QED BY <2>1, <3>1 DEF Wrap
  <2>4. n % Base \in Int /\ n \div Base \in Int
    BY <1>1
  <2>5. x[i] + c[i] = n
    BY <1>4, <2>1
  <2> HIDE DEF x, c, low
  <2>6. n = (n % Base) + (n \div Base) * Base
    BY <1>1, <2>2, <2>4
  <2> QED BY <2>3, <2>5, <2>6
<1>7. /\ \A i \in 1 .. size : x[i] \in Int /\ low[i] \in Int
      /\ \A i \in 1 .. size + 1 : c[i] \in Int
  <2>1. \A i \in 1 .. size : x[i] \in Int
    BY <1>2
  <2>2. \A i \in 1 .. size : low[i] \in Int
    <3>1. OneWord \subseteq Int
      BY <1>1 DEF OneWord
    <3> HIDE DEF low
    <3> QED BY <1>5, <3>1
  <2>3. ASSUME NEW i \in 1 .. size + 1 PROVE c[i] \in Int
    <3>1. CASE i = 1
      BY <3>1
    <3>2. CASE i # 1
      <4>1. i - 1 \in 1 .. size
        BY <3>2
      <4>2. p[i - 1] \in Int
        BY <1>4, <4>1
      <4>3. p[i - 1] \div Base \in Int
        BY <1>1, <4>2
      <4> QED BY <3>2, <4>3
    <3> QED BY <3>1, <3>2
  <2> QED BY <2>1, <2>2, <2>3
<1>8. ArrayValue(size, x) = ArrayValue(size, a) * w
  BY <1>2, ValueScaled
<1>9. c[1] = 0 /\ c[size + 1] = p[size] \div Base
  <2>1. 1 \in 1 .. size + 1 /\ size + 1 \in 1 .. size + 1 /\ size + 1 # 1 /\ (size + 1) - 1 = size
    OBVIOUS
  <2> QED BY <2>1
<1>10. Words(size, low)
  BY <1>5 DEF Words
<1>11. p[size] \div Base \in Int
  <2>1. size \in 1 .. size
    OBVIOUS
  <2>2. p[size] \in Int
    BY <1>4, <2>1
  <2> QED BY <1>1, <2>2
<1> HIDE DEF x, c, low
<1>12. ArrayValue(size, x) + c[1] = ArrayValue(size, low) + c[size + 1] * Modulus(size)
  BY <1>6, <1>7, Summed
<1>13. ArrayValue(size, x) \in Int
  BY <1>7, ValueInt
<1>14. ArrayValue(size, a) * w = ArrayValue(size, low) + (p[size] \div Base) * Modulus(size)
  BY <1>8, <1>9, <1>12, <1>13
<1> QED BY <1>10, <1>11, <1>14 DEF low, p

(* A number below D * E is cut into its quotient and remainder by D. *)
LEMMA Cut ==
  ASSUME NEW D \in Nat, NEW E \in Nat, D > 0, E > 0, NEW x \in 0 .. (D * E) - 1
  PROVE  \E h \in 0 .. E - 1, l \in 0 .. D - 1 : x \div D = h /\ x % D = l /\ x = h * D + l
<1> DEFINE h == x \div D
           l == x % D
<1>1. h \in Int /\ l \in 0 .. D - 1 /\ x = h * D + l /\ x \in Int
  <2>1. x \in Int
    OBVIOUS
  <2> QED BY <2>1, Divided
<1>2. x >= 0 /\ x < D * E /\ D * E \in Nat
  OBVIOUS
<1> HIDE DEF h, l
<1>3. h >= 0
  <2> SUFFICES ASSUME h < 0 PROVE FALSE
    BY <1>1
  <2>1. (-1 - h) * D \in Nat /\ (-1 - h) * D = -D - h * D /\ h * D \in Int
    BY <1>1
  <2> QED BY <1>1, <1>2, <2>1
<1>4. h < E
  <2> SUFFICES ASSUME h >= E PROVE FALSE
    BY <1>1
  <2>1. (h - E) * D \in Nat /\ (h - E) * D = h * D - D * E /\ h * D \in Int
    BY <1>1
  <2> QED BY <1>1, <1>2, <2>1
<1>5. h \in 0 .. E - 1
  BY <1>1, <1>3, <1>4
<1> QED BY <1>1, <1>5 DEF h, l

(* What a shift makes of one word. *)
LEMMA LeftParts ==
  ASSUME NEW d \in 1 .. WordBits - 1, NEW x \in OneWord
  PROVE  /\ Shl(x, d) \in Int /\ Shr(x, WordBits - d) \in 0 .. 2^d - 1
         /\ x * 2^d = Shl(x, d) + Shr(x, WordBits - d) * Base
         /\ \A y \in 0 .. 2^d - 1 : Shl(x, d) + y \in OneWord
<1>1. PICK B \in Nat, D \in Nat, E \in Nat :
        B = Base /\ D = 2^d /\ E = 2^(WordBits - d) /\ D > 1 /\ E > 1 /\ D * E = B
  BY ShiftFacts, WordFacts
<1>2. x \in 0 .. B - 1
  BY <1>1 DEF OneWord
<1>3. PICK h \in 0 .. D - 1, l \in 0 .. E - 1 : x \div E = h /\ x % E = l /\ x = h * E + l
  <2>1. E * D = B /\ x \in 0 .. (E * D) - 1
    BY <1>1, <1>2
  <2> QED BY <1>1, <2>1, Cut
<1>4. h \in Int
  OBVIOUS
<1>5. x * D = l * D + h * B
  <2>1. (h * E + l) * D = l * D + h * (D * E)
    OBVIOUS
  <2> QED BY <1>1, <1>3, <2>1
<1>6. l * D \in 0 .. B - D
  <2>1. (E - 1 - l) * D \in Nat /\ (E - 1 - l) * D = D * E - D - l * D /\ l * D \in Nat
    OBVIOUS
  <2> QED BY <1>1, <2>1
<1>7. Shl(x, d) = l * D
  <2>1. l * D \in OneWord /\ x * D \in Int
    BY <1>1, <1>2, <1>6 DEF OneWord
  <2>2. Wrap(x * D) = l * D
    <3>1. x * D = l * D + h * Base /\ h \in Int
      BY <1>1, <1>5
    <3> QED BY <2>1, <3>1, Wrapped
  <2> QED BY <1>1, <2>2 DEF Shl
<1>8. Shr(x, WordBits - d) = h
  BY <1>1, <1>3 DEF Shr
<1>9. \A y \in 0 .. D - 1 : l * D + y \in OneWord
  BY <1>1, <1>6 DEF OneWord
<1> QED BY <1>1, <1>4, <1>5, <1>6, <1>7, <1>8, <1>9

(* What a word keeps and what it spills when it is shifted right. *)
LEMMA RightParts ==
  ASSUME NEW d \in 1 .. WordBits - 1, NEW x \in OneWord
  PROVE  /\ Shr(x, d) \in 0 .. 2^(WordBits - d) - 1 /\ x % 2^d \in 0 .. 2^d - 1
         /\ x = Shr(x, d) * 2^d + (x % 2^d)
         /\ Spill(x, d) = (x % 2^d) * 2^(WordBits - d)
         /\ \A y \in 0 .. 2^(WordBits - d) - 1 : Spill(x, d) + y \in OneWord
<1> DEFINE e == WordBits - d
<1>1. /\ WordBits \in Nat /\ WordBits > 1 /\ e \in 1 .. WordBits - 1 /\ WordBits - e = d
      /\ e % WordBits = e
  BY WordFacts
<1>2. PICK D \in Nat, E \in Nat : D = 2^d /\ E = 2^e /\ D > 1 /\ E > 1 /\ D * E = Base
  BY ShiftFacts
<1>3. x \in 0 .. Base - 1 /\ Base \in Nat
  BY WordFacts DEF OneWord
<1>4. PICK h \in 0 .. E - 1, l \in 0 .. D - 1 : x \div D = h /\ x % D = l /\ x = h * D + l
  BY <1>2, <1>3, Cut
<1>5. PICK B \in Nat : B = Base /\ D * E = B
  BY <1>2, <1>3
<1>6. Spill(x, d) = l * E
  <2>1. Spill(x, d) = Wrap(x * E)
    BY <1>1, <1>2 DEF Spill, Shl
  <2>2. x * E = l * E + h * Base
    <3>1. x * E = l * E + h * B
      BY <1>4, <1>5
    <3> QED BY <1>5, <3>1
  <2>3. l * E \in OneWord /\ x * E \in Int
    <3>1. (D - 1 - l) * E \in Nat /\ (D - 1 - l) * E = D * E - E - l * E /\ l * E \in Nat
      OBVIOUS
    <3> QED BY <1>2, <1>3, <3>1 DEF OneWord
  <2> QED BY <2>1, <2>2, <2>3, Wrapped
<1>7. \A y \in 0 .. E - 1 : l * E + y \in OneWord
  <2>1. (D - 1 - l) * E \in Nat /\ (D - 1 - l) * E = D * E - E - l * E /\ l * E \in Nat
    OBVIOUS
  <2> QED BY <1>2, <1>3, <2>1 DEF OneWord
<1>8. Shr(x, d) = h
  BY <1>2, <1>4 DEF Shr
<1> QED BY <1>2, <1>4, <1>5, <1>6, <1>7, <1>8

-----------------------------------------------------------------------------
(* Short shift left; a step of a remainder. *)

(* A shift to the left within a word: what leaves each word enters the next. *)
LEMMA ShortShiftLeftMValue ==
  ASSUME NEW size \in 3 .. 4, NEW a, Words(size, a), NEW d \in 1 .. WordBits - 1
  PROVE  LET z == softfloat_shortShiftLeftM(size, a, d)
         IN  /\ Words(size, z)
             /\ Shr(a[size], WordBits - d) \in Int
             /\ ArrayValue(size, a) * 2^d
                  = ArrayValue(size, z) + Shr(a[size], WordBits - d) * Modulus(size)
<1> DEFINE c == [i \in 1 .. size + 1 |-> IF i = 1 THEN 0 ELSE Shr(a[i - 1], WordBits - d)]
           x == [i \in 1 .. size |-> a[i] * 2^d]
           z == [i \in 1 .. size |->
                   Shl(a[i], d) + (IF i = 1 THEN 0 ELSE Shr(a[i - 1], WordBits - d))]
<1>0. softfloat_shortShiftLeftM(size, a, d) = z
  BY DEF softfloat_shortShiftLeftM
<1>1. PICK B \in Nat, D \in Nat : B = Base /\ D = 2^d /\ B > 0 /\ D > 0
  BY WordFacts, ShiftFacts
<1>2. \A i \in 1 .. size : a[i] \in OneWord /\ a[i] \in Int
  BY <1>1 DEF Words, OneWord
<1>3. ASSUME NEW i \in 1 .. size + 1 PROVE c[i] \in 0 .. D - 1
  <2>1. CASE i = 1
    BY <1>1, <2>1
  <2>2. CASE i # 1
    <3>1. i - 1 \in 1 .. size
      BY <2>2
    <3>2. Shr(a[i - 1], WordBits - d) \in 0 .. 2^d - 1
      BY <1>2, <3>1, LeftParts
    <3> QED BY <1>1, <2>2, <3>2
  <2> QED BY <2>1, <2>2
<1>4. ASSUME NEW i \in 1 .. size
      PROVE  z[i] \in OneWord /\ x[i] + c[i] = z[i] + c[i + 1] * B
  <2>1. PICK s \in Int, h \in 0 .. D - 1 :
          s = Shl(a[i], d) /\ h = Shr(a[i], WordBits - d)
    BY <1>1, <1>2, LeftParts
  <2>2. a[i] * D = s + h * B
    BY <1>1, <1>2, <2>1, LeftParts
  <2>3. PICK y \in 0 .. D - 1 : y = c[i]
    <3>1. i \in 1 .. size + 1
      OBVIOUS
    <3> QED BY <1>3, <3>1
  <2>4. s + y \in OneWord
    BY <1>1, <1>2, <2>1, LeftParts
  <2>5. z[i] = s + y
    BY <2>1, <2>3
  <2>6. c[i + 1] = h
    <3>1. i + 1 \in 1 .. size + 1 /\ i + 1 # 1 /\ (i + 1) - 1 = i
      OBVIOUS
    <3> QED BY <2>1, <3>1
  <2>7. x[i] = s + h * B
    BY <1>1, <2>2
  <2>8. (s + h * B) + y = (s + y) + h * B
    OBVIOUS
  <2> HIDE DEF x, c, z
  <2> QED BY <2>3, <2>4, <2>5, <2>6, <2>7, <2>8
<1>5. /\ \A i \in 1 .. size : x[i] \in Int
      /\ \A i \in 1 .. size + 1 : c[i] \in Int
  <2>1. \A i \in 1 .. size : x[i] \in Int
    BY <1>1, <1>2
  <2> HIDE DEF c
  <2> QED BY <1>3, <2>1
<1>6. ArrayValue(size, x) = ArrayValue(size, a) * D
  <2>1. x = [i \in 1 .. size |-> a[i] * D] /\ D \in Int
    BY <1>1
  <2> HIDE DEF x
  <2> QED BY <1>2, <2>1, ValueScaled
<1>7. c[1] = 0 /\ c[size + 1] = Shr(a[size], WordBits - d)
  <2>1. 1 \in 1 .. size + 1 /\ size + 1 \in 1 .. size + 1 /\ size + 1 # 1 /\ (size + 1) - 1 = size
    OBVIOUS
  <2> QED BY <2>1
<1> HIDE DEF x, c, z
<1>8. Words(size, z) /\ \A i \in 1 .. size : x[i] \in Int /\ z[i] \in Int
  BY <1>1, <1>4, <1>5 DEF Words, OneWord
<1>9. ArrayValue(size, x) + c[1] = ArrayValue(size, z) + c[size + 1] * Modulus(size)
  BY <1>1, <1>4, <1>5, <1>8, Summed
<1>10. ArrayValue(size, x) \in Int
  BY <1>8, ValueInt
<1>11. c[size + 1] \in Int
  <2>1. size + 1 \in 1 .. size + 1
    OBVIOUS
  <2> QED BY <1>5, <2>1
<1>12. ArrayValue(size, a) * D = ArrayValue(size, z) + Shr(a[size], WordBits - d) * Modulus(size)
  BY <1>6, <1>7, <1>9, <1>10
<1> QED BY <1>0, <1>1, <1>7, <1>8, <1>11, <1>12

(* The step of a division: rem * 2^dist - b * q. *)
LEMMA RemStepMBy32Exact ==
  ASSUME NEW size \in 3 .. 4, NEW a, NEW b, Words(size, a), Words(size, b),
         NEW d \in 1 .. WordBits - 1, NEW q \in OneWord
  PROVE  ArrayValue(size, softfloat_remStepMBy32(size, a, d, b, q))
           = (ArrayValue(size, a) * 2^d - ArrayValue(size, b) * q) % Modulus(size)
<1> DEFINE l == softfloat_shortShiftLeftM(size, a, d)
           p == WordProducts(size, b, q)
           w == [i \in 1 .. size |-> Wrap(p[i])]
           z == softfloat_subM(size, l, w)
<1>0. softfloat_remStepMBy32(size, a, d, b, q) = z
  BY DEF softfloat_remStepMBy32
<1>1. /\ Words(size, l) /\ Shr(a[size], WordBits - d) \in Int
      /\ ArrayValue(size, a) * 2^d = ArrayValue(size, l) + Shr(a[size], WordBits - d) * Modulus(size)
  BY ShortShiftLeftMValue
<1>2. /\ p[size] \div Base \in Int /\ Words(size, w)
      /\ ArrayValue(size, b) * q = ArrayValue(size, w) + (p[size] \div Base) * Modulus(size)
  BY ProductsValue
<1> HIDE DEF l, w, p
<1>3. Words(size, z)
  BY <1>1, <1>2, SubMExact
<1>4. PICK m \in 0 .. 1 : ArrayValue(size, l) - ArrayValue(size, w)
                            = ArrayValue(size, z) + (-m) * Modulus(size)
  BY <1>1, <1>2, SubMExact
<1> HIDE DEF z
<1>5. PICK M \in Nat : M = Modulus(size)
  <2>1. size = 3 \/ size = 4
    OBVIOUS
  <2> QED BY <2>1, ModulusFacts
<1>6. ASSUME NEW u, Words(size, u) PROVE ArrayValue(size, u) \in Int
  <2>1. \A i \in 1 .. size : u[i] \in Int
    BY <1>6, WordFacts DEF Words, OneWord
  <2> QED BY <2>1, ValueInt
<1>7. PICK vl \in Int, vw \in Int, vz \in Int :
        vl = ArrayValue(size, l) /\ vw = ArrayValue(size, w) /\ vz = ArrayValue(size, z)
  BY <1>1, <1>2, <1>3, <1>6
<1>8. PICK h \in Int, k \in Int : h = Shr(a[size], WordBits - d) /\ k = p[size] \div Base
  BY <1>1, <1>2
<1>9. vl - vw = vz + (-m) * M
  BY <1>4, <1>5, <1>7
<1>10. ArrayValue(size, a) * 2^d = vl + h * M /\ ArrayValue(size, b) * q = vw + k * M
  BY <1>1, <1>2, <1>5, <1>7, <1>8
<1>11. (vl + h * M) - (vw + k * M) = vz + (h - k - m) * M
  BY <1>9
<1>12. /\ ArrayValue(size, a) * 2^d - ArrayValue(size, b) * q
            = ArrayValue(size, z) + (h - k - m) * Modulus(size)
       /\ ArrayValue(size, a) * 2^d - ArrayValue(size, b) * q \in Int /\ h - k - m \in Int
  BY <1>5, <1>7, <1>10, <1>11
<1> QED BY <1>0, <1>3, <1>12, ValueIs

-----------------------------------------------------------------------------
(* Shift left by any distance. *)

(* The power of two that a number of whole words stands for. *)
WordPower(n) == 2^(n * WordBits)

(* The powers of the base as powers of two. *)
LEMMA WordPowers ==
  /\ WordPower(0) = 1 /\ WordPower(1) = Base /\ WordPower(2) = Base * Base
  /\ WordPower(3) = Base * Base * Base /\ WordPower(4) = Base * Base * Base * Base
  /\ \A n \in 0 .. 4 : WordPower(n) \in Nat /\ WordPower(n) > 0
<1>1. /\ WordBits \in Nat /\ LongestShift \in Nat /\ 4 * WordBits <= LongestShift
  BY WordAssumption, WordFacts
<1>2. PICK w \in Nat : w = WordBits /\ 4 * w <= LongestShift
  BY <1>1
<1>3. /\ 0 * w = 0 /\ 1 * w = w /\ 2 * w = w + w /\ 3 * w = 2 * w + w /\ 4 * w = 3 * w + w
      /\ 2 * w \in Nat /\ 3 * w \in Nat
      /\ w + w <= LongestShift /\ 2 * w + w <= LongestShift /\ 3 * w + w <= LongestShift
  BY <1>1, <1>2
<1>4. WordPower(0) = 1
  <2>1. 2^0 = 1
    OBVIOUS
  <2>2. 0 * WordBits = 0
    BY <1>2, <1>3
  <2> QED BY <2>1, <2>2 DEF WordPower
<1>5. WordPower(1) = Base
  BY <1>2, <1>3 DEF WordPower, Base
<1>6. WordPower(2) = Base * Base
  <2>1. 2^(w + w) = 2^w * 2^w
    BY <1>3, PowerSum
  <2> QED BY <1>2, <1>3, <2>1 DEF WordPower, Base
<1>7. WordPower(3) = Base * Base * Base
  <2>1. 2^(2 * w + w) = 2^(2 * w) * 2^w
    BY <1>3, PowerSum
  <2> QED BY <1>2, <1>3, <1>6, <2>1 DEF WordPower, Base
<1>8. WordPower(4) = Base * Base * Base * Base
  <2>1. 2^(3 * w + w) = 2^(3 * w) * 2^w
    BY <1>3, PowerSum
  <2> QED BY <1>2, <1>3, <1>7, <2>1 DEF WordPower, Base
<1>9. \A n \in 0 .. 4 : n * WordBits \in 0 .. LongestShift
  <2>1. \A n \in 0 .. 4 : n * w \in Nat /\ (4 - n) * w \in Nat /\ (4 - n) * w = 4 * w - n * w
    OBVIOUS
  <2> QED BY <1>1, <1>2, <2>1
<1>10. \A n \in 0 .. 4 : WordPower(n) \in Nat /\ WordPower(n) > 0
  BY <1>9, PowerPositive DEF WordPower
<1> QED BY <1>4, <1>5, <1>6, <1>7, <1>8, <1>10

(* A distance is whole words and what is left. *)
LEMMA Distance ==
  ASSUME NEW dist \in 1 .. LongestShift
  PROVE  /\ dist \div WordBits \in Nat /\ dist % WordBits \in 0 .. WordBits - 1
         /\ dist = (dist \div WordBits) * WordBits + (dist % WordBits)
         /\ 2^dist \in Nat /\ 2^dist > 0
         /\ 2^(dist % WordBits) \in Nat /\ 2^(dist % WordBits) > 0
         /\ 2^dist = WordPower(dist \div WordBits) * 2^(dist % WordBits)
         /\ \A n \in 0 .. 4 : dist \div WordBits >= n => 2^dist >= WordPower(n)
<1>1. PICK w \in Nat, L \in Nat : w = WordBits /\ L = LongestShift /\ w > 1 /\ 4 * w <= L
  BY WordAssumption, WordFacts
<1>2. PICK k \in Int, r \in 0 .. w - 1 : k = dist \div w /\ r = dist % w /\ dist = k * w + r
  <2>1. dist \in Int /\ w > 0
    BY <1>1
  <2>2. /\ dist \div w \in Int /\ dist % w \in 0 .. w - 1
        /\ dist = (dist \div w) * w + (dist % w)
    BY <2>1, Divided
  <2> QED BY <2>2
<1>3. k \in Nat /\ k * w \in Nat /\ k * w + r <= L
  <2>1. dist > 0 /\ dist <= L
    BY <1>1
  <2>2. k >= 0
    <3> SUFFICES ASSUME k < 0 PROVE FALSE
      OBVIOUS
    <3>1. (-1 - k) * w \in Nat /\ (-1 - k) * w = -w - k * w
      OBVIOUS
    <3> QED BY <1>2, <2>1, <3>1
  <2> QED BY <1>2, <2>1, <2>2
<1>4. r \in 0 .. LongestShift /\ k * w \in 0 .. LongestShift
  BY <1>1, <1>3
<1>5. 2^(k * w + r) = 2^(k * w) * 2^r
  BY <1>1, <1>3, PowerSum
<1>6. 2^dist \in Nat /\ 2^dist > 0 /\ 2^r \in Nat /\ 2^r > 0
  <2>1. dist \in 0 .. LongestShift
    BY <1>1
  <2> QED BY <1>4, <2>1, PowerPositive
<1>7. ASSUME NEW n \in 0 .. 4, k >= n PROVE 2^dist >= WordPower(n)
  <2>1. n * w \in Nat /\ (k - n) * w + r \in Nat /\ n * w + ((k - n) * w + r) = k * w + r
    <3>1. (k - n) * w \in Nat /\ (k - n) * w = k * w - n * w /\ n * w \in Nat
      BY <1>3, <1>7
    <3> QED BY <1>3, <3>1
  <2>2. 2^(n * w + ((k - n) * w + r)) = 2^(n * w) * 2^((k - n) * w + r)
    BY <1>1, <1>3, <2>1, PowerSum
  <2>3. (k - n) * w + r \in 0 .. LongestShift
    BY <1>1, <1>3, <2>1
  <2>4. PICK s \in Nat : s = 2^((k - n) * w + r) /\ s > 0
    BY <2>3, PowerPositive
  <2>5. PICK t \in Nat : t = WordPower(n)
    BY WordPowers
  <2>6. t * s >= t
    <3>1. t * (s - 1) \in Nat /\ t * (s - 1) = t * s - t
      BY <2>4
    <3> QED BY <3>1
  <2> QED BY <1>1, <1>2, <2>1, <2>2, <2>4, <2>5, <2>6 DEF WordPower
<1>8. 2^dist = WordPower(k) * 2^r
  BY <1>1, <1>2, <1>5 DEF WordPower
<1> QED BY <1>1, <1>2, <1>3, <1>6, <1>7, <1>8

(* Whole words moved up. *)
LEMMA WordsMovedUp ==
  ASSUME NEW size \in 3 .. 4, NEW y, Words(size, y), NEW n \in 0 .. size - 1
  PROVE  LET z == [i \in 1 .. size |-> IF i <= n THEN 0 ELSE y[i - n]]
         IN  /\ Words(size, z)
             /\ \E m \in Int : ArrayValue(size, y) * WordPower(n)
                                 = ArrayValue(size, z) + m * Modulus(size)
<1> DEFINE z == [i \in 1 .. size |-> IF i <= n THEN 0 ELSE y[i - n]]
<1>1. PICK B \in Nat : B = Base /\ B > 1
  BY WordFacts
<1>2. Words(size, z)
  <2> SUFFICES ASSUME NEW i \in 1 .. size PROVE z[i] \in OneWord
    BY DEF Words
  <2>1. CASE i <= n
    BY <1>1, <2>1 DEF OneWord
  <2>2. CASE i > n
    <3>1. i - n \in 1 .. size
      BY <2>2
    <3> QED BY <2>2, <3>1 DEF Words
  <2> QED BY <2>1, <2>2
<1>3. PICK y1 \in Int, y2 \in Int, y3 \in Int : y1 = y[1] /\ y2 = y[2] /\ y3 = y[3]
  BY <1>1 DEF Words, OneWord
<1> SUFFICES \E m \in Int : ArrayValue(size, y) * WordPower(n)
                              = ArrayValue(size, z) + m * Modulus(size)
  BY <1>2
<1>4. CASE size = 3
  <2>1. ArrayValue(size, y) = y1 + (y2 + y3 * B) * B /\ Modulus(size) = B * B * B
    BY <1>1, <1>3, <1>4, ValueDigits, ModulusFacts
  <2>2. /\ z[1] \in Int /\ z[2] \in Int /\ z[3] \in Int
    BY <1>1, <1>2, <1>4 DEF Words, OneWord
  <2>3. ArrayValue(size, z) = z[1] + (z[2] + z[3] * B) * B
    BY <1>1, <1>4, <2>2, ValueDigits
  <2>4. CASE n = 0
    <3>1. z[1] = y1 /\ z[2] = y2 /\ z[3] = y3 /\ WordPower(n) = 1
      BY <1>3, <1>4, <2>4, WordPowers
    <3> HIDE DEF z
    <3>2. (y1 + (y2 + y3 * B) * B) * 1 = (y1 + (y2 + y3 * B) * B) + 0 * (B * B * B)
      OBVIOUS
    <3> QED BY <2>1, <2>3, <3>1, <3>2
  <2>5. CASE n = 1
    <3>1. z[1] = 0 /\ z[2] = y1 /\ z[3] = y2 /\ WordPower(n) = B
      BY <1>1, <1>3, <1>4, <2>5, WordPowers
    <3> HIDE DEF z
    <3>2. (y1 + (y2 + y3 * B) * B) * B = (0 + (y1 + y2 * B) * B) + y3 * (B * B * B)
      OBVIOUS
    <3> QED BY <2>1, <2>3, <3>1, <3>2
  <2>6. CASE n = 2
    <3>1. z[1] = 0 /\ z[2] = 0 /\ z[3] = y1 /\ WordPower(n) = B * B
      BY <1>1, <1>3, <1>4, <2>6, WordPowers
    <3> HIDE DEF z
    <3>2. (y1 + (y2 + y3 * B) * B) * (B * B)
            = (0 + (0 + y1 * B) * B) + (y2 + y3 * B) * (B * B * B)
      OBVIOUS
    <3>3. y2 + y3 * B \in Int
      OBVIOUS
    <3> QED BY <2>1, <2>3, <3>1, <3>2, <3>3
  <2>7. n = 0 \/ n = 1 \/ n = 2
    BY <1>4
  <2> QED BY <2>4, <2>5, <2>6, <2>7
<1>5. CASE size = 4
  <2>0. PICK y4 \in Int : y4 = y[4]
    BY <1>1, <1>5 DEF Words, OneWord
  <2>1. ArrayValue(size, y) = y1 + (y2 + (y3 + y4 * B) * B) * B /\ Modulus(size) = B * B * B * B
    BY <1>1, <1>3, <1>5, <2>0, ValueDigits, ModulusFacts
  <2>2. /\ z[1] \in Int /\ z[2] \in Int
    BY <1>1, <1>2, <1>5 DEF Words, OneWord
  <2>3. ArrayValue(size, z) = z[1] + (z[2] + (z[3] + z[4] * B) * B) * B
    BY <1>1, <1>5, <2>2, ValueDigits
  <2>4. CASE n = 0
    <3>1. z[1] = y1 /\ z[2] = y2 /\ z[3] = y3 /\ z[4] = y4 /\ WordPower(n) = 1
      BY <1>3, <1>5, <2>0, <2>4, WordPowers
    <3> HIDE DEF z
    <3>2. (y1 + (y2 + (y3 + y4 * B) * B) * B) * 1
            = (y1 + (y2 + (y3 + y4 * B) * B) * B) + 0 * (B * B * B * B)
      OBVIOUS
    <3> QED BY <2>1, <2>3, <3>1, <3>2
  <2>5. CASE n = 1
    <3>1. z[1] = 0 /\ z[2] = y1 /\ z[3] = y2 /\ z[4] = y3 /\ WordPower(n) = B
      BY <1>1, <1>3, <1>5, <2>5, WordPowers
    <3> HIDE DEF z
    <3>2. (y1 + (y2 + (y3 + y4 * B) * B) * B) * B
            = (0 + (y1 + (y2 + y3 * B) * B) * B) + y4 * (B * B * B * B)
      OBVIOUS
    <3> QED BY <2>1, <2>3, <3>1, <3>2
  <2>6. CASE n = 2
    <3>1. z[1] = 0 /\ z[2] = 0 /\ z[3] = y1 /\ z[4] = y2 /\ WordPower(n) = B * B
      BY <1>1, <1>3, <1>5, <2>6, WordPowers
    <3> HIDE DEF z
    <3>2. (y1 + (y2 + (y3 + y4 * B) * B) * B) * (B * B)
            = (0 + (0 + (y1 + y2 * B) * B) * B) + (y3 + y4 * B) * (B * B * B * B)
      OBVIOUS
    <3>3. y3 + y4 * B \in Int
      OBVIOUS
    <3> QED BY <2>1, <2>3, <3>1, <3>2, <3>3
  <2>7. CASE n = 3
    <3>1. z[1] = 0 /\ z[2] = 0 /\ z[3] = 0 /\ z[4] = y1 /\ WordPower(n) = B * B * B
      BY <1>1, <1>3, <1>5, <2>7, WordPowers
    <3> HIDE DEF z
    <3>2. (y1 + (y2 + (y3 + y4 * B) * B) * B) * (B * B * B)
            = (0 + (0 + (0 + y1 * B) * B) * B) + (y2 + (y3 + y4 * B) * B) * (B * B * B * B)
      OBVIOUS
    <3>3. y2 + (y3 + y4 * B) * B \in Int
      OBVIOUS
    <3> QED BY <2>1, <2>3, <3>1, <3>2, <3>3
  <2>8. n = 0 \/ n = 1 \/ n = 2 \/ n = 3
    BY <1>5
  <2> HIDE DEF z
  <2> QED BY <2>4, <2>5, <2>6, <2>7, <2>8
<1>6. size = 3 \/ size = 4
  OBVIOUS
<1> HIDE DEF z
<1> QED BY <1>4, <1>5, <1>6

(* shiftLeftM: the bits that stay within the size, moved up. *)
LEMMA ShiftLeftMExact ==
  ASSUME NEW size \in 3 .. 4, NEW a, Words(size, a), NEW dist \in 1 .. LongestShift
  PROVE  ArrayValue(size, softfloat_shiftLeftM(size, a, dist))
           = (IF dist >= size * WordBits THEN 0
              ELSE (ArrayValue(size, a) % 2^(size * WordBits - dist)) * 2^dist) % Modulus(size)
<1> DEFINE words == dist \div WordBits
           inner == dist % WordBits
           y == IF inner = 0 THEN a ELSE softfloat_shortShiftLeftM(size, a, inner)
           moved == IF inner = 0 THEN a ELSE softfloat_shortShiftLeftM(size - words, a, inner)
           z == [i \in 1 .. size |-> IF i <= words THEN 0 ELSE y[i - words]]
           r == softfloat_shiftLeftM(size, a, dist)
<1>1. PICK w \in Nat : w = WordBits /\ w > 1
  BY WordFacts
<1>2. /\ words \in Nat /\ inner \in 0 .. WordBits - 1 /\ dist = words * WordBits + inner
      /\ 2^dist \in Nat /\ 2^dist > 0 /\ 2^inner \in Nat
      /\ 2^dist = WordPower(words) * 2^inner
  BY Distance
<1> HIDE DEF words, inner
<1>3. r = [i \in 1 .. size |-> IF i <= words THEN 0 ELSE moved[i - words]]
  BY DEF softfloat_shiftLeftM, words, inner
<1> HIDE DEF r
<1>4. ASSUME NEW i \in 1 .. size, i > words PROVE moved[i - words] = y[i - words]
  <2>1. CASE inner = 0
    BY <2>1
  <2>2. CASE inner # 0
    <3>1. i - words \in 1 .. size /\ i - words \in 1 .. size - words
      BY <1>2, <1>4
    <3> QED BY <2>2, <3>1 DEF softfloat_shortShiftLeftM
  <2> QED BY <2>1, <2>2
<1> HIDE DEF moved, y
<1>5. r = z
  <2>1. ASSUME NEW i \in 1 .. size
        PROVE  (IF i <= words THEN 0 ELSE moved[i - words]) = (IF i <= words THEN 0 ELSE y[i - words])
    <3>1. CASE i <= words
      BY <3>1
    <3>2. CASE ~(i <= words)
      <4>1. i > words
        BY <1>2, <3>2
      <4> QED BY <1>4, <3>2, <4>1
    <3> QED BY <3>1, <3>2
  <2> QED BY <1>3, <2>1
<1>6. PICK M \in Nat : M = Modulus(size) /\ M > 0 /\ M = WordPower(size)
  <2>1. size = 3 \/ size = 4
    OBVIOUS
  <2> QED BY <2>1, ModulusFacts, WordPowers
<1>7. CASE dist >= size * WordBits
  <2>1. words >= size
    <3> SUFFICES ASSUME words < size PROVE FALSE
      BY <1>2
    <3>1. PICK k \in Nat : k = words /\ k < size
      BY <1>2
    <3>2. (size - 1 - k) * w \in Nat /\ (size - 1 - k) * w = size * w - w - k * w /\ size * w \in Nat
      BY <1>1, <3>1
    <3> QED BY <1>1, <1>2, <1>7, <3>1, <3>2
  <2>2. \A i \in 1 .. size : z[i] = 0
    BY <1>2, <2>1
  <2>3. Words(size, z)
    BY <2>2, WordFacts DEF Words, OneWord
  <2>4. ArrayValue(size, z) = 0
    <3>1. z[1] = 0 /\ z[2] = 0 /\ z[3] = 0 /\ (size = 4 => z[4] = 0)
      BY <2>2
    <3>2. PICK B \in Nat : B = Base
      BY WordFacts
    <3> HIDE DEF z
    <3>3. CASE size = 3
      <4>1. ArrayValue(3, z) = 0 + (0 + 0 * B) * B
        BY <3>1, <3>2, ValueDigits
      <4>2. 0 + (0 + 0 * B) * B = 0
        OBVIOUS
      <4> QED BY <3>3, <4>1, <4>2
    <3>4. CASE size = 4
      <4>1. ArrayValue(4, z) = 0 + (0 + (0 + 0 * B) * B) * B
        BY <3>1, <3>2, <3>4, ValueDigits
      <4>2. 0 + (0 + (0 + 0 * B) * B) * B = 0
        OBVIOUS
      <4> QED BY <3>4, <4>1, <4>2
    <3> QED BY <3>3, <3>4
  <2>5. 0 % M = 0
    BY <1>6
  <2> QED BY <1>5, <1>6, <1>7, <2>4, <2>5 DEF r
<1>8. CASE dist < size * WordBits
  <2>1. words \in 0 .. size - 1
    <3> SUFFICES ASSUME words >= size PROVE FALSE
      BY <1>2
    <3>1. PICK k \in Nat : k = words /\ k >= size
      BY <1>2
    <3>2. (k - size) * w \in Nat /\ (k - size) * w = k * w - size * w /\ size * w \in Nat
      BY <1>1, <3>1
    <3> QED BY <1>1, <1>2, <1>8, <3>1, <3>2
  <2>2. PICK va \in Int, D \in Nat : va = ArrayValue(size, a) /\ D = 2^inner
    <3>1. \A i \in 1 .. size : a[i] \in Int
      BY WordFacts DEF Words, OneWord
    <3> QED BY <1>2, <3>1, ValueInt
  <2>3. /\ Words(size, y)
        /\ \E h \in Int : va * D = ArrayValue(size, y) + h * M
    <3>1. CASE inner = 0
      <4>1. y = a /\ D = 1
        <5>1. 2^0 = 1
          OBVIOUS
        <5> QED BY <2>2, <3>1, <5>1 DEF y
      <4>2. va * 1 = va + 0 * M /\ 0 \in Int
        OBVIOUS
      <4> HIDE DEF y, z
      <4>3. va * D = ArrayValue(size, y) + 0 * M
        BY <2>2, <4>1, <4>2, Zenon
      <4>4. Words(size, y)
        BY <4>1, Zenon
      <4> QED BY <4>2, <4>3, <4>4, Zenon
    <3>2. CASE inner # 0
      <4>1. inner \in 1 .. WordBits - 1
        BY <1>2, <3>2
      <4>2. y = softfloat_shortShiftLeftM(size, a, inner)
        BY <3>2 DEF y
      <4> QED BY <1>6, <2>2, <4>1, <4>2, ShortShiftLeftMValue
    <3> QED BY <3>1, <3>2
  <2>4. PICK h \in Int : va * D = ArrayValue(size, y) + h * M
    BY <2>3
  <2>5. Words(size, z) /\ \E m \in Int : ArrayValue(size, y) * WordPower(words)
                                           = ArrayValue(size, z) + m * Modulus(size)
    BY <2>1, <2>3, WordsMovedUp
  <2>6. PICK m \in Int : ArrayValue(size, y) * WordPower(words) = ArrayValue(size, z) + m * M
    BY <1>6, <2>5
  <2>7. ASSUME NEW u, Words(size, u) PROVE ArrayValue(size, u) \in Int
    <3>1. \A i \in 1 .. size : u[i] \in Int
      BY <2>7, WordFacts DEF Words, OneWord
    <3> QED BY <3>1, ValueInt
  <2> HIDE DEF z
  <2>8. PICK vy \in Int, vz \in Int, P \in Nat :
          vy = ArrayValue(size, y) /\ vz = ArrayValue(size, z) /\ P = WordPower(words)
    <3>1. words \in 0 .. 4
      BY <2>1
    <3> QED BY <2>3, <2>5, <2>7, <3>1, WordPowers
  <2>9. va * D = vy + h * M /\ vy * P = vz + m * M
    BY <2>4, <2>6, <2>8
  <2>10. va * (P * D) = vz + (m + h * P) * M
    <3>1. va * (P * D) = (va * D) * P
      OBVIOUS
    <3>2. (vy + h * M) * P = vy * P + (h * P) * M
      OBVIOUS
    <3>3. (vz + m * M) + (h * P) * M = vz + (m + h * P) * M
      OBVIOUS
    <3> QED BY <2>9, <3>1, <3>2, <3>3
  <2>11. PICK S \in Nat, T \in Nat : S = 2^dist /\ T = 2^(size * WordBits - dist) /\ T > 0 /\ S * T = M
    <3>1. /\ size * WordBits - dist \in Nat /\ dist \in Nat
          /\ dist + (size * WordBits - dist) = size * WordBits
          /\ size * WordBits <= LongestShift
          /\ size * WordBits - dist \in 0 .. LongestShift
      <4>1. size * w \in Nat /\ size * w <= 4 * w
        BY <1>1
      <4> QED BY <1>1, <1>8, <4>1, WordAssumption
    <3>2. 2^(dist + (size * WordBits - dist)) = 2^dist * 2^(size * WordBits - dist)
      BY <3>1, PowerSum
    <3>3. 2^(size * WordBits - dist) \in Nat /\ 2^(size * WordBits - dist) > 0
      BY <3>1, PowerPositive
    <3> QED BY <1>2, <1>6, <3>1, <3>2, <3>3 DEF WordPower
  <2>12. PICK q \in Int, l \in 0 .. T - 1 : q = va \div T /\ l = va % T /\ va = q * T + l
    <3>1. va \div T \in Int /\ va % T \in 0 .. T - 1 /\ va = (va \div T) * T + (va % T)
      BY <2>11, Divided
    <3> QED BY <3>1
  <2>13. S = P * D
    BY <1>2, <2>2, <2>8, <2>11
  <2>14. l * S = vz + (m + h * P - q) * M
    <3>1. (q * T + l) * S = q * (S * T) + l * S
      OBVIOUS
    <3>2. (m + h * P - q) * M = (m + h * P) * M - q * M
      OBVIOUS
    <3>3. va * S = vz + (m + h * P) * M
      BY <2>10, <2>13
    <3>4. q * M + l * S = vz + (m + h * P) * M
      BY <2>11, <2>12, <3>1, <3>3
    <3> QED BY <3>2, <3>4
  <2>15. /\ l * S = ArrayValue(size, z) + (m + h * P - q) * Modulus(size)
         /\ l * S \in Int /\ m + h * P - q \in Int
    BY <1>6, <2>8, <2>14
  <2>16. ArrayValue(size, z) = (l * S) % Modulus(size)
    BY <2>5, <2>15, ValueIs
  <2>17. ~(dist >= size * WordBits)
    BY <1>1, <1>8
  <2> QED BY <1>5, <2>2, <2>11, <2>12, <2>16, <2>17 DEF r
<1>9. dist >= size * WordBits \/ dist < size * WordBits
  BY <1>1
<1> QED BY <1>7, <1>8, <1>9

-----------------------------------------------------------------------------
(* Shift right: what stays and what is lost. *)

(* Four words without the lowest n, and shifted right by less than a word. *)
Dropped(u, n) == [i \in 1 .. 4 |-> IF i + n <= 4 THEN u[i + n] ELSE 0]
RightBy(u, d) ==
    [i \in 1 .. 4 |-> Shr(u[i], d) + (IF i = 4 THEN 0 ELSE Spill(u[i + 1], d))]

(* Shifting right by less than a word divides the value. *)
LEMMA RightValue ==
  ASSUME NEW u, Words(4, u), NEW d \in 1 .. WordBits - 1
  PROVE  /\ Words(4, RightBy(u, d))
         /\ ArrayValue(4, u) = ArrayValue(4, RightBy(u, d)) * 2^d + (u[1] % 2^d)
<1> DEFINE y == RightBy(u, d)
<1>1. PICK B \in Nat, D \in Nat, E \in Nat :
         B = Base /\ D = 2^d /\ E = 2^(WordBits - d) /\ D > 1 /\ E > 1 /\ D * E = B
  BY WordFacts, ShiftFacts
<1>2. ASSUME NEW i \in 1 .. 4
      PROVE  /\ u[i] \in Int /\ Shr(u[i], d) \in 0 .. E - 1 /\ u[i] % D \in 0 .. D - 1
             /\ u[i] = Shr(u[i], d) * D + (u[i] % D)
             /\ Spill(u[i], d) = (u[i] % D) * E
             /\ \A s \in 0 .. E - 1 : Spill(u[i], d) + s \in OneWord
             /\ Shr(u[i], d) \in OneWord
  <2>1. u[i] \in OneWord /\ u[i] \in Int
    BY WordFacts DEF Words, OneWord
  <2>2. /\ Shr(u[i], d) \in 0 .. E - 1 /\ u[i] % D \in 0 .. D - 1
        /\ u[i] = Shr(u[i], d) * D + (u[i] % D)
        /\ Spill(u[i], d) = (u[i] % D) * E
        /\ \A s \in 0 .. E - 1 : Spill(u[i], d) + s \in OneWord
    BY <1>1, <2>1, RightParts
  <2>3. E <= B
    BY <1>1
  <2>4. Shr(u[i], d) \in OneWord
    BY <1>1, <2>2, <2>3 DEF OneWord
  <2> QED BY <2>1, <2>2, <2>4
<1>3. PICK h1 \in 0 .. E - 1, h2 \in 0 .. E - 1, h3 \in 0 .. E - 1, h4 \in 0 .. E - 1 :
         h1 = Shr(u[1], d) /\ h2 = Shr(u[2], d) /\ h3 = Shr(u[3], d) /\ h4 = Shr(u[4], d)
  BY <1>2
<1>4. PICK l1 \in 0 .. D - 1, l2 \in 0 .. D - 1, l3 \in 0 .. D - 1, l4 \in 0 .. D - 1 :
         l1 = u[1] % D /\ l2 = u[2] % D /\ l3 = u[3] % D /\ l4 = u[4] % D
  BY <1>2
<1>5. y[1] = h1 + Spill(u[2], d) /\ y[2] = h2 + Spill(u[3], d) /\ y[3] = h3 + Spill(u[4], d) /\ y[4] = h4 + 0
  BY <1>3 DEF RightBy
<1>6. y[1] = h1 + l2 * E /\ y[2] = h2 + l3 * E /\ y[3] = h3 + l4 * E /\ y[4] = h4
  BY <1>2, <1>4, <1>5
<1>7. u[1] = h1 * D + l1 /\ u[2] = h2 * D + l2 /\ u[3] = h3 * D + l3 /\ u[4] = h4 * D + l4
  BY <1>2, <1>3, <1>4
<1>8. Words(4, y)
  <2>1. ASSUME NEW i \in 1 .. 3 PROVE y[i] \in OneWord
    <3>1. i \in 1 .. 4 /\ i + 1 \in 1 .. 4 /\ i # 4
      OBVIOUS
    <3>2. y[i] = Shr(u[i], d) + Spill(u[i + 1], d)
      BY <3>1 DEF RightBy
    <3>3. PICK s \in 0 .. E - 1 : s = Shr(u[i], d)
      BY <1>2, <3>1
    <3>4. Spill(u[i + 1], d) + s \in OneWord /\ Spill(u[i + 1], d) \in Int
      BY <1>2, <3>1
    <3>5. s + Spill(u[i + 1], d) = Spill(u[i + 1], d) + s
      BY <3>4
    <3> QED BY <3>2, <3>3, <3>4, <3>5
  <2>2. y[4] \in OneWord
    BY <1>2, <1>3, <1>6
  <2>3. ASSUME NEW i \in 1 .. 4 PROVE y[i] \in OneWord
    BY <2>1, <2>2
  <2> QED BY <2>3 DEF Words
<1> HIDE DEF y
<1>9. ArrayValue(4, y) = (h1 + l2 * E) + ((h2 + l3 * E) + ((h3 + l4 * E) + h4 * B) * B) * B
  <2>1. y[1] \in Int /\ y[2] \in Int
    BY <1>8, WordFacts DEF Words, OneWord
  <2> QED BY <1>1, <1>6, <2>1, ValueDigits
<1>10. ArrayValue(4, u) = (h1 * D + l1) + ((h2 * D + l2) + ((h3 * D + l3) + (h4 * D + l4) * B) * B) * B
  <2>1. u[1] \in Int /\ u[2] \in Int
    BY <1>2
  <2> QED BY <1>1, <1>7, <2>1, ValueDigits
<1>11. ((h1 + l2 * E) + ((h2 + l3 * E) + ((h3 + l4 * E) + h4 * B) * B) * B) * D + l1
         = (h1 * D + l1) + ((h2 * D + l2) + ((h3 * D + l3) + (h4 * D + l4) * B) * B) * B
  <2>1. (l2 * E) * D = l2 * B /\ (l3 * E) * D = l3 * B /\ (l4 * E) * D = l4 * B
    <3>1. (l2 * E) * D = l2 * (D * E) /\ (l3 * E) * D = l3 * (D * E) /\ (l4 * E) * D = l4 * (D * E)
      OBVIOUS
    <3> QED BY <1>1, <3>1
  <2>2. ((h1 + l2 * E) + ((h2 + l3 * E) + ((h3 + l4 * E) + h4 * B) * B) * B) * D + l1
         = (h1 * D + (l2 * E) * D) + ((h2 * D + (l3 * E) * D) + ((h3 * D + (l4 * E) * D) + (h4 * D) * B) * B) * B + l1
    OBVIOUS
  <2>3. (h1 * D + l2 * B) + ((h2 * D + l3 * B) + ((h3 * D + l4 * B) + (h4 * D) * B) * B) * B + l1
         = (h1 * D + l1) + ((h2 * D + l2) + ((h3 * D + l3) + (h4 * D + l4) * B) * B) * B
    OBVIOUS
  <2> QED BY <2>1, <2>2, <2>3
<1> QED BY <1>1, <1>4, <1>8, <1>9, <1>10, <1>11 DEF y

(* Dropping words divides the value; nothing is lost exactly when the      *)
(* words dropped were zero.                                                *)
LEMMA DroppedValue ==
  ASSUME NEW u, Words(4, u), NEW n \in 0 .. 3
  PROVE  /\ Words(4, Dropped(u, n))
         /\ \E low \in 0 .. WordPower(n) - 1 :
              /\ ArrayValue(4, u) = ArrayValue(4, Dropped(u, n)) * WordPower(n) + low
              /\ low = 0 <=> \A i \in 1 .. n : u[i] = 0
<1> DEFINE y == Dropped(u, n)
<1>1. PICK B \in Nat : B = Base /\ B > 1
  BY WordFacts
<1>2. PICK u1 \in 0 .. B - 1, u2 \in 0 .. B - 1, u3 \in 0 .. B - 1, u4 \in 0 .. B - 1 :
         u1 = u[1] /\ u2 = u[2] /\ u3 = u[3] /\ u4 = u[4]
  BY <1>1 DEF Words, OneWord
<1>3. ArrayValue(4, u) = u1 + (u2 + (u3 + u4 * B) * B) * B
  BY <1>1, <1>2, ValueDigits
<1>4. Words(4, y)
  <2>1. 0 \in OneWord
    BY <1>1 DEF OneWord
  <2> QED BY <2>1 DEF Words, Dropped
<1>5. CASE n = 0
  <2>1. y[1] = u1 /\ y[2] = u2 /\ y[3] = u3 /\ y[4] = u4
    BY <1>2, <1>5 DEF Dropped
  <2> HIDE DEF y
  <2>2. ArrayValue(4, y) = u1 + (u2 + (u3 + u4 * B) * B) * B
    BY <1>1, <2>1, ValueDigits
  <2>3. u1 + (u2 + (u3 + u4 * B) * B) * B = (u1 + (u2 + (u3 + u4 * B) * B) * B) * 1 + 0
    OBVIOUS
  <2>4. WordPower(n) = 1 /\ 1 .. n = {} /\ 0 \in 0 .. WordPower(n) - 1
    BY <1>5, WordPowers
  <2> QED BY <1>3, <1>4, <2>2, <2>3, <2>4 DEF y
<1>6. CASE n = 1
  <2>1. y[1] = u2 /\ y[2] = u3 /\ y[3] = u4 /\ y[4] = 0
    BY <1>2, <1>6 DEF Dropped
  <2> HIDE DEF y
  <2>2. ArrayValue(4, y) = u2 + (u3 + (u4 + 0 * B) * B) * B
    BY <1>1, <2>1, ValueDigits
  <2>3. u1 + (u2 + (u3 + u4 * B) * B) * B = (u2 + (u3 + (u4 + 0 * B) * B) * B) * B + u1
    OBVIOUS
  <2>4. WordPower(n) = B /\ u1 \in 0 .. WordPower(n) - 1
    BY <1>1, <1>6, WordPowers
  <2>5. u1 = 0 <=> \A i \in 1 .. n : u[i] = 0
    BY <1>2, <1>6
  <2> QED BY <1>3, <1>4, <2>2, <2>3, <2>4, <2>5 DEF y
<1>7. CASE n = 2
  <2>1. y[1] = u3 /\ y[2] = u4 /\ y[3] = 0 /\ y[4] = 0
    BY <1>2, <1>7 DEF Dropped
  <2> HIDE DEF y
  <2>2. ArrayValue(4, y) = u3 + (u4 + (0 + 0 * B) * B) * B
    BY <1>1, <2>1, ValueDigits
  <2>3. u1 + (u2 + (u3 + u4 * B) * B) * B = (u3 + (u4 + (0 + 0 * B) * B) * B) * (B * B) + (u1 + u2 * B)
    OBVIOUS
  <2>4. WordPower(n) = B * B /\ u1 + u2 * B \in 0 .. WordPower(n) - 1
    <3>1. u1 + u2 * B \in 0 .. (B * B) - 1
      BY <1>1, DigitRange
    <3> QED BY <1>1, <1>7, <3>1, WordPowers
  <2>5. u1 + u2 * B = 0 <=> u1 = 0 /\ u2 = 0
    BY <1>1
  <2>6. (u1 = 0 /\ u2 = 0) <=> \A i \in 1 .. n : u[i] = 0
    BY <1>2, <1>7
  <2> QED BY <1>3, <1>4, <2>2, <2>3, <2>4, <2>5, <2>6 DEF y
<1>8. CASE n = 3
  <2>1. y[1] = u4 /\ y[2] = 0 /\ y[3] = 0 /\ y[4] = 0
    BY <1>2, <1>8 DEF Dropped
  <2> HIDE DEF y
  <2>2. ArrayValue(4, y) = u4 + (0 + (0 + 0 * B) * B) * B
    <3>1. ArrayValue(4, y) = y[1] + (y[2] + (y[3] + y[4] * Base) * Base) * Base
      BY <2>1, ValueDigits
    <3> QED BY <1>1, <2>1, <3>1
  <2>3. u1 + (u2 + (u3 + u4 * B) * B) * B
          = (u4 + (0 + (0 + 0 * B) * B) * B) * (B * B * B) + (u1 + (u2 + u3 * B) * B)
    OBVIOUS
  <2>4. WordPower(n) = B * B * B /\ u1 + (u2 + u3 * B) * B \in 0 .. WordPower(n) - 1
    <3>1. u2 + u3 * B \in 0 .. (B * B) - 1 /\ B * B \in Nat
      BY <1>1, DigitRange
    <3>2. u1 + (u2 + u3 * B) * B \in 0 .. ((B * B) * B) - 1
      BY <1>1, <3>1, DigitRange
    <3>3. (B * B) * B = B * B * B
      OBVIOUS
    <3> QED BY <1>1, <1>8, <3>2, <3>3, WordPowers
  <2>5. u1 + (u2 + u3 * B) * B = 0 <=> u1 = 0 /\ u2 = 0 /\ u3 = 0
    <3>1. u3 * B \in Nat /\ (u3 * B = 0 <=> u3 = 0)
      BY <1>1
    <3>2. PICK p \in Nat : p = u2 + u3 * B /\ (p = 0 <=> u2 = 0 /\ u3 = 0)
      BY <3>1
    <3>3. p * B \in Nat /\ (p * B = 0 <=> p = 0)
      BY <1>1
    <3> QED BY <3>2, <3>3
  <2>6. (u1 = 0 /\ u2 = 0 /\ u3 = 0) <=> \A i \in 1 .. n : u[i] = 0
    BY <1>2, <1>8
  <2> QED BY <1>3, <1>4, <2>2, <2>3, <2>4, <2>5, <2>6 DEF y
<1> QED BY <1>5, <1>6, <1>7, <1>8

(* Any distance: whole words first. *)
Right(u, dist) ==
    LET kept == Dropped(u, dist \div WordBits)
    IN  IF dist % WordBits = 0 THEN kept ELSE RightBy(kept, dist % WordBits)
(* A set bit is lost. *)
Lost(u, dist) ==
    \/ \E i \in 1 .. 4 : i <= dist \div WordBits /\ u[i] # 0
    \/ Dropped(u, dist \div WordBits)[1] % 2^(dist % WordBits) # 0

(* The words of the quotient, and when the remainder is not zero. *)
LEMMA RightShifted ==
  ASSUME NEW u, Words(4, u), NEW dist \in 1 .. LongestShift
  PROVE  /\ Words(4, Right(u, dist))
         /\ ArrayValue(4, u) \div 2^dist = ArrayValue(4, Right(u, dist))
         /\ (ArrayValue(4, u) % 2^dist # 0) <=> Lost(u, dist)
<1> DEFINE n == dist \div WordBits
           d == dist % WordBits
           k == Dropped(u, n)
           y == Right(u, dist)
<1>1. PICK S \in Nat, D \in Nat : S = 2^dist /\ S > 0 /\ D = 2^d /\ D > 0
  BY Distance
<1>2. n \in Nat /\ d \in 0 .. WordBits - 1 /\ S = WordPower(n) * D
      /\ \A m \in 0 .. 4 : n >= m => S >= WordPower(m)
  BY <1>1, Distance
<1>3. PICK vu \in Nat : vu = ArrayValue(4, u) /\ vu < WordPower(4)
  <2>1. ArrayValue(4, u) \in 0 .. Modulus(4) - 1
    BY ValueRange DEF Words
  <2> QED BY <2>1, ModulusFacts, WordPowers
<1>4. y = IF d = 0 THEN k ELSE RightBy(k, d)
  BY DEF Right
<1>5. Lost(u, dist) <=> (\E i \in 1 .. 4 : i <= n /\ u[i] # 0) \/ k[1] % D # 0
  BY <1>1 DEF Lost
<1> HIDE DEF n, d, y
<1>6. CASE n \in 0 .. 3
  <2>1. PICK low \in 0 .. WordPower(n) - 1 :
              /\ Words(4, k)
              /\ ArrayValue(4, u) = ArrayValue(4, k) * WordPower(n) + low
              /\ low = 0 <=> \A i \in 1 .. n : u[i] = 0
    BY <1>6, DroppedValue
  <2>2. (low # 0) <=> \E i \in 1 .. 4 : i <= n /\ u[i] # 0
    BY <1>6, <2>1
  <2>3. k[1] \in Int /\ k[2] \in Int
    BY <2>1, WordFacts DEF Words, OneWord
  <2> HIDE DEF k
  <2>4. Words(4, y) /\ ArrayValue(4, k) = ArrayValue(4, y) * D + (k[1] % D)
    <3>1. CASE d = 0
      <4>1. y = k
        BY <1>4, <3>1
      <4>2. D = 1
        <5>1. 2^0 = 1
          OBVIOUS
        <5> QED BY <1>1, <3>1, <5>1
      <4>3. k[1] % 1 = 0
        BY <2>3
      <4>4. ArrayValue(4, k) \in Int
        <5>1. \A i \in 1 .. 4 : k[i] \in Int
          BY <2>1, WordFacts DEF Words, OneWord
        <5> QED BY <5>1, ValueInt
      <4>5. ArrayValue(4, k) = ArrayValue(4, k) * 1 + 0
        BY <4>4
      <4> QED BY <2>1, <4>1, <4>2, <4>3, <4>5
    <3>2. CASE d # 0
      <4>1. d \in 1 .. WordBits - 1 /\ y = RightBy(k, d)
        BY <1>2, <1>4, <3>2, WordFacts
      <4> QED BY <1>1, <2>1, <4>1, RightValue
    <3> QED BY <3>1, <3>2
  <2>5. PICK vy \in Int, P \in Nat, l \in 0 .. D - 1 :
           vy = ArrayValue(4, y) /\ P = WordPower(n) /\ P > 0 /\ l = k[1] % D
    <3>1. \A i \in 1 .. 4 : y[i] \in Int
      BY <2>4, WordFacts DEF Words, OneWord
    <3>2. ArrayValue(4, y) \in Int
      BY <3>1, ValueInt
    <3>3. WordPower(n) \in Nat /\ WordPower(n) > 0
      BY <1>6, WordPowers
    <3>4. k[1] % D \in 0 .. D - 1
      BY <1>1, <2>3
    <3> QED BY <3>2, <3>3, <3>4
  <2>6. vu = (vy * D + l) * P + low /\ low \in 0 .. P - 1 /\ S = P * D
    BY <1>2, <1>3, <2>1, <2>4, <2>5
  <2>7. vu = vy * S + (low + l * P)
    <3>1. (vy * D + l) * P + low = vy * (P * D) + (low + l * P)
      BY <2>6
    <3> QED BY <2>6, <3>1
  <2>8. low + l * P \in 0 .. S - 1
    <3>1. low + l * P \in 0 .. (D * P) - 1
      BY <2>5, <2>6, DigitRange
    <3>2. D * P = P * D
      OBVIOUS
    <3> QED BY <2>6, <3>1, <3>2
  <2>9. vu \div S = vy /\ vu % S = low + l * P
    BY <1>1, <2>7, <2>8, Remainder
  <2>10. low + l * P # 0 <=> low # 0 \/ l # 0
    <3>1. l * P \in Nat /\ (l * P = 0 <=> l = 0)
      BY <2>5
    <3> QED BY <2>6, <3>1
  <2> QED BY <1>1, <1>3, <1>5, <2>2, <2>4, <2>5, <2>9, <2>10 DEF y
<1>7. CASE n >= 4
  <2>1. vu < S
    <3>1. S >= WordPower(4) /\ WordPower(4) \in Nat
      BY <1>2, <1>7, WordPowers
    <3> QED BY <1>1, <1>3, <3>1
  <2>2. vu \div S = 0 /\ vu % S = vu
    BY <1>1, <2>1, OwnRemainder
  <2>3. k = [i \in 1 .. 4 |-> 0]
    <3>1. \A i \in 1 .. 4 : ~(i + n <= 4)
      BY <1>2, <1>7
    <3> QED BY <3>1 DEF Dropped
  <2>4. k[1] = 0 /\ k[2] = 0 /\ k[3] = 0 /\ k[4] = 0 /\ Words(4, k)
    BY <2>3, WordFacts DEF Words, OneWord
  <2>5. k[1] % D = 0
    BY <1>1, <2>4
  <2>6. ArrayValue(4, k) = 0
    <3>1. PICK B \in Nat : B = Base
      BY WordFacts
    <3>2. ArrayValue(4, k) = k[1] + (k[2] + (k[3] + k[4] * Base) * Base) * Base
      BY <2>4, ValueDigits
    <3>3. ArrayValue(4, k) = 0 + (0 + (0 + 0 * B) * B) * B
      BY <2>4, <3>1, <3>2
    <3> QED BY <3>3
  <2> HIDE DEF k
  <2>7. Words(4, y) /\ ArrayValue(4, y) = 0
    <3>1. CASE d = 0
      BY <1>4, <2>4, <2>6, <3>1
    <3>2. CASE d # 0
      <4>1. d \in 1 .. WordBits - 1 /\ y = RightBy(k, d)
        BY <1>2, <1>4, <3>2, WordFacts
      <4>2. Words(4, y) /\ ArrayValue(4, k) = ArrayValue(4, y) * D + (k[1] % D)
        BY <1>1, <2>4, <4>1, RightValue
      <4>3. PICK vy \in Int : vy = ArrayValue(4, y)
        <5>1. \A i \in 1 .. 4 : y[i] \in Int
          BY <4>2, WordFacts DEF Words, OneWord
        <5> QED BY <5>1, ValueInt
      <4>4. vy * D + 0 = 0
        BY <2>5, <2>6, <4>2, <4>3
      <4>5. vy = 0
        <5>1. 0 \in 0 .. D - 1 /\ 0 \div D = 0
          BY <1>1
        <5>2. (vy * D + 0) \div D = vy
          BY <1>1, <5>1, Remainder
        <5> QED BY <4>4, <5>1, <5>2
      <4> QED BY <4>2, <4>3, <4>5
    <3> QED BY <3>1, <3>2
  <2>8. vu = 0 <=> \A i \in 1 .. 4 : u[i] = 0
    <3>1. PICK B \in Nat : B = Base /\ B > 1
      BY WordFacts
    <3>2. PICK u1 \in Nat, u2 \in Nat, u3 \in Nat, u4 \in Nat :
            u1 = u[1] /\ u2 = u[2] /\ u3 = u[3] /\ u4 = u[4]
      BY <3>1 DEF Words, OneWord
    <3>3. vu = u1 + (u2 + (u3 + u4 * B) * B) * B
      BY <1>3, <3>1, <3>2, ValueDigits
    <3>4. PICK p \in Nat : p = u3 + u4 * B /\ (p = 0 <=> u3 = 0 /\ u4 = 0)
      <4>1. u4 * B \in Nat /\ (u4 * B = 0 <=> u4 = 0)
        BY <3>1
      <4> QED BY <4>1
    <3>5. PICK q \in Nat : q = u2 + p * B /\ (q = 0 <=> u2 = 0 /\ p = 0)
      <4>1. p * B \in Nat /\ (p * B = 0 <=> p = 0)
        BY <3>1
      <4> QED BY <4>1
    <3>6. q * B \in Nat /\ (q * B = 0 <=> q = 0)
      BY <3>1
    <3>7. vu = 0 <=> u1 = 0 /\ q = 0
      BY <3>3, <3>4, <3>5, <3>6
    <3>8. (\A i \in 1 .. 4 : u[i] = 0) <=> u1 = 0 /\ u2 = 0 /\ u3 = 0 /\ u4 = 0
      BY <3>2
    <3> QED BY <3>4, <3>5, <3>7, <3>8
  <2>9. (\E i \in 1 .. 4 : i <= n /\ u[i] # 0) <=> ~(\A i \in 1 .. 4 : u[i] = 0)
    BY <1>2, <1>7
  <2> QED BY <1>1, <1>3, <1>5, <2>2, <2>5, <2>7, <2>8, <2>9 DEF y
<1>8. n \in 0 .. 3 \/ n >= 4
  BY <1>2
<1> QED BY <1>6, <1>7, <1>8

-----------------------------------------------------------------------------
(* Shift right by any distance. *)

(* An array of three or four words as one of four. *)
Padded(size, a) == [i \in 1 .. 4 |-> IF i <= size THEN a[i] ELSE 0]

(* Padding with zero words keeps the value. *)
LEMMA PaddedValue ==
  ASSUME NEW size \in 3 .. 4, NEW a, Words(size, a)
  PROVE  Words(4, Padded(size, a)) /\ ArrayValue(4, Padded(size, a)) = ArrayValue(size, a)
<1> DEFINE u == Padded(size, a)
<1>1. PICK B \in Nat : B = Base /\ B > 1
  BY WordFacts
<1>2. PICK a1 \in Int, a2 \in Int, a3 \in Int : a1 = a[1] /\ a2 = a[2] /\ a3 = a[3]
  BY <1>1 DEF Words, OneWord
<1>3. Words(4, u) /\ u[1] = a1 /\ u[2] = a2 /\ u[3] = a3
      /\ (size = 3 => u[4] = 0) /\ (size = 4 => u[4] = a[4])
  <2>1. 0 \in OneWord
    BY <1>1 DEF OneWord
  <2> QED BY <1>2, <2>1 DEF Words, Padded
<1> HIDE DEF u
<1>4. ArrayValue(4, u) = a1 + (a2 + (a3 + u[4] * B) * B) * B
  BY <1>1, <1>3, ValueDigits
<1>5. CASE size = 3
  <2>1. ArrayValue(size, a) = a1 + (a2 + a3 * B) * B
    BY <1>1, <1>2, <1>5, ValueDigits
  <2>2. ArrayValue(4, u) = a1 + (a2 + (a3 + 0 * B) * B) * B
    BY <1>3, <1>4, <1>5
  <2>3. a3 + 0 * B = a3
    OBVIOUS
  <2> QED BY <1>3, <2>1, <2>2, <2>3 DEF u
<1>6. CASE size = 4
  <2>1. ArrayValue(4, a) = a1 + (a2 + (a3 + a[4] * B) * B) * B
    BY <1>1, <1>2, ValueDigits
  <2> QED BY <1>3, <1>4, <1>6, <2>1 DEF u
<1> QED BY <1>5, <1>6

(* Arrays with the same words have the same value. *)
LEMMA SameValue ==
  ASSUME NEW size \in 3 .. 4, NEW a, NEW b, \A i \in 1 .. size : a[i] = b[i]
  PROVE  ArrayValue(size, a) = ArrayValue(size, b)
<1>1. a[1] = b[1] /\ a[2] = b[2] /\ a[3] = b[3]
  OBVIOUS
<1>2. CASE size = 3
  BY <1>1, <1>2 DEF ArrayValue
<1>3. CASE size = 4
  <2>1. a[4] = b[4]
    BY <1>3
  <2> QED BY <1>1, <1>3, <2>1 DEF ArrayValue
<1> QED BY <1>2, <1>3

(* A shift of zero is zero. *)
LEMMA NothingShifted ==
  ASSUME NEW d \in 1 .. WordBits - 1
  PROVE  Shr(0, d) = 0 /\ Spill(0, d) = 0
<1>1. PICK D \in Nat, E \in Nat : D = 2^d /\ D > 1 /\ E = 2^(WordBits - d)
  BY ShiftFacts
<1>2. 0 \in OneWord
  BY WordFacts DEF OneWord
<1>3. Spill(0, d) = (0 % D) * E
  BY <1>1, <1>2, RightParts
<1>4. 0 % D = 0 /\ 0 \div D = 0 /\ 0 * E = 0
  BY <1>1
<1> QED BY <1>1, <1>3, <1>4 DEF Shr

(* What the shift leaves in the words it keeps, and zero above them. *)
LEMMA KeptWords ==
  ASSUME NEW size \in 3 .. 4, NEW a, Words(size, a), NEW dist \in 1 .. LongestShift,
         NEW i \in 1 .. 4
  PROVE  LET n == dist \div WordBits
             d == dist % WordBits
             y == Right(Padded(size, a), dist)
         IN  /\ Dropped(Padded(size, a), n)[i] = IF i + n <= size THEN a[i + n] ELSE 0
             /\ i + n > size => y[i] = 0
             /\ i + n <= size /\ d = 0 => y[i] = a[i + n]
             /\ i + n = size /\ d # 0 => y[i] = Shr(a[i + n], d) + 0
             /\ i + n < size /\ d # 0 => y[i] = Shr(a[i + n], d) + Spill(a[i + n + 1], d)
<1> DEFINE n == dist \div WordBits
           d == dist % WordBits
           u == Padded(size, a)
           k == Dropped(u, n)
           y == Right(u, dist)
<1>1. n \in Nat /\ d \in 0 .. WordBits - 1
  BY Distance
<1>2. y = IF d = 0 THEN k ELSE RightBy(k, d)
  BY DEF Right
<1> HIDE DEF n, d, y
<1>3. ASSUME NEW j \in 1 .. 4 PROVE k[j] = IF j + n <= size THEN a[j + n] ELSE 0
  <2>1. CASE j + n <= size
    <3>1. j + n \in 1 .. 4 /\ j + n <= 4
      BY <1>1, <2>1
    <3> QED BY <2>1, <3>1 DEF Dropped, Padded
  <2>2. CASE ~(j + n <= size)
    <3>1. j + n <= 4 => j + n \in 1 .. 4
      BY <1>1
    <3> QED BY <2>2, <3>1 DEF Dropped, Padded
  <2> QED BY <2>1, <2>2
<1> HIDE DEF k
<1>4. CASE d = 0
  <2>1. y[i] = k[i]
    BY <1>2, <1>4
  <2>2. i + n > size => ~(i + n <= size)
    BY <1>1
  <2> QED BY <1>3, <1>4, <2>1, <2>2 DEF n, d, y, k
<1>5. CASE d # 0
  <2>1. d \in 1 .. WordBits - 1
    BY <1>1, <1>5, WordFacts
  <2>2. y[i] = Shr(k[i], d) + (IF i = 4 THEN 0 ELSE Spill(k[i + 1], d))
    BY <1>2, <1>5 DEF RightBy
  <2>3. Shr(0, d) = 0 /\ Spill(0, d) = 0
    BY <2>1, NothingShifted
  <2>4. ASSUME i + n > size PROVE y[i] = 0
    <3>1. k[i] = 0
      BY <1>1, <1>3, <2>4
    <3>2. i # 4 => i + 1 \in 1 .. 4 /\ ~(i + 1 + n <= size)
      BY <1>1, <2>4
    <3>3. i # 4 => k[i + 1] = 0
      BY <1>3, <3>2
    <3> QED BY <2>2, <2>3, <3>1, <3>3
  <2>5. ASSUME i + n = size PROVE y[i] = Shr(a[i + n], d) + 0
    <3>1. k[i] = a[i + n]
      BY <1>1, <1>3, <2>5
    <3>2. i # 4 => i + 1 \in 1 .. 4 /\ ~(i + 1 + n <= size)
      BY <1>1, <2>5
    <3>3. i # 4 => k[i + 1] = 0
      BY <1>3, <3>2
    <3> QED BY <2>2, <2>3, <3>1, <3>3
  <2>6. ASSUME i + n < size PROVE y[i] = Shr(a[i + n], d) + Spill(a[i + n + 1], d)
    <3>1. k[i] = a[i + n]
      BY <1>1, <1>3, <2>6
    <3>2. i # 4 /\ i + 1 \in 1 .. 4 /\ i + 1 + n <= size /\ i + 1 + n = i + n + 1
      BY <1>1, <2>6
    <3>3. k[i + 1] = a[i + n + 1]
      BY <1>3, <3>2
    <3> QED BY <2>2, <3>1, <3>2, <3>3
  <2>7. k[i] = IF i + n <= size THEN a[i + n] ELSE 0
    BY <1>3
  <2> QED BY <1>5, <2>4, <2>5, <2>6, <2>7 DEF n, d, y, k
<1> QED BY <1>4, <1>5

(* shiftRightM: the quotient. *)
LEMMA ShiftRightMExact ==
  ASSUME NEW size \in 3 .. 4, NEW a, Words(size, a), NEW dist \in 1 .. LongestShift
  PROVE  ArrayValue(size, softfloat_shiftRightM(size, a, dist))
           = (ArrayValue(size, a) \div 2^dist) % Modulus(size)
<1> DEFINE n == dist \div WordBits
           d == dist % WordBits
           u == Padded(size, a)
           y == Right(u, dist)
           r == softfloat_shiftRightM(size, a, dist)
           kept == [i \in 1 .. size - n |-> a[i + n]]
           moved == IF d = 0 THEN kept ELSE softfloat_shortShiftRightM(size - n, kept, d)
<1>1. n \in Nat /\ d \in 0 .. WordBits - 1
  BY Distance
<1>2. r = [i \in 1 .. size |-> IF i > size - n THEN 0 ELSE moved[i]]
  BY DEF softfloat_shiftRightM
<1>3. ASSUME NEW i \in 1 .. 4
      PROVE  /\ i + n > size => y[i] = 0
             /\ i + n <= size /\ d = 0 => y[i] = a[i + n]
             /\ i + n = size /\ d # 0 => y[i] = Shr(a[i + n], d) + 0
             /\ i + n < size /\ d # 0 => y[i] = Shr(a[i + n], d) + Spill(a[i + n + 1], d)
  BY KeptWords
<1> HIDE DEF n, d, y, r
<1>4. ASSUME NEW i \in 1 .. size PROVE r[i] = y[i]
  <2>0. i \in 1 .. 4
    OBVIOUS
  <2>1. CASE i + n > size
    <3>1. i > size - n
      BY <1>1, <2>1
    <3>2. r[i] = 0
      BY <1>2, <3>1
    <3> QED BY <1>3, <2>0, <2>1, <3>2
  <2>2. CASE i + n <= size
    <3>1. ~(i > size - n) /\ i \in 1 .. size - n
      BY <1>1, <2>2
    <3>2. r[i] = moved[i]
      BY <1>2, <3>1
    <3>3. kept[i] = a[i + n]
      BY <3>1
    <3>4. CASE d = 0
      BY <1>3, <2>0, <2>2, <3>2, <3>3, <3>4
    <3>5. CASE d # 0
      <4>1. moved[i] = Shr(kept[i], d) + (IF i = size - n THEN 0 ELSE Spill(kept[i + 1], d))
        BY <3>1, <3>5 DEF softfloat_shortShiftRightM
      <4>2. CASE i + n = size
        <5>1. i = size - n
          BY <1>1, <4>2
        <5> QED BY <1>3, <2>0, <3>2, <3>3, <3>5, <4>1, <4>2, <5>1
      <4>3. CASE i + n < size
        <5>1. i # size - n /\ i + 1 \in 1 .. size - n /\ i + 1 + n = i + n + 1
          BY <1>1, <4>3
        <5>2. kept[i + 1] = a[i + n + 1]
          BY <5>1
        <5> HIDE DEF kept
        <5> QED BY <1>3, <2>0, <3>2, <3>3, <3>5, <4>1, <4>3, <5>1, <5>2
      <4>4. i + n = size \/ i + n < size
        BY <1>1, <2>2
      <4> QED BY <4>2, <4>3, <4>4
    <3> QED BY <3>4, <3>5
  <2>3. i + n > size \/ i + n <= size
    BY <1>1
  <2> QED BY <2>1, <2>2, <2>3
<1>5. /\ Words(4, u) /\ ArrayValue(4, u) = ArrayValue(size, a)
      /\ Words(4, y) /\ ArrayValue(4, u) \div 2^dist = ArrayValue(4, y)
  BY PaddedValue, RightShifted DEF y
<1>6. ArrayValue(size, r) = ArrayValue(4, y)
  <2>1. Words(size, y)
    BY <1>5 DEF Words
  <2>2. ArrayValue(size, r) = ArrayValue(size, y)
    BY <1>4, SameValue
  <2>3. ArrayValue(size, y) = ArrayValue(4, y)
    <3>1. CASE size = 3
      <4>1. 4 + n > size
        BY <1>1, <3>1
      <4>2. y[4] = 0
        BY <1>3, <4>1
      <4>3. PICK B \in Nat, y1 \in Int, y2 \in Int, y3 \in Int :
              B = Base /\ y1 = y[1] /\ y2 = y[2] /\ y3 = y[3]
        BY <1>5, WordFacts DEF Words, OneWord
      <4>4. /\ ArrayValue(3, y) = y1 + (y2 + y3 * B) * B
            /\ ArrayValue(4, y) = y1 + (y2 + (y3 + 0 * B) * B) * B
        BY <4>2, <4>3, ValueDigits
      <4>5. y3 + 0 * B = y3
        OBVIOUS
      <4> QED BY <3>1, <4>4, <4>5
    <3>2. CASE size = 4
      BY <3>2
    <3> QED BY <3>1, <3>2
  <2> QED BY <2>2, <2>3
<1>7. Words(size, r)
  BY <1>4, <1>5 DEF Words
<1>8. ArrayValue(size, r) \in 0 .. Modulus(size) - 1
  BY <1>7, ValueRange DEF Words
<1>9. Modulus(size) \in Nat /\ Modulus(size) > 0
  <2>1. size = 3 \/ size = 4
    OBVIOUS
  <2> QED BY <2>1, ModulusFacts
<1>10. ArrayValue(size, r) % Modulus(size) = ArrayValue(size, r)
  BY <1>8, <1>9, OwnRemainder
<1> QED BY <1>5, <1>6, <1>10 DEF r

-----------------------------------------------------------------------------
(* Shift right with a sticky bit. *)

(* What a shift leaves room for is a multiple of two. *)
LEMMA PowerEven ==
  ASSUME NEW d \in 0 .. WordBits - 1
  PROVE  \E h \in Nat : 2^(WordBits - d) = 2 * h
<1>1. PICK w \in Nat, m \in Nat : w = WordBits /\ m = LongestShift /\ w > 1 /\ w <= m
  BY WordFacts, WordAssumption
<1>2. w - d - 1 \in 0 .. m /\ (w - d - 1) + 1 = w - d
  BY <1>1
<1>3. 2^((w - d - 1) + 1) = 2 * 2^(w - d - 1)
  BY <1>1, <1>2, ShiftPowers
<1>4. 2^(w - d - 1) \in Nat
  BY <1>1, <1>2, PowerPositive
<1> QED BY <1>1, <1>2, <1>3, <1>4

(* The base is even. *)
LEMMA BaseEven == \E h \in Nat : Base = 2 * h
<1>1. 0 \in 0 .. WordBits - 1 /\ WordBits - 0 = WordBits
  BY WordFacts
<1> QED BY <1>1, PowerEven DEF Base

(* Setting the last bit and adding an even number commute. *)
LEMMA OrOneEven ==
  ASSUME NEW x \in Int, NEW h \in Int
  PROVE  (x + 2 * h) % 2 = x % 2
  OBVIOUS

(* The word of the shifted value that takes the sticky bit. *)
LEMMA JamWord ==
  ASSUME NEW d \in 1 .. WordBits - 1, NEW x \in OneWord, NEW y \in OneWord
  PROVE  LET p == Shr(x, d) + Spill(y, d)
         IN  OrOne(Shr(x, d), x % 2^d # 0) + Spill(y, d)
               = IF x % 2^d # 0 /\ p % 2 = 0 THEN p + 1 ELSE p
<1>1. PICK D \in Nat, E \in Nat : D = 2^d /\ D > 0 /\ E = 2^(WordBits - d)
  BY ShiftFacts
<1>2. d \in 0 .. WordBits - 1
  BY WordFacts
<1>3. PICK h \in Nat : E = 2 * h
  BY <1>1, <1>2, PowerEven
<1>4. PICK q \in Int, l \in Int : q = Shr(x, d) /\ l = y % D /\ Spill(y, d) = l * E
  BY <1>1, RightParts
<1>5. l * E = 2 * (l * h) /\ l * h \in Int
  BY <1>3
<1>6. (q + 2 * (l * h)) % 2 = q % 2
  BY <1>5, OrOneEven
<1>7. PICK s \in Int : s = Spill(y, d) /\ (q + s) % 2 = q % 2
  BY <1>4, <1>5, <1>6
<1>8. (IF x % 2^d # 0 /\ q % 2 = 0 THEN q + 1 ELSE q) + s
        = IF x % 2^d # 0 /\ (q + s) % 2 = 0 THEN (q + s) + 1 ELSE q + s
  <2>1. CASE x % 2^d # 0
    BY <1>7, <2>1
  <2>2. CASE ~(x % 2^d # 0)
    BY <2>2
  <2> QED BY <2>1, <2>2
<1> QED BY <1>4, <1>7, <1>8 DEF OrOne

(* The sticky bit of the highest word, to which nothing is spilled. *)
LEMMA JamWordAlone ==
  ASSUME NEW d \in 1 .. WordBits - 1, NEW x \in OneWord
  PROVE  LET p == Shr(x, d) + 0
         IN  OrOne(Shr(x, d), x % 2^d # 0) = IF x % 2^d # 0 /\ p % 2 = 0 THEN p + 1 ELSE p
<1>1. PICK q \in Int : q = Shr(x, d)
  BY RightParts
<1>2. q + 0 = q
  OBVIOUS
<1> QED BY <1>1, <1>2 DEF OrOne

(* The value of an array whose lowest word got its last bit set. *)
LEMMA JamValue ==
  ASSUME NEW y, Words(4, y), NEW z, \A i \in 2 .. 4 : z[i] = y[i],
         NEW lost \in BOOLEAN, z[1] = IF lost /\ y[1] % 2 = 0 THEN y[1] + 1 ELSE y[1]
  PROVE  /\ Words(4, z)
         /\ ArrayValue(4, z) = IF lost /\ ArrayValue(4, y) % 2 = 0
                               THEN ArrayValue(4, y) + 1 ELSE ArrayValue(4, y)
<1>1. PICK B \in Nat, h \in Nat : B = Base /\ B > 1 /\ B = 2 * h
  BY WordFacts, BaseEven
<1>2. PICK y1 \in 0 .. B - 1, y2 \in Int, y3 \in Int, y4 \in Int, vy \in Int, z1 \in Int :
        /\ y1 = y[1] /\ y2 = y[2] /\ y3 = y[3] /\ y4 = y[4] /\ vy = ArrayValue(4, y)
        /\ z1 = z[1] /\ z1 = IF lost /\ y1 % 2 = 0 THEN y1 + 1 ELSE y1
  <2>1. \A i \in 1 .. 4 : y[i] \in 0 .. B - 1
    BY <1>1 DEF Words, OneWord
  <2>2. ArrayValue(4, y) \in Int
    BY <2>1, ValueInt
  <2>3. z[1] \in Int
    BY <2>1
  <2>4. y[1] \in 0 .. B - 1 /\ y[2] \in Int /\ y[3] \in Int /\ y[4] \in Int
    BY <2>1
  <2> QED BY <2>2, <2>3, <2>4
<1>3. vy = y1 + (y2 + (y3 + y4 * B) * B) * B
  BY <1>1, <1>2, ValueDigits
<1>4. z[2] = y2 /\ z[3] = y3 /\ z[4] = y4
  BY <1>2
<1>5. ArrayValue(4, z) = z1 + (y2 + (y3 + y4 * B) * B) * B
  BY <1>1, <1>2, <1>4, ValueDigits
<1>6. vy % 2 = y1 % 2
  <2>1. PICK p \in Int : p = y2 + (y3 + y4 * B) * B
    OBVIOUS
  <2>2. p * B = 2 * (p * h) /\ p * h \in Int
    BY <1>1
  <2>3. (y1 + 2 * (p * h)) % 2 = y1 % 2
    BY <2>2, OrOneEven
  <2> QED BY <1>3, <2>1, <2>2, <2>3
<1>7. z1 \in 0 .. B - 1
  <2>1. CASE lost /\ y1 % 2 = 0
    <3>1. y1 # B - 1
      <4> SUFFICES ASSUME y1 = B - 1 PROVE FALSE
        OBVIOUS
      <4>1. y1 = 1 + 2 * (h - 1) /\ h - 1 \in Int
        BY <1>1
      <4>2. (1 + 2 * (h - 1)) % 2 = 1 % 2
        BY <4>1, OrOneEven
      <4>3. 1 % 2 = 1
        OBVIOUS
      <4> QED BY <2>1, <4>1, <4>2, <4>3
    <3> QED BY <1>2, <2>1, <3>1
  <2>2. CASE ~(lost /\ y1 % 2 = 0)
    BY <1>2, <2>2
  <2> QED BY <2>1, <2>2
<1>8. Words(4, z)
  <2>1. z[1] \in OneWord
    BY <1>1, <1>2, <1>7 DEF OneWord
  <2>2. ASSUME NEW i \in 1 .. 4 PROVE z[i] \in OneWord
    <3>1. CASE i = 1
      BY <2>1, <3>1
    <3>2. CASE i # 1
      <4>1. i \in 2 .. 4
        BY <3>2
      <4> QED BY <4>1 DEF Words
    <3> QED BY <3>1, <3>2
  <2> QED BY <2>2 DEF Words
<1>9. ArrayValue(4, z) = IF lost /\ vy % 2 = 0 THEN vy + 1 ELSE vy
  <2>1. PICK p \in Int : p = (y2 + (y3 + y4 * B) * B) * B
    OBVIOUS
  <2>2. vy = y1 + p /\ ArrayValue(4, z) = z1 + p
    BY <1>3, <1>5, <2>1
  <2>3. CASE lost /\ y1 % 2 = 0
    BY <1>2, <1>6, <2>2, <2>3
  <2>4. CASE ~(lost /\ y1 % 2 = 0)
    BY <1>2, <1>6, <2>2, <2>4
  <2> QED BY <2>3, <2>4
<1> QED BY <1>2, <1>8, <1>9

(* shiftRightJamM and shiftRightJam256M: the quotient with its last bit    *)
(* set when a set bit was lost.                                            *)
LEMMA ShiftRightJamExact ==
  ASSUME NEW size \in 3 .. 4, NEW a, Words(size, a), NEW dist \in 1 .. LongestShift
  PROVE  LET z == ShiftRightJamWords(size, a, dist)
         IN  Words(size, z) /\ ArrayValue(size, z) = Jammed(ArrayValue(size, a), dist)
<1> DEFINE n == dist \div WordBits
           d == dist % WordBits
           u == Padded(size, a)
           k == Dropped(u, n)
           y == Right(u, dist)
           m == IF n > size THEN size ELSE n
           kept == [i \in 1 .. size - m |-> a[i + m]]
           moved == IF d = 0 THEN kept ELSE softfloat_shortShiftRightJamM(size - m, kept, d)
           w == [i \in 1 .. size |-> IF i > size - m THEN 0 ELSE moved[i]]
           r == ShiftRightJamWords(size, a, dist)
           z == Padded(size, r)
           below == \E i \in 1 .. m : a[i] # 0
           lost == below \/ k[1] % 2^d # 0
<1>1. n \in Nat /\ d \in 0 .. WordBits - 1 /\ 2^d \in Nat /\ 2^d > 0
  BY Distance
<1>2. r = [w EXCEPT ![1] = IF below /\ @ % 2 = 0 THEN @ + 1 ELSE @]
  BY DEF ShiftRightJamWords, OrOne
<1>3. ASSUME NEW i \in 1 .. 4
      PROVE  /\ k[i] = IF i + n <= size THEN a[i + n] ELSE 0
             /\ i + n > size => y[i] = 0
             /\ i + n <= size /\ d = 0 => y[i] = a[i + n]
             /\ i + n = size /\ d # 0 => y[i] = Shr(a[i + n], d) + 0
             /\ i + n < size /\ d # 0 => y[i] = Shr(a[i + n], d) + Spill(a[i + n + 1], d)
  BY KeptWords
<1>4. /\ Words(4, u) /\ ArrayValue(4, u) = ArrayValue(size, a)
      /\ Words(4, y) /\ ArrayValue(4, u) \div 2^dist = ArrayValue(4, y)
      /\ (ArrayValue(4, u) % 2^dist # 0) <=> Lost(u, dist)
  BY PaddedValue, RightShifted
<1>5. Lost(u, dist) <=> lost
  <2>1. (\E i \in 1 .. 4 : i <= n /\ u[i] # 0) <=> below
    <3>1. ASSUME NEW i \in 1 .. 4, i <= n, u[i] # 0 PROVE below
      <4>1. i <= size /\ a[i] # 0
        BY <3>1 DEF Padded
      <4>2. i \in 1 .. m
        BY <1>1, <3>1, <4>1
      <4> QED BY <4>1, <4>2
    <3>2. ASSUME NEW i \in 1 .. m, a[i] # 0 PROVE \E j \in 1 .. 4 : j <= n /\ u[j] # 0
      <4>1. i \in 1 .. 4 /\ i <= n /\ i <= size
        BY <1>1
      <4> QED BY <3>2, <4>1 DEF Padded
    <3> QED BY <3>1, <3>2
  <2> QED BY <2>1 DEF Lost
<1> HIDE DEF n, d, y, r, u, k
<1>6. w[1] = (IF k[1] % 2^d # 0 /\ y[1] % 2 = 0 THEN y[1] + 1 ELSE y[1])
      /\ \A i \in 2 .. size : w[i] = y[i]
  <2>1. CASE n >= size
    <3>1. m = size
      BY <1>1, <2>1
    <3>2. \A i \in 1 .. size : w[i] = 0
      BY <3>1
    <3>3. \A i \in 1 .. size : y[i] = 0
      BY <1>1, <1>3, <2>1
    <3>4. k[1] = 0
      BY <1>1, <1>3, <2>1
    <3>5. 0 % 2^d = 0
      BY <1>1
    <3> HIDE DEF w
    <3>6. w[1] = 0 /\ y[1] = 0
      BY <3>2, <3>3
    <3> QED BY <3>2, <3>3, <3>4, <3>5, <3>6
  <2>2. CASE n < size
    <3>1. m = n
      BY <1>1, <2>2
    <3> HIDE DEF m
    <3>2. ASSUME NEW i \in 1 .. size, i + n <= size
          PROVE  w[i] = moved[i] /\ kept[i] = a[i + n] /\ i \in 1 .. size - m
      <4>1. i \in 1 .. size - m /\ ~(i > size - m)
        BY <1>1, <3>1, <3>2
      <4> QED BY <3>1, <4>1
    <3>3. ASSUME NEW i \in 1 .. size, i + n > size PROVE w[i] = 0
      BY <1>1, <3>1, <3>3
    <3>4. k[1] = a[1 + n] /\ 1 + n \in 1 .. size /\ 1 + n <= size
      BY <1>1, <1>3, <2>2
    <3>5. CASE d = 0
      <4>1. moved = kept
        BY <3>5
      <4>2. ASSUME NEW i \in 1 .. size PROVE w[i] = y[i]
        <5>1. i \in 1 .. 4 /\ (i + n > size \/ i + n <= size)
          BY <1>1
        <5> HIDE DEF w, moved, kept
        <5> QED BY <1>3, <3>2, <3>3, <3>5, <4>1, <5>1
      <4>3. k[1] % 2^d = 0
        <5>1. k[1] \in Int
          BY <3>4, WordFacts DEF Words, OneWord
        <5>2. k[1] % 1 = 0
          BY <5>1
        <5>3. 2^0 = 1
          OBVIOUS
        <5> QED BY <3>5, <5>2, <5>3
      <4> HIDE DEF w
      <4> QED BY <4>2, <4>3
    <3>6. CASE d # 0
      <4>0. d \in 1 .. WordBits - 1
        BY <1>1, <3>6, WordFacts
      <4>1. ASSUME NEW i \in 1 .. size - m
            PROVE  moved[i] = LET part == IF i = 1 THEN OrOne(Shr(kept[1], d), kept[1] % 2^d # 0)
                                          ELSE Shr(kept[i], d)
                              IN  IF i = size - m THEN part ELSE part + Spill(kept[i + 1], d)
        BY <3>6 DEF softfloat_shortShiftRightJamM
      <4>2. ASSUME NEW i \in 1 .. size, i + n < size
            PROVE  kept[i + 1] = a[i + n + 1] /\ i # size - m
        <5>1. i + 1 \in 1 .. size - m /\ i + 1 + m = i + n + 1 /\ i # size - m
          BY <1>1, <3>1, <4>2
        <5> QED BY <5>1
      <4> HIDE DEF w, moved, kept
      <4>3. ASSUME NEW i \in 2 .. size PROVE w[i] = y[i]
        <5>1. i \in 1 .. 4 /\ i \in 1 .. size /\ i # 1
          OBVIOUS
        <5>2. CASE i + n > size
          BY <1>3, <3>3, <5>1, <5>2
        <5>3. CASE i + n = size
          <6>1. i + n <= size /\ i = size - m
            BY <1>1, <3>1, <5>3
          <6>2. w[i] = Shr(a[i + n], d)
            BY <3>2, <4>1, <5>1, <6>1
          <6>3. a[i + n] \in OneWord
            BY <5>3 DEF Words
          <6>4. Shr(a[i + n], d) \in Int
            BY <4>0, <6>3, RightParts
          <6> QED BY <1>3, <3>6, <5>1, <5>3, <6>2, <6>4
        <5>4. CASE i + n < size
          <6>1. i + n <= size
            BY <1>1, <5>4
          <6>2. w[i] = Shr(a[i + n], d) + Spill(a[i + n + 1], d)
            BY <3>2, <4>1, <4>2, <5>1, <5>4, <6>1
          <6> QED BY <1>3, <3>6, <5>1, <5>4, <6>2
        <5>5. i + n > size \/ i + n = size \/ i + n < size
          BY <1>1
        <5> QED BY <5>2, <5>3, <5>4, <5>5
      <4>4. w[1] = (IF k[1] % 2^d # 0 /\ y[1] % 2 = 0 THEN y[1] + 1 ELSE y[1])
        <5>0. 1 \in 1 .. 4 /\ 1 \in 1 .. size /\ 1 + n <= size
          BY <3>4
        <5>1. w[1] = moved[1] /\ kept[1] = k[1] /\ 1 \in 1 .. size - m
          BY <3>2, <3>4, <5>0
        <5>2. k[1] \in OneWord
          BY <3>4 DEF Words
        <5>3. CASE 1 + n = size
          <6>1. 1 = size - m
            BY <1>1, <3>1, <5>3
          <6>2. w[1] = OrOne(Shr(k[1], d), k[1] % 2^d # 0)
            BY <4>1, <5>1, <6>1
          <6>3. y[1] = Shr(k[1], d) + 0
            BY <1>3, <3>4, <3>6, <5>0, <5>3
          <6> QED BY <4>0, <5>2, <6>2, <6>3, JamWordAlone
        <5>4. CASE 1 + n < size
          <6>1. kept[1 + 1] = a[1 + n + 1] /\ 1 # size - m
            BY <4>2, <5>0, <5>4
          <6>2. w[1] = OrOne(Shr(k[1], d), k[1] % 2^d # 0) + Spill(a[1 + n + 1], d)
            BY <4>1, <5>1, <6>1
          <6>3. y[1] = Shr(k[1], d) + Spill(a[1 + n + 1], d)
            BY <1>3, <3>4, <3>6, <5>0, <5>4
          <6>4. 1 + n + 1 \in 1 .. size
            BY <1>1, <5>4
          <6>5. a[1 + n + 1] \in OneWord
            BY <6>4 DEF Words
          <6> QED BY <4>0, <5>2, <6>2, <6>3, <6>5, JamWord
        <5>5. 1 + n = size \/ 1 + n < size
          BY <1>1, <3>4
        <5> QED BY <5>3, <5>4, <5>5
      <4> QED BY <4>3, <4>4
    <3> QED BY <3>5, <3>6
  <2>3. n >= size \/ n < size
    BY <1>1
  <2> QED BY <2>1, <2>2, <2>3
<1>7. \A i \in 2 .. size : r[i] = y[i]
  <2>1. ASSUME NEW i \in 2 .. size PROVE r[i] = w[i]
    <3>1. i \in 1 .. size /\ i # 1 /\ i \in DOMAIN w
      OBVIOUS
    <3> HIDE DEF w, below
    <3> QED BY <1>2, <3>1
  <2> HIDE DEF w
  <2> QED BY <1>6, <2>1
<1>8. r[1] = IF lost /\ y[1] % 2 = 0 THEN y[1] + 1 ELSE y[1]
  <2>1. r[1] = IF below /\ w[1] % 2 = 0 THEN w[1] + 1 ELSE w[1]
    BY <1>2
  <2> HIDE DEF w, below
  <2>2. PICK y1 \in Int : y1 = y[1]
    BY <1>4, WordFacts DEF Words, OneWord
  <2>3. CASE k[1] % 2^d # 0 /\ y1 % 2 = 0
    <3>1. w[1] = y1 + 1 /\ (y1 + 1) % 2 # 0
      BY <1>6, <2>2, <2>3
    <3> QED BY <2>1, <2>2, <2>3, <3>1
  <2>4. CASE ~(k[1] % 2^d # 0 /\ y1 % 2 = 0)
    <3>1. w[1] = y1
      BY <1>6, <2>2, <2>4
    <3> QED BY <2>1, <2>2, <2>4, <3>1
  <2> QED BY <2>3, <2>4
<1>9. z[1] = r[1] /\ \A i \in 2 .. 4 : z[i] = y[i]
  <2>1. z[1] = r[1]
    BY DEF Padded
  <2>2. ASSUME NEW i \in 2 .. 4 PROVE z[i] = y[i]
    <3>1. CASE i <= size
      BY <1>7, <3>1 DEF Padded
    <3>2. CASE ~(i <= size)
      <4>1. i \in 1 .. 4 /\ i + n > size
        BY <1>1, <3>2
      <4>2. z[i] = 0
        BY <3>2 DEF Padded
      <4> QED BY <1>3, <4>1, <4>2
    <3> QED BY <3>1, <3>2
  <2> QED BY <2>1, <2>2
<1>10. lost \in BOOLEAN
  OBVIOUS
<1> HIDE DEF lost, z
<1>11. /\ Words(4, z)
       /\ ArrayValue(4, z) = IF lost /\ ArrayValue(4, y) % 2 = 0
                             THEN ArrayValue(4, y) + 1 ELSE ArrayValue(4, y)
  BY <1>4, <1>8, <1>9, <1>10, JamValue
<1>12. Words(size, r)
  <2>1. ASSUME NEW i \in 1 .. size PROVE r[i] = z[i]
    BY DEF z, Padded
  <2> QED BY <1>11, <2>1 DEF Words
<1>13. ArrayValue(4, z) = ArrayValue(size, r)
  BY <1>12, PaddedValue DEF z
<1>14. ArrayValue(4, z) = Jammed(ArrayValue(4, u), dist)
  BY <1>4, <1>5, <1>11 DEF Jammed
<1> QED BY <1>4, <1>12, <1>13, <1>14 DEF r

-----------------------------------------------------------------------------
(* Numbers of two words. *)

(* Two words are the remainder of every number that differs from them by a *)
(* multiple of what two words hold.                                        *)
LEMMA PairIs ==
  ASSUME NEW z, z[1] \in OneWord, z[2] \in OneWord, NEW n \in Int, NEW m \in Int,
         n = Number(z) + m * (Base * Base)
  PROVE  Number(z) = n % (Base * Base)
<1>1. PICK M \in Nat : M = Base * Base /\ M > 0
  BY ModulusFacts
<1>2. PICK r \in 0 .. M - 1 : r = Number(z)
  BY <1>1, NumberFacts
<1>3. n = m * M + r
  BY <1>1, <1>2
<1>4. n % M = r
  BY <1>1, <1>3, Remainder
<1> QED BY <1>1, <1>2, <1>4

(* The comparisons of two words. *)
LEMMA Compare128Exact ==
  ASSUME NEW a \in WordPair, NEW b \in WordPair
  PROVE  /\ softfloat_eq128(a, b) = (a = b)
         /\ softfloat_le128(a, b) = (Number(a) <= Number(b))
         /\ softfloat_lt128(a, b) = (Number(a) < Number(b))
<1>1. PICK B \in Nat : B = Base /\ B > 1
  BY WordFacts
<1>2. PICK a1 \in 0 .. B - 1, a2 \in 0 .. B - 1, b1 \in 0 .. B - 1, b2 \in 0 .. B - 1 :
        /\ a1 = a[1] /\ a2 = a[2] /\ b1 = b[1] /\ b2 = b[2]
        /\ a = <<a1, a2>> /\ b = <<b1, b2>>
  BY <1>1 DEF WordPair, OneWord
<1>3. Number(a) = a2 + a1 * B /\ Number(b) = b2 + b1 * B
  BY <1>1, <1>2 DEF Number
<1>4. /\ a1 < b1 => a2 + a1 * B < b2 + b1 * B
      /\ b1 < a1 => b2 + b1 * B < a2 + a1 * B
  BY <1>1, DigitOrder
<1>5. softfloat_eq128(a, b) <=> a = b
  BY <1>2 DEF softfloat_eq128
<1>6. softfloat_le128(a, b) <=> Number(a) <= Number(b)
  <2>1. (a1 < b1 \/ (a1 = b1 /\ a2 <= b2)) <=> a2 + a1 * B <= b2 + b1 * B
    <3>1. CASE a1 < b1
      BY <1>4, <3>1
    <3>2. CASE b1 < a1
      BY <1>4, <3>2
    <3>3. CASE a1 = b1
      BY <3>3
    <3> QED BY <3>1, <3>2, <3>3
  <2> QED BY <1>2, <1>3, <2>1 DEF softfloat_le128
<1>7. softfloat_lt128(a, b) <=> Number(a) < Number(b)
  <2>1. (a1 < b1 \/ (a1 = b1 /\ a2 < b2)) <=> a2 + a1 * B < b2 + b1 * B
    <3>1. CASE a1 < b1
      BY <1>4, <3>1
    <3>2. CASE b1 < a1
      BY <1>4, <3>2
    <3>3. CASE a1 = b1
      BY <3>3
    <3> QED BY <3>1, <3>2, <3>3
  <2> QED BY <1>2, <1>3, <2>1 DEF softfloat_lt128
<1>8. /\ softfloat_eq128(a, b) \in BOOLEAN /\ softfloat_le128(a, b) \in BOOLEAN
      /\ softfloat_lt128(a, b) \in BOOLEAN
  BY DEF softfloat_eq128, softfloat_le128, softfloat_lt128
<1> QED BY <1>5, <1>6, <1>7, <1>8

(* add128: the carry out of the low word, and the wrap-around of both. *)
LEMMA Add128Exact ==
  ASSUME NEW a \in WordPair, NEW b \in WordPair
  PROVE  Number(softfloat_add128(a, b)) = (Number(a) + Number(b)) % (Base * Base)
<1> DEFINE z == softfloat_add128(a, b)
<1>1. PICK B \in Nat : B = Base /\ B > 1
  BY WordFacts
<1>2. a[1] \in OneWord /\ a[2] \in OneWord /\ b[1] \in OneWord /\ b[2] \in OneWord
  BY DEF WordPair
<1>3. PICK v0 \in OneWord, c \in 0 .. 1 :
        v0 = Wrap(a[2] + b[2]) /\ c = OneIf(v0 < a[2]) /\ a[2] + b[2] = v0 + c * B
  BY <1>1, <1>2, CarriedOut
<1>4. PICK a1 \in Int, a2 \in Int, b1 \in Int, b2 \in Int, u \in Int :
        a1 = a[1] /\ a2 = a[2] /\ b1 = b[1] /\ b2 = b[2] /\ u = v0
  BY <1>1, <1>2 DEF OneWord
<1>5. PICK k \in Int, h \in 0 .. B - 1 : h = Wrap(a1 + b1 + c) /\ a1 + b1 + c = k * B + h
  <2>1. a1 + b1 + c \in Int
    OBVIOUS
  <2>2. /\ (a1 + b1 + c) \div B \in Int /\ (a1 + b1 + c) % B \in 0 .. B - 1
        /\ a1 + b1 + c = ((a1 + b1 + c) \div B) * B + ((a1 + b1 + c) % B)
    BY <1>1, <2>1, Divided
  <2> QED BY <1>1, <2>2 DEF Wrap
<1>6. z = <<h, u>>
  BY <1>3, <1>4, <1>5 DEF softfloat_add128
<1> HIDE DEF z
<1>7. z[1] = h /\ z[2] = u /\ h \in OneWord
  BY <1>1, <1>6 DEF OneWord
<1>8. Number(z) = u + h * B /\ Number(a) = a2 + a1 * B /\ Number(b) = b2 + b1 * B
  BY <1>1, <1>2, <1>3, <1>4, <1>7, NumberFacts
<1>9. (a2 + a1 * B) + (b2 + b1 * B) = (u + h * B) + k * (B * B)
  <2>1. a2 + b2 = u + c * B
    BY <1>3, <1>4
  <2>2. (a2 + a1 * B) + (b2 + b1 * B) = (a2 + b2) + (a1 + b1) * B
    OBVIOUS
  <2>3. (u + c * B) + (a1 + b1) * B = u + (a1 + b1 + c) * B
    OBVIOUS
  <2>4. u + (k * B + h) * B = (u + h * B) + k * (B * B)
    OBVIOUS
  <2> QED BY <1>5, <2>1, <2>2, <2>3, <2>4
<1>10. Number(a) + Number(b) \in Int /\ Number(a) + Number(b) = Number(z) + k * (Base * Base)
  BY <1>1, <1>8, <1>9
<1> QED BY <1>3, <1>4, <1>7, <1>10, PairIs DEF z

(* sub128: the borrow from the high word. *)
LEMMA Sub128Exact ==
  ASSUME NEW a \in WordPair, NEW b \in WordPair
  PROVE  Number(softfloat_sub128(a, b)) = (Number(a) - Number(b)) % (Base * Base)
<1> DEFINE z == softfloat_sub128(a, b)
<1>1. PICK B \in Nat : B = Base /\ B > 1
  BY WordFacts
<1>2. PICK a1 \in 0 .. B - 1, a2 \in 0 .. B - 1, b1 \in 0 .. B - 1, b2 \in 0 .. B - 1 :
        a1 = a[1] /\ a2 = a[2] /\ b1 = b[1] /\ b2 = b[2]
  BY <1>1 DEF WordPair, OneWord
<1>3. PICK c \in 0 .. 1 : c = OneIf(a2 < b2) /\ (a2 < b2 <=> c = 1)
  BY DEF OneIf
<1>4. PICK u \in 0 .. B - 1 : u = Wrap(a2 - b2) /\ a2 - b2 = u - c * B
  <2>1. CASE c = 1
    <3>1. a2 - b2 + B \in 0 .. B - 1 /\ a2 - b2 = (-1) * B + (a2 - b2 + B) /\ -1 \in Int
      BY <1>3, <2>1
    <3>2. (a2 - b2) % B = a2 - b2 + B
      BY <1>1, <3>1, Remainder
    <3> QED BY <1>1, <2>1, <3>1, <3>2 DEF Wrap
  <2>2. CASE c = 0
    <3>1. a2 - b2 \in 0 .. B - 1
      BY <1>3, <2>2
    <3>2. (a2 - b2) % B = a2 - b2
      BY <1>1, <3>1, OwnRemainder
    <3> QED BY <1>1, <2>2, <3>1, <3>2 DEF Wrap
  <2> QED BY <2>1, <2>2
<1>5. PICK k \in Int, h \in 0 .. B - 1 : h = Wrap(a1 - b1 - c) /\ a1 - b1 - c = k * B + h
  <2>1. a1 - b1 - c \in Int
    OBVIOUS
  <2>2. /\ (a1 - b1 - c) \div B \in Int /\ (a1 - b1 - c) % B \in 0 .. B - 1
        /\ a1 - b1 - c = ((a1 - b1 - c) \div B) * B + ((a1 - b1 - c) % B)
    BY <1>1, <2>1, Divided
  <2> QED BY <1>1, <2>2 DEF Wrap
<1>6. z = <<h, u>>
  BY <1>2, <1>3, <1>4, <1>5 DEF softfloat_sub128
<1> HIDE DEF z
<1>7. z[1] = h /\ z[2] = u /\ h \in OneWord /\ u \in OneWord
  BY <1>1, <1>6 DEF OneWord
<1>8. Number(z) = u + h * B /\ Number(a) = a2 + a1 * B /\ Number(b) = b2 + b1 * B
  BY <1>1, <1>2, <1>7 DEF Number
<1>9. (a2 + a1 * B) - (b2 + b1 * B) = (u + h * B) + k * (B * B)
  <2>1. (a2 + a1 * B) - (b2 + b1 * B) = (a2 - b2) + (a1 - b1) * B
    OBVIOUS
  <2>2. (u - c * B) + (a1 - b1) * B = u + (a1 - b1 - c) * B
    OBVIOUS
  <2>3. u + (k * B + h) * B = (u + h * B) + k * (B * B)
    OBVIOUS
  <2> QED BY <1>4, <1>5, <2>1, <2>2, <2>3
<1>10. Number(a) - Number(b) \in Int /\ Number(a) - Number(b) = Number(z) + k * (Base * Base)
  BY <1>1, <1>8, <1>9
<1> QED BY <1>7, <1>10, PairIs DEF z

(* Left by less than a word. *)
LEMMA ShortShiftLeft128Exact ==
  ASSUME NEW a \in WordPair, NEW d \in 1 .. WordBits - 1
  PROVE  Number(softfloat_shortShiftLeft128(a, d)) = (Number(a) * 2^d) % (Base * Base)
<1> DEFINE z == softfloat_shortShiftLeft128(a, d)
<1>1. PICK B \in Nat, D \in Nat : B = Base /\ B > 1 /\ D = 2^d /\ D > 1
  BY WordFacts, ShiftFacts
<1>2. a[1] \in OneWord /\ a[2] \in OneWord
  BY DEF WordPair
<1>3. PICK a1 \in Int, a2 \in Int, s1 \in Int, s2 \in Int, h1 \in 0 .. D - 1, h2 \in 0 .. D - 1 :
        /\ a1 = a[1] /\ a2 = a[2] /\ s1 = Shl(a[1], d) /\ s2 = Shl(a[2], d)
        /\ h1 = Shr(a[1], WordBits - d) /\ h2 = Shr(a[2], WordBits - d)
        /\ a1 * D = s1 + h1 * B /\ a2 * D = s2 + h2 * B
        /\ s1 + h2 \in OneWord /\ s2 + 0 \in OneWord
  <2>1. a[1] \in Int /\ a[2] \in Int
    BY <1>1, <1>2 DEF OneWord
  <2>2. 0 \in 0 .. D - 1
    BY <1>1
  <2>3. /\ Shl(a[1], d) \in Int /\ Shr(a[1], WordBits - d) \in 0 .. D - 1
        /\ a[1] * D = Shl(a[1], d) + Shr(a[1], WordBits - d) * B
        /\ \A y \in 0 .. D - 1 : Shl(a[1], d) + y \in OneWord
    BY <1>1, <1>2, LeftParts
  <2>4. /\ Shl(a[2], d) \in Int /\ Shr(a[2], WordBits - d) \in 0 .. D - 1
        /\ a[2] * D = Shl(a[2], d) + Shr(a[2], WordBits - d) * B
        /\ \A y \in 0 .. D - 1 : Shl(a[2], d) + y \in OneWord
    BY <1>1, <1>2, LeftParts
  <2> QED BY <2>1, <2>2, <2>3, <2>4
<1>4. z = <<s1 + h2, s2>>
  BY <1>3 DEF softfloat_shortShiftLeft128
<1> HIDE DEF z
<1>5. z[1] = s1 + h2 /\ z[2] = s2 /\ z[1] \in OneWord /\ z[2] \in OneWord
  BY <1>3, <1>4
<1>6. Number(z) = s2 + (s1 + h2) * B /\ Number(a) = a2 + a1 * B
  BY <1>1, <1>2, <1>3, <1>5, NumberFacts
<1>7. (a2 + a1 * B) * D = (s2 + (s1 + h2) * B) + h1 * (B * B)
  <2>1. (a2 + a1 * B) * D = a2 * D + (a1 * D) * B
    OBVIOUS
  <2>2. (s2 + h2 * B) + (s1 + h1 * B) * B = (s2 + (s1 + h2) * B) + h1 * (B * B)
    OBVIOUS
  <2> QED BY <1>3, <2>1, <2>2
<1>8. Number(a) * 2^d \in Int /\ Number(a) * 2^d = Number(z) + h1 * (Base * Base)
  BY <1>1, <1>6, <1>7
<1> QED BY <1>5, <1>8, PairIs DEF z

-----------------------------------------------------------------------------
(* Sticky shifts of two words. *)

(* Right by less than a word: quotient and remainder. *)
LEMMA ShortShiftRight128Parts ==
  ASSUME NEW a \in WordPair, NEW d \in 1 .. WordBits - 1
  PROVE  LET z == softfloat_shortShiftRight128(a, d)
         IN  /\ z[1] \in OneWord /\ z[2] \in OneWord
             /\ Number(a) \in Nat /\ Number(a) = Number(z) * 2^d + (a[2] % 2^d)
             /\ Number(a) \div 2^d = Number(z) /\ Number(a) % 2^d = a[2] % 2^d
<1> DEFINE z == softfloat_shortShiftRight128(a, d)
<1>1. PICK B \in Nat, D \in Nat, E \in Nat :
        B = Base /\ B > 1 /\ D = 2^d /\ D > 1 /\ E = 2^(WordBits - d) /\ E > 1 /\ D * E = B
  BY WordFacts, ShiftFacts
<1>2. a[1] \in OneWord /\ a[2] \in OneWord
  BY DEF WordPair
<1>3. PICK a1 \in Nat, a2 \in Nat : a1 = a[1] /\ a2 = a[2]
  BY <1>1, <1>2 DEF OneWord
<1>4. PICK h1 \in 0 .. E - 1, l1 \in 0 .. D - 1, h2 \in 0 .. E - 1, l2 \in 0 .. D - 1 :
        /\ h1 = Shr(a[1], d) /\ l1 = a[1] % D /\ h2 = Shr(a[2], d) /\ l2 = a[2] % D
        /\ a1 = h1 * D + l1 /\ a2 = h2 * D + l2
        /\ Spill(a[1], d) = l1 * E /\ l1 * E + h2 \in OneWord
  <2>1. /\ Shr(a[1], d) \in 0 .. E - 1 /\ a[1] % D \in 0 .. D - 1
        /\ a[1] = Shr(a[1], d) * D + (a[1] % D)
        /\ Spill(a[1], d) = (a[1] % D) * E
        /\ \A y \in 0 .. E - 1 : Spill(a[1], d) + y \in OneWord
    BY <1>1, <1>2, RightParts
  <2>2. /\ Shr(a[2], d) \in 0 .. E - 1 /\ a[2] % D \in 0 .. D - 1
        /\ a[2] = Shr(a[2], d) * D + (a[2] % D)
    BY <1>1, <1>2, RightParts
  <2> QED BY <1>3, <2>1, <2>2
<1>5. z = <<h1, l1 * E + h2>>
  BY <1>4 DEF softfloat_shortShiftRight128
<1> HIDE DEF z
<1>6. z[1] = h1 /\ z[2] = l1 * E + h2 /\ z[1] \in OneWord /\ z[2] \in OneWord
  <2>1. E <= B
    BY <1>1
  <2>2. h1 \in OneWord
    BY <1>1, <2>1 DEF OneWord
  <2> QED BY <1>4, <1>5, <2>2
<1>7. Number(z) = (l1 * E + h2) + h1 * B /\ Number(a) = a2 + a1 * B
  BY <1>1, <1>2, <1>3, <1>6, NumberFacts
<1>8. a2 + a1 * B = ((l1 * E + h2) + h1 * B) * D + l2
  <2>1. ((l1 * E + h2) + h1 * B) * D + l2 = l1 * (D * E) + (h2 * D + l2) + (h1 * D) * B
    OBVIOUS
  <2>2. l1 * B + a2 + (h1 * D) * B = a2 + (h1 * D + l1) * B
    OBVIOUS
  <2> QED BY <1>1, <1>4, <2>1, <2>2
<1>9. PICK q \in Int, n \in Int : q = Number(z) /\ n = Number(a) /\ n = q * D + l2
  BY <1>7, <1>8
<1>10. n \div D = q /\ n % D = l2
  BY <1>1, <1>9, Remainder
<1>11. Number(a) \in Nat
  BY <1>2, <1>7
<1> QED BY <1>1, <1>4, <1>6, <1>9, <1>10, <1>11 DEF z

(* A number of two words whose low word got its last bit set. *)
LEMMA JamPair ==
  ASSUME NEW q1 \in OneWord, NEW q2 \in OneWord, NEW n, NEW d, NEW c \in BOOLEAN,
         n \div 2^d = Number(<<q1, q2>>), (n % 2^d # 0) <=> c
  PROVE  Number(<<q1, IF c /\ q2 % 2 = 0 THEN q2 + 1 ELSE q2>>) = Jammed(n, d)
<1>1. PICK B \in Nat, h \in Nat : B = Base /\ B > 1 /\ B = 2 * h
  BY WordFacts, BaseEven
<1>2. PICK p1 \in Int, p2 \in Int : p1 = q1 /\ p2 = q2
  BY <1>1 DEF OneWord
<1>3. PICK q \in Int : q = Number(<<q1, q2>>) /\ q = p1 * B + p2
  BY <1>1, <1>2 DEF Number
<1>4. q % 2 = p2 % 2
  <2>1. p1 * B = 2 * (p1 * h) /\ p1 * h \in Int
    BY <1>1
  <2>2. (p2 + 2 * (p1 * h)) % 2 = p2 % 2
    BY <2>1, OrOneEven
  <2>3. q = p2 + 2 * (p1 * h)
    BY <1>3, <2>1
  <2> QED BY <2>2, <2>3
<1>5. Jammed(n, d) = IF c /\ q % 2 = 0 THEN q + 1 ELSE q
  BY <1>3 DEF Jammed
<1>6. CASE c /\ p2 % 2 = 0
  <2>1. Number(<<p1, p2 + 1>>) = p1 * B + (p2 + 1)
    BY <1>1 DEF Number
  <2> QED BY <1>2, <1>3, <1>4, <1>5, <1>6, <2>1
<1>7. CASE ~(c /\ p2 % 2 = 0)
  BY <1>2, <1>3, <1>4, <1>5, <1>7
<1> QED BY <1>6, <1>7

(* shortShiftRightJam128. *)
LEMMA ShortShiftRightJam128Exact ==
  ASSUME NEW a \in WordPair, NEW d \in 1 .. WordBits - 1
  PROVE  Number(softfloat_shortShiftRightJam128(a, d)) = Jammed(Number(a), d)
<1> DEFINE z == softfloat_shortShiftRight128(a, d)
           c == (a[2] % 2^d # 0)
<1>1. /\ z[1] \in OneWord /\ z[2] \in OneWord
      /\ Number(a) \div 2^d = Number(z) /\ Number(a) % 2^d = a[2] % 2^d
  BY ShortShiftRight128Parts
<1>2. z = <<z[1], z[2]>>
  BY DEF softfloat_shortShiftRight128
<1>3. Spill(a[2], d) # 0 <=> c
  <2>1. a[2] \in OneWord
    BY DEF WordPair
  <2>2. PICK D \in Nat, E \in Nat : D = 2^d /\ D > 1 /\ E = 2^(WordBits - d) /\ E > 1
    BY ShiftFacts
  <2>3. PICK l \in Int : l = a[2] % 2^d /\ Spill(a[2], d) = l * E
    BY <2>1, <2>2, RightParts
  <2>4. l * E = 0 <=> l = 0
    BY <2>2
  <2> QED BY <2>3, <2>4
<1>4. softfloat_shortShiftRightJam128(a, d) = <<z[1], IF c /\ z[2] % 2 = 0 THEN z[2] + 1 ELSE z[2]>>
  <2> HIDE DEF c
  <2>1. softfloat_shortShiftRightJam128(a, d) = <<z[1], OrOne(z[2], Spill(a[2], d) # 0)>>
    BY DEF softfloat_shortShiftRightJam128
  <2>2. OrOne(z[2], Spill(a[2], d) # 0) = IF c /\ z[2] % 2 = 0 THEN z[2] + 1 ELSE z[2]
    BY <1>3 DEF OrOne
  <2> QED BY <2>1, <2>2
<1>5. c \in BOOLEAN /\ (Number(a) % 2^d # 0 <=> c)
  BY <1>1
<1>6. Number(a) \div 2^d = Number(<<z[1], z[2]>>)
  BY <1>1, <1>2
<1> HIDE DEF z, c
<1> QED BY <1>1, <1>4, <1>5, <1>6, JamPair

(* Between one word and two. *)
LEMMA LongShift ==
  ASSUME NEW a \in WordPair, NEW dist \in WordBits .. 2 * WordBits - 1
  PROVE  /\ 2^dist = Base * 2^(dist % WordBits) /\ dist = WordBits + (dist % WordBits)
         /\ dist % WordBits \in 0 .. WordBits - 1
         /\ Shr(a[1], dist % WordBits) \in OneWord
         /\ a[1] % 2^(dist % WordBits) \in 0 .. 2^(dist % WordBits) - 1
         /\ 2^(dist % WordBits) \in Nat /\ 2^(dist % WordBits) > 0
         /\ Number(a) \div 2^dist = Shr(a[1], dist % WordBits)
         /\ Number(a) % 2^dist = a[2] + (a[1] % 2^(dist % WordBits)) * Base
<1> DEFINE i == dist % WordBits
<1>1. PICK w \in Nat : w = WordBits /\ w > 1 /\ 2 * w - 1 <= LongestShift /\ dist \in w .. 2 * w - 1
  BY WordFacts, WordAssumption
<1>2. i \in 0 .. w - 1 /\ dist = 1 * w + i
  <2>1. dist - w \in 0 .. w - 1 /\ dist = 1 * w + (dist - w)
    BY <1>1
  <2>2. dist % w = dist - w
    BY <1>1, <2>1, Remainder
  <2> QED BY <1>1, <2>1, <2>2
<1> HIDE DEF i
<1>3. PICK B \in Nat, D \in Nat : B = Base /\ B > 1 /\ D = 2^i /\ D > 0 /\ 2^dist = B * D
  <2>1. w \in Nat /\ i \in Nat /\ w + i <= LongestShift /\ i \in 0 .. LongestShift /\ dist = w + i
    BY <1>1, <1>2, WordAssumption
  <2>2. 2^(w + i) = 2^w * 2^i
    BY <2>1, PowerSum
  <2>3. 2^i \in Nat /\ 2^i > 0
    BY <2>1, PowerPositive
  <2> QED BY <1>1, <2>1, <2>2, <2>3, WordFacts DEF Base
<1>4. a[1] \in OneWord /\ a[2] \in OneWord
  BY DEF WordPair
<1>5. PICK a1 \in 0 .. B - 1, a2 \in 0 .. B - 1 : a1 = a[1] /\ a2 = a[2]
  BY <1>3, <1>4 DEF OneWord
<1>6. PICK h \in Int, l \in 0 .. D - 1 : h = a1 \div D /\ l = a1 % D /\ a1 = h * D + l
  <2>1. a1 \div D \in Int /\ a1 % D \in 0 .. D - 1 /\ a1 = (a1 \div D) * D + (a1 % D)
    BY <1>3, Divided
  <2> QED BY <2>1
<1>7. h \in 0 .. B - 1
  <2>1. h >= 0
    <3> SUFFICES ASSUME h < 0 PROVE FALSE
      OBVIOUS
    <3>1. (-1 - h) * D \in Nat /\ h * D = -D - (-1 - h) * D
      BY <1>3
    <3> QED BY <1>5, <1>6, <3>1
  <2>2. h * D >= h
    <3>1. h * (D - 1) \in Nat /\ h * D = h + h * (D - 1)
      BY <1>3, <2>1
    <3> QED BY <3>1
  <2> QED BY <1>5, <1>6, <2>1, <2>2
<1>8. Number(a) = a2 + a1 * B
  BY <1>3, <1>4, <1>5, NumberFacts
<1>9. a2 + a1 * B = h * (B * D) + (a2 + l * B)
  <2>1. a2 + (h * D + l) * B = h * (B * D) + (a2 + l * B)
    OBVIOUS
  <2> QED BY <1>6, <2>1
<1>10. a2 + l * B \in 0 .. (B * D) - 1
  <2>1. a2 + l * B \in 0 .. (D * B) - 1
    BY <1>3, DigitRange
  <2> QED BY <2>1
<1>11. PICK S \in Nat : S = B * D /\ S > 0
  BY <1>3
<1>12. (a2 + a1 * B) \div S = h /\ (a2 + a1 * B) % S = a2 + l * B
  <2>1. a2 + a1 * B = h * S + (a2 + l * B) /\ a2 + l * B \in 0 .. S - 1
    BY <1>9, <1>10, <1>11
  <2> QED BY <1>11, <2>1, Remainder
<1>13. Shr(a[1], i) = h /\ h \in OneWord
  BY <1>3, <1>5, <1>6, <1>7 DEF Shr, OneWord
<1>14. dist = WordBits + i /\ i \in 0 .. WordBits - 1
  BY <1>1, <1>2
<1>15. /\ 2^dist = Base * 2^i /\ 2^i \in Nat /\ 2^i > 0
       /\ a[1] % 2^i \in 0 .. 2^i - 1 /\ Shr(a[1], i) \in OneWord
  BY <1>3, <1>5, <1>6, <1>13
<1>16. Number(a) \div 2^dist = Shr(a[1], i) /\ Number(a) % 2^dist = a[2] + (a[1] % 2^i) * Base
  BY <1>3, <1>5, <1>6, <1>8, <1>11, <1>12, <1>13
<1> QED BY <1>14, <1>15, <1>16 DEF i

(* shiftRightJam128, for any distance. *)
LEMMA ShiftRightJam128Exact ==
  ASSUME NEW a \in WordPair, NEW dist \in 1 .. LongestShift
  PROVE  Number(softfloat_shiftRightJam128(a, dist)) = Jammed(Number(a), dist)
<1>1. PICK w \in Nat : w = WordBits /\ w > 1
  BY WordFacts
<1>2. PICK B \in Nat : B = Base /\ B > 1
  BY WordFacts
<1>3. PICK a1 \in 0 .. B - 1, a2 \in 0 .. B - 1 : a1 = a[1] /\ a2 = a[2] /\ a = <<a1, a2>>
  BY <1>2 DEF WordPair, OneWord
<1>4. Number(a) = a1 * B + a2 /\ Number(a) \in 0 .. (B * B) - 1
  BY <1>2, <1>3, NumberFacts DEF Number, OneWord
<1>5. CASE dist < w
  <2>1. dist \in 1 .. WordBits - 1 /\ softfloat_shiftRightJam128(a, dist) = softfloat_shortShiftRightJam128(a, dist)
    BY <1>1, <1>5 DEF softfloat_shiftRightJam128
  <2> QED BY <2>1, ShortShiftRightJam128Exact
<1>6. CASE dist >= w /\ dist < 2 * w - 1
  <2> DEFINE i == dist % WordBits
             c == (a[1] % 2^i # 0 \/ a[2] # 0)
             q == Shr(a[1], i)
  <2>1. dist \in WordBits .. 2 * WordBits - 1
    BY <1>1, <1>6
  <2>2. /\ q \in OneWord /\ a[1] % 2^i \in 0 .. 2^i - 1 /\ 2^i \in Nat
        /\ Number(a) \div 2^dist = q
        /\ Number(a) % 2^dist = a[2] + (a[1] % 2^i) * B
    BY <1>2, <2>1, LongShift
  <2>3. softfloat_shiftRightJam128(a, dist) = <<0, IF c /\ q % 2 = 0 THEN q + 1 ELSE q>>
    <3>1. ~(dist < WordBits) /\ dist < 2 * WordBits - 1
      BY <1>1, <1>6
    <3> QED BY <3>1 DEF softfloat_shiftRightJam128, OrOne
  <2>4. Number(a) % 2^dist # 0 <=> c
    <3>1. PICK l \in Nat : l = a[1] % 2^i
      BY <2>2
    <3>2. l * B \in Nat /\ (l * B = 0 <=> l = 0)
      BY <1>2
    <3> QED BY <1>3, <2>2, <3>1, <3>2
  <2>5. Number(<<0, q>>) = q
    BY <1>2, <2>2 DEF Number, OneWord
  <2>6. c \in BOOLEAN /\ 0 \in OneWord
    BY <1>2 DEF OneWord
  <2> HIDE DEF c, q, i
  <2> QED BY <2>2, <2>3, <2>4, <2>5, <2>6, JamPair
<1>7. CASE dist >= 2 * w - 1
  <2>1. softfloat_shiftRightJam128(a, dist) = <<0, IF a # <<0, 0>> THEN 1 ELSE 0>>
    <3>1. ~(dist < WordBits) /\ ~(dist < 2 * WordBits - 1)
      BY <1>1, <1>7
    <3> QED BY <3>1 DEF softfloat_shiftRightJam128, OneIf
  <2>2. a # <<0, 0>> <=> a1 # 0 \/ a2 # 0
    BY <1>3
  <2>3. PICK n \in Nat : n = Number(a) /\ (n = 0 <=> a1 = 0 /\ a2 = 0)
    <3>1. a1 * B \in Nat /\ (a1 * B = 0 <=> a1 = 0)
      BY <1>2
    <3> QED BY <1>3, <1>4, <3>1
  <2>4. PICK S \in Nat : S = 2^dist /\ S > 0
    <3>1. dist \in 0 .. LongestShift
      BY WordAssumption
    <3> QED BY <3>1, PowerPositive
  <2>5. n < 2 * S
    <3>1. CASE dist >= 2 * w
      <4>1. 2^dist >= WordPower(2)
        <5>1. dist \div WordBits \in Nat /\ dist % WordBits \in 0 .. w - 1
              /\ dist = (dist \div WordBits) * w + (dist % WordBits)
          BY <1>1, Distance
        <5>2. PICK k \in Nat, e \in 0 .. w - 1 : k = dist \div WordBits /\ dist = k * w + e
          BY <5>1
        <5>3. k >= 2
          <6> SUFFICES ASSUME k < 2 PROVE FALSE
            BY <5>2
          <6>1. k * w <= w
            BY <1>1, <5>2
          <6> QED BY <1>1, <3>1, <5>2, <6>1
        <5> QED BY <5>2, <5>3, Distance
      <4> QED BY <1>2, <1>4, <2>3, <2>4, <4>1, WordPowers
    <3>2. CASE dist = 2 * w - 1
      <4>1. dist \in 0 .. LongestShift /\ dist + 1 = 2 * WordBits
        BY <1>1, <3>2, WordAssumption
      <4>2. 2^(dist + 1) = 2 * S
        BY <2>4, <4>1, ShiftPowers
      <4>3. WordPower(2) = B * B
        BY <1>2, WordPowers
      <4> QED BY <1>4, <2>3, <4>1, <4>2, <4>3 DEF WordPower
    <3> QED BY <1>7, <3>1, <3>2
  <2>6. Jammed(n, dist) = IF n = 0 THEN 0 ELSE 1
    <3>1. CASE n < S
      <4>1. n % S = n /\ n \div S = 0 /\ 0 % 2 = 0
        BY <2>4, <3>1, OwnRemainder
      <4> QED BY <2>4, <4>1 DEF Jammed
    <3>2. CASE n >= S
      <4>1. n - S \in 0 .. S - 1 /\ n = 1 * S + (n - S)
        BY <2>4, <2>5, <3>2
      <4>2. n \div S = 1
        BY <2>4, <4>1, Remainder
      <4>3. 1 % 2 # 0 /\ n # 0
        BY <2>4, <3>2
      <4> QED BY <2>4, <4>2, <4>3 DEF Jammed
    <3> QED BY <2>4, <3>1, <3>2
  <2>7. Number(<<0, 0>>) = 0 /\ Number(<<0, 1>>) = 1
    BY <1>2 DEF Number
  <2> QED BY <2>1, <2>2, <2>3, <2>6, <2>7
<1>8. dist < w \/ (dist >= w /\ dist < 2 * w - 1) \/ dist >= 2 * w - 1
  BY <1>1
<1> QED BY <1>5, <1>6, <1>7, <1>8

-----------------------------------------------------------------------------
(* Shifts with an extra word. *)

(* A power of two is twice the one before. *)
LEMMA PowerDouble ==
  ASSUME NEW d \in 1 .. LongestShift
  PROVE  2^d = 2 * 2^(d - 1) /\ 2^(d - 1) \in Nat /\ 2^(d - 1) > 0
<1>1. d - 1 \in 0 .. LongestShift /\ (d - 1) + 1 = d
  BY WordAssumption
<1> QED BY <1>1, ShiftPowers, PowerPositive

(* Half of the base is even and a power of two. *)
LEMMA HalfBaseFacts ==
  \E g \in Nat : /\ g > 0 /\ Base \div 2 = 2 * g /\ Base = 2 * (2 * g)
                 /\ Base \div 2 = 2^(WordBits - 1)
<1>1. PICK w \in Nat : w = WordBits /\ w > 1 /\ w <= LongestShift
  BY WordFacts, WordAssumption
<1>2. w \in 1 .. LongestShift /\ w - 1 \in 1 .. LongestShift
  BY <1>1, WordAssumption
<1>3. PICK g \in Nat : g > 0 /\ 2^(w - 1) = 2 * g
  BY <1>2, PowerDouble
<1>4. Base = 2 * 2^(w - 1)
  BY <1>1, <1>2, PowerDouble DEF Base
<1>5. Base \div 2 = 2 * g
  <2>1. (2 * (2 * g)) \div 2 = 2 * g
    OBVIOUS
  <2> QED BY <1>3, <1>4, <2>1
<1> QED BY <1>1, <1>3, <1>4, <1>5

(* Setting the last bit of the extra word leaves its first bit alone and   *)
(* makes the others nonzero.                                               *)
LEMMA ExtraBit ==
  ASSUME NEW x \in OneWord, NEW c \in BOOLEAN
  PROVE  LET o == IF c /\ x % 2 = 0 THEN x + 1 ELSE x
         IN  /\ o >= Base \div 2 <=> x >= Base \div 2
             /\ o % (Base \div 2) # 0 <=> x % (Base \div 2) # 0 \/ c
<1>1. PICK g \in Nat, H \in Nat : g > 0 /\ H = Base \div 2 /\ H = 2 * g /\ Base = 2 * H
  BY HalfBaseFacts
<1>2. PICK y \in 0 .. (2 * H) - 1 : y = x
  BY <1>1 DEF OneWord
<1>3. PICK b \in 0 .. 1, l \in 0 .. H - 1 : y = b * H + l /\ (b = 1 <=> y >= H)
  <2>1. CASE y >= H
    <3>1. y - H \in 0 .. H - 1 /\ y = 1 * H + (y - H)
      BY <1>1, <2>1
    <3> QED BY <2>1, <3>1
  <2>2. CASE y < H
    <3>1. y \in 0 .. H - 1 /\ y = 0 * H + y
      BY <1>1, <2>2
    <3> QED BY <2>2, <3>1
  <2> QED BY <2>1, <2>2
<1>4. y % H = l
  BY <1>1, <1>3, Remainder
<1>5. y % 2 = l % 2
  <2>1. b * H = 2 * (b * g) /\ b * g \in Int
    BY <1>1
  <2>2. (l + 2 * (b * g)) % 2 = l % 2
    BY <2>1, OrOneEven
  <2>3. y = l + 2 * (b * g)
    BY <1>3, <2>1
  <2> QED BY <2>2, <2>3
<1>6. CASE c /\ y % 2 = 0
  <2>1. l # H - 1
    <3> SUFFICES ASSUME l = H - 1 PROVE FALSE
      OBVIOUS
    <3>1. l = 1 + 2 * (g - 1) /\ g - 1 \in Int
      BY <1>1
    <3>2. (1 + 2 * (g - 1)) % 2 = 1 % 2 /\ 1 % 2 = 1
      BY <3>1, OrOneEven
    <3> QED BY <1>5, <1>6, <3>1, <3>2
  <2>2. l + 1 \in 0 .. H - 1 /\ y + 1 = b * H + (l + 1)
    BY <1>3, <2>1
  <2>3. (y + 1) % H = l + 1
    BY <1>1, <2>2, Remainder
  <2>4. y + 1 >= H <=> y >= H
    <3>1. CASE b = 0
      BY <1>3, <2>2, <3>1
    <3>2. CASE b = 1
      BY <1>3, <3>2
    <3> QED BY <3>1, <3>2
  <2>5. (y + 1) % H # 0
    BY <2>3
  <2> QED BY <1>1, <1>2, <1>6, <2>4, <2>5
<1>7. CASE c /\ y % 2 # 0
  <2>1. 0 % 2 = 0
    OBVIOUS
  <2>2. l # 0
    BY <1>5, <1>7, <2>1
  <2> QED BY <1>1, <1>2, <1>4, <1>7, <2>2
<1>8. CASE ~c
  BY <1>1, <1>2, <1>8
<1> QED BY <1>6, <1>7, <1>8

(* The first bit shifted out, and the bits after it. *)
LEMMA LastBit ==
  ASSUME NEW n \in Nat, NEW S \in Nat, S > 0
  PROVE  /\ (n \div S) % 2 = 1 <=> n % (2 * S) >= S
         /\ n % S = (n % (2 * S)) % S
<1>1. PICK T \in Nat : T = 2 * S /\ T > 0
  OBVIOUS
<1>2. PICK q \in Int, r \in 0 .. T - 1 : q = n \div T /\ r = n % T /\ n = q * T + r
  <2>1. n \div T \in Int /\ n % T \in 0 .. T - 1 /\ n = (n \div T) * T + (n % T)
    BY <1>1, Divided
  <2> QED BY <2>1
<1>3. CASE r >= S
  <2>1. PICK p \in Int, m \in 0 .. S - 1 : p = 1 + 2 * q /\ m = r - S
    BY <1>1, <1>3
  <2>2. n = p * S + m
    <3>1. q * (2 * S) + r = (1 + 2 * q) * S + (r - S)
      OBVIOUS
    <3> QED BY <1>1, <1>2, <2>1, <3>1
  <2>3. r = 1 * S + m
    BY <2>1
  <2>4. n \div S = p /\ n % S = m
    BY <2>2, Remainder
  <2>5. r % S = m
    BY <2>3, Remainder
  <2>6. p % 2 = 1
    <3>1. (1 + 2 * q) % 2 = 1 % 2 /\ 1 % 2 = 1
      BY OrOneEven
    <3> QED BY <2>1, <3>1
  <2> QED BY <1>1, <1>2, <1>3, <2>4, <2>5, <2>6
<1>4. CASE r < S
  <2>1. PICK p \in Int, m \in 0 .. S - 1 : p = 0 + 2 * q /\ m = r
    BY <1>1, <1>4
  <2>2. n = p * S + m
    <3>1. q * (2 * S) + r = (0 + 2 * q) * S + r
      OBVIOUS
    <3> QED BY <1>1, <1>2, <2>1, <3>1
  <2>4. n \div S = p /\ n % S = m
    BY <2>2, Remainder
  <2>5. m % S = m
    BY OwnRemainder
  <2>6. p % 2 = 0
    <3>1. (0 + 2 * q) % 2 = 0 % 2 /\ 0 % 2 = 0
      BY OrOneEven
    <3> QED BY <2>1, <3>1
  <2> QED BY <1>1, <1>2, <1>4, <2>1, <2>4, <2>5, <2>6
<1> QED BY <1>1, <1>2, <1>3, <1>4

(* A word that takes the sticky bit of two others. *)
StickyWord(x, extra, more) == IF (extra # 0 \/ more # 0) /\ x % 2 = 0 THEN x + 1 ELSE x

(* u is what a shift of n leaves, and the word x holds the bits it moved   *)
(* out, those below them being zero when more is.                          *)
MovedOut(u, x, more, n, dist) ==
    /\ n \div 2^dist = Number(u)
    /\ x >= Base \div 2 <=> n % 2^dist >= 2^(dist - 1)
    /\ (x % (Base \div 2) # 0 \/ more # 0) <=> (n % 2^dist) % 2^(dist - 1) # 0

(* What a shift with an extra word has to give. *)
LEMMA ExtraIs ==
  ASSUME NEW u, NEW x \in OneWord, NEW more \in Int, NEW n \in Nat, NEW extra \in Int,
         NEW dist \in 1 .. LongestShift, MovedOut(u, x, more, n, dist)
  PROVE  Split(u, StickyWord(x, extra, more)) = ShiftedOut(n, extra, dist)
<1> DEFINE c == (extra # 0 \/ more # 0)
           o == IF c /\ x % 2 = 0 THEN x + 1 ELSE x
<1>1. PICK S \in Nat : S = 2^(dist - 1) /\ S > 0 /\ 2^dist = 2 * S
  BY PowerDouble
<1>2. /\ o >= Base \div 2 <=> x >= Base \div 2
      /\ o % (Base \div 2) # 0 <=> x % (Base \div 2) # 0 \/ c
  <2>1. c \in BOOLEAN
    OBVIOUS
  <2> HIDE DEF c
  <2> QED BY <2>1, ExtraBit
<1>3. /\ (n \div S) % 2 = 1 <=> n % (2 * S) >= S
      /\ n % S = (n % (2 * S)) % S
  BY <1>1, LastBit
<1>0. StickyWord(x, extra, more) = o
  BY DEF StickyWord
<1> HIDE DEF o
<1>4. (o >= Base \div 2) = ((n \div S) % 2 = 1)
  BY <1>1, <1>2, <1>3 DEF MovedOut
<1>5. (o % (Base \div 2) # 0) = (n % S # 0 \/ extra # 0)
  BY <1>1, <1>2, <1>3 DEF MovedOut
<1>6. Split(u, o) = <<Number(u), o >= Base \div 2, o % (Base \div 2) # 0>>
  BY DEF Split
<1>7. ShiftedOut(n, extra, dist) = <<n \div 2^dist, (n \div S) % 2 = 1, n % S # 0 \/ extra # 0>>
  BY <1>1 DEF ShiftedOut
<1> QED BY <1>0, <1>4, <1>5, <1>6, <1>7 DEF MovedOut

(* The bits a shift moves into the neighbouring word, read as an extra     *)
(* word: its first bit is the first one shifted out.                       *)
LEMMA SpillBits ==
  ASSUME NEW d \in 1 .. WordBits - 1, NEW y \in OneWord
  PROVE  /\ Spill(y, d) \in OneWord
         /\ Spill(y, d) >= Base \div 2 <=> y % 2^d >= 2^(d - 1)
         /\ Spill(y, d) % (Base \div 2) # 0 <=> (y % 2^d) % 2^(d - 1) # 0
<1>1. d \in 1 .. LongestShift
  <2>1. PICK w \in Nat : w = WordBits /\ w - 1 <= LongestShift /\ d \in 1 .. w - 1
    BY WordFacts, WordAssumption
  <2> QED BY <2>1, WordAssumption
<1>2. PICK S \in Nat, E \in Nat, H \in Nat :
        /\ S = 2^(d - 1) /\ S > 0 /\ 2^d = 2 * S /\ E = 2^(WordBits - d) /\ E > 1
        /\ Base = 2 * H /\ H = Base \div 2 /\ (2 * S) * E = Base
  <2>1. PICK g \in Nat : Base \div 2 = 2 * g /\ Base = 2 * (2 * g)
    BY HalfBaseFacts
  <2>2. 2 * g \in Nat
    OBVIOUS
  <2> QED BY <1>1, <2>1, <2>2, PowerDouble, ShiftFacts
<1>3. H = S * E /\ H > 0
  <2>1. (2 * S) * E = 2 * (S * E)
    OBVIOUS
  <2>2. S * E \in Nat /\ S * E > 0
    BY <1>2
  <2> QED BY <1>2, <2>1, <2>2
<1>4. PICK l \in 0 .. (2 * S) - 1, x \in Int : l = y % 2^d /\ x = Spill(y, d) /\ x = l * E /\ x + 0 \in OneWord
  <2>1. /\ y % 2^d \in 0 .. (2 * S) - 1 /\ Spill(y, d) = (y % 2^d) * E
        /\ \A s \in 0 .. E - 1 : Spill(y, d) + s \in OneWord
    BY <1>2, RightParts
  <2>2. 0 \in 0 .. E - 1
    BY <1>2
  <2> QED BY <2>1, <2>2
<1>5. x \in OneWord
  BY <1>4
<1>6. CASE l >= S
  <2>1. PICK m \in 0 .. S - 1 : m = l - S
    BY <1>6
  <2>2. l = 1 * S + m
    BY <2>1
  <2>3. l % S = m
    BY <1>2, <2>2, Remainder
  <2>4. x = 1 * H + m * E
    <3>1. (1 * S + m) * E = 1 * (S * E) + m * E
      OBVIOUS
    <3> QED BY <1>3, <1>4, <2>2, <3>1
  <2>5. m * E \in 0 .. H - 1 /\ (m * E = 0 <=> m = 0)
    <3>1. 0 + m * E \in 0 .. (S * E) - 1
      <4>1. 0 \in 0 .. E - 1
        BY <1>2
      <4> QED BY <1>2, <4>1, DigitRange
    <3> QED BY <1>2, <1>3, <3>1
  <2>6. x % H = m * E
    BY <1>3, <2>4, <2>5, Remainder
  <2>7. x >= H
    BY <2>4, <2>5
  <2> QED BY <1>2, <1>4, <1>5, <1>6, <2>3, <2>5, <2>6, <2>7
<1>7. CASE l < S
  <2>1. l \in 0 .. S - 1
    BY <1>7
  <2>3. l % S = l
    BY <1>2, <2>1, OwnRemainder
  <2>5. l * E \in 0 .. H - 1 /\ (l * E = 0 <=> l = 0)
    <3>1. 0 + l * E \in 0 .. (S * E) - 1
      <4>1. 0 \in 0 .. E - 1
        BY <1>2
      <4> QED BY <1>2, <2>1, <4>1, DigitRange
    <3> QED BY <1>2, <1>3, <3>1
  <2>6. x % H = l * E
    BY <1>3, <1>4, <2>5, OwnRemainder
  <2>7. x < H
    BY <1>4, <2>5
  <2> QED BY <1>2, <1>4, <1>5, <1>7, <2>3, <2>5, <2>6, <2>7
<1> QED BY <1>6, <1>7

(* Right by less than a word, with an extra word. *)
LEMMA ShortExtra ==
  ASSUME NEW d \in 1 .. WordBits - 1, NEW u, NEW y \in OneWord, NEW extra \in Int, NEW n \in Nat,
         n \div 2^d = Number(u), n % 2^d = y % 2^d
  PROVE  Split(u, StickyWord(Spill(y, d), extra, 0)) = ShiftedOut(n, extra, d)
<1>0. PICK x \in Int : x = Spill(y, d)
  <2>1. Spill(y, d) \in OneWord
    BY SpillBits
  <2> QED BY <2>1, WordFacts DEF OneWord
<1>1. d \in 1 .. LongestShift /\ 0 \in Int
  <2>1. PICK w \in Nat : w = WordBits /\ w - 1 <= LongestShift /\ d \in 1 .. w - 1
    BY WordFacts, WordAssumption
  <2> QED BY <2>1, WordAssumption
<1>2. /\ x \in OneWord
      /\ x >= Base \div 2 <=> n % 2^d >= 2^(d - 1)
      /\ x % (Base \div 2) # 0 <=> (n % 2^d) % 2^(d - 1) # 0
  BY <1>0, SpillBits
<1>3. (x % (Base \div 2) # 0 \/ 0 # 0) <=> (n % 2^d) % 2^(d - 1) # 0
  BY <1>2
<1>4. MovedOut(u, x, 0, n, d)
  BY <1>2, <1>3 DEF MovedOut
<1>5. Split(u, StickyWord(x, extra, 0)) = ShiftedOut(n, extra, d)
  BY <1>1, <1>2, <1>4, ExtraIs
<1> QED BY <1>0, <1>5

(* shortShiftRightJam64Extra. *)
LEMMA ShortShiftRightJam64ExtraExact ==
  ASSUME NEW a \in OneWord, NEW extra \in OneWord, NEW d \in 1 .. WordBits - 1
  PROVE  LET z == softfloat_shortShiftRightJam64Extra(a, extra, d)
         IN  Split(<<0, z.v>>, z.extra) = ShiftedOut(a, extra, d)
<1> DEFINE z == softfloat_shortShiftRightJam64Extra(a, extra, d)
<1>1. z.v = Shr(a, d) /\ z.extra = StickyWord(Spill(a, d), extra, 0)
  BY DEF softfloat_shortShiftRightJam64Extra, OrOne, StickyWord
<1>2. a \in Nat /\ extra \in Int
  BY WordFacts DEF OneWord
<1>3. PICK B \in Nat : B = Base
  BY WordFacts
<1>4. PICK q \in Int : q = Shr(a, d)
  BY RightParts
<1>5. Number(<<0, q>>) = q
  BY <1>3 DEF Number
<1>6. a \div 2^d = Number(<<0, q>>)
  BY <1>4, <1>5 DEF Shr
<1> HIDE DEF z
<1>7. Split(<<0, q>>, StickyWord(Spill(a, d), extra, 0))
        = ShiftedOut(a, extra, d)
  BY <1>2, <1>6, ShortExtra
<1> QED BY <1>1, <1>4, <1>7 DEF z

(* shortShiftRightJam128Extra. *)
LEMMA ShortShiftRightJam128ExtraExact ==
  ASSUME NEW a \in WordPair, NEW extra \in OneWord, NEW d \in 1 .. WordBits - 1
  PROVE  LET z == softfloat_shortShiftRightJam128Extra(a, extra, d)
         IN  Split(z.v, z.extra) = ShiftedOut(Number(a), extra, d)
<1> DEFINE z == softfloat_shortShiftRightJam128Extra(a, extra, d)
           u == softfloat_shortShiftRight128(a, d)
<1>1. z.v = u /\ z.extra = StickyWord(Spill(a[2], d), extra, 0)
  BY DEF softfloat_shortShiftRightJam128Extra, OrOne, StickyWord
<1>2. extra \in Int /\ a[2] \in OneWord
  BY WordFacts DEF OneWord, WordPair
<1>3. Number(a) \in Nat /\ Number(a) \div 2^d = Number(u) /\ Number(a) % 2^d = a[2] % 2^d
  BY ShortShiftRight128Parts
<1> HIDE DEF z, u
<1>4. Split(u, StickyWord(Spill(a[2], d), extra, 0))
        = ShiftedOut(Number(a), extra, d)
  BY <1>2, <1>3, ShortExtra
<1> QED BY <1>1, <1>4 DEF z

(* shiftRightJam128Extra, for any distance. *)
LEMMA ShiftRightJam128ExtraExact ==
  ASSUME NEW a \in WordPair, NEW extra \in OneWord, NEW dist \in 1 .. LongestShift
  PROVE  LET z == softfloat_shiftRightJam128Extra(a, extra, dist)
         IN  Split(z.v, z.extra) = ShiftedOut(Number(a), extra, dist)
<1> DEFINE z == softfloat_shiftRightJam128Extra(a, extra, dist)
           n == Number(a)
<1>1. PICK w \in Nat : w = WordBits /\ w > 1
  BY WordFacts
<1>2. PICK B \in Nat : B = Base /\ B > 1
  BY WordFacts
<1>3. PICK a1 \in 0 .. B - 1, a2 \in 0 .. B - 1 : a1 = a[1] /\ a2 = a[2] /\ a = <<a1, a2>>
                                              /\ a[1] \in OneWord /\ a[2] \in OneWord
  BY <1>2 DEF WordPair, OneWord
<1>4. n = a2 + a1 * B /\ n \in 0 .. (B * B) - 1 /\ n \in Nat
  BY <1>2, <1>3, NumberFacts DEF OneWord
<1>5. extra \in Int /\ 0 \in OneWord
  BY <1>2 DEF OneWord
<1>6. PICK g \in Nat, H \in Nat : H = Base \div 2 /\ H = 2 * g /\ g > 0 /\ H > 1 /\ B = 2 * H /\ H = 2^(WordBits - 1)
  BY <1>2, HalfBaseFacts
<1>7. Number(<<0, 0>>) = 0
  BY <1>2 DEF Number
<1>8. CASE dist < w
  <2>1. dist \in 1 .. WordBits - 1 /\ dist < WordBits
    BY <1>1, <1>8
  <2>2. /\ z.v = softfloat_shortShiftRight128(a, dist)
        /\ z.extra = StickyWord(Spill(a[2], dist), extra, 0)
    BY <2>1 DEF softfloat_shiftRightJam128Extra, OrOne, StickyWord
  <2>3. LET y == softfloat_shortShiftRightJam128Extra(a, extra, dist)
        IN  z.v = y.v /\ z.extra = y.extra
    BY <2>2 DEF softfloat_shortShiftRightJam128Extra, OrOne, StickyWord
  <2> QED BY <2>1, <2>3, ShortShiftRightJam128ExtraExact
<1>9. CASE dist = w
  <2>1. dist = WordBits /\ ~(dist < WordBits)
    BY <1>1, <1>9
  <2>2. /\ z.v = <<0, a[1]>>
        /\ z.extra = StickyWord(a[2], extra, 0)
    BY <2>1 DEF softfloat_shiftRightJam128Extra, OrOne, StickyWord
  <2>3. 2^dist = B /\ 2^(dist - 1) = H
    BY <1>2, <1>6, <2>1 DEF Base
  <2>4. n \div B = a1 /\ n % B = a2
    <3>1. n = a1 * B + a2
      BY <1>4
    <3> QED BY <1>2, <3>1, Remainder
  <2>5. Number(<<0, a[1]>>) = a1
    BY <1>2, <1>3 DEF Number
  <2>6. 0 \in Int /\ dist \in 1 .. LongestShift
    OBVIOUS
  <2> HIDE DEF z, n
  <2>7. MovedOut(<<0, a[1]>>, a[2], 0, n, dist)
    BY <1>3, <1>6, <2>3, <2>4, <2>5, <2>6 DEF MovedOut
  <2>8. Split(<<0, a[1]>>, StickyWord(a[2], extra, 0)) = ShiftedOut(n, extra, dist)
    BY <1>3, <1>4, <1>5, <2>6, <2>7, ExtraIs
  <2> QED BY <2>2, <2>8 DEF z, n
<1>10. CASE dist > w /\ dist < 2 * w
  <2> DEFINE i == dist % WordBits
             x == Spill(a[1], i)
             q == Shr(a[1], i)
  <2>0. dist \in WordBits .. 2 * WordBits - 1
    BY <1>1, <1>10
  <2>1. /\ 2^dist = B * 2^i /\ dist = w + i /\ i \in 0 .. WordBits - 1
        /\ q \in OneWord /\ a[1] % 2^i \in 0 .. 2^i - 1
        /\ n \div 2^dist = q /\ n % 2^dist = a2 + (a[1] % 2^i) * B
    BY <1>1, <1>2, <1>3, <2>0, LongShift
  <2>2. i \in 1 .. WordBits - 1 /\ i \in 1 .. LongestShift
    BY <1>1, <1>10, <2>1, WordAssumption
  <2>3. Spill(a[1], dist) = x
    <3>1. (w - dist) % w = w - i /\ (w - i) % w = w - i
      <4>1. PICK j \in 1 .. w - 1 : j = i
        BY <1>1, <2>2
      <4>2. w - dist = (-1) * w + (w - j) /\ w - j \in 0 .. w - 1 /\ -1 \in Int
        BY <1>1, <2>1, <4>1
      <4> QED BY <1>1, <4>1, <4>2, Remainder, OwnRemainder
    <3> QED BY <1>1, <3>1 DEF Spill
  <2>4. /\ z.v = <<0, q>>
        /\ z.extra = StickyWord(x, extra, a2)
    <3>1. ~(dist < WordBits) /\ dist # WordBits /\ dist < 2 * WordBits
      BY <1>1, <1>10
    <3>2. z.v = <<0, q>> /\ z.extra = OrOne(Spill(a[1], dist), extra # 0 \/ a[2] # 0)
      BY <3>1 DEF softfloat_shiftRightJam128Extra
    <3> QED BY <1>3, <2>3, <3>2 DEF OrOne, StickyWord
  <2>5. /\ x \in OneWord
        /\ x >= Base \div 2 <=> a[1] % 2^i >= 2^(i - 1)
        /\ x % (Base \div 2) # 0 <=> (a[1] % 2^i) % 2^(i - 1) # 0
    BY <1>3, <2>2, SpillBits
  <2>61. PICK S \in Nat, D \in Nat : S = 2^(i - 1) /\ S > 0 /\ D = 2^i /\ D = 2 * S
    BY <2>2, PowerDouble
  <2>62. 2^(dist - 1) = B * S
    <3>1. 2^dist = 2 * 2^(dist - 1) /\ 2^(dist - 1) \in Nat
      BY PowerDouble
    <3>2. B * (2 * S) = 2 * (B * S) /\ B * S \in Nat
      OBVIOUS
    <3> QED BY <2>1, <2>61, <3>1, <3>2
  <2>6. PICK l \in 0 .. D - 1 :
          /\ S = 2^(i - 1) /\ S > 0 /\ D = 2^i /\ D = 2 * S /\ l = a[1] % 2^i
          /\ 2^(dist - 1) = B * S
    BY <2>1, <2>61, <2>62
  <2>7. Number(<<0, q>>) = q
    BY <1>2, <2>1 DEF Number, OneWord
  <2>8. /\ a2 + l * B >= B * S <=> l >= S
        /\ (a2 + l * B) % (B * S) # 0 <=> l % S # 0 \/ a2 # 0
    <3>1. PICK T \in Nat : T = B * S /\ T > 0
      BY <1>2, <2>6
    <3>2. CASE l >= S
      <4>1. PICK m \in 0 .. S - 1 : m = l - S /\ l = 1 * S + m
        BY <2>6, <3>2
      <4>2. l % S = m
        BY <2>6, <4>1, Remainder
      <4>3. a2 + m * B \in 0 .. T - 1 /\ (a2 + m * B = 0 <=> m = 0 /\ a2 = 0)
        <5>1. a2 + m * B \in 0 .. (S * B) - 1
          BY <1>2, <2>6, DigitRange
        <5>2. S * B = B * S
          OBVIOUS
        <5>3. m * B \in Nat /\ (m * B = 0 <=> m = 0)
          BY <1>2
        <5> QED BY <3>1, <5>1, <5>2, <5>3
      <4>4. a2 + l * B = 1 * T + (a2 + m * B)
        <5>1. a2 + (1 * S + m) * B = 1 * (B * S) + (a2 + m * B)
          OBVIOUS
        <5> QED BY <3>1, <4>1, <5>1
      <4>5. (a2 + l * B) % T = a2 + m * B
        BY <3>1, <4>3, <4>4, Remainder
      <4>6. a2 + l * B >= T
        BY <4>3, <4>4
      <4> QED BY <3>1, <3>2, <4>2, <4>3, <4>5, <4>6
    <3>3. CASE l < S
      <4>1. l \in 0 .. S - 1
        BY <3>3
      <4>2. l % S = l
        BY <2>6, <4>1, OwnRemainder
      <4>3. a2 + l * B \in 0 .. T - 1 /\ (a2 + l * B = 0 <=> l = 0 /\ a2 = 0)
        <5>1. a2 + l * B \in 0 .. (S * B) - 1
          BY <1>2, <2>6, <4>1, DigitRange
        <5>2. S * B = B * S
          OBVIOUS
        <5>3. l * B \in Nat /\ (l * B = 0 <=> l = 0)
          BY <1>2
        <5> QED BY <3>1, <5>1, <5>2, <5>3
      <4>5. (a2 + l * B) % T = a2 + l * B
        BY <3>1, <4>3, OwnRemainder
      <4>6. ~(a2 + l * B >= T)
        BY <4>3
      <4> QED BY <3>1, <3>3, <4>2, <4>3, <4>5, <4>6
    <3> QED BY <2>6, <3>2, <3>3
  <2>9. a2 \in Int
    BY <1>3
  <2> HIDE DEF z, n, x, q, i
  <2>10. MovedOut(<<0, q>>, x, a2, n, dist)
    <3>1. n % 2^dist = a2 + l * B
      BY <2>1, <2>6
    <3> QED BY <2>1, <2>5, <2>6, <2>7, <2>8, <2>9, <3>1 DEF MovedOut
  <2>11. Split(<<0, q>>, StickyWord(x, extra, a2)) = ShiftedOut(n, extra, dist)
    BY <1>4, <1>5, <2>5, <2>9, <2>10, ExtraIs
  <2> QED BY <2>4, <2>11 DEF z, n
<1>11. CASE dist >= 2 * w
  <2> DEFINE x == IF dist = 2 * WordBits THEN a[1] ELSE IF a[1] # 0 THEN 1 ELSE 0
  <2>1. /\ z.v = <<0, 0>>
        /\ z.extra = StickyWord(x, extra, a2)
    <3>1. ~(dist < WordBits) /\ dist # WordBits /\ ~(dist < 2 * WordBits)
      BY <1>1, <1>11
    <3> QED BY <1>3, <3>1 DEF softfloat_shiftRightJam128Extra, OrOne, StickyWord, OneIf
  <2>2. PICK S \in Nat : S = 2^(dist - 1) /\ S > 0 /\ 2^dist = 2 * S
    BY PowerDouble
  <2>3. a2 \in Int
    BY <1>3
  <2>4. n = 0 <=> a1 = 0 /\ a2 = 0
    <3>1. a1 * B \in Nat /\ (a1 * B = 0 <=> a1 = 0)
      BY <1>2
    <3> QED BY <1>4, <3>1
  <2>5. CASE dist = 2 * w
    <3>1. S = B * H
      <4>1. 2^dist = B * B
        BY <1>1, <1>2, <2>5, WordPowers DEF WordPower
      <4>2. B * (2 * H) = 2 * (B * H) /\ B * H \in Nat
        OBVIOUS
      <4> QED BY <1>6, <2>2, <4>1, <4>2
    <3>2. n < 2 * S
      <4>1. B * (2 * H) = 2 * (B * H)
        OBVIOUS
      <4> QED BY <1>4, <1>6, <3>1, <4>1
    <3>3. n % (2 * S) = n /\ n \div (2 * S) = 0
      <4>1. PICK T \in Nat : T = 2 * S /\ n \in 0 .. T - 1 /\ T > 0
        BY <1>4, <2>2, <3>2
      <4> QED BY <4>1, OwnRemainder
    <3>4. x = a1
      BY <1>1, <1>3, <2>5
    <3>5. /\ n >= S <=> a1 >= H
          /\ n % S # 0 <=> a1 % H # 0 \/ a2 # 0
      <4>1. CASE a1 >= H
        <5>1. PICK m \in 0 .. H - 1 : m = a1 - H /\ a1 = 1 * H + m
          BY <1>6, <4>1
        <5>2. a1 % H = m
          <6>1. 1 \in Int /\ H > 0
            BY <1>6
          <6>2. (1 * H + m) % H = m
            BY <6>1, Remainder
          <6> QED BY <5>1, <6>2
        <5>3. a2 + m * B \in 0 .. S - 1 /\ (a2 + m * B = 0 <=> m = 0 /\ a2 = 0)
          <6>1. a2 + m * B \in 0 .. (H * B) - 1
            BY <1>2, <1>6, DigitRange
          <6>2. H * B = B * H
            OBVIOUS
          <6>3. m * B \in Nat /\ (m * B = 0 <=> m = 0)
            BY <1>2
          <6> QED BY <3>1, <6>1, <6>2, <6>3
        <5>4. n = 1 * S + (a2 + m * B)
          <6>1. a2 + (1 * H + m) * B = 1 * (B * H) + (a2 + m * B)
            OBVIOUS
          <6> QED BY <1>4, <3>1, <5>1, <6>1
        <5>5. n % S = a2 + m * B
          BY <2>2, <5>3, <5>4, Remainder
        <5>6. n >= S
          BY <5>3, <5>4
        <5> QED BY <4>1, <5>2, <5>3, <5>5, <5>6
      <4>2. CASE a1 < H
        <5>1. a1 \in 0 .. H - 1
          BY <4>2
        <5>2. a1 % H = a1
          BY <1>6, <5>1, OwnRemainder
        <5>3. n \in 0 .. S - 1
          <6>1. a2 + a1 * B \in 0 .. (H * B) - 1
            BY <1>2, <1>6, <5>1, DigitRange
          <6>2. H * B = B * H
            OBVIOUS
          <6> QED BY <1>4, <3>1, <6>1, <6>2
        <5>5. n % S = n
          BY <2>2, <5>3, OwnRemainder
        <5>6. ~(n >= S)
          BY <5>3
        <5> QED BY <2>4, <4>2, <5>2, <5>5, <5>6
      <4> QED BY <1>6, <4>1, <4>2
    <3>6. x \in OneWord
      BY <1>3, <3>4
    <3> HIDE DEF z, n, x
    <3>7. MovedOut(<<0, 0>>, x, a2, n, dist)
      BY <1>6, <1>7, <2>2, <2>3, <3>3, <3>4, <3>5 DEF MovedOut
    <3>8. Split(<<0, 0>>, StickyWord(x, extra, a2)) = ShiftedOut(n, extra, dist)
      BY <1>4, <1>5, <2>3, <3>6, <3>7, ExtraIs
    <3> QED BY <2>1, <3>8 DEF z, n
  <2>6. CASE dist > 2 * w
    <3>1. n < S
      <4>1. dist - 1 \in 1 .. LongestShift /\ dist - 1 >= 2 * w
        BY <1>1, <2>6, WordAssumption
      <4>2. PICK k \in Nat, e \in 0 .. w - 1 : k = (dist - 1) \div WordBits /\ dist - 1 = k * w + e
        <5>1. /\ (dist - 1) \div WordBits \in Nat /\ (dist - 1) % WordBits \in 0 .. w - 1
              /\ dist - 1 = ((dist - 1) \div WordBits) * w + ((dist - 1) % WordBits)
          BY <1>1, <4>1, Distance
        <5> QED BY <5>1
      <4>3. k >= 2
        <5> SUFFICES ASSUME k < 2 PROVE FALSE
          BY <4>2
        <5>1. k * w <= w
          BY <1>1, <4>2
        <5> QED BY <1>1, <4>1, <4>2, <5>1
      <4>4. 2^(dist - 1) >= WordPower(2)
        BY <4>1, <4>2, <4>3, Distance
      <4> QED BY <1>2, <1>4, <2>2, <4>4, WordPowers
    <3>2. n % (2 * S) = n /\ n \div (2 * S) = 0 /\ n % S = n
      <4>1. PICK T \in Nat : T = 2 * S /\ n \in 0 .. T - 1 /\ T > 0 /\ n \in 0 .. S - 1
        BY <1>4, <2>2, <3>1
      <4> QED BY <2>2, <4>1, OwnRemainder
    <3>3. x = (IF a1 # 0 THEN 1 ELSE 0) /\ x \in OneWord /\ x \in 0 .. H - 1 /\ (x # 0 <=> a1 # 0)
      <4>1. dist # 2 * WordBits
        BY <1>1, <2>6
      <4> QED BY <1>2, <1>3, <1>6, <4>1 DEF OneWord
    <3> HIDE DEF z, n, x
    <3>4. x % H = x /\ ~(x >= H)
      BY <1>6, <3>3, OwnRemainder
    <3>5. ~(n >= S)
      BY <1>4, <3>1
    <3>7. MovedOut(<<0, 0>>, x, a2, n, dist)
      BY <1>6, <1>7, <2>2, <2>3, <2>4, <3>2, <3>3, <3>4, <3>5 DEF MovedOut
    <3>8. Split(<<0, 0>>, StickyWord(x, extra, a2)) = ShiftedOut(n, extra, dist)
      BY <1>4, <1>5, <2>3, <3>3, <3>7, ExtraIs
    <3> QED BY <2>1, <3>8 DEF z, n
  <2> QED BY <1>1, <1>11, <2>5, <2>6
<1>12. dist < w \/ dist = w \/ (dist > w /\ dist < 2 * w) \/ dist >= 2 * w
  BY <1>1
<1> QED BY <1>8, <1>9, <1>10, <1>11, <1>12

-----------------------------------------------------------------------------
(* Products of words, by halves. *)

(* A sum that wraps is smaller than either operand. *)
LEMMA WrappedSum ==
  ASSUME NEW B \in Nat, B > 0, NEW x \in 0 .. B - 1, NEW y \in 0 .. B - 1
  PROVE  /\ (x + y) % B \in 0 .. B - 1
         /\ x + y = ((x + y) % B) + (IF (x + y) % B < x THEN 1 ELSE 0) * B
         /\ x + y = ((x + y) % B) + (IF (x + y) % B < y THEN 1 ELSE 0) * B
<1>1. CASE x + y < B
  <2>1. (x + y) % B = x + y
    <3>1. x + y \in 0 .. B - 1
      BY <1>1
    <3> QED BY <3>1, OwnRemainder
  <2>2. ~(x + y < x) /\ ~(x + y < y)
    OBVIOUS
  <2> QED BY <1>1, <2>1, <2>2
<1>2. CASE x + y >= B
  <2>1. PICK s \in 0 .. B - 1 : s = x + y - B
    BY <1>2
  <2>2. (x + y) % B = s
    <3>1. x + y = 1 * B + s
      BY <2>1
    <3>2. (1 * B + s) % B = s
      BY Remainder
    <3> QED BY <3>1, <3>2
  <2>3. s < x /\ s < y
    BY <2>1
  <2> QED BY <2>1, <2>2, <2>3
<1> QED BY <1>1, <1>2

(* The product of two numbers of two digits from the products of their     *)
(* digits, h being the base of the digits.                                 *)
HalfProducts(h, a, b) ==
    LET B == h * h
        mid1 == (a \div h) * (b % h)
        mid == (mid1 + (a % h) * (b \div h)) % B
        low == (mid * h) % B
        lo == ((a % h) * (b % h) + low) % B
    IN  [hi |-> ((a \div h) * (b \div h) + (IF mid < mid1 THEN 1 ELSE 0) * h + mid \div h)
                  + (IF lo < low THEN 1 ELSE 0),
         lo |-> lo]

(* The carries of the two cross products are added where they belong. *)
LEMMA HalfProductsExact ==
  ASSUME NEW h \in Nat, h > 1, NEW a \in 0 .. (h * h) - 1, NEW b \in 0 .. (h * h) - 1
  PROVE  /\ HalfProducts(h, a, b).hi \in 0 .. (h * h) - 1
         /\ HalfProducts(h, a, b).lo \in 0 .. (h * h) - 1
         /\ a * b = HalfProducts(h, a, b).lo + HalfProducts(h, a, b).hi * (h * h)
<1>1. PICK B \in Nat : B = h * h /\ B > 0
  <2>1. h * h \in Nat /\ h * h > 0
    OBVIOUS
  <2> QED BY <2>1
<1>2. PICK aH \in 0 .. h - 1, aL \in 0 .. h - 1 : a \div h = aH /\ a % h = aL /\ a = aH * h + aL
  BY Cut
<1>3. PICK bH \in 0 .. h - 1, bL \in 0 .. h - 1 : b \div h = bH /\ b % h = bL /\ b = bH * h + bL
  BY Cut
<1>4. ASSUME NEW x \in 0 .. h - 1, NEW y \in 0 .. h - 1 PROVE x * y \in 0 .. B - 1
  <2>1. x * y >= 0 /\ x * y <= (h - 1) * (h - 1)
    <3>1. (h - 1 - x) * y \in Nat /\ (h - 1) * (h - 1 - y) \in Nat
      OBVIOUS
    <3>2. (h - 1) * (h - 1) = x * y + (h - 1 - x) * y + (h - 1) * (h - 1 - y)
      OBVIOUS
    <3>3. x * y \in Nat
      OBVIOUS
    <3> QED BY <3>1, <3>2, <3>3
  <2>2. (h - 1) * (h - 1) = h * h - h - h + 1
    OBVIOUS
  <2> QED BY <1>1, <2>1, <2>2
<1>5. PICK p \in 0 .. B - 1, r \in 0 .. B - 1, s \in 0 .. B - 1, t \in 0 .. B - 1 :
        p = aH * bL /\ r = aL * bH /\ s = aL * bL /\ t = aH * bH
  BY <1>4
<1>6. PICK mid \in 0 .. B - 1, c \in 0 .. 1 :
        mid = (p + r) % B /\ c = (IF mid < p THEN 1 ELSE 0) /\ p + r = mid + c * B
  <2>1. /\ (p + r) % B \in 0 .. B - 1
        /\ p + r = ((p + r) % B) + (IF (p + r) % B < p THEN 1 ELSE 0) * B
    BY <1>1, WrappedSum
  <2>2. (IF (p + r) % B < p THEN 1 ELSE 0) \in 0 .. 1
    OBVIOUS
  <2> QED BY <2>1, <2>2
<1>7. PICK mH \in 0 .. h - 1, mL \in 0 .. h - 1 : mid \div h = mH /\ mid % h = mL /\ mid = mH * h + mL
  BY <1>1, Cut
<1>8. PICK low \in 0 .. B - 1 : low = (mid * h) % B /\ low = mL * h
  <2>1. mid * h = mH * B + mL * h
    <3>1. (mH * h + mL) * h = mH * (h * h) + mL * h
      OBVIOUS
    <3> QED BY <1>1, <1>7, <3>1
  <2>2. mL * h \in 0 .. B - 1
    <3>1. 0 + mL * h \in 0 .. (h * h) - 1
      <4>1. 0 \in 0 .. h - 1
        OBVIOUS
      <4> QED BY <4>1, DigitRange
    <3> QED BY <1>1, <3>1
  <2>3. PICK e \in 0 .. B - 1 : e = mL * h
    BY <2>2
  <2>4. (mH * B + e) % B = e
    BY <1>1, Remainder
  <2> QED BY <2>1, <2>3, <2>4
<1>9. PICK lo \in 0 .. B - 1, d \in 0 .. 1 :
        lo = (s + low) % B /\ d = (IF lo < low THEN 1 ELSE 0) /\ s + low = lo + d * B
  <2>1. /\ (s + low) % B \in 0 .. B - 1
        /\ s + low = ((s + low) % B) + (IF (s + low) % B < low THEN 1 ELSE 0) * B
    BY <1>1, WrappedSum
  <2>2. (IF (s + low) % B < low THEN 1 ELSE 0) \in 0 .. 1
    OBVIOUS
  <2> QED BY <2>1, <2>2
<1>10. PICK hi \in Int : hi = (t + c * h + mH) + d
  OBVIOUS
<1>11. HalfProducts(h, a, b).hi = hi /\ HalfProducts(h, a, b).lo = lo
  <2>1. HalfProducts(h, a, b)
          = [hi |-> (t + c * h + mH) + d, lo |-> lo]
    BY <1>1, <1>2, <1>3, <1>5, <1>6, <1>7, <1>8, <1>9 DEF HalfProducts
  <2> QED BY <1>10, <2>1
<1>12. a * b = lo + hi * B
  <2>1. a * b = t * (h * h) + (p + r) * h + s
    <3>1. (aH * h + aL) * (bH * h + bL) = (aH * bH) * (h * h) + (aH * bL + aL * bH) * h + aL * bL
      OBVIOUS
    <3> QED BY <1>2, <1>3, <1>5, <3>1
  <2>2. (p + r) * h = mH * (h * h) + low + (c * h) * B
    <3>1. (mid + c * B) * h = mid * h + (c * h) * B
      OBVIOUS
    <3>2. (mH * h + mL) * h = mH * (h * h) + mL * h
      OBVIOUS
    <3> QED BY <1>6, <1>7, <1>8, <3>1, <3>2
  <2>3. a * b = t * B + (mH * B + low + (c * h) * B) + s
    BY <1>1, <2>1, <2>2
  <2>4. t * B + (mH * B + low + (c * h) * B) + s = (t + c * h + mH) * B + (s + low)
    OBVIOUS
  <2>5. (t + c * h + mH) * B + (lo + d * B) = lo + ((t + c * h + mH) + d) * B
    OBVIOUS
  <2> QED BY <1>9, <1>10, <2>3, <2>4, <2>5
<1>13. hi \in 0 .. B - 1
  <2>1. a * b <= (B - 1) * (B - 1) /\ a * b >= 0
    <3>1. (B - 1 - a) * b \in Nat /\ (B - 1) * (B - 1 - b) \in Nat
      BY <1>1
    <3>2. (B - 1) * (B - 1) = a * b + (B - 1 - a) * b + (B - 1) * (B - 1 - b)
      OBVIOUS
    <3>3. a * b \in Nat
      OBVIOUS
    <3> QED BY <3>1, <3>2, <3>3
  <2>2. hi >= 0
    BY <1>10
  <2>3. hi <= B - 1
    <3> SUFFICES ASSUME hi >= B PROVE FALSE
      BY <1>1
    <3>1. (hi - B) * B \in Nat /\ hi * B = B * B + (hi - B) * B
      OBVIOUS
    <3>2. (B - 1) * (B - 1) = B * B - B - B + 1
      OBVIOUS
    <3> QED BY <1>1, <1>12, <2>1, <3>1, <3>2
  <2> QED BY <2>2, <2>3
<1> QED BY <1>1, <1>9, <1>11, <1>12, <1>13

(* mul64To128: the product of two words, all of it. *)
LEMMA Mul64To128Parts ==
  ASSUME NEW a \in OneWord, NEW b \in OneWord
  PROVE  LET z == softfloat_mul64To128(a, b)
         IN  /\ z[1] \in OneWord /\ z[2] \in OneWord /\ a * b = z[2] + z[1] * Base
             /\ z[1] <= Base - 2
<1> DEFINE z == softfloat_mul64To128(a, b)
           p == HalfProducts(Half, a, b)
<1>1. Half \in Nat /\ Half > 1 /\ Base = Half * Half /\ Base \in Nat
  BY WordFacts
<1>2. a \in 0 .. (Half * Half) - 1 /\ b \in 0 .. (Half * Half) - 1
  BY <1>1 DEF OneWord
<1>3. p.hi \in OneWord /\ p.lo \in OneWord /\ a * b = p.lo + p.hi * Base
  BY <1>1, <1>2, HalfProductsExact DEF OneWord
<1>4. z = <<Wrap(p.hi), p.lo>>
  BY <1>1 DEF softfloat_mul64To128, HalfProducts, Wrap, Shl, OneIf, Half
<1>5. Wrap(p.hi) = p.hi
  <2>1. p.hi \in Int
    BY <1>1, <1>3 DEF OneWord
  <2> HIDE DEF p
  <2> QED BY <1>3, <2>1, Wrapped
<1> HIDE DEF z, p
<1>6. z[1] = p.hi /\ z[2] = p.lo
  BY <1>4, <1>5
<1>7. p.hi <= Base - 2
  <2>1. PICK B \in Nat : B = Base /\ B > 1
    BY WordFacts
  <2>2. PICK x \in 0 .. B - 1, y \in 0 .. B - 1, l \in 0 .. B - 1, k \in 0 .. B - 1 :
          x = a /\ y = b /\ l = p.lo /\ k = p.hi
    BY <1>3, <2>1 DEF OneWord
  <2>3. x * y = l + k * B
    BY <1>3, <2>1, <2>2
  <2>4. x * y <= (B - 1) * (B - 1)
    <3>1. (B - 1 - x) * y \in Nat /\ (B - 1) * (B - 1 - y) \in Nat /\ x * y \in Nat
      BY <2>1
    <3>2. (B - 1) * (B - 1) = x * y + (B - 1 - x) * y + (B - 1) * (B - 1 - y)
      OBVIOUS
    <3> QED BY <3>1, <3>2
  <2>5. (B - 1) * (B - 1) = (B - 1) * B - B + 1
    OBVIOUS
  <2>6. k # B - 1
    <3> SUFFICES ASSUME k = B - 1 PROVE FALSE
      OBVIOUS
    <3>1. (B - 1) * B \in Nat
      BY <2>1
    <3> QED BY <2>1, <2>3, <2>4, <2>5, <3>1
  <2> QED BY <2>1, <2>2, <2>6
<1> QED BY <1>3, <1>6, <1>7 DEF z

(* mul64To128 as a number of two words. *)
LEMMA Mul64To128Exact ==
  ASSUME NEW a \in OneWord, NEW b \in OneWord
  PROVE  Number(softfloat_mul64To128(a, b)) = a * b
<1>1. LET z == softfloat_mul64To128(a, b)
      IN  z[1] \in OneWord /\ z[2] \in OneWord /\ a * b = z[2] + z[1] * Base
  BY Mul64To128Parts
<1> QED BY <1>1, NumberFacts

(* mul64ByShifted32To128: nothing wraps. *)
LEMMA Mul64ByShifted32To128Exact ==
  ASSUME NEW a \in OneWord, NEW b \in OneWord, b < Half
  PROVE  Number(softfloat_mul64ByShifted32To128(a, b)) = a * b * Half
<1> DEFINE z == softfloat_mul64ByShifted32To128(a, b)
<1>1. PICK h \in Nat, B \in Nat : h = Half /\ h > 1 /\ B = Base /\ B = h * h /\ B > 1
  BY WordFacts
<1>0. B > 0
  BY <1>1
<1>2. PICK x \in 0 .. (h * h) - 1, y \in 0 .. h - 1 : x = a /\ y = b
  BY <1>1 DEF OneWord
<1>3. PICK aH \in 0 .. h - 1, aL \in 0 .. h - 1 : x \div h = aH /\ x % h = aL /\ x = aH * h + aL
  BY <1>1, Cut
<1>4. PICK mid \in 0 .. (h * h) - 1, top \in 0 .. (h * h) - h : mid = aL * y /\ top = aH * y
  <2>1. ASSUME NEW k \in 0 .. h - 1 PROVE k * y \in 0 .. (h * h) - h
    <3>1. (h - 1 - k) * y \in Nat /\ (h - 1) * (h - 1 - y) \in Nat /\ k * y \in Nat
      BY <1>1
    <3>2. (h - 1) * (h - 1) = k * y + (h - 1 - k) * y + (h - 1) * (h - 1 - y)
      OBVIOUS
    <3>3. (h - 1) * (h - 1) = h * h - h - h + 1
      OBVIOUS
    <3> QED BY <1>1, <3>1, <3>2, <3>3
  <2>2. aL * y \in 0 .. (h * h) - h /\ aH * y \in 0 .. (h * h) - h
    BY <2>1
  <2>3. aL * y \in 0 .. (h * h) - 1
    BY <1>1, <2>2
  <2> QED BY <2>2, <2>3
<1>5. PICK mH \in 0 .. h - 1, mL \in 0 .. h - 1 : mid \div h = mH /\ mid % h = mL /\ mid = mH * h + mL
  BY <1>1, Cut
<1>6. PICK low \in 0 .. B - 1 : low = (mid * h) % B /\ low = mL * h
  <2>1. mid * h = mH * B + mL * h
    <3>1. (mH * h + mL) * h = mH * (h * h) + mL * h
      OBVIOUS
    <3> QED BY <1>1, <1>5, <3>1
  <2>2. mL * h \in 0 .. B - 1
    <3>1. 0 + mL * h \in 0 .. (h * h) - 1
      <4>1. 0 \in 0 .. h - 1
        BY <1>1
      <4> QED BY <1>1, <4>1, DigitRange
    <3> QED BY <1>1, <3>1
  <2>3. PICK e \in 0 .. B - 1 : e = mL * h
    BY <2>2
  <2>4. (mH * B + e) % B = e
    BY <1>0, Remainder
  <2> QED BY <2>1, <2>3, <2>4
<1>7. (top + mH) % B = top + mH
  <2>1. PICK s \in 0 .. B - 1 : s = top + mH
    BY <1>1
  <2>2. s % B = s
    BY <1>1, OwnRemainder
  <2> QED BY <2>1, <2>2
<1>8. z = <<top + mH, low>>
  BY <1>1, <1>2, <1>3, <1>4, <1>5, <1>6, <1>7 DEF softfloat_mul64ByShifted32To128, Wrap, Shl, Half
<1> HIDE DEF z
<1>9. Number(z) = (top + mH) * B + low
  BY <1>1, <1>8 DEF Number
<1>10. x * y * h = (top + mH) * B + low
  <2>1. (aH * h + aL) * y * h = (aH * y) * (h * h) + (aL * y) * h
    OBVIOUS
  <2>2. (mH * h + mL) * h = mH * (h * h) + mL * h
    OBVIOUS
  <2>3. x * y * h = top * B + (mH * B + low)
    BY <1>1, <1>3, <1>4, <1>5, <1>6, <2>1, <2>2
  <2>4. top * B + (mH * B + low) = (top + mH) * B + low
    OBVIOUS
  <2> QED BY <2>3, <2>4
<1> QED BY <1>1, <1>2, <1>9, <1>10 DEF z

(* mul128By32: the carry is recovered from what the middle product leaves. *)
LEMMA Mul128By32Exact ==
  ASSUME NEW a \in WordPair, NEW b \in OneWord, b < Half
  PROVE  Number(softfloat_mul128By32(a, b)) = (Number(a) * b) % (Base * Base)
<1> DEFINE z == softfloat_mul128By32(a, b)
<1>1. PICK h \in Nat, B \in Nat : h = Half /\ h > 1 /\ B = Base /\ B = h * h /\ B > 1
  BY WordFacts
<1>0. B > 0
  BY <1>1
<1>2. PICK a1 \in 0 .. B - 1, a2 \in 0 .. (h * h) - 1, y \in 0 .. h - 1 : a1 = a[1] /\ a2 = a[2] /\ y = b
  BY <1>1 DEF OneWord, WordPair
<1>3. PICK aH \in 0 .. h - 1, aL \in 0 .. h - 1 : a2 \div h = aH /\ a2 % h = aL /\ a2 = aH * h + aL
  BY <1>1, Cut
<1>4. PICK mid \in Nat, p \in 0 .. (h * h) - 1 : mid = aH * y /\ p = aL * y
  <2>1. (h - 1 - aL) * y \in Nat /\ (h - 1) * (h - 1 - y) \in Nat /\ aL * y \in Nat /\ aH * y \in Nat
    BY <1>1
  <2>2. (h - 1) * (h - 1) = aL * y + (h - 1 - aL) * y + (h - 1) * (h - 1 - y)
    OBVIOUS
  <2>3. (h - 1) * (h - 1) = h * h - h - h + 1
    OBVIOUS
  <2>4. aL * y \in 0 .. (h * h) - 1
    BY <1>1, <2>1, <2>2, <2>3
  <2> QED BY <2>1, <2>4
<1>5. PICK u \in 0 .. h - 1, l \in 0 .. h - 1 : p \div h = u /\ p % h = l /\ p = u * h + l
  BY <1>1, Cut
<1>6. PICK s \in Int, t \in 0 .. h - 1 : s = (mid + u) \div h /\ mid + u = s * h + t
  <2>1. PICK m \in Int : m = mid + u
    OBVIOUS
  <2>2. m \div h \in Int /\ m % h \in 0 .. h - 1 /\ m = (m \div h) * h + (m % h)
    BY <1>1, Divided
  <2> QED BY <2>1, <2>2
<1>7. PICK v0 \in 0 .. B - 1 : v0 = t * h + l
  <2>1. l + t * h \in 0 .. (h * h) - 1
    BY <1>1, DigitRange
  <2> QED BY <1>1, <2>1
<1>8. a2 * y = s * B + v0
  <2>1. (aH * h + aL) * y = (aH * y) * h + aL * y
    OBVIOUS
  <2>2. mid * h + (u * h + l) = (mid + u) * h + l
    OBVIOUS
  <2>3. (s * h + t) * h + l = s * (h * h) + (t * h + l)
    OBVIOUS
  <2> QED BY <1>1, <1>3, <1>4, <1>5, <1>6, <1>7, <2>1, <2>2, <2>3
<1>9. (a2 * y) % B = v0
  <2>1. (s * B + v0) % B = v0
    BY <1>0, Remainder
  <2> QED BY <1>8, <2>1
<1>10. v0 \div h = t
  <2>1. (t * h + l) \div h = t
    BY <1>1, Remainder
  <2> QED BY <1>7, <2>1
<1>11. (t - mid) % h = u
  <2>1. PICK k \in Int : k = -s
    OBVIOUS
  <2>2. t - mid = k * h + u
    <3>1. s * h + t - mid = u
      BY <1>6
    <3>2. (-s) * h = -(s * h)
      OBVIOUS
    <3> QED BY <2>1, <3>1, <3>2
  <2>3. (k * h + u) % h = u
    BY <1>1, Remainder
  <2> QED BY <2>2, <2>3
<1>12. PICK k \in Int, e \in 0 .. B - 1 : e = (a1 * y + s) % B /\ a1 * y + s = k * B + e
  <2>1. PICK m \in Int : m = a1 * y + s
    OBVIOUS
  <2>2. m \div B \in Int /\ m % B \in 0 .. B - 1 /\ m = (m \div B) * B + (m % B)
    BY <1>0, Divided
  <2> QED BY <2>1, <2>2
<1>13. z = <<e, v0>>
  <2>1. a[2] * b = a2 * y /\ a[1] * b = a1 * y /\ a[2] \div Half = aH
    BY <1>1, <1>2, <1>3
  <2>2. z = LET v1 == Wrap(a2 * y)
                c == ((v1 \div Half) - aH * b) % Half
            IN  <<Wrap(a1 * y + (aH * b + c) \div Half), v1>>
    BY <2>1 DEF softfloat_mul128By32
  <2>3. Wrap(a2 * y) = v0 /\ aH * b = mid
    BY <1>1, <1>2, <1>4, <1>9 DEF Wrap
  <2>4. ((v0 \div Half) - mid) % Half = u
    BY <1>1, <1>10, <1>11
  <2>5. (mid + u) \div Half = s /\ Wrap(a1 * y + s) = e
    BY <1>1, <1>6, <1>12 DEF Wrap
  <2> HIDE DEF z
  <2> QED BY <2>2, <2>3, <2>4, <2>5
<1> HIDE DEF z
<1>14. z[1] = e /\ z[2] = v0 /\ e \in OneWord /\ v0 \in OneWord
  BY <1>1, <1>13 DEF OneWord
<1>15. Number(z) = e * B + v0 /\ Number(a) = a1 * B + a2
  BY <1>1, <1>2, <1>14 DEF Number
<1>16. (a1 * B + a2) * y = (e * B + v0) + k * (B * B)
  <2>1. (a1 * B + a2) * y = (a1 * y) * B + a2 * y
    OBVIOUS
  <2>2. (a1 * y) * B + (s * B + v0) = (a1 * y + s) * B + v0
    OBVIOUS
  <2>3. (k * B + e) * B + v0 = (e * B + v0) + k * (B * B)
    OBVIOUS
  <2> QED BY <1>8, <1>12, <2>1, <2>2, <2>3
<1>17. Number(a) * b \in Int /\ Number(a) * b = Number(z) + k * (Base * Base)
  BY <1>1, <1>2, <1>15, <1>16
<1> QED BY <1>14, <1>17, PairIs DEF z

-----------------------------------------------------------------------------
(* Integers of two words. *)

(* mul64To128M: a number of two words is uint64_t here. *)
LEMMA Mul64To128MExact ==
  ASSUME NEW a \in 0 .. (Base * Base) - 1, NEW b \in 0 .. (Base * Base) - 1
  PROVE  ArrayValue(4, softfloat_mul64To128M(a, b)) = a * b
<1> DEFINE z == softfloat_mul64To128M(a, b)
           p == HalfProducts(Base, a, b)
<1>1. PICK B \in Nat, M \in Nat : B = Base /\ B > 1 /\ M = B * B /\ M > 0
  BY WordFacts, ModulusFacts
<1>2. p.hi \in 0 .. (B * B) - 1 /\ p.lo \in 0 .. (B * B) - 1 /\ a * b = p.lo + p.hi * (B * B)
  BY <1>1, HalfProductsExact
<1>3. PICK hi \in 0 .. M - 1, lo \in 0 .. M - 1 : hi = p.hi /\ lo = p.lo /\ a * b = lo + hi * M
  BY <1>1, <1>2
<1>4. ASSUME NEW x \in Int, NEW y \in Int PROVE (x + (y % M)) % M = (x + y) % M
  <2>1. PICK q \in Int, r \in 0 .. M - 1 : r = y % M /\ y = q * M + r
    <3>1. y \div M \in Int /\ y % M \in 0 .. M - 1 /\ y = (y \div M) * M + (y % M)
      <4>1. M > 0
        BY <1>1
      <4> QED BY <4>1, Divided
    <3> QED BY <3>1
  <2>2. PICK m \in Int : m = x + r
    OBVIOUS
  <2>3. PICK k \in Int, s \in 0 .. M - 1 : s = m % M /\ m = k * M + s
    <3>1. m \div M \in Int /\ m % M \in 0 .. M - 1 /\ m = (m \div M) * M + (m % M)
      <4>1. M > 0
        BY <1>1
      <4> QED BY <4>1, Divided
    <3> QED BY <3>1
  <2>4. x + y = (q + k) * M + s
    <3>1. x + (q * M + r) = q * M + (x + r)
      OBVIOUS
    <3>2. q * M + (k * M + s) = (q + k) * M + s
      OBVIOUS
    <3> QED BY <2>1, <2>2, <2>3, <3>1, <3>2
  <2>5. PICK j \in Int : j = q + k
    OBVIOUS
  <2>6. (j * M + s) % M = s
    <3>1. M > 0
      BY <1>1
    <3> QED BY <3>1, Remainder
  <2> QED BY <2>1, <2>2, <2>3, <2>4, <2>5, <2>6
<1>5. PICK aH \in Int, aL \in Int, bH \in Int, bL \in Int :
        aH = a \div Base /\ aL = Wrap(a) /\ bH = b \div Base /\ bL = Wrap(b)
  <2>1. a \in Int /\ b \in Int /\ Base > 0
    BY <1>1
  <2>2. a \div Base \in Int /\ b \div Base \in Int /\ Wrap(a) \in Int /\ Wrap(b) \in Int
    BY <1>1, <2>1 DEF Wrap
  <2> QED BY <2>2
<1>6. PICK mid1 \in Int, mid \in Int :
        mid1 = aH * bL /\ mid = (mid1 + aL * bH) % M
  <2>1. aH * bL \in Int /\ (aH * bL + aL * bH) % M \in Int
    BY <1>1
  <2> QED BY <2>1
<1>7. PICK low \in Int : low = (mid * B) % M
  BY <1>1
<1>8. (aL * bL + mid * B) % M = (aL * bL + low) % M
  <2>1. PICK x \in Int, y \in Int : x = aL * bL /\ y = mid * B
    OBVIOUS
  <2>2. (x + (y % M)) % M = (x + y) % M
    BY <1>4
  <2> QED BY <1>7, <2>1, <2>2
<1>9. p = [hi |-> (aH * bH + (IF mid < mid1 THEN 1 ELSE 0) * B + mid \div B)
                     + (IF (aL * bL + low) % M < low THEN 1 ELSE 0),
           lo |-> (aL * bL + low) % M]
  BY <1>1, <1>5, <1>6, <1>7 DEF HalfProducts, Wrap
<1>10. z = LET z0 == (aL * bL + mid * B) % M
               z64 == aH * bH + (IF mid < mid1 THEN 1 ELSE 0) * B + mid \div B
                        + (IF z0 < low THEN 1 ELSE 0)
           IN  <<z0 % B, z0 \div B, z64 % B, (z64 % M) \div B>>
  <2>1. /\ a \div Base = aH /\ b \div Base = bH /\ Wrap(a) = aL /\ Wrap(b) = bL
    BY <1>5
  <2>2. z = LET z0 == (aL * bL + mid * Base) % (Base * Base)
               z64 == aH * bH + (IF mid < mid1 THEN 1 ELSE 0) * Base + mid \div Base
                        + (IF z0 < (mid * Base) % (Base * Base) THEN 1 ELSE 0)
           IN  <<Wrap(z0), z0 \div Base, Wrap(z64), (z64 % (Base * Base)) \div Base>>
    BY <1>1, <1>6, <2>1 DEF softfloat_mul64To128M, OneIf
  <2> HIDE DEF z
  <2> QED BY <1>1, <1>7, <2>2 DEF Wrap
<1> HIDE DEF z, p
<1>11. z = <<lo % B, lo \div B, hi % B, (hi % M) \div B>>
  <2>1. (aL * bL + mid * B) % M = lo
    BY <1>3, <1>8, <1>9
  <2>2. (aH * bH + (IF mid < mid1 THEN 1 ELSE 0) * B + mid \div B)
                     + (IF lo < low THEN 1 ELSE 0) = hi
    BY <1>3, <1>9
  <2> QED BY <1>10, <2>1, <2>2
<1>12. hi % M = hi
  <2>1. M > 0
    BY <1>1
  <2> QED BY <2>1, OwnRemainder
<1>13. PICK l0 \in Int, l1 \in Int, h0 \in Int, h1 \in Int :
         /\ l0 = lo % B /\ l1 = lo \div B /\ h0 = hi % B /\ h1 = hi \div B
         /\ lo = l1 * B + l0 /\ hi = h1 * B + h0
  <2>1. B > 0
    BY <1>1
  <2>2. lo \div B \in Int /\ lo % B \in Int /\ lo = (lo \div B) * B + (lo % B)
    BY <2>1, Divided
  <2>3. hi \div B \in Int /\ hi % B \in Int /\ hi = (hi \div B) * B + (hi % B)
    BY <2>1, Divided
  <2> QED BY <2>2, <2>3
<1>14. z[1] = l0 /\ z[2] = l1 /\ z[3] = h0 /\ z[4] = h1
  BY <1>11, <1>12, <1>13
<1>15. ArrayValue(4, z) = l0 + (l1 + (h0 + h1 * B) * B) * B
  BY <1>1, <1>14, ValueDigits
<1>16. (l1 * B + l0) + (h1 * B + h0) * (B * B) = l0 + (l1 + (h0 + h1 * B) * B) * B
  OBVIOUS
<1>17. a * b = (l1 * B + l0) + (h1 * B + h0) * (B * B)
  BY <1>1, <1>3, <1>13
<1> QED BY <1>15, <1>16, <1>17 DEF z

(* shortShiftLeft64To96M: two words into three. *)
LEMMA ShortShiftLeft64To96MExact ==
  ASSUME NEW a \in 0 .. (Base * Base) - 1, NEW d \in 1 .. WordBits - 1
  PROVE  ArrayValue(3, softfloat_shortShiftLeft64To96M(a, d)) = a * 2^d
<1> DEFINE z == softfloat_shortShiftLeft64To96M(a, d)
<1>1. PICK B \in Nat, D \in Nat, E \in Nat :
        B = Base /\ B > 1 /\ D = 2^d /\ D > 1 /\ E = 2^(WordBits - d) /\ E > 1 /\ D * E = B
  BY WordFacts, ShiftFacts
<1>0. B > 0 /\ E > 0 /\ D > 0
  BY <1>1
<1>2. PICK x \in Int : x = a
  BY WordFacts
<1>3. PICK hi \in Int, l \in 0 .. E - 1 : hi = x \div E /\ x = hi * E + l
  <2>1. x \div E \in Int /\ x % E \in 0 .. E - 1 /\ x = (x \div E) * E + (x % E)
    BY <1>0, Divided
  <2> QED BY <2>1
<1>4. PICK q \in Int, r \in 0 .. B - 1 : r = x % B /\ x = q * B + r
  <2>1. x \div B \in Int /\ x % B \in 0 .. B - 1 /\ x = (x \div B) * B + (x % B)
    BY <1>0, Divided
  <2> QED BY <2>1
<1>5. PICK e \in 0 .. B - 1 : e = l * D
  <2>1. 0 + l * D \in 0 .. (E * D) - 1
    <3>1. 0 \in 0 .. D - 1
      BY <1>0
    <3> QED BY <1>0, <3>1, DigitRange
  <2>2. E * D = D * E
    OBVIOUS
  <2> QED BY <1>1, <2>1, <2>2
<1>6. x * D = hi * B + e
  <2>1. (hi * E + l) * D = hi * (D * E) + l * D
    OBVIOUS
  <2> QED BY <1>1, <1>3, <1>5, <2>1
<1>7. (r * D) % B = e
  <2>1. PICK k \in Int : k = hi - q * D
    OBVIOUS
  <2>2. r * D = k * B + e
    <3>1. (q * B + r) * D = (q * D) * B + r * D
      OBVIOUS
    <3>2. (hi - q * D) * B = hi * B - (q * D) * B
      OBVIOUS
    <3> QED BY <1>4, <1>6, <2>1, <3>1, <3>2
  <2>3. (k * B + e) % B = e
    BY <1>0, Remainder
  <2> QED BY <2>2, <2>3
<1>8. PICK h0 \in Int, h1 \in Int : h0 = hi % B /\ h1 = hi \div B /\ hi = h1 * B + h0
  <2>1. hi \div B \in Int /\ hi % B \in 0 .. B - 1 /\ hi = (hi \div B) * B + (hi % B)
    BY <1>0, Divided
  <2> QED BY <2>1
<1>9. z = <<e, h0, h1>>
  BY <1>1, <1>2, <1>3, <1>4, <1>7, <1>8 DEF softfloat_shortShiftLeft64To96M, Shl, Wrap
<1> HIDE DEF z
<1>10. z[1] = e /\ z[2] = h0 /\ z[3] = h1
  BY <1>9
<1>11. ArrayValue(3, z) = e + (h0 + h1 * B) * B
  BY <1>1, <1>10, ValueDigits
<1>12. (h1 * B + h0) * B + e = e + (h0 + h1 * B) * B
  OBVIOUS
<1>13. x * D = (h1 * B + h0) * B + e
  BY <1>6, <1>8
<1> QED BY <1>1, <1>2, <1>11, <1>12, <1>13 DEF z

-----------------------------------------------------------------------------
(* Products of two words by two. *)

(* One word of a sum and its carry. *)
LEMMA SumOut ==
  ASSUME NEW B \in Nat, B = Base, NEW x \in 0 .. B - 1, NEW y \in 0 .. B - 1
  PROVE  \E s \in 0 .. B - 1, k \in 0 .. 1 :
           s = Wrap(x + y) /\ k = OneIf(s < x) /\ k = OneIf(s < y) /\ x + y = s + k * B
<1>1. x \in OneWord /\ y \in OneWord
  BY DEF OneWord
<1>2. /\ Wrap(x + y) \in OneWord
      /\ OneIf(Wrap(x + y) < x) \in 0 .. 1
      /\ x + y = Wrap(x + y) + OneIf(Wrap(x + y) < x) * B
      /\ OneIf(Wrap(x + y) < y) = OneIf(Wrap(x + y) < x)
  BY <1>1, CarriedOut
<1> QED BY <1>2 DEF OneWord

(* mul128To256M: four partial products, their carries added in turn. *)
LEMMA Mul128To256MExact ==
  ASSUME NEW a \in WordPair, NEW b \in WordPair
  PROVE  ArrayValue(4, softfloat_mul128To256M(a, b)) = Number(a) * Number(b)
<1> DEFINE z == softfloat_mul128To256M(a, b)
<1>1. PICK B \in Nat : B = Base /\ B > 1
  BY WordFacts
<1>2. a[1] \in OneWord /\ a[2] \in OneWord /\ b[1] \in OneWord /\ b[2] \in OneWord
  BY DEF WordPair
<1>3. PICK a1 \in 0 .. B - 1, a2 \in 0 .. B - 1, b1 \in 0 .. B - 1, b2 \in 0 .. B - 1 :
        a1 = a[1] /\ a2 = a[2] /\ b1 = b[1] /\ b2 = b[2]
  BY <1>1, <1>2 DEF OneWord
<1> DEFINE P(x, y) == softfloat_mul64To128(x, y)
<1>4. ASSUME NEW x \in OneWord, NEW y \in OneWord
      PROVE  \E hi \in 0 .. B - 2, lo \in 0 .. B - 1 :
               hi = P(x, y)[1] /\ lo = P(x, y)[2] /\ x * y = lo + hi * B
  <2>1. /\ P(x, y)[1] \in OneWord /\ P(x, y)[2] \in OneWord
        /\ x * y = P(x, y)[2] + P(x, y)[1] * Base /\ P(x, y)[1] <= Base - 2
    BY Mul64To128Parts
  <2>2. P(x, y)[1] \in 0 .. B - 2 /\ P(x, y)[2] \in 0 .. B - 1
    BY <1>1, <2>1 DEF OneWord
  <2> HIDE DEF P
  <2> QED BY <1>1, <2>1, <2>2
<1> HIDE DEF P
<1>5. PICK h0 \in 0 .. B - 2, l0 \in 0 .. B - 1 :
        h0 = P(a[2], b[2])[1] /\ l0 = P(a[2], b[2])[2] /\ a2 * b2 = l0 + h0 * B
  <2>1. \E hi \in 0 .. B - 2, lo \in 0 .. B - 1 :
          hi = P(a[2], b[2])[1] /\ lo = P(a[2], b[2])[2] /\ a[2] * b[2] = lo + hi * B
    BY <1>2, <1>4
  <2> QED BY <1>3, <2>1
<1>6. PICK h1 \in 0 .. B - 2, l1 \in 0 .. B - 1 :
        h1 = P(a[1], b[2])[1] /\ l1 = P(a[1], b[2])[2] /\ a1 * b2 = l1 + h1 * B
  <2>1. \E hi \in 0 .. B - 2, lo \in 0 .. B - 1 :
          hi = P(a[1], b[2])[1] /\ lo = P(a[1], b[2])[2] /\ a[1] * b[2] = lo + hi * B
    BY <1>2, <1>4
  <2> QED BY <1>3, <2>1
<1>7. PICK h2 \in 0 .. B - 2, l2 \in 0 .. B - 1 :
        h2 = P(a[1], b[1])[1] /\ l2 = P(a[1], b[1])[2] /\ a1 * b1 = l2 + h2 * B
  <2>1. \E hi \in 0 .. B - 2, lo \in 0 .. B - 1 :
          hi = P(a[1], b[1])[1] /\ lo = P(a[1], b[1])[2] /\ a[1] * b[1] = lo + hi * B
    BY <1>2, <1>4
  <2> QED BY <1>3, <2>1
<1>8. PICK h3 \in 0 .. B - 2, l3 \in 0 .. B - 1 :
        h3 = P(a[2], b[1])[1] /\ l3 = P(a[2], b[1])[2] /\ a2 * b1 = l3 + h3 * B
  <2>1. \E hi \in 0 .. B - 2, lo \in 0 .. B - 1 :
          hi = P(a[2], b[1])[1] /\ lo = P(a[2], b[1])[2] /\ a[2] * b[1] = lo + hi * B
    BY <1>2, <1>4
  <2> QED BY <1>3, <2>1
<1>9. z = LET x64 == Wrap(l1 + h0)
              x128 == Wrap(h1 + OneIf(x64 < l1) + l2)
              x192 == h2 + OneIf(x128 < l2)
              z64 == Wrap(x64 + l3)
              q == Wrap(h3 + OneIf(z64 < l3))
              z128 == Wrap(x128 + q)
          IN  <<l0, z64, z128, Wrap(x192 + OneIf(z128 < q))>>
  BY <1>5, <1>6, <1>7, <1>8 DEF softfloat_mul128To256M, P
<1> HIDE DEF z
<1>10. h0 \in 0 .. B - 1
  OBVIOUS
<1>11. PICK x64 \in 0 .. B - 1, k1 \in 0 .. 1 :
         x64 = Wrap(l1 + h0) /\ k1 = OneIf(x64 < l1) /\ l1 + h0 = x64 + k1 * B
  BY <1>1, <1>10, SumOut
<1>12. PICK s \in 0 .. B - 1 : s = h1 + k1
  OBVIOUS
<1>13. PICK x128 \in 0 .. B - 1, k2 \in 0 .. 1 :
         x128 = Wrap(s + l2) /\ k2 = OneIf(x128 < l2) /\ s + l2 = x128 + k2 * B
  BY <1>1, SumOut
<1>14. PICK z64 \in 0 .. B - 1, k3 \in 0 .. 1 :
         z64 = Wrap(x64 + l3) /\ k3 = OneIf(z64 < l3) /\ x64 + l3 = z64 + k3 * B
  BY <1>1, SumOut
<1>15. PICK q \in 0 .. B - 1 : q = h3 + k3 /\ q = Wrap(h3 + k3)
  <2>1. PICK q \in 0 .. B - 1 : q = h3 + k3
    OBVIOUS
  <2>2. q \in OneWord
    BY <1>1 DEF OneWord
  <2>3. Wrap(q) = q
    BY <2>2, Wrapped
  <2> QED BY <2>1, <2>3
<1>16. PICK z128 \in 0 .. B - 1, k4 \in 0 .. 1 :
         z128 = Wrap(x128 + q) /\ k4 = OneIf(z128 < q) /\ x128 + q = z128 + k4 * B
  BY <1>1, SumOut
<1>17. PICK t \in Nat : t = h2 + k2 + k4
  OBVIOUS
<1>18. (a2 + a1 * B) * (b2 + b1 * B) = l0 + (z64 + (z128 + t * B) * B) * B
  <2>1. (a2 + a1 * B) * (b2 + b1 * B) = a2 * b2 + (a1 * b2 + a2 * b1) * B + (a1 * b1) * (B * B)
    OBVIOUS
  <2>2. (l0 + h0 * B) + ((l1 + h1 * B) + (l3 + h3 * B)) * B + (l2 + h2 * B) * (B * B)
          = l0 + ((l1 + h0) + l3) * B + (h1 + l2 + h3 + h2 * B) * (B * B)
    OBVIOUS
  <2>3. (x64 + k1 * B) + l3 = z64 + (k1 + k3) * B
    <3>1. (x64 + k1 * B) + l3 = (x64 + l3) + k1 * B
      OBVIOUS
    <3>2. (z64 + k3 * B) + k1 * B = z64 + (k1 + k3) * B
      OBVIOUS
    <3> QED BY <1>14, <3>1, <3>2
  <2>4. l0 + (z64 + (k1 + k3) * B) * B + (h1 + l2 + h3 + h2 * B) * (B * B)
          = l0 + z64 * B + (((h1 + k1) + l2) + (h3 + k3) + h2 * B) * (B * B)
    OBVIOUS
  <2>5. (x128 + k2 * B) + q = z128 + (k2 + k4) * B
    <3>1. (x128 + k2 * B) + q = (x128 + q) + k2 * B
      OBVIOUS
    <3>2. (z128 + k4 * B) + k2 * B = z128 + (k2 + k4) * B
      OBVIOUS
    <3> QED BY <1>16, <3>1, <3>2
  <2>6. l0 + z64 * B + ((z128 + (k2 + k4) * B) + h2 * B) * (B * B)
          = l0 + (z64 + (z128 + (h2 + k2 + k4) * B) * B) * B
    OBVIOUS
  <2>7. (a2 + a1 * B) * (b2 + b1 * B)
          = l0 + ((l1 + h0) + l3) * B + (h1 + l2 + h3 + h2 * B) * (B * B)
    BY <1>5, <1>6, <1>7, <1>8, <2>1, <2>2
  <2>8. (l1 + h0) + l3 = z64 + (k1 + k3) * B
    BY <1>11, <2>3
  <2>9. (a2 + a1 * B) * (b2 + b1 * B)
          = l0 + z64 * B + (((h1 + k1) + l2) + (h3 + k3) + h2 * B) * (B * B)
    BY <2>4, <2>7, <2>8
  <2>10. ((h1 + k1) + l2) + (h3 + k3) = z128 + (k2 + k4) * B
    BY <1>12, <1>13, <1>15, <2>5
  <2> QED BY <1>17, <2>6, <2>9, <2>10
<1>19. Number(a) = a2 + a1 * B /\ Number(b) = b2 + b1 * B
       /\ Number(a) \in 0 .. (B * B) - 1 /\ Number(b) \in 0 .. (B * B) - 1
  BY <1>1, <1>2, <1>3, NumberFacts
<1>20. t \in 0 .. B - 1
  <2> SUFFICES ASSUME t >= B PROVE FALSE
    OBVIOUS
  <2>1. PICK M \in Nat : M = B * B /\ M > 0
    BY <1>1
  <2>2. PICK x \in 0 .. M - 1, y \in 0 .. M - 1 : x = a2 + a1 * B /\ y = b2 + b1 * B
    BY <1>19, <2>1
  <2>3. x * y <= (M - 1) * (M - 1)
    <3>1. (M - 1 - x) * y \in Nat /\ (M - 1) * (M - 1 - y) \in Nat /\ x * y \in Nat
      BY <2>1
    <3>2. (M - 1) * (M - 1) = x * y + (M - 1 - x) * y + (M - 1) * (M - 1 - y)
      OBVIOUS
    <3> QED BY <3>1, <3>2
  <2>4. (M - 1) * (M - 1) = M * M - M - M + 1
    OBVIOUS
  <2>5. l0 + (z64 + (z128 + t * B) * B) * B = (t * B) * (B * B) + (l0 + z64 * B + z128 * (B * B))
    OBVIOUS
  <2>6. (t * B) * (B * B) = ((t - B) * B) * (B * B) + (B * B) * (B * B)
    OBVIOUS
  <2>7. ((t - B) * B) * (B * B) \in Nat /\ l0 + z64 * B + z128 * (B * B) \in Nat
    OBVIOUS
  <2>8. x * y >= M * M
    BY <1>18, <2>1, <2>2, <2>5, <2>6, <2>7
  <2> QED BY <2>1, <2>3, <2>4, <2>8
<1>21. Wrap(h2 + k2 + k4) = t
  <2>1. t \in OneWord
    BY <1>1, <1>20 DEF OneWord
  <2> QED BY <1>17, <2>1, Wrapped
<1>22. z = <<l0, z64, z128, t>>
  <2>1. h1 + OneIf(x64 < l1) + l2 = s + l2
    BY <1>11, <1>12
  <2> QED BY <1>9, <1>11, <1>13, <1>14, <1>15, <1>16, <1>21, <2>1
<1>23. z[1] = l0 /\ z[2] = z64 /\ z[3] = z128 /\ z[4] = t
  BY <1>22
<1>24. ArrayValue(4, z) = l0 + (z64 + (z128 + t * B) * B) * B
  BY <1>1, <1>23, ValueDigits
<1> QED BY <1>18, <1>19, <1>24 DEF z

-----------------------------------------------------------------------------
(* Products of four words by four. *)

(* What a row of the product carries into the word above it fits one word. *)
LEMMA TopWord ==
  ASSUME NEW B \in Nat, NEW M \in Nat, B > 0, M > 0, NEW s \in 0 .. M - 1, NEW t \in Int,
         NEW A \in 0 .. M - 1, NEW w \in 0 .. B - 1, NEW y \in 0 .. M - 1,
         s + t * M = A * w + y
  PROVE  t \in 0 .. B - 1
<1>1. \A m, n \in Nat : m * n \in Nat
  OBVIOUS
<1>2. A * w \in Nat /\ (M - 1 - A) * w \in Nat /\ (M - 1) * (B - 1 - w) \in Nat
  <2>1. A \in Nat /\ w \in Nat /\ M - 1 - A \in Nat /\ M - 1 \in Nat /\ B - 1 - w \in Nat
    OBVIOUS
  <2> QED BY <1>1, <2>1
<1>3. t >= 0
  <2> SUFFICES ASSUME t < 0 PROVE FALSE
    OBVIOUS
  <2>1. -1 - t \in Nat
    OBVIOUS
  <2>2. (-1 - t) * M \in Nat
    BY <1>1, <2>1
  <2>3. (-1 - t) * M = (-M) - t * M
    OBVIOUS
  <2> QED BY <1>2, <2>2, <2>3
<1>4. t < B
  <2> SUFFICES ASSUME t >= B PROVE FALSE
    OBVIOUS
  <2>1. t - B \in Nat
    OBVIOUS
  <2>2. (t - B) * M \in Nat
    BY <1>1, <2>1
  <2>3. (t - B) * M = t * M - B * M
    OBVIOUS
  <2>4. (M - 1 - A) * w + (M - 1) * (B - 1 - w) = (M - 1) * (B - 1) - A * w
    OBVIOUS
  <2>5. (M - 1) * (B - 1) + (M - 1) = B * M - B
    OBVIOUS
  <2>6. PICK p \in Int, q \in Int, r \in Int, u \in Int, x \in Int, g \in Int :
          /\ p = A * w /\ q = t * M /\ r = B * M /\ u = (M - 1 - A) * w /\ x = (M - 1) * (B - 1 - w)
          /\ g = (M - 1) * (B - 1)
    OBVIOUS
  <2>7. q - r >= 0 /\ u >= 0 /\ x >= 0 /\ u + x = g - p /\ g + (M - 1) = r - B /\ s + q = p + y
    BY <1>2, <2>2, <2>3, <2>4, <2>5, <2>6
  <2> QED BY <2>7
<1> QED BY <1>3, <1>4

(* The number in words at + 1 .. at + 4. *)
Slice(z, at) == [i \in 1 .. 4 |-> z[at + i]]

(* One row: four words and the one above them take the product; the other  *)
(* words stay.                                                             *)
LEMMA AddRowExact ==
  ASSUME NEW z, Words(8, z), NEW a, Words(4, a), NEW w \in OneWord, NEW at \in 0 .. 3
  PROVE  LET r == AddRow(z, a, w, at)
         IN  /\ Words(8, r)
             /\ ArrayValue(4, Slice(r, at)) + r[at + 5] * Modulus(4)
                  = ArrayValue(4, a) * w + ArrayValue(4, Slice(z, at))
             /\ \A i \in 1 .. 8 : i \notin at + 1 .. at + 5 => r[i] = z[i]
<1> DEFINE p == WordProducts(4, a, w)
           low == [i \in 1 .. 4 |-> Wrap(p[i])]
           y == Slice(z, at)
           sum == softfloat_addCarryM(4, low, y, 0)
           t == p[4] \div Base + sum.carry
           r == AddRow(z, a, w, at)
           M == Modulus(4)
<1>1. Base \in Nat /\ Base > 0 /\ M \in Nat /\ M > 0
  BY WordFacts, ModulusFacts
<1>2. /\ p[4] \div Base \in Int /\ Words(4, low)
      /\ ArrayValue(4, a) * w = ArrayValue(4, low) + (p[4] \div Base) * M
  BY ProductsValue
<1>3. Words(4, y)
  BY DEF Words, Slice
<1>4. r = [i \in 1 .. 8 |-> IF i \in at + 1 .. at + 4 THEN sum.z[i - at]
                            ELSE IF i = at + 5 THEN t ELSE z[i]]
  BY DEF AddRow, Slice
<1> HIDE DEF p, low, y, r, M
<1>5. /\ sum.carry \in 0 .. 1 /\ Words(4, sum.z)
      /\ ArrayValue(4, sum.z) + sum.carry * M = ArrayValue(4, low) + ArrayValue(4, y) + 0
  BY <1>2, <1>3, AddCarryMExact DEF M
<1> HIDE DEF sum
<1>6. /\ ArrayValue(4, sum.z) \in 0 .. M - 1 /\ ArrayValue(4, low) \in 0 .. M - 1
      /\ ArrayValue(4, y) \in 0 .. M - 1 /\ ArrayValue(4, a) \in 0 .. M - 1
  BY <1>2, <1>3, <1>5, ValueRange DEF Words, M
<1>7. PICK m \in Nat, s \in Int, l \in Int, n \in Int, e \in Int, c \in 0 .. 1, h \in Int, u \in Int :
        /\ m = M /\ s = ArrayValue(4, sum.z) /\ l = ArrayValue(4, low) /\ n = ArrayValue(4, y)
        /\ e = ArrayValue(4, a) /\ c = sum.carry /\ h = p[4] \div Base /\ u = w
  <2>1. /\ M \in Nat /\ ArrayValue(4, sum.z) \in Int /\ ArrayValue(4, low) \in Int
        /\ ArrayValue(4, y) \in Int /\ ArrayValue(4, a) \in Int /\ sum.carry \in 0 .. 1
        /\ p[4] \div Base \in Int /\ w \in Int
    BY <1>1, <1>2, <1>5, <1>6 DEF OneWord
  <2> QED BY <2>1
<1>8. e * u = l + h * m /\ s + c * m = l + n /\ t = h + c
  BY <1>2, <1>5, <1>7
<1>9. s + (h + c) * m = e * u + n
  BY <1>8
<1>10. PICK B \in Nat : B = Base /\ B > 0
  BY <1>1
<1>11. m > 0 /\ s \in 0 .. m - 1 /\ n \in 0 .. m - 1 /\ e \in 0 .. m - 1 /\ u \in 0 .. B - 1
  BY <1>1, <1>6, <1>7, <1>10 DEF OneWord
<1>12. h + c \in 0 .. B - 1
  <2>1. PICK k \in Int : k = h + c
    OBVIOUS
  <2>2. s + k * m = e * u + n
    BY <1>9, <2>1
  <2>3. k \in 0 .. B - 1
    BY <1>10, <1>11, <2>2, TopWord
  <2> QED BY <2>1, <2>3
<1>13. t \in OneWord
  BY <1>8, <1>10, <1>12 DEF OneWord
<1> HIDE DEF t
<1>14. Words(8, r)
  <2> SUFFICES ASSUME NEW i \in 1 .. 8 PROVE r[i] \in OneWord
    BY DEF Words
  <2>1. CASE i \in at + 1 .. at + 4
    <3>1. i - at \in 1 .. 4
      BY <2>1
    <3>2. sum.z[i - at] \in OneWord
      BY <1>5, <3>1 DEF Words
    <3> QED BY <1>4, <2>1, <3>2
  <2>2. CASE i \notin at + 1 .. at + 4
    <3>1. z[i] \in OneWord
      BY DEF Words
    <3> QED BY <1>4, <1>13, <2>2, <3>1
  <2> QED BY <2>1, <2>2
<1>15. \A i \in 1 .. 8 : i \notin at + 1 .. at + 5 => r[i] = z[i]
  BY <1>4
<1>16. r[at + 5] = t
  <2>1. at + 5 \in 1 .. 8 /\ at + 5 \notin at + 1 .. at + 4
    OBVIOUS
  <2> QED BY <1>4, <2>1
<1>17. ArrayValue(4, Slice(r, at)) = ArrayValue(4, sum.z)
  <2>1. ASSUME NEW i \in 1 .. 4 PROVE Slice(r, at)[i] = sum.z[i]
    <3>1. at + i \in 1 .. 8 /\ at + i \in at + 1 .. at + 4 /\ (at + i) - at = i
      OBVIOUS
    <3> QED BY <1>4, <3>1 DEF Slice
  <2>2. /\ Slice(r, at)[1] = sum.z[1] /\ Slice(r, at)[2] = sum.z[2]
        /\ Slice(r, at)[3] = sum.z[3] /\ Slice(r, at)[4] = sum.z[4]
    BY <2>1
  <2> QED BY <2>2 DEF ArrayValue
<1>18. ArrayValue(4, Slice(r, at)) + r[at + 5] * M = ArrayValue(4, a) * w + ArrayValue(4, y)
  BY <1>7, <1>8, <1>9, <1>16, <1>17
<1> QED BY <1>14, <1>15, <1>18 DEF r, y, M

(* The number in eight words. *)
EightWords(z) == ArrayValue(4, Slice(z, 0)) + ArrayValue(4, Slice(z, 4)) * Modulus(4)
BaseTo(at) == CASE at = 0 -> 1 [] at = 1 -> Base [] at = 2 -> Base * Base
                [] at = 3 -> Base * Base * Base

(* Four words of eight, and all eight, in their digits. *)
LEMMA SliceDigits ==
  ASSUME NEW z, Words(8, z), NEW B \in Nat, B = Base
  PROVE  /\ \A i \in 1 .. 8 : z[i] \in Int
         /\ \A at \in 0 .. 4 :
              ArrayValue(4, Slice(z, at))
                = z[at + 1] + (z[at + 2] + (z[at + 3] + z[at + 4] * B) * B) * B
         /\ EightWords(z)
              = z[1] + (z[2] + (z[3] + (z[4] + (z[5] + (z[6] + (z[7] + z[8] * B)
                  * B) * B) * B) * B) * B) * B
<1>1. \A i \in 1 .. 8 : z[i] \in Int
  BY DEF Words, OneWord
<1>2. ASSUME NEW at \in 0 .. 4
      PROVE  ArrayValue(4, Slice(z, at))
               = z[at + 1] + (z[at + 2] + (z[at + 3] + z[at + 4] * B) * B) * B
  <2>1. at + 1 \in 1 .. 8 /\ at + 2 \in 1 .. 8 /\ at + 3 \in 1 .. 8 /\ at + 4 \in 1 .. 8
    OBVIOUS
  <2>2. /\ Slice(z, at)[1] = z[at + 1] /\ Slice(z, at)[2] = z[at + 2]
        /\ Slice(z, at)[3] = z[at + 3] /\ Slice(z, at)[4] = z[at + 4]
    BY DEF Slice
  <2>3. Slice(z, at)[1] \in Int /\ Slice(z, at)[2] \in Int
    BY <1>1, <2>1, <2>2
  <2>4. ArrayValue(4, Slice(z, at))
          = Slice(z, at)[1] + (Slice(z, at)[2] + (Slice(z, at)[3] + Slice(z, at)[4] * B) * B) * B
    BY <2>3, ValueDigits
  <2> QED BY <2>2, <2>4
<1>3. PICK z1 \in Int, z2 \in Int, z3 \in Int, z4 \in Int,
           z5 \in Int, z6 \in Int, z7 \in Int, z8 \in Int :
        /\ z1 = z[1] /\ z2 = z[2] /\ z3 = z[3] /\ z4 = z[4]
        /\ z5 = z[5] /\ z6 = z[6] /\ z7 = z[7] /\ z8 = z[8]
  <2>1. /\ z[1] \in Int /\ z[2] \in Int /\ z[3] \in Int /\ z[4] \in Int
        /\ z[5] \in Int /\ z[6] \in Int /\ z[7] \in Int /\ z[8] \in Int
    BY <1>1
  <2> QED BY <2>1
<1>4. ArrayValue(4, Slice(z, 0)) = z1 + (z2 + (z3 + z4 * B) * B) * B
  <2>1. ArrayValue(4, Slice(z, 0)) = z[0 + 1] + (z[0 + 2] + (z[0 + 3] + z[0 + 4] * B) * B) * B
    BY <1>2
  <2>2. 0 + 1 = 1 /\ 0 + 2 = 2 /\ 0 + 3 = 3 /\ 0 + 4 = 4
    OBVIOUS
  <2> QED BY <1>3, <2>1, <2>2
<1>5. ArrayValue(4, Slice(z, 4)) = z5 + (z6 + (z7 + z8 * B) * B) * B
  <2>1. ArrayValue(4, Slice(z, 4)) = z[4 + 1] + (z[4 + 2] + (z[4 + 3] + z[4 + 4] * B) * B) * B
    BY <1>2
  <2>2. 4 + 1 = 5 /\ 4 + 2 = 6 /\ 4 + 3 = 7 /\ 4 + 4 = 8
    OBVIOUS
  <2> QED BY <1>3, <2>1, <2>2
<1>6. (z1 + (z2 + (z3 + z4 * B) * B) * B) + (z5 + (z6 + (z7 + z8 * B) * B) * B) * (B * B * B * B)
        = z1 + (z2 + (z3 + (z4 + (z5 + (z6 + (z7 + z8 * B) * B) * B) * B) * B) * B) * B
  OBVIOUS
<1>7. Modulus(4) = B * B * B * B
  BY ModulusFacts
<1>8. EightWords(z) = z1 + (z2 + (z3 + (z4 + (z5 + (z6 + (z7 + z8 * B) * B) * B) * B) * B) * B) * B
  BY <1>4, <1>5, <1>6, <1>7 DEF EightWords
<1>9. EightWords(z) = z[1] + (z[2] + (z[3] + (z[4] + (z[5] + (z[6] + (z[7] + z[8] * B)
                        * B) * B) * B) * B) * B) * B
  BY <1>3, <1>8
<1> QED BY <1>1, <1>2, <1>9

(* A row adds its product at its place, when the word above it was free. *)
LEMMA RowAdded ==
  ASSUME NEW z, Words(8, z), NEW a, Words(4, a), NEW w \in OneWord, NEW at \in 0 .. 3,
         z[at + 5] = 0
  PROVE  LET r == AddRow(z, a, w, at)
         IN  /\ Words(8, r)
             /\ EightWords(r) = EightWords(z) + ArrayValue(4, a) * w * BaseTo(at)
             /\ \A i \in at + 6 .. 8 : r[i] = z[i]
<1> DEFINE r == AddRow(z, a, w, at)
<1>1. PICK B \in Nat : B = Base
  BY WordFacts
<1>2. /\ Words(8, r)
      /\ ArrayValue(4, Slice(r, at)) + r[at + 5] * Modulus(4)
           = ArrayValue(4, a) * w + ArrayValue(4, Slice(z, at))
      /\ \A i \in 1 .. 8 : i \notin at + 1 .. at + 5 => r[i] = z[i]
  BY AddRowExact
<1> HIDE DEF r
<1>3. PICK x \in Int : x = ArrayValue(4, a) * w
  <2>1. \A i \in 1 .. 4 : a[i] \in Int
    BY DEF Words, OneWord
  <2>2. ArrayValue(4, a) \in Int /\ w \in Int
    BY <2>1, ValueInt DEF OneWord
  <2> QED BY <2>2
<1>4. Modulus(4) = B * B * B * B
  BY <1>1, ModulusFacts
<1>5. PICK z1 \in Int, z2 \in Int, z3 \in Int, z4 \in Int,
           z5 \in Int, z6 \in Int, z7 \in Int, z8 \in Int :
        /\ z1 = z[1] /\ z2 = z[2] /\ z3 = z[3] /\ z4 = z[4]
        /\ z5 = z[5] /\ z6 = z[6] /\ z7 = z[7] /\ z8 = z[8]
  <2>0. \A i \in 1 .. 8 : z[i] \in Int
    BY <1>1, SliceDigits
  <2>1. /\ z[1] \in Int /\ z[2] \in Int /\ z[3] \in Int /\ z[4] \in Int
        /\ z[5] \in Int /\ z[6] \in Int /\ z[7] \in Int /\ z[8] \in Int
    BY <2>0
  <2> QED BY <2>1
<1>6. PICK r1 \in Int, r2 \in Int, r3 \in Int, r4 \in Int,
           r5 \in Int, r6 \in Int, r7 \in Int, r8 \in Int :
        /\ r1 = r[1] /\ r2 = r[2] /\ r3 = r[3] /\ r4 = r[4]
        /\ r5 = r[5] /\ r6 = r[6] /\ r7 = r[7] /\ r8 = r[8]
  <2>0. \A i \in 1 .. 8 : r[i] \in Int
    BY <1>1, <1>2, SliceDigits
  <2>1. /\ r[1] \in Int /\ r[2] \in Int /\ r[3] \in Int /\ r[4] \in Int
        /\ r[5] \in Int /\ r[6] \in Int /\ r[7] \in Int /\ r[8] \in Int
    BY <2>0
  <2> QED BY <2>1
<1>7. EightWords(z) = z1 + (z2 + (z3 + (z4 + (z5 + (z6 + (z7 + z8 * B) * B) * B) * B) * B) * B) * B
  BY <1>1, <1>5, SliceDigits
<1>8. EightWords(r) = r1 + (r2 + (r3 + (r4 + (r5 + (r6 + (r7 + r8 * B) * B) * B) * B) * B) * B) * B
  BY <1>1, <1>2, <1>6, SliceDigits
<1>9. /\ ArrayValue(4, Slice(z, at))
           = z[at + 1] + (z[at + 2] + (z[at + 3] + z[at + 4] * B) * B) * B
      /\ ArrayValue(4, Slice(r, at))
           = r[at + 1] + (r[at + 2] + (r[at + 3] + r[at + 4] * B) * B) * B
  <2>1. at \in 0 .. 4
    OBVIOUS
  <2> QED BY <1>1, <1>2, <2>1, SliceDigits
<1>10. \A i \in 1 .. 8 : (i < at + 1 \/ i > at + 5) => r[i] = z[i]
  BY <1>2
<1>11. (r[at + 1] + (r[at + 2] + (r[at + 3] + r[at + 4] * B) * B) * B) + r[at + 5] * (B * B * B * B)
         = x + (z[at + 1] + (z[at + 2] + (z[at + 3] + z[at + 4] * B) * B) * B)
  BY <1>2, <1>3, <1>4, <1>9
<1>12. EightWords(r) = EightWords(z) + x * BaseTo(at)
  <2>1. CASE at = 0
    <3>1. (r1 + (r2 + (r3 + r4 * B) * B) * B) + r5 * (B * B * B * B)
            = x + (z1 + (z2 + (z3 + z4 * B) * B) * B)
      <4>1. at + 1 = 1 /\ at + 2 = 2 /\ at + 3 = 3 /\ at + 4 = 4 /\ at + 5 = 5
        BY <2>1
      <4> QED BY <1>5, <1>6, <1>11, <4>1
    <3>2. z5 = 0 /\ r6 = z6 /\ r7 = z7 /\ r8 = z8
      BY <1>5, <1>6, <1>10, <2>1
    <3>3. r1 + (r2 + (r3 + (r4 + (r5 + (z6 + (z7 + z8 * B) * B) * B) * B) * B) * B) * B
            = ((r1 + (r2 + (r3 + r4 * B) * B) * B) + r5 * (B * B * B * B))
                + (z6 + (z7 + z8 * B) * B) * (B * B * B * B * B)
      OBVIOUS
    <3>4. (z1 + (z2 + (z3 + (z4 + (0 + (z6 + (z7 + z8 * B) * B) * B) * B) * B) * B) * B) + x * 1
            = (x + (z1 + (z2 + (z3 + z4 * B) * B) * B))
                + (z6 + (z7 + z8 * B) * B) * (B * B * B * B * B)
      OBVIOUS
    <3>5. BaseTo(at) = 1
      BY <2>1 DEF BaseTo
    <3> QED BY <1>7, <1>8, <3>1, <3>2, <3>3, <3>4, <3>5
  <2>2. CASE at = 1
    <3>1. (r2 + (r3 + (r4 + r5 * B) * B) * B) + r6 * (B * B * B * B)
            = x + (z2 + (z3 + (z4 + z5 * B) * B) * B)
      <4>1. at + 1 = 2 /\ at + 2 = 3 /\ at + 3 = 4 /\ at + 4 = 5 /\ at + 5 = 6
        BY <2>2
      <4> QED BY <1>5, <1>6, <1>11, <4>1
    <3>2. z6 = 0 /\ r1 = z1 /\ r7 = z7 /\ r8 = z8
      BY <1>5, <1>6, <1>10, <2>2
    <3>3. z1 + (r2 + (r3 + (r4 + (r5 + (r6 + (z7 + z8 * B) * B) * B) * B) * B) * B) * B
            = z1 + (((r2 + (r3 + (r4 + r5 * B) * B) * B) + r6 * (B * B * B * B))
                + (z7 + z8 * B) * (B * B * B * B * B)) * B
      OBVIOUS
    <3>4. (z1 + (z2 + (z3 + (z4 + (z5 + (0 + (z7 + z8 * B) * B) * B) * B) * B) * B) * B) + x * B
            = z1 + ((x + (z2 + (z3 + (z4 + z5 * B) * B) * B))
                + (z7 + z8 * B) * (B * B * B * B * B)) * B
      OBVIOUS
    <3>5. BaseTo(at) = B
      BY <1>1, <2>2 DEF BaseTo
    <3> QED BY <1>7, <1>8, <3>1, <3>2, <3>3, <3>4, <3>5
  <2>3. CASE at = 2
    <3>1. (r3 + (r4 + (r5 + r6 * B) * B) * B) + r7 * (B * B * B * B)
            = x + (z3 + (z4 + (z5 + z6 * B) * B) * B)
      <4>1. at + 1 = 3 /\ at + 2 = 4 /\ at + 3 = 5 /\ at + 4 = 6 /\ at + 5 = 7
        BY <2>3
      <4> QED BY <1>5, <1>6, <1>11, <4>1
    <3>2. z7 = 0 /\ r1 = z1 /\ r2 = z2 /\ r8 = z8
      BY <1>5, <1>6, <1>10, <2>3
    <3>3. z1 + (z2 + (r3 + (r4 + (r5 + (r6 + (r7 + z8 * B) * B) * B) * B) * B) * B) * B
            = z1 + (z2 + (((r3 + (r4 + (r5 + r6 * B) * B) * B) + r7 * (B * B * B * B))
                + z8 * (B * B * B * B * B)) * B) * B
      OBVIOUS
    <3>4. (z1 + (z2 + (z3 + (z4 + (z5 + (z6 + (0 + z8 * B) * B) * B) * B) * B) * B) * B) + x * (B * B)
            = z1 + (z2 + ((x + (z3 + (z4 + (z5 + z6 * B) * B) * B))
                + z8 * (B * B * B * B * B)) * B) * B
      OBVIOUS
    <3>5. BaseTo(at) = B * B
      BY <1>1, <2>3 DEF BaseTo
    <3> QED BY <1>7, <1>8, <3>1, <3>2, <3>3, <3>4, <3>5
  <2>4. CASE at = 3
    <3>1. (r4 + (r5 + (r6 + r7 * B) * B) * B) + r8 * (B * B * B * B)
            = x + (z4 + (z5 + (z6 + z7 * B) * B) * B)
      <4>1. at + 1 = 4 /\ at + 2 = 5 /\ at + 3 = 6 /\ at + 4 = 7 /\ at + 5 = 8
        BY <2>4
      <4> QED BY <1>5, <1>6, <1>11, <4>1
    <3>2. z8 = 0 /\ r1 = z1 /\ r2 = z2 /\ r3 = z3
      BY <1>5, <1>6, <1>10, <2>4
    <3>3. z1 + (z2 + (z3 + (r4 + (r5 + (r6 + (r7 + r8 * B) * B) * B) * B) * B) * B) * B
            = z1 + (z2 + (z3 + ((r4 + (r5 + (r6 + r7 * B) * B) * B) + r8 * (B * B * B * B)) * B) * B) * B
      OBVIOUS
    <3>4. (z1 + (z2 + (z3 + (z4 + (z5 + (z6 + (z7 + 0 * B) * B) * B) * B) * B) * B) * B)
              + x * (B * B * B)
            = z1 + (z2 + (z3 + (x + (z4 + (z5 + (z6 + z7 * B) * B) * B)) * B) * B) * B
      OBVIOUS
    <3>5. BaseTo(at) = B * B * B
      BY <1>1, <2>4 DEF BaseTo
    <3> QED BY <1>7, <1>8, <3>1, <3>2, <3>3, <3>4, <3>5
  <2>5. at = 0 \/ at = 1 \/ at = 2 \/ at = 3
    OBVIOUS
  <2> QED BY <2>1, <2>2, <2>3, <2>4, <2>5
<1>13. \A i \in at + 6 .. 8 : r[i] = z[i]
  BY <1>10
<1> QED BY <1>2, <1>3, <1>12, <1>13 DEF r

(* The four rows, one after the other. *)
LEMMA Mul128MTo256MRows ==
  ASSUME NEW a, NEW b
  PROVE  LET z0 == [i \in 1 .. 8 |-> 0]
             z1 == AddRow(z0, a, b[1], 0)
             z2 == AddRow(z1, a, b[2], 1)
             z3 == AddRow(z2, a, b[3], 2)
         IN  softfloat_mul128MTo256M(a, b) = AddRow(z3, a, b[4], 3)
<1> DEFINE z0 == [i \in 1 .. 8 |-> 0]
           z1 == AddRow(z0, a, b[1], 0)
           z2 == AddRow(z1, a, b[2], 1)
           z3 == AddRow(z2, a, b[3], 2)
           z4 == AddRow(z3, a, b[4], 3)
           g == [j \in 0 .. 4 |-> IF j = 0 THEN z0 ELSE IF j = 1 THEN z1
                                  ELSE IF j = 2 THEN z2 ELSE IF j = 3 THEN z3 ELSE z4]
           Is(z) == z = [j \in 0 .. 4 |-> IF j = 0 THEN [i \in 1 .. 8 |-> 0]
                                          ELSE AddRow(z[j - 1], a, b[j], j - 1)]
           p == CHOOSE z : Is(z)
<1>1. Is(g)
  <2>1. ASSUME NEW j \in 0 .. 4
        PROVE  g[j] = IF j = 0 THEN [i \in 1 .. 8 |-> 0] ELSE AddRow(g[j - 1], a, b[j], j - 1)
    <3>0. z0 = [i \in 1 .. 8 |-> 0]
      OBVIOUS
    <3> HIDE DEF z0, z1, z2, z3, z4
    <3>1. j = 0 \/ j = 1 \/ j = 2 \/ j = 3 \/ j = 4
      OBVIOUS
    <3>2. 1 - 1 = 0 /\ 2 - 1 = 1 /\ 3 - 1 = 2 /\ 4 - 1 = 3
      OBVIOUS
    <3>3. g[0] = z0 /\ g[1] = z1 /\ g[2] = z2 /\ g[3] = z3 /\ g[4] = z4
      OBVIOUS
    <3> HIDE DEF g
    <3>4. CASE j = 0
      BY <3>0, <3>3, <3>4
    <3>5. CASE j = 1
      BY <3>2, <3>3, <3>5 DEF z1
    <3>6. CASE j = 2
      BY <3>2, <3>3, <3>6 DEF z2
    <3>7. CASE j = 3
      BY <3>2, <3>3, <3>7 DEF z3
    <3>8. CASE j = 4
      BY <3>2, <3>3, <3>8 DEF z4
    <3> QED BY <3>1, <3>4, <3>5, <3>6, <3>7, <3>8
  <2> HIDE DEF z0, z1, z2, z3, z4
  <2> QED BY <2>1
<1> HIDE DEF g
<1>2. Is(p)
  BY <1>1
<1>3. softfloat_mul128MTo256M(a, b) = p[4]
  BY DEF softfloat_mul128MTo256M
<1> HIDE DEF p
<1>4. /\ p[0] = z0 /\ p[1] = AddRow(p[0], a, b[1], 0) /\ p[2] = AddRow(p[1], a, b[2], 1)
      /\ p[3] = AddRow(p[2], a, b[3], 2) /\ p[4] = AddRow(p[3], a, b[4], 3)
  <2>1. 1 - 1 = 0 /\ 2 - 1 = 1 /\ 3 - 1 = 2 /\ 4 - 1 = 3
    OBVIOUS
  <2>2. \A j \in 0 .. 4 : p[j] = IF j = 0 THEN [i \in 1 .. 8 |-> 0]
                                 ELSE AddRow(p[j - 1], a, b[j], j - 1)
    BY <1>2
  <2>3. 0 \in 0 .. 4 /\ 1 \in 0 .. 4 /\ 2 \in 0 .. 4 /\ 3 \in 0 .. 4 /\ 4 \in 0 .. 4
    OBVIOUS
  <2>4. p[0] = z0
    BY <2>2, <2>3
  <2>5. p[1] = AddRow(p[0], a, b[1], 0)
    BY <2>1, <2>2, <2>3
  <2>6. p[2] = AddRow(p[1], a, b[2], 1)
    BY <2>1, <2>2, <2>3
  <2>7. p[3] = AddRow(p[2], a, b[3], 2)
    BY <2>1, <2>2, <2>3
  <2>8. p[4] = AddRow(p[3], a, b[4], 3)
    BY <2>1, <2>2, <2>3
  <2> HIDE DEF z0
  <2> QED BY <2>4, <2>5, <2>6, <2>7, <2>8
<1> HIDE DEF z0
<1>5. p[4] = AddRow(AddRow(AddRow(AddRow(z0, a, b[1], 0), a, b[2], 1), a, b[3], 2), a, b[4], 3)
  BY <1>4
<1> QED BY <1>3, <1>5 DEF z0

(* The eight words hold the product. *)
LEMMA Mul128MTo256MValue ==
  ASSUME NEW a, NEW b, Words(4, a), Words(4, b)
  PROVE  LET z == softfloat_mul128MTo256M(a, b)
         IN  Words(8, z) /\ EightWords(z) = ArrayValue(4, a) * ArrayValue(4, b)
<1> DEFINE z0 == [i \in 1 .. 8 |-> 0]
           z1 == AddRow(z0, a, b[1], 0)
           z2 == AddRow(z1, a, b[2], 1)
           z3 == AddRow(z2, a, b[3], 2)
           z4 == AddRow(z3, a, b[4], 3)
           z == softfloat_mul128MTo256M(a, b)
<1>1. PICK B \in Nat : B = Base /\ B > 0
  BY WordFacts
<1>2. b[1] \in OneWord /\ b[2] \in OneWord /\ b[3] \in OneWord /\ b[4] \in OneWord
  BY DEF Words
<1>3. z = z4
  BY Mul128MTo256MRows
<1> HIDE DEF z
<1>4. Words(8, z0) /\ \A i \in 1 .. 8 : z0[i] = 0
  BY <1>1 DEF Words, OneWord
<1> HIDE DEF z0
<1>5. EightWords(z0) = 0
  <2>1. EightWords(z0) = z0[1] + (z0[2] + (z0[3] + (z0[4] + (z0[5] + (z0[6] + (z0[7] + z0[8] * B)
                           * B) * B) * B) * B) * B) * B
    BY <1>1, <1>4, SliceDigits
  <2>2. /\ z0[1] = 0 /\ z0[2] = 0 /\ z0[3] = 0 /\ z0[4] = 0
        /\ z0[5] = 0 /\ z0[6] = 0 /\ z0[7] = 0 /\ z0[8] = 0
    BY <1>4
  <2> QED BY <2>1, <2>2
<1>6. /\ Words(8, z1) /\ EightWords(z1) = EightWords(z0) + ArrayValue(4, a) * b[1] * BaseTo(0)
      /\ \A i \in 6 .. 8 : z1[i] = 0
  <2>1. z0[0 + 5] = 0 /\ 0 \in 0 .. 3 /\ 0 + 6 = 6
    BY <1>4
  <2>2. /\ Words(8, z1) /\ EightWords(z1) = EightWords(z0) + ArrayValue(4, a) * b[1] * BaseTo(0)
        /\ \A i \in 0 + 6 .. 8 : z1[i] = z0[i]
    BY <1>2, <1>4, <2>1, RowAdded
  <2> HIDE DEF z1
  <2> QED BY <1>4, <2>1, <2>2
<1> HIDE DEF z1
<1>7. /\ Words(8, z2) /\ EightWords(z2) = EightWords(z1) + ArrayValue(4, a) * b[2] * BaseTo(1)
      /\ \A i \in 7 .. 8 : z2[i] = 0
  <2>1. z1[1 + 5] = 0 /\ 1 \in 0 .. 3 /\ 1 + 6 = 7
    BY <1>6
  <2>2. /\ Words(8, z2) /\ EightWords(z2) = EightWords(z1) + ArrayValue(4, a) * b[2] * BaseTo(1)
        /\ \A i \in 1 + 6 .. 8 : z2[i] = z1[i]
    BY <1>2, <1>6, <2>1, RowAdded
  <2> HIDE DEF z2
  <2> QED BY <1>6, <2>1, <2>2
<1> HIDE DEF z2
<1>8. /\ Words(8, z3) /\ EightWords(z3) = EightWords(z2) + ArrayValue(4, a) * b[3] * BaseTo(2)
      /\ z3[8] = 0
  <2>1. z2[2 + 5] = 0 /\ 2 \in 0 .. 3 /\ 2 + 6 = 8
    BY <1>7
  <2>2. /\ Words(8, z3) /\ EightWords(z3) = EightWords(z2) + ArrayValue(4, a) * b[3] * BaseTo(2)
        /\ \A i \in 2 + 6 .. 8 : z3[i] = z2[i]
    BY <1>2, <1>7, <2>1, RowAdded
  <2> HIDE DEF z3
  <2> QED BY <1>7, <2>1, <2>2
<1> HIDE DEF z3
<1>9. /\ Words(8, z4) /\ EightWords(z4) = EightWords(z3) + ArrayValue(4, a) * b[4] * BaseTo(3)
  <2>1. z3[3 + 5] = 0 /\ 3 \in 0 .. 3
    BY <1>8
  <2> QED BY <1>2, <1>8, <2>1, RowAdded
<1> HIDE DEF z4
<1>10. BaseTo(0) = 1 /\ BaseTo(1) = B /\ BaseTo(2) = B * B /\ BaseTo(3) = B * B * B
  BY <1>1 DEF BaseTo
<1>11. PICK A \in Int, b1 \in Int, b2 \in Int, b3 \in Int, b4 \in Int :
         A = ArrayValue(4, a) /\ b1 = b[1] /\ b2 = b[2] /\ b3 = b[3] /\ b4 = b[4]
  <2>1. \A i \in 1 .. 4 : a[i] \in Int
    BY DEF Words, OneWord
  <2>2. ArrayValue(4, a) \in Int /\ b[1] \in Int /\ b[2] \in Int /\ b[3] \in Int /\ b[4] \in Int
    BY <1>2, <2>1, ValueInt DEF OneWord
  <2> QED BY <2>2
<1>12. ArrayValue(4, b) = b1 + (b2 + (b3 + b4 * B) * B) * B
  BY <1>1, <1>11, ValueDigits
<1>13. EightWords(z4) = (((0 + A * b1 * 1) + A * b2 * B) + A * b3 * (B * B)) + A * b4 * (B * B * B)
  BY <1>5, <1>6, <1>7, <1>8, <1>9, <1>10, <1>11
<1>14. (((0 + A * b1 * 1) + A * b2 * B) + A * b3 * (B * B)) + A * b4 * (B * B * B)
         = A * (b1 + (b2 + (b3 + b4 * B) * B) * B)
  OBVIOUS
<1> QED BY <1>3, <1>9, <1>11, <1>12, <1>13, <1>14 DEF z

(* The reference divides before it multiplies; its parts make up x * y. *)
LEMMA WideProductExact ==
  ASSUME NEW x \in Nat, NEW y \in Nat, NEW M \in Nat, M = Modulus(4),
         NEW hi \in Int, NEW lo \in 0 .. M - 1, x * y = lo + hi * M
  PROVE  <<hi, lo>> = WideProduct(x, y)
<1>1. PICK D \in Nat : D = Base * Base /\ D > 0
  BY ModulusFacts
<1>0. D > 0
  BY <1>1
<1>2. M = D * D /\ M > 0
  <2>1. PICK B \in Nat : B = Base
    BY WordFacts
  <2>2. M = B * B * B * B /\ D = B * B /\ M > 0
    BY <1>1, <2>1, ModulusFacts
  <2> QED BY <2>2
<1>3. PICK x1 \in Int, x0 \in Int : x1 = x \div D /\ x0 = x % D /\ x = x1 * D + x0
  <2>1. x \div D \in Int /\ x % D \in Int /\ x = (x \div D) * D + (x % D)
    BY <1>0, Divided
  <2> QED BY <2>1
<1>4. PICK y1 \in Int, y0 \in Int : y1 = y \div D /\ y0 = y % D /\ y = y1 * D + y0
  <2>1. y \div D \in Int /\ y % D \in Int /\ y = (y \div D) * D + (y % D)
    BY <1>0, Divided
  <2> QED BY <2>1
<1>5. PICK cross \in Int : cross = x1 * y0 + x0 * y1
  OBVIOUS
<1>6. PICK c1 \in Int, c0 \in Int : c1 = cross \div D /\ c0 = cross % D /\ cross = c1 * D + c0
  <2>1. cross \div D \in Int /\ cross % D \in Int /\ cross = (cross \div D) * D + (cross % D)
    BY <1>0, Divided
  <2> QED BY <2>1
<1>7. PICK low \in Int : low = x0 * y0 + c0 * D
  OBVIOUS
<1>8. WideProduct(x, y) = <<x1 * y1 + c1 + low \div M, low % M>>
  <2>1. Base * Base = D /\ D * D = M
    BY <1>1, <1>2
  <2> QED BY <1>3, <1>4, <1>5, <1>6, <1>7, <2>1 DEF WideProduct
<1>9. PICK k \in Int : k = hi - x1 * y1 - c1
  OBVIOUS
<1>10. low = k * M + lo
  <2>1. x * y = x1 * y1 * (D * D) + cross * D + x0 * y0
    <3>1. x * y = (x1 * D + x0) * (y1 * D + y0)
      BY <1>3, <1>4
    <3>2. (x1 * D + x0) * (y1 * D + y0) = x1 * y1 * (D * D) + (x1 * y0 + x0 * y1) * D + x0 * y0
      OBVIOUS
    <3> QED BY <1>5, <3>1, <3>2
  <2>2. cross * D = c1 * (D * D) + c0 * D
    <3>1. cross = c1 * D + c0
      BY <1>6
    <3>2. (c1 * D + c0) * D = c1 * (D * D) + c0 * D
      OBVIOUS
    <3> QED BY <3>1, <3>2
  <2>3. PICK p \in Int, q \in Int, r \in Int, e \in Int, s \in Int, xy \in Int :
          p = x1 * y1 * M /\ q = c1 * M /\ r = c0 * D /\ e = x0 * y0 /\ s = hi * M /\ xy = x * y
    OBVIOUS
  <2>4. xy = p + q + r + e /\ xy = lo + s /\ low = e + r
    BY <1>2, <1>7, <2>1, <2>2, <2>3
  <2>5. PICK t \in Int : t = k * M
    OBVIOUS
  <2>6. t = s - p - q
    BY <1>9, <2>3, <2>5
  <2>7. lo \in Int
    OBVIOUS
  <2>8. low = t + lo
    BY <2>4, <2>6, <2>7
  <2> QED BY <2>5, <2>8
<1>11. (k * M + lo) % M = lo /\ (k * M + lo) \div M = k
  BY <1>2, Remainder
<1>12. low % M = lo /\ low \div M = k
  BY <1>10, <1>11
<1>13. x1 * y1 + c1 + k = hi
  BY <1>9
<1> QED BY <1>8, <1>12, <1>13

(* mul128MTo256M. *)
LEMMA Mul128MTo256MExact ==
  ASSUME NEW a, NEW b, Words(4, a), Words(4, b)
  PROVE  LET z == softfloat_mul128MTo256M(a, b)
         IN  <<ArrayValue(4, [i \in 1 .. 4 |-> z[i + 4]]), ArrayValue(4, z)>>
               = WideProduct(ArrayValue(4, a), ArrayValue(4, b))
<1> DEFINE z == softfloat_mul128MTo256M(a, b)
           high == [i \in 1 .. 4 |-> z[i + 4]]
<1>1. Words(8, z) /\ EightWords(z) = ArrayValue(4, a) * ArrayValue(4, b)
  BY Mul128MTo256MValue
<1> HIDE DEF z
<1>2. high = Slice(z, 4) /\ Words(4, high) /\ Words(4, z)
  <2>1. ASSUME NEW i \in 1 .. 4 PROVE i + 4 = 4 + i /\ i + 4 \in 1 .. 8 /\ i \in 1 .. 8
    OBVIOUS
  <2> QED BY <1>1, <2>1 DEF Slice, Words
<1>3. ArrayValue(4, z) = ArrayValue(4, Slice(z, 0))
  <2>1. /\ Slice(z, 0)[1] = z[1] /\ Slice(z, 0)[2] = z[2]
        /\ Slice(z, 0)[3] = z[3] /\ Slice(z, 0)[4] = z[4]
    BY DEF Slice
  <2> QED BY <2>1 DEF ArrayValue
<1> HIDE DEF high
<1>4. /\ ArrayValue(4, z) \in 0 .. Modulus(4) - 1 /\ ArrayValue(4, high) \in 0 .. Modulus(4) - 1
      /\ ArrayValue(4, a) \in 0 .. Modulus(4) - 1 /\ ArrayValue(4, b) \in 0 .. Modulus(4) - 1
  BY <1>2, ValueRange DEF Words
<1>5. PICK M \in Nat : M = Modulus(4)
  BY ModulusFacts
<1>6. PICK x \in Nat, y \in Nat, hi \in Int, lo \in 0 .. M - 1 :
        /\ x = ArrayValue(4, a) /\ y = ArrayValue(4, b)
        /\ hi = ArrayValue(4, high) /\ lo = ArrayValue(4, z)
  BY <1>4, <1>5
<1>7. x * y = lo + hi * M
  BY <1>1, <1>2, <1>3, <1>5, <1>6 DEF EightWords
<1>8. <<hi, lo>> = WideProduct(x, y)
  BY <1>5, <1>7, WideProductExact
<1> QED BY <1>6, <1>8 DEF high, z

-----------------------------------------------------------------------------
(* Every call on words. *)

(* What the caller holds when it calls a function on words. *)
Held == v # <<>> => v \in Stored(job)

(* A call on words records its operands and its result. *)
LEMMA WordCall ==
  ASSUME NEW op, NEW z, OnWords(op, z)
  PROVE  ret'.f = "words" /\ ret'.op = op /\ ret'.args = v /\ ret'.z = z
  BY DEF OnWords, ToRegister, Return, Ret

(* The functions on numbers of two words. *)
LEMMA TwoWordsExact ==
  ASSUME Held, TwoWords
  PROVE  ret'.f = "words" /\ PairsAgree(ret)'
<1>1. v \in WordPair \X WordPair \X {0}
  BY StoredAssumption DEF Held, TwoWords, Ready
<1>2. PICK x \in WordPair, y \in WordPair : x = v[1] /\ y = v[2]
  BY <1>1
<1>3. x[1] \in OneWord /\ y[1] \in OneWord
  BY DEF WordPair
<1>4. CASE OnWords("eq128", softfloat_eq128(v[1], v[2]))
  <2>1. ret'.f = "words" /\ ret'.op = "eq128" /\ ret'.args = v /\ ret'.z = softfloat_eq128(x, y)
    BY <1>2, <1>4, WordCall
  <2>2. softfloat_eq128(x, y) = (x = y)
    BY Compare128Exact
  <2> QED BY <1>2, <2>1, <2>2 DEF PairsAgree
<1>5. CASE OnWords("le128", softfloat_le128(v[1], v[2]))
  <2>1. ret'.f = "words" /\ ret'.op = "le128" /\ ret'.args = v /\ ret'.z = softfloat_le128(x, y)
    BY <1>2, <1>5, WordCall
  <2>2. softfloat_le128(x, y) = (Number(x) <= Number(y))
    BY Compare128Exact
  <2> QED BY <1>2, <2>1, <2>2 DEF PairsAgree
<1>6. CASE OnWords("lt128", softfloat_lt128(v[1], v[2]))
  <2>1. ret'.f = "words" /\ ret'.op = "lt128" /\ ret'.args = v /\ ret'.z = softfloat_lt128(x, y)
    BY <1>2, <1>6, WordCall
  <2>2. softfloat_lt128(x, y) = (Number(x) < Number(y))
    BY Compare128Exact
  <2> QED BY <1>2, <2>1, <2>2 DEF PairsAgree
<1>7. CASE OnWords("add128", softfloat_add128(v[1], v[2]))
  <2>1. ret'.f = "words" /\ ret'.op = "add128" /\ ret'.args = v /\ ret'.z = softfloat_add128(x, y)
    BY <1>2, <1>7, WordCall
  <2>2. Number(softfloat_add128(x, y)) = (Number(x) + Number(y)) % (Base * Base)
    BY Add128Exact
  <2> QED BY <1>2, <2>1, <2>2 DEF PairsAgree
<1>8. CASE OnWords("sub128", softfloat_sub128(v[1], v[2]))
  <2>1. ret'.f = "words" /\ ret'.op = "sub128" /\ ret'.args = v /\ ret'.z = softfloat_sub128(x, y)
    BY <1>2, <1>8, WordCall
  <2>2. Number(softfloat_sub128(x, y)) = (Number(x) - Number(y)) % (Base * Base)
    BY Sub128Exact
  <2> QED BY <1>2, <2>1, <2>2 DEF PairsAgree
<1>9. CASE OnWords("mul128To256M", softfloat_mul128To256M(v[1], v[2]))
  <2>1. ret'.f = "words" /\ ret'.op = "mul128To256M" /\ ret'.args = v /\ ret'.z = softfloat_mul128To256M(x, y)
    BY <1>2, <1>9, WordCall
  <2>2. ArrayValue(4, softfloat_mul128To256M(x, y)) = Number(x) * Number(y)
    BY Mul128To256MExact
  <2> QED BY <1>2, <2>1, <2>2 DEF PairsAgree
<1>10. CASE OnWords("mul64To128", softfloat_mul64To128(v[1][1], v[2][1]))
  <2>1. /\ ret'.f = "words" /\ ret'.op = "mul64To128" /\ ret'.args = v
        /\ ret'.z = softfloat_mul64To128(x[1], y[1])
    BY <1>2, <1>10, WordCall
  <2>2. Number(softfloat_mul64To128(x[1], y[1])) = x[1] * y[1]
    BY <1>3, Mul64To128Exact
  <2> QED BY <1>2, <2>1, <2>2 DEF PairsAgree
<1>11. CASE v[2][1] < Half /\ OnWords("mul128By32", softfloat_mul128By32(v[1], v[2][1]))
  <2>1. /\ ret'.f = "words" /\ ret'.op = "mul128By32" /\ ret'.args = v
        /\ ret'.z = softfloat_mul128By32(x, y[1])
    BY <1>2, <1>11, WordCall
  <2>2. Number(softfloat_mul128By32(x, y[1])) = (Number(x) * y[1]) % (Base * Base)
    BY <1>2, <1>3, <1>11, Mul128By32Exact
  <2> QED BY <1>2, <2>1, <2>2 DEF PairsAgree
<1>12. CASE /\ v[2][1] < Half
            /\ OnWords("mul64ByShifted32To128",
                       softfloat_mul64ByShifted32To128(v[1][1], v[2][1]))
  <2>1. /\ ret'.f = "words" /\ ret'.op = "mul64ByShifted32To128" /\ ret'.args = v
        /\ ret'.z = softfloat_mul64ByShifted32To128(x[1], y[1])
    BY <1>2, <1>12, WordCall
  <2>2. Number(softfloat_mul64ByShifted32To128(x[1], y[1])) = x[1] * y[1] * Half
    BY <1>2, <1>3, <1>12, Mul64ByShifted32To128Exact
  <2> QED BY <1>2, <2>1, <2>2 DEF PairsAgree
<1> QED BY <1>4, <1>5, <1>6, <1>7, <1>8, <1>9, <1>10, <1>11, <1>12 DEF TwoWords

(* Four stored words are a number of three or four words. *)
LEMMA QuadWords ==
  ASSUME NEW x \in WordQuad, NEW size \in 3 .. 4
  PROVE  Words(size, x)
<1>1. x[1] \in OneWord /\ x[2] \in OneWord /\ x[3] \in OneWord /\ x[4] \in OneWord
  BY DEF WordQuad
<1>2. \A i \in 1 .. size : i = 1 \/ i = 2 \/ i = 3 \/ i = 4
  OBVIOUS
<1> QED BY <1>1, <1>2 DEF Words

(* The functions on numbers of four words. *)
LEMMA FourWordsExact ==
  ASSUME Held, FourWords
  PROVE  ret'.f = "words" /\ PairsAgree(ret)'
<1>1. v \in WordQuad \X WordQuad \X {0}
  BY StoredAssumption DEF Held, FourWords, Ready
<1>2. PICK x \in WordQuad, y \in WordQuad : x = v[1] /\ y = v[2]
  BY <1>1
<1>3. Words(4, x) /\ Words(4, y)
  BY QuadWords
<1>4. CASE OnWords("add256M", softfloat_add256M(v[1], v[2]))
  <2>1. ret'.f = "words" /\ ret'.op = "add256M" /\ ret'.args = v /\ ret'.z = softfloat_add256M(x, y)
    BY <1>2, <1>4, WordCall
  <2>2. ArrayValue(4, softfloat_add256M(x, y)) = (ArrayValue(4, x) + ArrayValue(4, y)) % Modulus(4)
    BY <1>3, Add256MExact
  <2> QED BY <1>2, <2>1, <2>2 DEF PairsAgree
<1>5. CASE OnWords("sub256M", softfloat_sub256M(v[1], v[2]))
  <2>1. ret'.f = "words" /\ ret'.op = "sub256M" /\ ret'.args = v /\ ret'.z = softfloat_sub256M(x, y)
    BY <1>2, <1>5, WordCall
  <2>2. ArrayValue(4, softfloat_sub256M(x, y)) = (ArrayValue(4, x) - ArrayValue(4, y)) % Modulus(4)
    BY <1>3, Add256MExact
  <2> QED BY <1>2, <2>1, <2>2 DEF PairsAgree
<1> QED BY <1>4, <1>5 DEF FourWords

(* The sticky shift of four words. *)
LEMMA FourWordShiftExact ==
  ASSUME Held, FourWordShift
  PROVE  ret'.f = "words" /\ PairsAgree(ret)'
<1>1. v \in WordQuad \X {0} \X (1 .. LongestShift)
  BY StoredAssumption DEF Held, FourWordShift, Ready
<1>2. PICK x \in WordQuad, d \in 1 .. LongestShift : x = v[1] /\ d = v[3]
  BY <1>1
<1>3. Words(4, x)
  BY QuadWords
<1>4. /\ ret'.f = "words" /\ ret'.op = "shiftRightJam256M" /\ ret'.args = v
      /\ ret'.z = softfloat_shiftRightJam256M(x, d)
  BY <1>2, WordCall DEF FourWordShift
<1>5. ArrayValue(4, softfloat_shiftRightJam256M(x, d)) = Jammed(ArrayValue(4, x), d)
  BY <1>3, ShiftRightJamExact DEF softfloat_shiftRightJam256M
<1> QED BY <1>2, <1>4, <1>5 DEF PairsAgree

(* The shifts of two words. *)
LEMMA TwoWordShiftsExact ==
  ASSUME Held, TwoWordShifts
  PROVE  ret'.f = "words" /\ PairsAgree(ret)'
<1>1. v \in WordPair \X OneWord \X (1 .. LongestShift)
  BY StoredAssumption DEF Held, TwoWordShifts, Ready
<1>2. PICK x \in WordPair, y \in OneWord, d \in 1 .. LongestShift : x = v[1] /\ y = v[2] /\ d = v[3]
  BY <1>1
<1>3. x[1] \in OneWord
  BY DEF WordPair
<1>4. d < WordBits => d \in 1 .. WordBits - 1
  BY WordFacts
<1>5. CASE OnWords("shiftRightJam128", softfloat_shiftRightJam128(v[1], v[3]))
  <2>1. /\ ret'.f = "words" /\ ret'.op = "shiftRightJam128" /\ ret'.args = v
        /\ ret'.z = softfloat_shiftRightJam128(x, d)
    BY <1>2, <1>5, WordCall
  <2>2. Number(softfloat_shiftRightJam128(x, d)) = Jammed(Number(x), d)
    BY ShiftRightJam128Exact
  <2> QED BY <1>2, <2>1, <2>2 DEF PairsAgree
<1>6. CASE OnWords("shiftRightJam128Extra", softfloat_shiftRightJam128Extra(v[1], v[2], v[3]))
  <2> DEFINE z == softfloat_shiftRightJam128Extra(x, y, d)
  <2>1. ret'.f = "words" /\ ret'.op = "shiftRightJam128Extra" /\ ret'.args = v /\ ret'.z = z
    BY <1>2, <1>6, WordCall
  <2>2. Split(z.v, z.extra) = ShiftedOut(Number(x), y, d)
    BY ShiftRightJam128ExtraExact
  <2> HIDE DEF z
  <2> QED BY <1>2, <2>1, <2>2 DEF PairsAgree
<1>7. CASE v[3] < WordBits /\ OnWords("shortShiftLeft128", softfloat_shortShiftLeft128(v[1], v[3]))
  <2>1. /\ ret'.f = "words" /\ ret'.op = "shortShiftLeft128" /\ ret'.args = v
        /\ ret'.z = softfloat_shortShiftLeft128(x, d)
    BY <1>2, <1>7, WordCall
  <2>2. d \in 1 .. WordBits - 1
    BY <1>2, <1>4, <1>7
  <2>3. Number(softfloat_shortShiftLeft128(x, d)) = (Number(x) * 2^d) % (Base * Base)
    BY <2>2, ShortShiftLeft128Exact
  <2> QED BY <1>2, <2>1, <2>3 DEF PairsAgree
<1>8. CASE v[3] < WordBits /\ OnWords("shortShiftRight128", softfloat_shortShiftRight128(v[1], v[3]))
  <2>1. /\ ret'.f = "words" /\ ret'.op = "shortShiftRight128" /\ ret'.args = v
        /\ ret'.z = softfloat_shortShiftRight128(x, d)
    BY <1>2, <1>8, WordCall
  <2>2. d \in 1 .. WordBits - 1
    BY <1>2, <1>4, <1>8
  <2>3. Number(softfloat_shortShiftRight128(x, d)) = Number(x) \div 2^d
    BY <2>2, ShortShiftRight128Parts
  <2> QED BY <1>2, <2>1, <2>3 DEF PairsAgree
<1>9. CASE /\ v[3] < WordBits
           /\ OnWords("shortShiftRightJam128", softfloat_shortShiftRightJam128(v[1], v[3]))
  <2>1. /\ ret'.f = "words" /\ ret'.op = "shortShiftRightJam128" /\ ret'.args = v
        /\ ret'.z = softfloat_shortShiftRightJam128(x, d)
    BY <1>2, <1>9, WordCall
  <2>2. d \in 1 .. WordBits - 1
    BY <1>2, <1>4, <1>9
  <2>3. Number(softfloat_shortShiftRightJam128(x, d)) = Jammed(Number(x), d)
    BY <2>2, ShortShiftRightJam128Exact
  <2> QED BY <1>2, <2>1, <2>3 DEF PairsAgree
<1>10. CASE /\ v[3] < WordBits
            /\ OnWords("shortShiftRightJam128Extra",
                       softfloat_shortShiftRightJam128Extra(v[1], v[2], v[3]))
  <2> DEFINE z == softfloat_shortShiftRightJam128Extra(x, y, d)
  <2>1. ret'.f = "words" /\ ret'.op = "shortShiftRightJam128Extra" /\ ret'.args = v /\ ret'.z = z
    BY <1>2, <1>10, WordCall
  <2>2. d \in 1 .. WordBits - 1
    BY <1>2, <1>4, <1>10
  <2>3. Split(z.v, z.extra) = ShiftedOut(Number(x), y, d)
    BY <2>2, ShortShiftRightJam128ExtraExact
  <2> HIDE DEF z
  <2> QED BY <1>2, <2>1, <2>3 DEF PairsAgree
<1>11. CASE /\ v[3] < WordBits
            /\ OnWords("shortShiftRightJam64Extra",
                       softfloat_shortShiftRightJam64Extra(v[1][1], v[2], v[3]))
  <2> DEFINE z == softfloat_shortShiftRightJam64Extra(x[1], y, d)
  <2>1. ret'.f = "words" /\ ret'.op = "shortShiftRightJam64Extra" /\ ret'.args = v /\ ret'.z = z
    BY <1>2, <1>11, WordCall
  <2>2. d \in 1 .. WordBits - 1
    BY <1>2, <1>4, <1>11
  <2>3. Split(<<0, z.v>>, z.extra) = ShiftedOut(x[1], y, d)
    BY <1>3, <2>2, ShortShiftRightJam64ExtraExact
  <2> HIDE DEF z
  <2> QED BY <1>2, <2>1, <2>3 DEF PairsAgree
<1> QED BY <1>5, <1>6, <1>7, <1>8, <1>9, <1>10, <1>11 DEF TwoWordShifts

(* A call on arrays records its operands and its result. *)
LEMMA ArrayCall ==
  ASSUME NEW op, NEW size, NEW x, NEW y, NEW k, NEW z, OnArrays(op, size, x, y, k, z)
  PROVE  /\ ret'.f = "arrays" /\ ret'.op = op /\ ret'.z = z
         /\ ret'.args.size = size /\ ret'.args.x = x /\ ret'.args.y = y /\ ret'.args.k = k
  BY DEF OnArrays, ToRegister, Return, Ret

(* The functions on two arrays. *)
LEMMA ArrayPairsExact ==
  ASSUME Held, ArrayPairs
  PROVE  ret'.f = "arrays" /\ ArraysAgree(ret)'
<1>1. v \in WordQuad \X WordQuad \X {0}
  BY StoredAssumption DEF Held, ArrayPairs, Ready
<1>2. PICK x \in WordQuad, y \in WordQuad : x = v[1] /\ y = v[2]
  BY <1>1
<1>3. \A size \in 3 .. 4 : Words(size, x) /\ Words(size, y)
  BY QuadWords
<1>4. ASSUME NEW size \in 3 .. 4, OnArrays("addM", size, v[1], v[2], <<>>, softfloat_addM(size, v[1], v[2]))
      PROVE  ret'.f = "arrays" /\ ArraysAgree(ret)'
  <2>1. /\ ret'.f = "arrays" /\ ret'.op = "addM" /\ ret'.z = softfloat_addM(size, x, y)
        /\ ret'.args.size = size /\ ret'.args.x = x /\ ret'.args.y = y /\ ret'.args.k = <<>>
    BY <1>2, <1>4, ArrayCall
  <2>2. ArrayValue(size, softfloat_addM(size, x, y)) = (ArrayValue(size, x) + ArrayValue(size, y)) % Modulus(size)
    BY <1>3, AddMExact
  <2> QED BY <2>1, <2>2 DEF ArraysAgree
<1>5. ASSUME NEW size \in 3 .. 4, OnArrays("subM", size, v[1], v[2], <<>>, softfloat_subM(size, v[1], v[2]))
      PROVE  ret'.f = "arrays" /\ ArraysAgree(ret)'
  <2>1. /\ ret'.f = "arrays" /\ ret'.op = "subM" /\ ret'.z = softfloat_subM(size, x, y)
        /\ ret'.args.size = size /\ ret'.args.x = x /\ ret'.args.y = y /\ ret'.args.k = <<>>
    BY <1>2, <1>5, ArrayCall
  <2>2. ArrayValue(size, softfloat_subM(size, x, y)) = (ArrayValue(size, x) - ArrayValue(size, y)) % Modulus(size)
    BY <1>3, AddMExact
  <2> QED BY <2>1, <2>2 DEF ArraysAgree
<1>6. ASSUME NEW size \in 3 .. 4, NEW c \in 0 .. 1,
             OnArrays("addCarryM", size, v[1], v[2], <<c>>, softfloat_addCarryM(size, v[1], v[2], c))
      PROVE  ret'.f = "arrays" /\ ArraysAgree(ret)'
  <2> DEFINE z == softfloat_addCarryM(size, x, y, c)
  <2>1. /\ ret'.f = "arrays" /\ ret'.op = "addCarryM" /\ ret'.z = z
        /\ ret'.args.size = size /\ ret'.args.x = x /\ ret'.args.y = y /\ ret'.args.k = <<c>>
    BY <1>2, <1>6, ArrayCall
  <2>2. ArrayValue(size, z.z) + z.carry * Modulus(size)
          = ArrayValue(size, x) + ArrayValue(size, y) + c
    BY <1>3, AddCarryMExact
  <2>3. <<c>>[1] = c
    OBVIOUS
  <2> HIDE DEF z
  <2> QED BY <2>1, <2>2, <2>3 DEF ArraysAgree
<1>7. ASSUME NEW size \in 3 .. 4, NEW c \in 0 .. 1,
             OnArrays("addComplCarryM", size, v[1], v[2], <<c>>, softfloat_addComplCarryM(size, v[1], v[2], c))
      PROVE  ret'.f = "arrays" /\ ArraysAgree(ret)'
  <2> DEFINE z == softfloat_addComplCarryM(size, x, y, c)
  <2>1. /\ ret'.f = "arrays" /\ ret'.op = "addComplCarryM" /\ ret'.z = z
        /\ ret'.args.size = size /\ ret'.args.x = x /\ ret'.args.y = y /\ ret'.args.k = <<c>>
    BY <1>2, <1>7, ArrayCall
  <2>2. ArrayValue(size, z.z) + z.carry * Modulus(size)
          = ArrayValue(size, x) + (Modulus(size) - 1 - ArrayValue(size, y)) + c
    BY <1>3, AddComplCarryMExact
  <2>3. <<c>>[1] = c
    OBVIOUS
  <2> HIDE DEF z
  <2> QED BY <2>1, <2>2, <2>3 DEF ArraysAgree
<1>8. CASE OnArrays("compareM", 3, v[1], v[2], <<>>, softfloat_compare96M(v[1], v[2]))
  <2>1. /\ ret'.f = "arrays" /\ ret'.op = "compareM" /\ ret'.z = softfloat_compare96M(x, y)
        /\ ret'.args.size = 3 /\ ret'.args.x = x /\ ret'.args.y = y /\ ret'.args.k = <<>>
    BY <1>2, <1>8, ArrayCall
  <2>2. softfloat_compare96M(x, y)
          = IF ArrayValue(3, x) < ArrayValue(3, y) THEN -1
            ELSE IF ArrayValue(3, x) = ArrayValue(3, y) THEN 0 ELSE 1
    BY <1>3, CompareExact DEF softfloat_compare96M
  <2> QED BY <2>1, <2>2 DEF ArraysAgree
<1>9. CASE OnArrays("compareM", 4, v[1], v[2], <<>>, softfloat_compare128M(v[1], v[2]))
  <2>1. /\ ret'.f = "arrays" /\ ret'.op = "compareM" /\ ret'.z = softfloat_compare128M(x, y)
        /\ ret'.args.size = 4 /\ ret'.args.x = x /\ ret'.args.y = y /\ ret'.args.k = <<>>
    BY <1>2, <1>9, ArrayCall
  <2>2. softfloat_compare128M(x, y)
          = IF ArrayValue(4, x) < ArrayValue(4, y) THEN -1
            ELSE IF ArrayValue(4, x) = ArrayValue(4, y) THEN 0 ELSE 1
    BY <1>3, CompareExact DEF softfloat_compare128M
  <2> QED BY <2>1, <2>2 DEF ArraysAgree
<1>10. CASE OnArrays("mul128MTo256M", 4, v[1], v[2], <<>>, softfloat_mul128MTo256M(v[1], v[2]))
  <2> DEFINE z == softfloat_mul128MTo256M(x, y)
  <2>1. /\ ret'.f = "arrays" /\ ret'.op = "mul128MTo256M" /\ ret'.z = z
        /\ ret'.args.size = 4 /\ ret'.args.x = x /\ ret'.args.y = y /\ ret'.args.k = <<>>
    BY <1>2, <1>10, ArrayCall
  <2>2. <<ArrayValue(4, [i \in 1 .. 4 |-> z[i + 4]]), ArrayValue(4, z)>>
          = WideProduct(ArrayValue(4, x), ArrayValue(4, y))
    BY <1>3, Mul128MTo256MExact
  <2> HIDE DEF z
  <2> QED BY <2>1, <2>2 DEF ArraysAgree
<1>11. ASSUME NEW d \in 1 .. WordBits - 1, NEW q \in {1, Base - 1},
             OnArrays("remStepMBy32", 4, v[1], v[2], <<d, q>>,
                      softfloat_remStepMBy32(4, v[1], d, v[2], q))
      PROVE  ret'.f = "arrays" /\ ArraysAgree(ret)'
  <2> DEFINE z == softfloat_remStepMBy32(4, x, d, y, q)
  <2>1. /\ ret'.f = "arrays" /\ ret'.op = "remStepMBy32" /\ ret'.z = z
        /\ ret'.args.size = 4 /\ ret'.args.x = x /\ ret'.args.y = y /\ ret'.args.k = <<d, q>>
    BY <1>2, <1>11, ArrayCall
  <2>2. q \in OneWord
    BY WordFacts DEF OneWord
  <2>3. ArrayValue(4, z) = (ArrayValue(4, x) * 2^d - ArrayValue(4, y) * q) % Modulus(4)
    BY <1>3, <2>2, RemStepMBy32Exact
  <2>4. <<d, q>>[1] = d /\ <<d, q>>[2] = q
    OBVIOUS
  <2> HIDE DEF z
  <2> QED BY <2>1, <2>3, <2>4 DEF ArraysAgree
<1> QED BY <1>4, <1>5, <1>6, <1>7, <1>8, <1>9, <1>10, <1>11 DEF ArrayPairs

(* The functions on one array, shifts among them. *)
LEMMA ArrayShiftsExact ==
  ASSUME Held, ArrayShifts
  PROVE  ret'.f = "arrays" /\ ArraysAgree(ret)'
<1>1. v \in WordQuad \X {0} \X (1 .. LongestShift)
  BY StoredAssumption DEF Held, ArrayShifts, Ready
<1>2. PICK x \in WordQuad, d \in 1 .. LongestShift : x = v[1] /\ d = v[3]
  BY <1>1
<1>3. \A size \in 3 .. 4 : Words(size, x)
  BY QuadWords
<1>4. <<d>>[1] = d
  OBVIOUS
<1>5. ASSUME NEW size \in 3 .. 4,
             OnArrays("sub1XM", size, v[1], v[1], <<v[3]>>, softfloat_sub1XM(size, v[1]))
      PROVE  ret'.f = "arrays" /\ ArraysAgree(ret)'
  <2> DEFINE z == softfloat_sub1XM(size, x)
  <2>1. /\ ret'.f = "arrays" /\ ret'.op = "sub1XM" /\ ret'.z = z
        /\ ret'.args.size = size /\ ret'.args.x = x /\ ret'.args.y = x /\ ret'.args.k = <<d>>
    BY <1>2, <1>5, ArrayCall
  <2>2. ArrayValue(size, z)
          = (ArrayValue(size, x) - 1) % Modulus(size)
    BY <1>3, Sub1XMExact
  <2> HIDE DEF z
  <2> QED BY <1>4, <2>1, <2>2 DEF ArraysAgree
<1>6. ASSUME NEW size \in 3 .. 4,
             OnArrays("negXM", size, v[1], v[1], <<v[3]>>, softfloat_negXM(size, v[1]))
      PROVE  ret'.f = "arrays" /\ ArraysAgree(ret)'
  <2> DEFINE z == softfloat_negXM(size, x)
  <2>1. /\ ret'.f = "arrays" /\ ret'.op = "negXM" /\ ret'.z = z
        /\ ret'.args.size = size /\ ret'.args.x = x /\ ret'.args.y = x /\ ret'.args.k = <<d>>
    BY <1>2, <1>6, ArrayCall
  <2>2. ArrayValue(size, z)
          = (-ArrayValue(size, x)) % Modulus(size)
    BY <1>3, NegXMExact
  <2> HIDE DEF z
  <2> QED BY <1>4, <2>1, <2>2 DEF ArraysAgree
<1>7. ASSUME NEW size \in 3 .. 4,
             OnArrays("shiftLeftM", size, v[1], v[1], <<v[3]>>, softfloat_shiftLeftM(size, v[1], v[3]))
      PROVE  ret'.f = "arrays" /\ ArraysAgree(ret)'
  <2> DEFINE z == softfloat_shiftLeftM(size, x, d)
  <2>1. /\ ret'.f = "arrays" /\ ret'.op = "shiftLeftM" /\ ret'.z = z
        /\ ret'.args.size = size /\ ret'.args.x = x /\ ret'.args.y = x /\ ret'.args.k = <<d>>
    BY <1>2, <1>7, ArrayCall
  <2>2. ArrayValue(size, z)
          = (IF d >= size * WordBits THEN 0
             ELSE (ArrayValue(size, x) % 2^(size * WordBits - d)) * 2^d) % Modulus(size)
    BY <1>3, ShiftLeftMExact
  <2> HIDE DEF z
  <2> QED BY <1>4, <2>1, <2>2 DEF ArraysAgree
<1>8. ASSUME NEW size \in 3 .. 4,
             OnArrays("shiftRightM", size, v[1], v[1], <<v[3]>>, softfloat_shiftRightM(size, v[1], v[3]))
      PROVE  ret'.f = "arrays" /\ ArraysAgree(ret)'
  <2> DEFINE z == softfloat_shiftRightM(size, x, d)
  <2>1. /\ ret'.f = "arrays" /\ ret'.op = "shiftRightM" /\ ret'.z = z
        /\ ret'.args.size = size /\ ret'.args.x = x /\ ret'.args.y = x /\ ret'.args.k = <<d>>
    BY <1>2, <1>8, ArrayCall
  <2>2. ArrayValue(size, z)
          = (ArrayValue(size, x) \div 2^d) % Modulus(size)
    BY <1>3, ShiftRightMExact
  <2> HIDE DEF z
  <2> QED BY <1>4, <2>1, <2>2 DEF ArraysAgree
<1>9. ASSUME NEW size \in 3 .. 4,
             OnArrays("shiftRightJamM", size, v[1], v[1], <<v[3]>>, softfloat_shiftRightJamM(size, v[1], v[3]))
      PROVE  ret'.f = "arrays" /\ ArraysAgree(ret)'
  <2> DEFINE z == softfloat_shiftRightJamM(size, x, d)
  <2>1. /\ ret'.f = "arrays" /\ ret'.op = "shiftRightJamM" /\ ret'.z = z
        /\ ret'.args.size = size /\ ret'.args.x = x /\ ret'.args.y = x /\ ret'.args.k = <<d>>
    BY <1>2, <1>9, ArrayCall
  <2>2. ArrayValue(size, z) = Jammed(ArrayValue(size, x), d) % Modulus(size)
    <3>1. Words(size, z) /\ ArrayValue(size, z) = Jammed(ArrayValue(size, x), d)
      BY <1>3, ShiftRightJamExact DEF softfloat_shiftRightJamM
    <3>2. ArrayValue(size, z) \in 0 .. Modulus(size) - 1
      BY <3>1, ValueRange DEF Words
    <3>3. PICK m \in Nat : m = Modulus(size) /\ m > 0
      <4>1. size = 3 \/ size = 4
        OBVIOUS
      <4> QED BY <4>1, ModulusFacts
    <3>4. PICK r \in 0 .. m - 1 : r = ArrayValue(size, z)
      BY <3>2, <3>3
    <3>5. r % m = r
      BY <3>3, OwnRemainder
    <3> QED BY <3>1, <3>3, <3>4, <3>5
  <2> HIDE DEF z
  <2> QED BY <1>4, <2>1, <2>2 DEF ArraysAgree
<1> QED BY <1>5, <1>6, <1>7, <1>8, <1>9 DEF ArrayShifts

(* The functions on 64-bit integers of two words. *)
LEMMA DoubleWordsExact ==
  ASSUME Held, DoubleWords
  PROVE  ret'.f = "arrays" /\ ArraysAgree(ret)'
<1>1. v \in WordPair \X OneWord \X (1 .. LongestShift)
  BY StoredAssumption DEF Held, DoubleWords, Ready
<1>2. PICK x \in WordPair, d \in 1 .. LongestShift : x = v[1] /\ d = v[3]
  BY <1>1
<1>3. x[1] \in OneWord /\ x[2] \in OneWord /\ Reversed(x)[1] = x[2] /\ Reversed(x)[2] = x[1]
  BY DEF WordPair, Reversed
<1>4. /\ Number(x) \in 0 .. (Base * Base) - 1 /\ Number(Reversed(x)) \in 0 .. (Base * Base) - 1
      /\ ArrayValue(2, Reversed(x)) = Number(x) /\ ArrayValue(2, x) = Number(Reversed(x))
  <2>1. x[1] \in Int /\ x[2] \in Int
    BY <1>3 DEF OneWord
  <2>2. /\ ArrayValue(2, x) = x[1] + x[2] * Base
        /\ ArrayValue(2, Reversed(x)) = Reversed(x)[1] + Reversed(x)[2] * Base
    BY <1>3, <2>1, ValueDigits
  <2>3. Number(x) = x[2] + x[1] * Base /\ Number(x) \in 0 .. (Base * Base) - 1
    BY <1>3, NumberFacts
  <2>4. /\ Number(Reversed(x)) = Reversed(x)[2] + Reversed(x)[1] * Base
        /\ Number(Reversed(x)) \in 0 .. (Base * Base) - 1
    BY <1>3, NumberFacts
  <2> QED BY <1>3, <2>2, <2>3, <2>4
<1>5. CASE OnArrays("mul64To128M", 2, Reversed(v[1]), v[1], <<v[3]>>,
                    softfloat_mul64To128M(Number(v[1]), Number(Reversed(v[1]))))
  <2> DEFINE z == softfloat_mul64To128M(Number(x), Number(Reversed(x)))
  <2>1. /\ ret'.f = "arrays" /\ ret'.op = "mul64To128M" /\ ret'.z = z
        /\ ret'.args.size = 2 /\ ret'.args.x = Reversed(x) /\ ret'.args.y = x /\ ret'.args.k = <<d>>
    BY <1>2, <1>5, ArrayCall
  <2>2. ArrayValue(4, z) = Number(x) * Number(Reversed(x))
    BY <1>4, Mul64To128MExact
  <2> HIDE DEF z
  <2> QED BY <1>4, <2>1, <2>2 DEF ArraysAgree
<1>6. CASE /\ v[3] < WordBits
           /\ OnArrays("shortShiftLeft64To96M", 2, Reversed(v[1]), v[1], <<v[3]>>,
                       softfloat_shortShiftLeft64To96M(Number(v[1]), v[3]))
  <2> DEFINE z == softfloat_shortShiftLeft64To96M(Number(x), d)
  <2>1. /\ ret'.f = "arrays" /\ ret'.op = "shortShiftLeft64To96M" /\ ret'.z = z
        /\ ret'.args.size = 2 /\ ret'.args.x = Reversed(x) /\ ret'.args.y = x /\ ret'.args.k = <<d>>
    BY <1>2, <1>6, ArrayCall
  <2>2. d \in 1 .. WordBits - 1
    BY <1>2, <1>6, WordFacts
  <2>3. ArrayValue(3, z) = Number(x) * 2^d
    BY <1>4, <2>2, ShortShiftLeft64To96MExact
  <2>4. <<d>>[1] = d
    OBVIOUS
  <2> HIDE DEF z
  <2> QED BY <1>4, <2>1, <2>3, <2>4 DEF ArraysAgree
<1> QED BY <1>5, <1>6 DEF DoubleWords

-----------------------------------------------------------------------------
(* The specification. *)

(* The inductive invariant: what the caller holds was stored for its job,  *)
(* nothing is held before there is a job, and the last call was exact.     *)
WordInv == Held /\ (job = "none" => v = <<>>) /\ WordsAgree

(* A call on floats says nothing about words. *)
LEMMA FloatCall ==
  ASSUME WordInv, NEW f \in {"f128", "extF80"}, NEW op, NEW args, NEW r, Return(f, op, args, r)
  PROVE  WordInv'
<1>1. ret'.f = f /\ v' = v /\ job' = job
  BY DEF Return
<1>2. f # "arrays" /\ f # "words"
  OBVIOUS
<1> QED BY <1>1, <1>2 DEF WordInv, Held, WordsAgree

(* Every step keeps the invariant. *)
LEMMA WordStep == WordInv /\ [MNext]_mvars => WordInv'
<1> SUFFICES ASSUME WordInv, [MNext]_mvars PROVE WordInv'
  OBVIOUS
<1>0. Held /\ (job = "none" => v = <<>>) /\ WordsAgree
  BY DEF WordInv
<1>k. ASSUME v' = v, job' = job, ret'.f = "words", PairsAgree(ret)' PROVE WordInv'
  BY <1>0, <1>k DEF WordInv, Held, WordsAgree
<1>l. ASSUME v' = v, job' = job, ret'.f = "arrays", ArraysAgree(ret)' PROVE WordInv'
  BY <1>0, <1>l DEF WordInv, Held, WordsAgree
<1>1. CASE SetGlobals
  <2>1. v = <<>> /\ v' = v /\ ret' = ret
    BY <1>0, <1>1 DEF SetGlobals
  <2> QED BY <1>0, <2>1 DEF WordInv, Held, WordsAgree
<1>2. CASE StoreOperands
  <2>1. v' \in Stored(job) /\ job' = job /\ job # "none" /\ ret' = ret
    BY <1>2 DEF StoreOperands
  <2> QED BY <1>0, <2>1 DEF WordInv, Held, WordsAgree
<1>3. CASE Binary128
  BY <1>3, FloatCall DEF Binary128, To128, ToRegister, f128M_add, f128M_sub, f128M_mul, f128M_rem,
     f128M_div, f128M_eq, f128M_eq_signaling, f128M_le, f128M_le_quiet, f128M_lt, f128M_lt_quiet
<1>4. CASE Ternary128
  BY <1>4, FloatCall DEF Ternary128, To128, f128M_mulAdd
<1>5. CASE Unary128
  BY <1>5, FloatCall DEF Unary128, To128, To80, ToRegister, f128M_sqrt, f128M_to_f16, f128M_to_f32,
     f128M_to_f64, f128M_to_extF80M, f128M_roundToInt, f128M_to_i32, f128M_to_i32_r_minMag,
     f128M_to_ui32, f128M_to_ui32_r_minMag, f128M_to_i64, f128M_to_i64_r_minMag, f128M_to_ui64,
     f128M_to_ui64_r_minMag
<1>6. CASE Binary80
  BY <1>6, FloatCall DEF Binary80, To80, ToRegister, extF80M_add, extF80M_sub, extF80M_mul,
     extF80M_rem, extF80M_div, extF80M_eq, extF80M_eq_signaling, extF80M_le, extF80M_le_quiet,
     extF80M_lt, extF80M_lt_quiet
<1>7. CASE Unary80
  BY <1>7, FloatCall DEF Unary80, To128, To80, ToRegister, extF80M_sqrt, extF80M_to_f16,
     extF80M_to_f32, extF80M_to_f64, extF80M_to_f128M, extF80M_roundToInt, extF80M_to_i32,
     extF80M_to_i32_r_minMag, extF80M_to_ui32, extF80M_to_ui32_r_minMag, extF80M_to_i64,
     extF80M_to_i64_r_minMag, extF80M_to_ui64, extF80M_to_ui64_r_minMag
<1>8. CASE FromNarrow
  BY <1>8, FloatCall DEF FromNarrow, To128, To80, f16_to_f128M, f32_to_f128M, f64_to_f128M,
     f16_to_extF80M, f32_to_extF80M, f64_to_extF80M
<1>9. CASE FromInteger
  BY <1>9, FloatCall DEF FromInteger, To128, To80, i32_to_f128M, ui32_to_f128M, i64_to_f128M,
     ui64_to_f128M, i32_to_extF80M, ui32_to_extF80M, i64_to_extF80M, ui64_to_extF80M
<1>10. CASE TwoWords
  <2>1. v' = v /\ job' = job
    BY <1>10 DEF TwoWords, OnWords, ToRegister, Return
  <2> QED BY <1>0, <1>10, <1>k, <2>1, TwoWordsExact
<1>11. CASE FourWords
  <2>1. v' = v /\ job' = job
    BY <1>11 DEF FourWords, OnWords, ToRegister, Return
  <2> QED BY <1>0, <1>11, <1>k, <2>1, FourWordsExact
<1>12. CASE TwoWordShifts
  <2>1. v' = v /\ job' = job
    BY <1>12 DEF TwoWordShifts, OnWords, ToRegister, Return
  <2> QED BY <1>0, <1>12, <1>k, <2>1, TwoWordShiftsExact
<1>13. CASE FourWordShift
  <2>1. v' = v /\ job' = job
    BY <1>13 DEF FourWordShift, OnWords, ToRegister, Return
  <2> QED BY <1>0, <1>13, <1>k, <2>1, FourWordShiftExact
<1>14. CASE ArrayPairs
  <2>1. v' = v /\ job' = job
    BY <1>14 DEF ArrayPairs, OnArrays, ToRegister, Return
  <2> QED BY <1>0, <1>14, <1>l, <2>1, ArrayPairsExact
<1>15. CASE ArrayShifts
  <2>1. v' = v /\ job' = job
    BY <1>15 DEF ArrayShifts, OnArrays, ToRegister, Return
  <2> QED BY <1>0, <1>15, <1>l, <2>1, ArrayShiftsExact
<1>16. CASE DoubleWords
  <2>1. v' = v /\ job' = job
    BY <1>16 DEF DoubleWords, OnArrays, ToRegister, Return
  <2> QED BY <1>0, <1>16, <1>l, <2>1, DoubleWordsExact
<1>17. CASE UNCHANGED mvars
  <2>1. v' = v /\ job' = job /\ ret' = ret
    BY <1>17 DEF mvars
  <2> QED BY <1>0, <2>1 DEF WordInv, Held, WordsAgree
<1> QED BY <1>1, <1>2, <1>3, <1>4, <1>5, <1>6, <1>7, <1>8, <1>9, <1>10, <1>11, <1>12, <1>13, <1>14,
           <1>15, <1>16, <1>17 DEF MNext

(* WordsAgree: the functions on words and arrays of words compute what     *)
(* they would on integers of any size, whatever the width of a word.       *)
THEOREM WordsExact == MSpec => []WordsAgree
<1>1. MInit => WordInv
  BY DEF MInit, WordInv, Held, WordsAgree, NoCall
<1>2. WordInv => WordsAgree
  BY DEF WordInv
<1> QED BY <1>1, <1>2, WordStep, PTL DEF MSpec
=============================================================================
