-------------------------- MODULE ByteCountProofs --------------------------
(***************************************************************************)
(* Proofs about ByteCount, for every base of the units, every width of the *)
(* integers and of the mantissa, and every error of the logarithm.         *)
(***************************************************************************)
EXTENDS ByteCount, NumberFacts, TLAPS

LEMMA Sizes ==
  /\ Kib \in Nat \ {0} /\ Kilo \in Nat \ {0} /\ U64Max \in Nat /\ Slack \in Nat
  /\ Mantissa \in Nat /\ 1 < Kilo /\ Kilo < Kib
  /\ Tenths \in Nat \ {0} /\ Hundredths \in Nat \ {0} /\ TenThousandths \in Nat \ {0}
  /\ Tenths < Hundredths /\ 2 * Hundredths <= Kilo
  /\ 2 * TenThousandths <= Pow(Kilo, 2)
BY ByteCountAssumption

\* Two exbibytes.
Limit == 2 * Pow(Kib, 6)

LEMMA LimitType == Limit \in Nat \ {0} /\ 2 * (Limit + Slack) <= U64Max
<1>1. Pow(Kib, 6) \in Nat \ {0} /\ 6 \in Nat
  BY Sizes, PowPositive
<1> QED
  BY <1>1, ByteCountAssumption DEF Limit

LEMMA FactorType ==
  ASSUME NEW u \in Suffixes \cup {NoSuffix}
  PROVE  Factor(u) \in Nat \ {0} /\ (u = NoSuffix => Factor(u) = 1)
<1>1. u.exp \in Nat /\ (u = NoSuffix => u.exp = 0 /\ u.form # "b")
  BY DEF Suffixes, NoSuffix
<1>2. Pow(Kilo, u.exp) \in Nat \ {0} /\ Pow(Kib, u.exp) \in Nat \ {0} /\ Pow(Kib, 0) = 1
  BY <1>1, Sizes, PowPositive, PowDef
<1> QED
  BY <1>1, <1>2 DEF Factor

\* Dividing and comparing, and comparing the products.
LEMMA DivBound ==
  ASSUME NEW a \in Int, NEW f \in Nat \ {0}, NEW q \in Int
  PROVE  q <= a \div f <=> q * f <= a
<1> DEFINE d == a \div f
<1>1. d \in Int /\ d * f <= a /\ a < (d + 1) * f
  <2>1. d \in Int /\ a % f \in 0 .. f - 1 /\ a = f * d + (a % f)
    OBVIOUS
  <2>2. (d + 1) * f = f * d + f /\ d * f = f * d
    BY <2>1
  <2> QED
    BY <2>1, <2>2
<1> HIDE DEF d
<1>2. q <= d => q * f <= a
  <2> SUFFICES ASSUME q <= d PROVE q * f <= d * f
    BY <1>1
  <2>1. PICK k \in Nat : d = q + k
    <3>1. d - q \in Nat /\ d = q + (d - q)
      BY <1>1
    <3> QED
      BY <3>1
  <2>2. d * f = q * f + k * f /\ k * f \in Nat /\ q * f \in Int
    BY <2>1
  <2> QED
    BY <2>2
<1>3. q * f <= a => q <= d
  <2> SUFFICES ASSUME q > d PROVE (d + 1) * f <= q * f
    BY <1>1
  <2>1. PICK k \in Nat : q = (d + 1) + k
    <3>1. q - (d + 1) \in Nat /\ q = (d + 1) + (q - (d + 1))
      BY <1>1
    <3> QED
      BY <3>1
  <2>2. q * f = (d + 1) * f + k * f /\ k * f \in Nat /\ (d + 1) * f \in Int
    BY <1>1, <2>1
  <2> QED
    BY <2>2
<1> QED
  BY <1>2, <1>3 DEF d

-----------------------------------------------------------------------------
(* The precision of an f64 *)

LEMMA BelowPower ==
  ASSUME NEW n \in Nat
  PROVE  n < Pow(2, n)
<1> DEFINE T == {i \in Nat : i < Pow(2, i)}
<1>0. 2 \in Nat /\ Pow(2, 0) = 1
  BY PowDef
<1>1. 0 \in T
  BY <1>0
<1>2. ASSUME NEW i \in Nat, i \in T PROVE i + 1 \in T
  <2>1. i < Pow(2, i) /\ i + 1 \in Nat
    BY <1>2
  <2> HIDE DEF T
  <2>2. Pow(2, i) \in Nat /\ Pow(2, i + 1) = 2 * Pow(2, i)
    BY <1>0, PowDef
  <2>3. i + 1 < Pow(2, i + 1)
    BY <2>1, <2>2
  <2> QED
    BY <2>1, <2>3 DEF T
<1> HIDE DEF T
<1>3. \A i \in Nat : i \in T
  BY <1>1, <1>2, Induction
<1> QED
  BY <1>3 DEF T

LEMMA ExcessDef ==
  ASSUME NEW n \in Nat
  PROVE  /\ Excess(n) \in Nat
         /\ Excess(n) = 0 \/ n >= Pow(2, Mantissa) * Pow(2, Excess(n) - 1)
<1> DEFINE m    == Pow(2, Mantissa)
           T    == {i \in Nat : n < m * Pow(2, i)}
           P(i) == n < m * Pow(2, i) /\ (i = 0 \/ n >= m * Pow(2, i - 1))
<1>0. m \in Nat \ {0}
  BY Sizes, PowPositive
<1> HIDE DEF m
<1>1. n \in T
  <2>1. n < Pow(2, n) /\ Pow(2, n) \in Nat
    BY BelowPower, PowDef
  <2> DEFINE p == Pow(2, n)
  <2> HIDE DEF p
  <2>2. PICK k \in Nat : m = 1 + k
    <3>1. m - 1 \in Nat /\ m = 1 + (m - 1)
      BY <1>0
    <3> QED
      BY <3>1
  <2>3. p \in Nat /\ n < p
    BY <2>1 DEF p
  <2>4. m * p = p + k * p /\ k * p \in Nat
    BY <2>2, <2>3
  <2>5. n < m * p
    BY <2>3, <2>4
  <2> QED
    BY <2>5 DEF p
<1>2. PICK x \in T : \A y \in T : x <= y
  <2>1. T \subseteq Nat /\ T # {}
    BY <1>1
  <2> HIDE DEF T
  <2> QED
    BY <2>1, Least
<1>3. x \in 0 .. n /\ P(x)
  <2>1. x \in Nat /\ x <= n /\ n < m * Pow(2, x)
    BY <1>1, <1>2
  <2>2. ASSUME x # 0 PROVE n >= m * Pow(2, x - 1)
    <3>1. x - 1 \in Nat /\ ~(x <= x - 1)
      BY <2>1, <2>2
    <3>2. ~(n < m * Pow(2, x - 1))
      BY <1>2, <3>1
    <3>3. Pow(2, x - 1) \in Nat
      BY <3>1, PowPositive
    <3>4. m * Pow(2, x - 1) \in Nat
      BY <1>0, <3>3
    <3> QED
      BY <3>2, <3>4
  <2> QED
    BY <2>1, <2>2
<1> HIDE DEF P
<1>4. P(CHOOSE i \in 0 .. n : P(i)) /\ (CHOOSE i \in 0 .. n : P(i)) \in 0 .. n
  BY <1>3
<1>5. Excess(n) = CHOOSE i \in 0 .. n : P(i)
  BY DEF Excess, P, m
<1> QED
  BY <1>4, <1>5 DEF P, m

\* The difference between a number and the f64 next to it.
LEMMA F64Close ==
  ASSUME NEW n \in Nat
  PROVE  /\ F64(n) \in Nat
         /\ F64(n) <= n + (n \div Pow(2, Mantissa))
         /\ n - (n \div Pow(2, Mantissa)) <= F64(n)
<1> DEFINE m    == Pow(2, Mantissa)
           e    == Excess(n)
           unit == Pow(2, e)
           down == n \div unit
           rest == n % unit
           g    == n \div m
<1>0. m \in Nat \ {0} /\ e \in Nat /\ unit \in Nat \ {0}
  BY Sizes, PowPositive, ExcessDef
<1>1. /\ down \in Nat /\ rest \in 0 .. unit - 1 /\ n = down * unit + rest
      /\ (down + 1) * unit = down * unit + unit /\ down * unit \in Nat
  <2> HIDE DEF unit
  <2>1. down \in Nat /\ rest \in 0 .. unit - 1 /\ n = down * unit + rest
    BY <1>0, DivMod
  <2> QED
    BY <1>0, <2>1
<1>2. g \in Nat
  <2> HIDE DEF m
  <2> QED
    BY <1>0, DivMod
<1>3. F64(n) = IF 2 * rest > unit \/ (2 * rest = unit /\ down % 2 = 1)
               THEN (down + 1) * unit ELSE down * unit
  BY DEF F64
<1>4. CASE e = 0
  <2>1. unit = 1
    BY <1>4, PowDef
  <2> HIDE DEF e, unit, down, rest, g
  <2>2. rest = 0 /\ down * unit = n
    BY <1>0, <1>1, <2>1
  <2>3. F64(n) = n
    BY <1>3, <2>1, <2>2
  <2>4. F64(n) \in Nat /\ F64(n) <= n + g /\ n - g <= F64(n)
    BY <1>2, <2>3
  <2> QED
    BY <2>4 DEF g, m
<1>5. CASE e # 0
  <2> DEFINE half == Pow(2, e - 1)
  <2>1. half \in Nat \ {0} /\ unit = 2 * half
    <3>1. e - 1 \in Nat /\ (e - 1) + 1 = e
      BY <1>0, <1>5
    <3> HIDE DEF e
    <3> QED
      BY <3>1, PowPositive, PowDef
  <2>2. n >= m * half
    BY <1>5, ExcessDef
  <2> HIDE DEF half, unit, down, rest, e, m
  <2>3. half <= g
    <3>1. half * m <= n
      BY <1>0, <2>1, <2>2
    <3> QED
      BY <1>0, <2>1, <3>1, DivBound DEF g
  <2> DEFINE x == down * unit
  <2>4. n = x + rest /\ x \in Nat /\ (down + 1) * unit = x + unit
    BY <1>1
  <2>5. F64(n) = IF 2 * rest > unit \/ (2 * rest = unit /\ down % 2 = 1)
                 THEN x + unit ELSE x
    BY <1>3, <2>4
  <2> HIDE DEF x, g
  <2>6. F64(n) \in Nat /\ F64(n) <= n + g /\ n - g <= F64(n)
    <3>1. rest \in Nat /\ rest < unit
      BY <1>0, <1>1
    <3>2. CASE 2 * rest > unit \/ (2 * rest = unit /\ down % 2 = 1)
      <4>1. F64(n) = x + unit /\ 2 * rest >= unit
        BY <1>0, <2>5, <3>1, <3>2
      <4> QED
        BY <1>0, <1>2, <2>1, <2>3, <2>4, <3>1, <4>1
    <3>3. CASE ~(2 * rest > unit \/ (2 * rest = unit /\ down % 2 = 1))
      <4>1. F64(n) = x /\ 2 * rest <= unit
        BY <1>0, <2>5, <3>1, <3>3
      <4> QED
        BY <1>0, <1>2, <2>1, <2>3, <2>4, <3>1, <4>1
    <3> QED
      BY <3>2, <3>3
  <2> QED
    BY <2>6 DEF g, m
<1> QED
  BY <1>4, <1>5

-----------------------------------------------------------------------------
(* parsebytes() *)

\* What is accepted as a float is the product, rounded twice.
LEMMA FloatAccepted ==
  ASSUME NEW q \in Nat \ {0}, NEW f \in Nat \ {0}, NEW b \in FloatMul(q, f), b # Err
  PROVE  /\ q * f <= 4 * (Limit + Slack)
         /\ b \in 0 .. U64Max
         /\ 4 * b <= q * f + (2 + (q * f) \div Pow(2, Mantissa))
         /\ q * f - (2 + (q * f) \div Pow(2, Mantissa)) <= 4 * b
<1> DEFINE n == q * f
           m == Pow(2, Mantissa)
           g == n \div m
           x == F64(n)
           y == 4 * (Limit + Slack)
<1>1. MaybeBelow(q, f) /\ b = RoundProduct(q, f)
  BY DEF FloatMul
<1>2. y \in Nat /\ 2 * y <= 4 * U64Max /\ U64Max \in Nat
  BY LimitType, Sizes
<1>3. n <= y /\ n \in Nat
  <2>1. q <= y \div f
    BY <1>1 DEF MaybeBelow, Limit
  <2> HIDE DEF y
  <2> QED
    BY <1>2, <2>1, DivBound
<1>4. b = (x + 2) \div 4
  <2>1. RoundProduct(q, f) = (x + 2) \div 4
    BY DEF RoundProduct
  <2> HIDE DEF x
  <2> QED
    BY <1>1, <2>1
<1>5. m \in Nat \ {0}
  <2>1. 2 \in Nat \ {0} /\ Mantissa \in Nat
    BY Sizes
  <2> QED
    BY <2>1, PowPositive
<1> HIDE DEF n, m, y
<1>6. g \in Nat /\ g <= n
  <2>1. g \in Nat /\ n % m \in 0 .. m - 1 /\ n = g * m + (n % m)
    BY <1>3, <1>5, DivMod
  <2>2. PICK k \in Nat : m = 1 + k
    <3>1. m - 1 \in Nat /\ m = 1 + (m - 1)
      BY <1>5
    <3> QED
      BY <3>1
  <2>3. g * m = g + g * k /\ g * k \in Nat
    BY <2>1, <2>2
  <2> HIDE DEF g
  <2> QED
    BY <1>3, <1>5, <2>1, <2>3
<1>7. x \in Nat /\ x <= n + g /\ n - g <= x
  BY <1>3, F64Close DEF m
<1> HIDE DEF g, x
<1>8. b \in Nat /\ 4 * b <= x + 2 /\ x + 2 < 4 * b + 4
  BY <1>4, <1>7
<1>9. b <= U64Max /\ 4 * b <= n + (2 + g) /\ n - (2 + g) <= 4 * b
  BY <1>2, <1>3, <1>6, <1>7, <1>8
<1> QED
  BY <1>2, <1>3, <1>8, <1>9 DEF n, m, g, y

\* An integer that is none of a u64 is too large for a float, too.
LEMMA LargeIntegerRefused ==
  ASSUME NEW n \in Nat, n > U64Max, NEW f \in Nat \ {0}
  PROVE  FloatMul(4 * n, f) \subseteq {Err}
<1> SUFFICES ASSUME NEW b \in FloatMul(4 * n, f), b # Err PROVE FALSE
  OBVIOUS
<1>1. U64Max \in Nat /\ 4 * n \in Nat \ {0} /\ Limit + Slack \in Nat \ {0}
      /\ 2 * (Limit + Slack) <= U64Max
  BY Sizes, LimitType
<1>2. (4 * n) * f <= 4 * (Limit + Slack)
  BY <1>1, FloatAccepted
<1>3. PICK k \in Nat : f = 1 + k
  <2>1. f - 1 \in Nat /\ f = 1 + (f - 1)
    OBVIOUS
  <2> QED
    BY <2>1
<1>4. (4 * n) * f = 4 * n + (4 * n) * k /\ (4 * n) * k \in Nat
  BY <1>3
<1> DEFINE l == Limit + Slack
           z == (4 * n) * k
<1> HIDE DEF l, z
<1>5. 4 * n + z <= 4 * l /\ z \in Nat /\ l \in Nat \ {0} /\ 2 * l <= U64Max
  BY <1>1, <1>2, <1>4 DEF l, z
<1> QED
  BY <1>1, <1>5

LEMMA FloatType ==
  ASSUME NEW q \in Int, NEW f \in Nat \ {0}
  PROVE  FloatMul(q, f) \subseteq Int
<1> SUFFICES ASSUME NEW b \in FloatMul(q, f) PROVE b \in Int
  OBVIOUS
<1>1. CASE q <= 0
  BY <1>1 DEF FloatMul
<1>2. CASE q > 0
  <2>1. q \in Nat \ {0}
    BY <1>2
  <2>2. b # Err => b \in Int
    BY <2>1, FloatAccepted
  <2> QED
    BY <2>2 DEF Err
<1> QED
  BY <1>1, <1>2

LEMMA TextType ==
  ASSUME NEW t \in Texts
  PROVE  /\ t.kind \in {"int", "float", "nan", "inf", "-inf"}
         /\ t.kind = "int" => t.num \in Nat
         /\ t.num \in Int
         /\ t.unit \in Suffixes \cup {NoSuffix}
         /\ Factor(t.unit) \in Nat \ {0}
         /\ t.kind \in {"nan", "inf", "-inf"} => t.num = 0 /\ t.unit \in Suffixes
<1>1. /\ t.kind \in {"int", "float", "nan", "inf", "-inf"}
      /\ t.kind = "int" => t.num \in Integers4
      /\ t.kind = "float" => t.num \in Quarters
      /\ t.unit \in Suffixes \cup {NoSuffix}
      /\ t.kind \in {"nan", "inf", "-inf"} => t.num = 0 /\ t.unit \in Suffixes
  BY DEF Texts
<1>2. Integers4 \subseteq Nat /\ Quarters \subseteq Int /\ 0 \in Int
  BY ByteCountAssumption
<1>3. Factor(t.unit) \in Nat \ {0}
  BY <1>1, FactorType
<1>4. (t.kind = "int" => t.num \in Nat) /\ t.num \in Int
  <2>1. CASE t.kind = "int"
    <3>1. t.num \in Integers4
      BY <1>1, <2>1
    <3>2. t.num \in Nat
      BY <1>2, <3>1
    <3> QED
      BY <3>2
  <2>2. CASE t.kind = "float"
    BY <1>1, <1>2, <2>2
  <2>3. CASE t.kind \in {"nan", "inf", "-inf"}
    BY <1>1, <1>2, <2>3
  <2> QED
    BY <1>1, <2>1, <2>2, <2>3
<1> QED
  BY <1>1, <1>3, <1>4

LEMMA IntegerProduct ==
  ASSUME NEW n \in Nat, NEW f \in Nat \ {0}, NEW b \in CheckedMul(n, f)
  PROVE  /\ b \in Int
         /\ b # Err => b = n * f /\ b \in 0 .. U64Max
         /\ b = Err => n > U64Max \div f
<1>1. U64Max \in Nat /\ n * f \in Nat
  BY Sizes
<1>2. CASE n <= U64Max \div f
  <2>1. n * f <= U64Max
    BY <1>1, <1>2, DivBound
  <2> QED
    BY <1>1, <1>2, <2>1 DEF CheckedMul, Err
<1>3. CASE ~(n <= U64Max \div f)
  <2>1. U64Max \div f \in Int
    BY <1>1
  <2> QED
    BY <1>3, <2>1 DEF CheckedMul, Err
<1> QED
  BY <1>2, <1>3

LEMMA SmallIntegerResults ==
  ASSUME NEW t, t.unit # NoSuffix, t.kind = "int", t.num \in Nat, t.num <= U64Max
  PROVE  Results(t) = CheckedMul(t.num, Factor(t.unit))
<1> DEFINE n == t.num
           r == CheckedMul(t.num, Factor(t.unit))
           s == FloatMul(4 * t.num, Factor(t.unit))
<1>1. n \in Nat /\ U64Max \in Nat
  BY Sizes
<1>2. ~(n > U64Max)
  BY <1>1
<1>3. Results(t) = CASE n <= U64Max -> r [] n > U64Max -> s
  BY DEF Results
<1> HIDE DEF n, r, s
<1> QED
  BY <1>2, <1>3 DEF n, r

LEMMA ResultsType ==
  ASSUME NEW t \in Texts
  PROVE  Results(t) \subseteq Int
<1> SUFFICES ASSUME NEW b \in Results(t) PROVE b \in Int
  OBVIOUS
<1>0. Err \in Int /\ 0 \in Int /\ U64Max \in Nat
  BY Sizes DEF Err
<1>1. CASE t.unit = NoSuffix
  BY <1>0, <1>1, TextType DEF Results
<1>2. CASE t.unit # NoSuffix
  <2>1. CASE t.kind = "int" /\ t.num <= U64Max
    <3>1. t.num \in Nat
      BY <2>1, TextType
    <3>2. b \in CheckedMul(t.num, Factor(t.unit))
      BY <1>2, <2>1, <3>1, SmallIntegerResults
    <3> QED
      BY <3>1, <3>2, TextType, IntegerProduct
  <2>2. CASE t.kind = "int" /\ t.num > U64Max
    <3>1. b \in FloatMul(4 * t.num, Factor(t.unit))
      BY <1>0, <1>2, <2>2, TextType DEF Results
    <3> QED
      BY <1>0, <2>2, <3>1, TextType, LargeIntegerRefused
  <2>3. CASE t.kind = "float"
    <3>1. b \in FloatMul(t.num, Factor(t.unit))
      BY <1>2, <2>3 DEF Results
    <3> QED
      BY <3>1, TextType, FloatType
  <2>4. CASE t.kind \in {"inf", "nan", "-inf"}
    BY <1>0, <1>2, <2>4 DEF Results
  <2> QED
    BY <1>0, <2>1, <2>2, <2>3, <2>4, TextType
<1> QED
  BY <1>1, <1>2

\* What the properties say of a text and what it was parsed to.
ExactOf(t) ==
  (IF t.kind = "int" THEN 4 * t.num ELSE IF t.num > 0 THEN t.num ELSE 0)
    * Factor(t.unit)

IsAsWritten(t, b) ==
  b >= 0 =>
    /\ b \in 0 .. U64Max
    /\ t.kind = "int" /\ t.num <= U64Max => 4 * b = ExactOf(t)
    /\ 4 * b - ExactOf(t) \in Precision64(ExactOf(t))

LEMMA MantissaDiv ==
  ASSUME NEW n \in Nat
  PROVE  n \div Pow(2, Mantissa) \in Nat
<1>1. Pow(2, Mantissa) \in Nat \ {0}
  BY Sizes, PowPositive
<1> QED
  BY <1>1, DivMod

LEMMA AcceptedResult ==
  ASSUME NEW t \in Texts, NEW b \in Results(t)
  PROVE  IsAsWritten(t, b)
<1> SUFFICES ASSUME b >= 0
             PROVE  /\ b \in 0 .. U64Max
                    /\ t.kind = "int" /\ t.num <= U64Max => 4 * b = ExactOf(t)
                    /\ 4 * b - ExactOf(t) \in Precision64(ExactOf(t))
  BY DEF IsAsWritten
<1> DEFINE f == Factor(t.unit)
<1>0. b \in Nat /\ b # Err /\ U64Max \in Nat /\ f \in Nat \ {0} /\ t.num \in Int
  BY ResultsType, Sizes, TextType DEF Err
\* An exact result lies in the interval.
<1>1. ASSUME ExactOf(t) = 4 * b, b <= U64Max
      PROVE  b \in 0 .. U64Max /\ 4 * b - ExactOf(t) \in Precision64(ExactOf(t))
  <2> DEFINE x == ExactOf(t)
             g == x \div Pow(2, Mantissa)
  <2>1. x = 4 * b /\ x \in Nat
    BY <1>0, <1>1
  <2> HIDE DEF x
  <2>2. g \in Nat
    BY <2>1, MantissaDiv
  <2> HIDE DEF g
  <2>3. 4 * b - x \in -(2 + g) .. 2 + g
    BY <1>0, <2>1, <2>2
  <2> QED
    BY <1>0, <1>1, <2>3 DEF g, x, Precision64
<1>2. ASSUME t.kind = "int", b = t.num * f PROVE ExactOf(t) = 4 * b
  <2> DEFINE x == ExactOf(t)
  <2>1. x = (4 * t.num) * f
    BY <1>2 DEF ExactOf
  <2> HIDE DEF f, x
  <2>2. 4 * b = (4 * t.num) * f
    BY <1>0, <1>2
  <2> QED
    BY <2>1, <2>2 DEF x
<1>3. CASE t.unit = NoSuffix
  <2>1. t.kind = "int" /\ t.num <= U64Max /\ b = t.num
    BY <1>0, <1>3 DEF Results
  <2>2. f = 1
    BY <1>3, FactorType
  <2> HIDE DEF f
  <2>3. b = t.num * f /\ b <= U64Max
    BY <1>0, <2>1, <2>2
  <2> QED
    BY <1>1, <1>2, <2>1, <2>3 DEF f
<1>4. CASE t.unit # NoSuffix /\ t.kind = "int" /\ t.num <= U64Max
  <2>1. b \in CheckedMul(t.num, f) /\ t.num \in Nat
    BY <1>4, TextType, SmallIntegerResults
  <2> HIDE DEF f
  <2>2. b = t.num * f /\ b <= U64Max
    BY <1>0, <2>1, IntegerProduct
  <2> QED
    BY <1>1, <1>2, <1>4, <2>2 DEF f
<1>5. CASE t.unit # NoSuffix /\ t.kind = "int" /\ t.num > U64Max
  <2>1. b \in FloatMul(4 * t.num, f) /\ t.num \in Nat
    BY <1>0, <1>5, TextType DEF Results
  <2> QED
    BY <1>0, <1>5, <2>1, LargeIntegerRefused
<1>6. CASE t.unit # NoSuffix /\ t.kind = "float" /\ t.num > 0
  <2>1. b \in FloatMul(t.num, f) /\ t.num \in Nat \ {0}
    BY <1>0, <1>6 DEF Results
  <2> DEFINE x == t.num * f
             g == x \div Pow(2, Mantissa)
  <2>2. ExactOf(t) = x
    BY <1>6 DEF ExactOf
  <2> HIDE DEF f
  <2>3. b \in 0 .. U64Max /\ 4 * b <= x + (2 + g) /\ x - (2 + g) <= 4 * b
    BY <1>0, <2>1, FloatAccepted
  <2>4. x \in Nat
    BY <1>0, <2>1
  <2> HIDE DEF x
  <2>5. g \in Nat
    BY <2>4, MantissaDiv
  <2> HIDE DEF g
  <2>6. 4 * b - x \in -(2 + g) .. 2 + g
    BY <1>0, <2>3, <2>4, <2>5
  <2> QED
    BY <1>6, <2>2, <2>3, <2>6 DEF g, Precision64
\* Negative numbers and NaNs.
<1>7. CASE /\ t.unit # NoSuffix
           /\ \/ t.kind = "float" /\ ~(t.num > 0)
              \/ t.kind \in {"nan", "inf", "-inf"}
  <2>1. t.kind # "int" /\ ~(t.num > 0)
    BY <1>7, TextType
  <2>2. b = 0
    <3>1. CASE t.kind = "float"
      <4>1. b \in FloatMul(t.num, f) /\ t.num <= 0
        BY <1>0, <1>7, <2>1, <3>1 DEF Results
      <4> QED
        BY <4>1 DEF FloatMul
    <3>2. CASE t.kind \in {"nan", "inf", "-inf"}
      BY <1>0, <1>7, <3>2 DEF Results
    <3> QED
      BY <1>7, <3>1, <3>2
  <2>3. ExactOf(t) = 0 * f
    BY <2>1 DEF ExactOf
  <2> HIDE DEF f
  <2>4. 0 * f = 0
    BY <1>0
  <2> QED
    BY <1>0, <1>1, <2>1, <2>2, <2>3, <2>4
<1> QED
  BY <1>0, <1>3, <1>4, <1>5, <1>6, <1>7, TextType

\* The text that has a whole number of quarters as an integer.
AsInteger(t) == [t EXCEPT !.kind = "int", !.num = @ \div 4]

\* What is accepted of a fraction is far below what an integer may be.
LEMMA WholeFraction ==
  ASSUME NEW t \in Texts, t.kind = "float", t.num > 0, t.num % 4 = 0,
         NEW a \in Results(t), a >= 0,
         NEW b \in Results(AsInteger(t))
  PROVE  b \in Nat /\ ExactOf(t) = 4 * b
<1> DEFINE f == Factor(t.unit)
           n == t.num \div 4
<1>0. /\ t.num \in Nat \ {0} /\ f \in Nat \ {0} /\ U64Max \in Nat
      /\ Limit + Slack \in Nat /\ 2 * (Limit + Slack) <= U64Max
  BY TextType, Sizes, LimitType
<1>1. n \in Nat /\ t.num = 4 * n
  BY <1>0
<1>2. t.unit # NoSuffix /\ a \in FloatMul(t.num, f) /\ a # Err
  BY DEF Results, Err
<1>3. /\ AsInteger(t).kind = "int" /\ AsInteger(t).num = n
      /\ AsInteger(t).unit = t.unit
  BY DEF AsInteger, Texts
<1>4. ExactOf(t) = t.num * f
  BY DEF ExactOf
<1> DEFINE l == Limit + Slack
           p == n * f
<1> HIDE DEF f, n, l
<1>5. t.num * f <= 4 * l
  BY <1>0, <1>2, FloatAccepted DEF l
<1>6. t.num * f = 4 * p /\ p \in Nat
  BY <1>0, <1>1
<1>7. p <= U64Max
  <2> HIDE DEF p
  <2> QED
    BY <1>0, <1>5, <1>6 DEF l
<1>8. n <= U64Max
  <2>1. PICK k \in Nat : f = 1 + k
    <3>1. f - 1 \in Nat /\ f = 1 + (f - 1)
      BY <1>0
    <3> QED
      BY <3>1
  <2>2. p = n + n * k /\ n * k \in Nat
    BY <1>1, <2>1
  <2> HIDE DEF p
  <2> QED
    BY <1>0, <1>1, <1>7, <2>2
<1>9. b \in CheckedMul(n, f)
  <2>1. Results(AsInteger(t)) = CheckedMul(AsInteger(t).num, Factor(AsInteger(t).unit))
    BY <1>1, <1>2, <1>3, <1>8, SmallIntegerResults
  <2>2. CheckedMul(AsInteger(t).num, Factor(AsInteger(t).unit)) = CheckedMul(n, f)
    BY <1>3 DEF f
  <2> QED
    BY <2>1, <2>2
<1>10. n <= U64Max \div f
  <2> HIDE DEF p
  <2>1. n \in Int /\ U64Max \in Int /\ n * f <= U64Max
    BY <1>0, <1>1, <1>7 DEF p
  <2>2. n <= U64Max \div f <=> n * f <= U64Max
    BY <1>0, <2>1, DivBound
  <2> QED
    BY <2>1, <2>2
<1>11. b = p
  BY <1>9, <1>10 DEF CheckedMul
<1> QED
  BY <1>4, <1>6, <1>11 DEF f

-----------------------------------------------------------------------------
(* prettybytes() *)

LEMMA PowerType ==
  ASSUME NEW n \in Nat, NEW base \in Nat \ {0}
  PROVE  Power(n, base) \in 1 .. 6
<1> DEFINE p(e) == Pow(base, e)
           P(e) == (e = 1 \/ n >= p(e)) /\ (e = 6 \/ n < p(e + 1))
<1>1. \A e \in 1 .. 7 : p(e) \in Nat
  <2> SUFFICES ASSUME NEW e \in 1 .. 7 PROVE Pow(base, e) \in Nat
    OBVIOUS
  <2>1. e \in Nat
    OBVIOUS
  <2> QED
    BY <2>1, PowPositive
<1> HIDE DEF p
<1>2. \E e \in 1 .. 6 : P(e)
  <2>1. CASE n < p(2)
    BY <2>1
  <2>2. CASE n >= p(2) /\ n < p(3)
    BY <2>2
  <2>3. CASE n >= p(3) /\ n < p(4)
    BY <2>3
  <2>4. CASE n >= p(4) /\ n < p(5)
    BY <2>4
  <2>5. CASE n >= p(5) /\ n < p(6)
    BY <2>5
  <2>6. CASE n >= p(6)
    BY <2>6
  <2> QED
    BY <1>1, <2>1, <2>2, <2>3, <2>4, <2>5, <2>6
<1> HIDE DEF P
<1>3. (CHOOSE e \in 1 .. 6 : P(e)) \in 1 .. 6
  BY <1>2
<1> QED
  BY <1>3 DEF Power, P, p

\* The error of rounding to a digit behind the point, when the division drops
\* its rest r first: u is what was divided by, v the power that is left.
LEMMA RoundedClose ==
  ASSUME NEW u \in Nat \ {0}, NEW v \in Nat \ {0}, NEW d \in Nat \ {0},
         NEW x \in Nat, NEW r \in 0 .. u - 1, NEW k \in Int,
         2 * d <= v,
         2 * (k * v - x * d) <= v, -v <= 2 * (k * v - x * d)
  PROVE  /\ k * (u * v) - (x * u + r) * d <= u * v - 1
         /\ 1 - u * v <= k * (u * v) - (x * u + r) * d
<1> DEFINE y == k * v - x * d
           w == u * v
           z == u * y
           s == r * d
           t == u * d
<1>1. y \in Int /\ w \in Nat \ {0} /\ z \in Int /\ s \in Nat /\ t \in Nat
  OBVIOUS
<1>2. k * w - (x * u + r) * d = z - s
  <2>1. z = u * (k * v) - u * (x * d) /\ u * (k * v) = k * w /\ u * (x * d) = (x * u) * d
    OBVIOUS
  <2>2. (x * u + r) * d = (x * u) * d + s
    OBVIOUS
  <2> DEFINE a == k * w
             b == (x * u) * d
             c == (x * u + r) * d
  <2>3. a \in Int /\ b \in Int /\ c \in Int /\ z = a - b /\ c = b + s
    BY <2>1, <2>2
  <2> HIDE DEF a, b, c, z, s
  <2>4. a - c = z - s
    BY <1>1, <2>3
  <2> QED
    BY <2>4 DEF a, c
<1>3. 2 * z <= w /\ -w <= 2 * z
  <2>1. \A i \in Nat, j \in Nat, n \in Nat : i <= j => n * i <= n * j
    <3> SUFFICES ASSUME NEW i \in Nat, NEW j \in Nat, NEW n \in Nat, i <= j
                 PROVE  n * i <= n * j
      OBVIOUS
    <3>1. PICK e \in Nat : j = i + e
      <4>1. j - i \in Nat /\ j = i + (j - i)
        OBVIOUS
      <4> QED
        BY <4>1
    <3>2. n * j = n * i + n * e /\ n * e \in Nat /\ n * i \in Nat
      BY <3>1
    <3> QED
      BY <3>2
  <2> HIDE DEF y
  <2>2. v - 2 * y \in Nat /\ v + 2 * y \in Nat
    BY <1>1 DEF y
  <2>3. u * (v - 2 * y) = w - 2 * z /\ u * (v + 2 * y) = w + 2 * z
    BY <1>1
  <2>4. u * (v - 2 * y) \in Nat /\ u * (v + 2 * y) \in Nat
    <3> DEFINE i == v - 2 * y
               j == v + 2 * y
    <3> HIDE DEF i, j
    <3>1. u * i \in Nat /\ u * j \in Nat
      BY <2>2 DEF i, j
    <3> QED
      BY <3>1 DEF i, j
  <2> HIDE DEF w, z
  <2> QED
    BY <1>1, <2>3, <2>4
<1>4. 2 * t <= w
  <2>1. PICK e \in Nat : v = 2 * d + e
    <3>1. v - 2 * d \in Nat /\ v = 2 * d + (v - 2 * d)
      OBVIOUS
    <3> QED
      BY <3>1
  <2>2. w = 2 * t + u * e /\ u * e \in Nat
    BY <2>1
  <2> HIDE DEF w, t
  <2> QED
    BY <1>1, <2>2
<1>5. s + d <= t
  <2>1. PICK e \in Nat : u = (r + 1) + e
    <3>1. u - (r + 1) \in Nat /\ u = (r + 1) + (u - (r + 1))
      OBVIOUS
    <3> QED
      BY <3>1
  <2>2. t = s + d + e * d /\ e * d \in Nat
    BY <2>1
  <2> HIDE DEF s, t
  <2> QED
    BY <1>1, <2>2
<1>6. w >= 2
  BY <1>1, <1>4, <1>5
<1> HIDE DEF w, z, s, t
<1>7. z - s <= w - 1 /\ 1 - w <= z - s
  BY <1>1, <1>3, <1>4, <1>5, <1>6
<1> QED
  BY <1>2, <1>7 DEF w

\* What the properties say of a number that is printed.
IsClose(base, e, k, n) ==
  k * Pow(base, e) - n * Precision(e) \in -(Pow(base, e) - 1) .. Pow(base, e) - 1

\* What is printed for a fraction x / v.
LEMMA NearestBound ==
  ASSUME NEW x \in Nat, NEW v \in Nat \ {0}, NEW d \in Nat, NEW k \in Nearest(<<x, v>>, d)
  PROVE  k \in Int /\ 2 * (k * v - x * d) <= v /\ -v <= 2 * (k * v - x * d)
<1> DEFINE q == (x * d) \div v
           y == 2 * (k * v - x * d)
<1>1. k \in {q, q + 1} /\ y \in -v .. v
  BY DEF Nearest
<1>2. q \in Int
  <2> DEFINE n == x * d
  <2>1. n \in Int
    OBVIOUS
  <2> HIDE DEF n
  <2> QED
    BY <2>1
<1> HIDE DEF q, y
<1>3. k \in Int /\ y <= v /\ -v <= y
  BY <1>1, <1>2
<1> QED
  BY <1>3 DEF y

LEMMA ScaledClose ==
  ASSUME NEW base \in Nat \ {0}, NEW n \in Nat, NEW e \in 1 .. 6, NEW k,
         k \in Nearest(Scaled(n, base, e), Precision(e)),
         NEW u \in Nat \ {0}, NEW v \in Nat \ {0},
         Scaled(n, base, e) = <<n \div u, v>>, Pow(base, e) = u * v,
         Precision(e) \in Nat \ {0}, 2 * Precision(e) <= v
  PROVE  IsClose(base, e, k, n)
<1> DEFINE x == n \div u
           r == n % u
           d == Precision(e)
<1>1. x \in Nat /\ r \in 0 .. u - 1 /\ n = x * u + r /\ u * v \in Nat \ {0}
  BY DivMod
<1>2. d \in Nat \ {0} /\ 2 * d <= v /\ k \in Nearest(<<x, v>>, d)
  OBVIOUS
<1> HIDE DEF x, r, d
<1>3. k \in Int /\ 2 * (k * v - x * d) <= v /\ -v <= 2 * (k * v - x * d)
  BY <1>1, <1>2, NearestBound
<1>4. /\ k * (u * v) - (x * u + r) * d <= u * v - 1
      /\ 1 - u * v <= k * (u * v) - (x * u + r) * d
  BY <1>1, <1>2, <1>3, RoundedClose
<1> DEFINE w == u * v
           y == k * w - n * d
<1>5. y \in Int /\ w \in Nat
  BY <1>1, <1>2, <1>3
<1>6. y <= w - 1 /\ 1 - w <= y
  BY <1>1, <1>4
<1> HIDE DEF w, y
<1>7. y \in -(w - 1) .. w - 1
  BY <1>5, <1>6
<1> QED
  BY <1>7 DEF IsClose, w, y, d

LEMMA ShowClose ==
  ASSUME NEW base \in {Kib, Kilo}, NEW n \in Nat, NEW e \in 1 .. 6, NEW k,
         k \in Nearest(Scaled(n, base, e), Precision(e))
  PROVE  IsClose(base, e, k, n)
<1>0. /\ base \in Nat \ {0} /\ 2 * Tenths <= base /\ 2 * Hundredths <= base
      /\ Tenths \in Nat \ {0} /\ Hundredths \in Nat \ {0} /\ TenThousandths \in Nat \ {0}
  BY Sizes
<1>1. Pow(base, 1) = base
  <2>1. base \in Nat /\ 0 \in Nat /\ 0 + 1 = 1
    BY <1>0
  <2>2. Pow(base, 0) = 1 /\ Pow(base, 0 + 1) = base * Pow(base, 0)
    BY <2>1, PowDef
  <2> QED
    BY <2>1, <2>2
<1>2. \A i \in 1 .. 6 : Pow(base, i) \in Nat \ {0} /\ base <= Pow(base, i)
  <2> SUFFICES ASSUME NEW i \in 1 .. 6
               PROVE  Pow(base, i) \in Nat \ {0} /\ base <= Pow(base, i)
    OBVIOUS
  <2>1. 1 \in Nat /\ i \in Nat /\ 1 <= i
    OBVIOUS
  <2>2. Pow(base, i) \in Nat \ {0} /\ Pow(base, 1) <= Pow(base, i)
    BY <1>0, <2>1, PowPositive, PowMonotone
  <2> QED
    BY <1>1, <2>2
<1>3. 2 * TenThousandths <= Pow(base, 2)
  <2>1. CASE base = Kilo
    BY <2>1, Sizes
  <2>2. CASE base = Kib
    <3> DEFINE z == Kilo * Kilo
    <3>1. Pow(Kilo, 2) = Kilo * Kilo /\ Pow(Kib, 2) = Kib * Kib
      <4>1. \A b \in Nat : Pow(b, 2) = b * b
        <5> SUFFICES ASSUME NEW b \in Nat PROVE Pow(b, 2) = b * b
          OBVIOUS
        <5>1. Pow(b, 0) = 1 /\ Pow(b, 0 + 1) = b * Pow(b, 0)
              /\ Pow(b, 1 + 1) = b * Pow(b, 1)
          <6>1. 0 \in Nat /\ 1 \in Nat
            OBVIOUS
          <6> QED
            BY <6>1, PowDef
        <5> QED
          BY <5>1
      <4> QED
        BY <4>1, Sizes
    <3>2. PICK i \in Nat : Kib = Kilo + i
      <4>1. Kib - Kilo \in Nat /\ Kib = Kilo + (Kib - Kilo)
        BY Sizes
      <4> QED
        BY <4>1
    <3>3. Kib * Kib = z + (Kilo * i + i * Kilo + i * i)
          /\ Kilo * i + i * Kilo + i * i \in Nat /\ z \in Nat
      BY <3>2, Sizes
    <3> DEFINE y == Kilo * i + i * Kilo + i * i
    <3> HIDE DEF z, y
    <3>4. 2 * TenThousandths <= z /\ Pow(base, 2) = z + y /\ y \in Nat /\ z \in Nat
      BY <2>2, <3>1, <3>3, Sizes DEF z, y
    <3> QED
      BY <1>0, <3>4
  <2> QED
    BY <2>1, <2>2
<1>4. CASE e <= 2
  <2>1. Scaled(n, base, e) = <<n, Pow(base, e)>> /\ Precision(e) = Tenths
    BY <1>4 DEF Scaled, Precision
  <2> DEFINE v == Pow(base, e)
  <2>2. v \in Nat \ {0} /\ 2 * Tenths <= v
    BY <1>0, <1>2
  <2> HIDE DEF v
  <2>3. n \div 1 = n /\ v = 1 * v /\ 1 \in Nat \ {0}
    BY <2>2
  <2>4. Scaled(n, base, e) = <<n \div 1, v>> /\ Pow(base, e) = 1 * v
    BY <2>1, <2>3 DEF v
  <2>5. Precision(e) \in Nat \ {0} /\ 2 * Precision(e) <= v
    BY <1>0, <2>1, <2>2
  <2> QED
    BY <1>0, <2>2, <2>3, <2>4, <2>5, ScaledClose
<1>5. CASE e = 3
  <2> DEFINE u == Pow(base, 2)
  <2>1. Scaled(n, base, e) = <<n \div u, base>> /\ Precision(e) = Hundredths
    BY <1>5 DEF Scaled, Precision
  <2>2. u \in Nat \ {0}
    BY <1>2
  <2>3. Pow(base, e) = u * base
    <3>1. 2 \in Nat /\ 2 + 1 = 3
      OBVIOUS
    <3>2. Pow(base, 2 + 1) = base * u
      BY <1>0, <3>1, PowDef
    <3> HIDE DEF u
    <3> QED
      BY <1>0, <1>5, <2>2, <3>1, <3>2
  <2>4. Precision(e) \in Nat \ {0} /\ 2 * Precision(e) <= base
    BY <1>0, <2>1
  <2> HIDE DEF u
  <2> QED
    BY <1>0, <2>1, <2>2, <2>3, <2>4, ScaledClose
<1>6. CASE e >= 4
  <2> DEFINE j == e - 2
             u == Pow(base, j)
             v == Pow(base, 2)
  <2>1. Scaled(n, base, e) = <<n \div u, v>> /\ Precision(e) = TenThousandths
    BY <1>6 DEF Scaled, Precision
  <2>2. v \in Nat \ {0} /\ 2 * TenThousandths <= v
    BY <1>2, <1>3
  <2>3. j \in Nat /\ e = j + 2 /\ j \in 1 .. 6 /\ 2 \in Nat
    BY <1>6
  <2> HIDE DEF j
  <2>4. u \in Nat \ {0}
    BY <1>2, <2>3
  <2>5. Pow(base, e) = u * v
    BY <1>0, <2>3, PowSum
  <2>6. Precision(e) \in Nat \ {0} /\ 2 * Precision(e) <= v
    BY <1>0, <2>1, <2>2
  <2> HIDE DEF u, v
  <2> QED
    BY <1>0, <2>1, <2>2, <2>4, <2>5, <2>6, ScaledClose
<1> QED
  BY <1>4, <1>5, <1>6

-----------------------------------------------------------------------------
(* The invariant and the results *)

\* What is stored is a result for the text, and nothing is printed before.
ByteCountInv ==
  /\ text \in Texts
  /\ bytes = NotParsed \/ bytes \in Results(text)
  /\ bytes = NotParsed => shown = NotShown
  /\ ShownIsClose

LEMMA ByteCountInvariant == Spec => []ByteCountInv
<1>1. Init => ByteCountInv
  BY DEF Init, ByteCountInv, ShownIsClose
<1>2. ASSUME ByteCountInv, [Next]_vars PROVE ByteCountInv'
  <2>1. CASE Parse
    <3>1. text' = text /\ shown' = NotShown /\ bytes' \in Results(text)
      BY <1>2, <2>1 DEF Parse, ByteCountInv
    <3> QED
      BY <1>2, <3>1 DEF ByteCountInv, ShownIsClose, NotShown
  <2>2. ASSUME NEW base \in {Kib, Kilo}, Show(base) PROVE ByteCountInv'
    <3> DEFINE e == Power(bytes, base)
    <3>1. bytes \in Nat /\ bytes # NotParsed
      <4>1. bytes >= Kib /\ Kib \in Nat
        BY <2>2, Sizes DEF Show
      <4>2. bytes \in Int
        BY <1>2, ResultsType DEF ByteCountInv, NotParsed
      <4> QED
        BY <4>1, <4>2 DEF NotParsed
    <3>2. base \in Nat \ {0}
      BY Sizes
    <3>3. e \in 1 .. 6
      BY <3>1, <3>2, PowerType
    <3>4. PICK k \in Nearest(Scaled(bytes, base, e), Precision(e)) :
            shown' = [base |-> base, exp |-> e, num |-> k]
      BY <2>2 DEF Show
    <3>5. text' = text /\ bytes' = bytes
      BY <2>2 DEF Show
    <3> HIDE DEF e
    <3>6. IsClose(base, e, k, bytes)
      BY <3>1, <3>3, <3>4, ShowClose
    <3>7. ShownIsClose'
      BY <3>4, <3>5, <3>6 DEF ShownIsClose, IsClose
    <3> QED
      BY <1>2, <3>1, <3>5, <3>7 DEF ByteCountInv
  <2>3. CASE UNCHANGED vars
    BY <1>2, <2>3 DEF vars, ByteCountInv, ShownIsClose
  <2> QED
    BY <1>2, <2>1, <2>2, <2>3 DEF Next
<1> QED
  BY <1>1, <1>2, PTL DEF Spec

\* What is accepted is what was written, up to the precision of an f64 and never
\* beyond a u64, for every text and every unit.
THEOREM AcceptedAsWrittenHolds == Spec => []AcceptedAsWritten
<1>1. ASSUME ByteCountInv PROVE AcceptedAsWritten
  <2> SUFFICES ASSUME bytes >= 0 PROVE AcceptedAsWritten
    BY DEF AcceptedAsWritten
  <2>1. text \in Texts /\ bytes \in Results(text)
    BY <1>1 DEF ByteCountInv, NotParsed
  <2>2. IsAsWritten(text, bytes) /\ ExactOf(text) = Exact
    BY <2>1, AcceptedResult DEF ExactOf, Exact
  <2> QED
    BY <2>2 DEF IsAsWritten, AcceptedAsWritten
<1> QED
  BY ByteCountInvariant, <1>1, PTL

\* A whole number that is accepted as a fraction is accepted as an integer and
\* gives the same byte count up to the precision of an f64, for every unit: the
\* bound on the sum of the logarithms is never looser than the checked product.
THEOREM FractionIsIntegerHolds == Spec => []FractionIsInteger
<1>1. ASSUME ByteCountInv PROVE FractionIsInteger
  <2> SUFFICES ASSUME bytes >= 0, text.kind = "float", text.num > 0, text.num % 4 = 0,
                      NEW b \in Results(AsInteger(text))
               PROVE  b >= 0 /\ 4 * (bytes - b) \in Precision64(4 * b)
    BY DEF FractionIsInteger, AsInteger
  <2>1. text \in Texts /\ bytes \in Results(text)
    BY <1>1 DEF ByteCountInv, NotParsed
  <2>2. b \in Nat /\ ExactOf(text) = 4 * b
    BY <2>1, WholeFraction
  <2>3. bytes \in Int /\ 4 * bytes - ExactOf(text) \in Precision64(ExactOf(text))
    BY <2>1, AcceptedResult, ResultsType DEF IsAsWritten
  <2>4. 4 * (bytes - b) = 4 * bytes - 4 * b
    BY <2>2, <2>3
  <2>5. 4 * (bytes - b) \in Precision64(4 * b)
    BY <2>2, <2>3, <2>4
  <2> QED
    BY <2>2, <2>5
<1> QED
  BY ByteCountInvariant, <1>1, PTL

\* What is printed is off by less than its last digit, for every count and both
\* bases of the units.
THEOREM ShownIsCloseHolds == Spec => []ShownIsClose
BY ByteCountInvariant, PTL DEF ByteCountInv
=============================================================================
