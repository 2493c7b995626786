---------------------------- MODULE NumberFacts ----------------------------
(***************************************************************************)
(* Facts on numbers that the provers do not find by themselves: quotients  *)
(* and remainders, induction, functions that are defined step by step, the *)
(* powers and the exclusive or of Numbers.                                 *)
(*                                                                         *)
(* Induction is on a set of numbers and follows from the well-founded      *)
(* order of Nat.  A recursive function is CHOSEn, so it first has to be    *)
(* shown that there is one: Recursion builds it from its finite parts.     *)
(***************************************************************************)
EXTENDS Numbers, WellFoundedInduction, TLAPS

-----------------------------------------------------------------------------
(* Quotients and remainders *)

LEMMA DivMod ==
  ASSUME NEW g \in Nat, NEW n \in Int, n > 0
  PROVE  g \div n \in Nat /\ g % n \in 0 .. n - 1 /\ g = (g \div n) * n + (g % n)
<1>1. g = n * (g \div n) + (g % n)
  OBVIOUS
<1>2. g \div n \in Int /\ g % n \in 0 .. n - 1
  OBVIOUS
<1>3. g \div n >= 0
  <2> DEFINE p == g \div n
             s == g % n
  <2>1. p \in Int /\ s < n /\ s \in Int /\ g = n * p + s
    BY <1>1, <1>2
  <2> HIDE DEF p, s
  <2>2. CASE p < 0
    <3>1. PICK d \in Nat : p = -1 - d
      <4>1. -1 - p \in Nat /\ p = -1 - (-1 - p)
        BY <2>1, <2>2
      <4> QED
        BY <4>1
    <3>2. n * p = -n - n * d /\ n * d >= 0
      BY <3>1
    <3>3. g < 0
      BY <2>1, <3>2
    <3> QED
      BY <3>3
  <2>3. p >= 0
    BY <2>1, <2>2
  <2> QED
    BY <2>3 DEF p
<1>4. n * (g \div n) = (g \div n) * n
  BY <1>2
<1> QED
  BY <1>1, <1>2, <1>3, <1>4

\* The quotient and the remainder are the only numbers that do this.
LEMMA DivModUnique ==
  ASSUME NEW n \in Int, n > 0, NEW q \in Nat, NEW r \in 0 .. n - 1
  PROVE  (q * n + r) \div n = q /\ (q * n + r) % n = r
<1> DEFINE g == q * n + r
           p == g \div n
           s == g % n
<1>0. q * n \in Nat
  OBVIOUS
<1>1. g \in Nat /\ p \in Nat /\ s \in 0 .. n - 1 /\ g = p * n + s
  BY <1>0, DivMod
<1> HIDE DEF p, s
<1>2. ~ (p < q)
  <2> SUFFICES ASSUME p < q PROVE FALSE
    OBVIOUS
  <2>1. PICK d \in Nat : q = p + 1 + d
    <3>1. q - p - 1 \in Nat /\ q = p + 1 + (q - p - 1)
      BY <1>1
    <3> QED
      BY <3>1
  <2>2. q * n = p * n + n + d * n /\ d * n >= 0
    BY <1>1, <2>1
  <2> QED
    BY <1>1, <2>2
<1>3. ~ (q < p)
  <2> SUFFICES ASSUME q < p PROVE FALSE
    OBVIOUS
  <2>1. PICK d \in Nat : p = q + 1 + d
    <3>1. p - q - 1 \in Nat /\ p = q + 1 + (p - q - 1)
      BY <1>1
    <3> QED
      BY <3>1
  <2>2. p * n = q * n + n + d * n /\ d * n >= 0
    BY <1>1, <2>1
  <2> QED
    BY <1>1, <2>2
<1>4. p = q
  BY <1>1, <1>2, <1>3
<1>5. s = r
  BY <1>1, <1>4
<1> QED
  BY <1>4, <1>5 DEF p, s

LEMMA DivModMultiple ==
  ASSUME NEW n \in Int, n > 0, NEW q \in Nat
  PROVE  (q * n) \div n = q /\ (q * n) % n = 0
<1>1. 0 \in 0 .. n - 1 /\ q * n + 0 = q * n
  OBVIOUS
<1> QED
  BY <1>1, DivModUnique

\* Counting on by one.
LEMMA DivModSucc ==
  ASSUME NEW g \in Nat, NEW n \in Int, n > 0
  PROVE  /\ (g % n) + 1 < n => /\ (g + 1) \div n = g \div n
                               /\ (g + 1) % n = (g % n) + 1
         /\ (g % n) + 1 = n => /\ (g + 1) \div n = (g \div n) + 1
                               /\ (g + 1) % n = 0
         /\ ((g % n) + 1) % n = (g + 1) % n
<1> DEFINE q == g \div n
           r == g % n
<1>1. q \in Nat /\ r \in 0 .. n - 1 /\ g = q * n + r
  BY DivMod
<1> HIDE DEF q, r
<1>2. CASE r + 1 < n
  <2>1. g + 1 = q * n + (r + 1) /\ r + 1 \in 0 .. n - 1
    BY <1>1, <1>2
  <2>2. (g + 1) \div n = q /\ (g + 1) % n = r + 1
    BY <1>1, <2>1, DivModUnique
  <2>3. (r + 1) % n = r + 1
    <3>1. 0 * n + (r + 1) = r + 1
      BY <1>1
    <3> QED
      BY <2>1, <3>1, DivModUnique
  <2> QED
    BY <1>2, <2>2, <2>3 DEF q, r
<1>3. CASE r + 1 = n
  <2>1. g + 1 = (q + 1) * n
    BY <1>1, <1>3
  <2>2. (g + 1) \div n = q + 1 /\ (g + 1) % n = 0
    BY <1>1, <2>1, DivModMultiple
  <2>3. n % n = 0
    <3>1. 1 * n = n
      OBVIOUS
    <3> QED
      BY <3>1, DivModMultiple
  <2> QED
    BY <1>3, <2>2, <2>3 DEF q, r
<1> QED
  BY <1>1, <1>2, <1>3 DEF q, r

-----------------------------------------------------------------------------
(* Induction and recursion *)

\* A set of natural numbers that is not empty has a least element.
LEMMA Least ==
  ASSUME NEW T, T \subseteq Nat, T # {}
  PROVE  \E x \in T : \A y \in T : x <= y
<1> DEFINE Less == {ss \in Nat \X Nat : ss[1] < ss[2]}
<1>1. IsWellFoundedOn(Less, Nat)
  BY NatLessThanWellFounded DEF OpToRel
<1> HIDE DEF Less
<1>2. PICK x \in T : \A y \in T : ~ (<<y, x>> \in Less)
  BY <1>1, WFMin
<1>3. \A y \in T : x <= y
  <2> TAKE y \in T
  <2>1. x \in Nat /\ y \in Nat /\ ~(y < x)
    BY <1>2 DEF Less
  <2> QED
    BY <2>1
<1> QED
  BY <1>3

\* Induction: the set that is shown to hold all natural numbers stands for the
\* predicate.
LEMMA Induction ==
  ASSUME NEW S, 0 \in S, \A n \in Nat : n \in S => n + 1 \in S
  PROVE  \A n \in Nat : n \in S
<1> SUFFICES ASSUME NEW k \in Nat, k \notin S PROVE FALSE
  OBVIOUS
<1> DEFINE T == Nat \ S
<1>1. T \subseteq Nat /\ T # {}
  OBVIOUS
<1> HIDE DEF T
<1>2. PICK x \in T : \A y \in T : x <= y
  BY <1>1, Least
<1>3. x # 0 /\ x - 1 \in Nat /\ x \in Nat /\ x \notin S
  BY <1>1 DEF T
<1>4. x - 1 \in S
  BY <1>2, <1>3 DEF T
<1>5. (x - 1) + 1 = x
  BY <1>3
<1> QED
  BY <1>3, <1>4, <1>5

\* A function that is defined step by step from 0 on.
StepsTo(g, n, S, x, f) ==
  /\ g \in [0 .. n -> S] /\ g[0] = x
  /\ \A i \in 0 .. n - 1 : g[i + 1] = f[<<i, g[i]>>]

LEMMA StepsUnique ==
  ASSUME NEW S, NEW x, NEW f, NEW m \in Nat, NEW n \in Nat, NEW g, NEW h,
         StepsTo(g, m, S, x, f), StepsTo(h, n, S, x, f)
  PROVE  \A i \in 0 .. m : i <= n => g[i] = h[i]
<1> DEFINE T == {i \in Nat : i <= m /\ i <= n => g[i] = h[i]}
<1>1. 0 \in T
  BY DEF StepsTo
<1>2. ASSUME NEW i \in Nat, i \in T PROVE i + 1 \in T
  <2> SUFFICES ASSUME i + 1 <= m, i + 1 <= n PROVE g[i + 1] = h[i + 1]
    OBVIOUS
  <2>1. g[i] = h[i] /\ i \in 0 .. m - 1 /\ i \in 0 .. n - 1
    BY <1>2
  <2> QED
    BY <2>1 DEF StepsTo
<1> HIDE DEF T
<1>3. \A i \in Nat : i \in T
  BY <1>1, <1>2, Induction
<1> QED
  BY <1>3 DEF T

LEMMA StepsExist ==
  ASSUME NEW S, NEW x \in S, NEW f \in [Nat \X S -> S], NEW n \in Nat
  PROVE  \E g : StepsTo(g, n, S, x, f)
<1> DEFINE T == {i \in Nat : \E g : StepsTo(g, i, S, x, f)}
<1>1. 0 \in T
  <2> DEFINE g == [i \in 0 .. 0 |-> x]
  <2>1. StepsTo(g, 0, S, x, f)
    BY DEF StepsTo
  <2> QED
    BY <2>1
<1>2. ASSUME NEW i \in Nat, i \in T PROVE i + 1 \in T
  <2>1. PICK g : StepsTo(g, i, S, x, f)
    BY <1>2
  <2> DEFINE h == [j \in 0 .. i + 1 |-> IF j <= i THEN g[j] ELSE f[<<i, g[i]>>]]
  <2>2. g[i] \in S /\ f[<<i, g[i]>>] \in S
    BY <2>1 DEF StepsTo
  <2>3. h \in [0 .. i + 1 -> S]
    BY <2>1, <2>2 DEF StepsTo
  <2>4. ASSUME NEW j \in 0 .. i PROVE h[j + 1] = f[<<j, h[j]>>]
    <3>1. h[j] = g[j]
      OBVIOUS
    <3>2. CASE j = i
      <4>1. h[i + 1] = f[<<i, g[i]>>]
        OBVIOUS
      <4> QED
        BY <3>1, <3>2, <4>1
    <3>3. CASE j < i
      <4>1. h[j + 1] = g[j + 1]
        BY <3>3
      <4> QED
        BY <2>1, <3>1, <3>3, <4>1 DEF StepsTo
    <3> QED
      BY <3>2, <3>3
  <2>5. h[0] = x
    BY <2>1 DEF StepsTo
  <2> HIDE DEF h
  <2>6. \A j \in 0 .. (i + 1) - 1 : h[j + 1] = f[<<j, h[j]>>]
    BY <2>4
  <2>7. StepsTo(h, i + 1, S, x, f)
    BY <2>3, <2>5, <2>6 DEF StepsTo
  <2> QED
    BY <2>7
<1> HIDE DEF T
<1>3. \A i \in Nat : i \in T
  BY <1>1, <1>2, Induction
<1> QED
  BY <1>3 DEF T

\* Recursion from 0 on gives a function.
Recurses(g, S, x, f) ==
  /\ g \in [Nat -> S] /\ g[0] = x
  /\ \A n \in Nat : g[n + 1] = f[<<n, g[n]>>]

LEMMA Recursion ==
  ASSUME NEW S, NEW x \in S, NEW f \in [Nat \X S -> S]
  PROVE  \E g : Recurses(g, S, x, f)
<1> DEFINE G(n) == CHOOSE g : StepsTo(g, n, S, x, f)
           g == [n \in Nat |-> G(n)[n]]
<1>1. \A n \in Nat : StepsTo(G(n), n, S, x, f)
  BY StepsExist
<1> HIDE DEF G
<1>2. g \in [Nat -> S] /\ g[0] = x
  BY <1>1 DEF StepsTo
<1>3. ASSUME NEW n \in Nat PROVE g[n + 1] = f[<<n, g[n]>>]
  <2>1. G(n + 1)[n] = G(n)[n]
    BY <1>1, StepsUnique
  <2>2. G(n + 1)[n + 1] = f[<<n, G(n + 1)[n]>>]
    BY <1>1 DEF StepsTo
  <2> QED
    BY <2>1, <2>2
<1> HIDE DEF g
<1>4. Recurses(g, S, x, f)
  BY <1>2, <1>3 DEF Recurses
<1> QED
  BY <1>4

-----------------------------------------------------------------------------
(* Powers *)

LEMMA PowSteps ==
  ASSUME NEW b \in Nat
  PROVE  \E g \in [Nat -> Nat] : g[0] = 1 /\ \A n \in Nat : g[n + 1] = b * g[n]
<1> DEFINE f == [z \in Nat \X Nat |-> b * z[2]]
<1>1. f \in [Nat \X Nat -> Nat] /\ 1 \in Nat
  OBVIOUS
<1>2. \A n, v \in Nat : f[<<n, v>>] = b * v
  OBVIOUS
<1> HIDE DEF f
<1>3. PICK g : Recurses(g, Nat, 1, f)
  BY <1>1, Recursion
<1>4. \A n \in Nat : g[n + 1] = b * g[n]
  BY <1>2, <1>3 DEF Recurses
<1> QED
  BY <1>3, <1>4 DEF Recurses

\* The recursive function of Pow exists, so it does what it says.
LEMMA PowDef ==
  ASSUME NEW b \in Nat
  PROVE  /\ Pow(b, 0) = 1
         /\ \A n \in Nat : Pow(b, n) \in Nat /\ Pow(b, n + 1) = b * Pow(b, n)
<1> DEFINE P(p) == p = [i \in Nat |-> IF i = 0 THEN 1 ELSE b * p[i - 1]]
<1>2. PICK g \in [Nat -> Nat] : g[0] = 1 /\ \A n \in Nat : g[n + 1] = b * g[n]
  BY PowSteps
<1>3. P(g)
  <2>2. \A i \in Nat : g[i] = IF i = 0 THEN 1 ELSE b * g[i - 1]
    <3> TAKE i \in Nat
    <3>1. CASE i = 0
      BY <1>2, <3>1
    <3>2. CASE i # 0
      <4>1. i - 1 \in Nat /\ (i - 1) + 1 = i
        BY <3>2
      <4> QED
        BY <1>2, <3>2, <4>1
    <3> QED
      BY <3>1, <3>2
  <2> QED
    BY <2>2
<1> DEFINE p == CHOOSE p : P(p)
<1>4. P(p)
  BY <1>3
<1>5. \A n \in Nat : Pow(b, n) = p[n]
  BY DEF Pow
<1> HIDE DEF p
<1>6. p = [i \in Nat |-> IF i = 0 THEN 1 ELSE b * p[i - 1]]
  BY <1>4
<1> HIDE DEF P
<1>7. p[0] = 1 /\ \A n \in Nat : p[n + 1] = b * p[n]
  BY <1>6
<1> DEFINE T == {n \in Nat : p[n] \in Nat}
<1>8. \A n \in Nat : n \in T
  <2>1. 0 \in T /\ \A n \in Nat : n \in T => n + 1 \in T
    BY <1>7
  <2> HIDE DEF T
  <2> QED
    BY <2>1, Induction
<1> QED
  BY <1>5, <1>7, <1>8

LEMMA PowPositive ==
  ASSUME NEW b \in Nat \ {0}, NEW n \in Nat
  PROVE  Pow(b, n) \in Nat \ {0}
<1> DEFINE T == {i \in Nat : Pow(b, i) # 0}
<1>1. 0 \in T
  BY PowDef
<1>2. ASSUME NEW i \in Nat, i \in T PROVE i + 1 \in T
  <2> DEFINE p == Pow(b, i)
  <2>1. p \in Nat /\ p # 0 /\ Pow(b, i + 1) = b * p
    BY <1>2, PowDef
  <2> HIDE DEF p
  <2>2. b * p # 0
    BY <2>1
  <2> QED
    BY <2>1, <2>2
<1> HIDE DEF T
<1>3. \A i \in Nat : i \in T
  BY <1>1, <1>2, Induction
<1> QED
  BY <1>3, PowDef DEF T

\* The exponents of a product add up.
LEMMA PowSum ==
  ASSUME NEW b \in Nat, NEW m \in Nat, NEW n \in Nat
  PROVE  Pow(b, m + n) = Pow(b, m) * Pow(b, n)
<1> DEFINE T == {i \in Nat : Pow(b, m + i) = Pow(b, m) * Pow(b, i)}
<1>1. 0 \in T
  BY PowDef
<1>2. ASSUME NEW i \in Nat, i \in T PROVE i + 1 \in T
  <2> DEFINE p == Pow(b, m)
             q == Pow(b, i)
  <2>1. Pow(b, m + (i + 1)) = b * Pow(b, m + i)
    <3>1. m + (i + 1) = (m + i) + 1 /\ m + i \in Nat
      OBVIOUS
    <3> QED
      BY <3>1, PowDef
  <2>2. Pow(b, i + 1) = b * q /\ p \in Nat /\ q \in Nat /\ Pow(b, m + i) = p * q
    BY <1>2, PowDef
  <2> HIDE DEF p, q
  <2>3. b * (p * q) = p * (b * q)
    BY <2>2
  <2>4. Pow(b, m + (i + 1)) = p * Pow(b, i + 1)
    BY <2>1, <2>2, <2>3
  <2> QED
    BY <2>4 DEF p
<1> HIDE DEF T
<1>3. \A i \in Nat : i \in T
  BY <1>1, <1>2, Induction
<1> QED
  BY <1>3 DEF T

LEMMA PowMonotone ==
  ASSUME NEW b \in Nat \ {0}, NEW m \in Nat, NEW n \in Nat, m <= n
  PROVE  Pow(b, m) <= Pow(b, n)
<1> DEFINE p == Pow(b, m)
           q == Pow(b, n - m)
<1>1. p \in Nat /\ q \in Nat /\ q >= 1
  BY PowPositive
<1>2. Pow(b, n) = p * q
  <2>1. n - m \in Nat /\ m + (n - m) = n
    OBVIOUS
  <2> QED
    BY <2>1, PowSum
<1> HIDE DEF p, q
<1>3. PICK d \in Nat : q = d + 1
  <2>1. q - 1 \in Nat /\ q = (q - 1) + 1
    BY <1>1
  <2> QED
    BY <2>1
<1>4. p * q = p + p * d /\ p * d >= 0
  BY <1>1, <1>3
<1> QED
  BY <1>1, <1>2, <1>4 DEF p

\* A power of a power.
LEMMA PowTimes ==
  ASSUME NEW b \in Nat, NEW m \in Nat, NEW n \in Nat
  PROVE  Pow(Pow(b, m), n) = Pow(b, m * n)
<1> DEFINE c == Pow(b, m)
           T == {i \in Nat : Pow(c, i) = Pow(b, m * i)}
<1>0. c \in Nat
  BY PowDef
<1>1. 0 \in T
  <2>1. m * 0 = 0
    OBVIOUS
  <2> HIDE DEF c
  <2> QED
    BY <1>0, <2>1, PowDef
<1>2. ASSUME NEW i \in Nat, i \in T PROVE i + 1 \in T
  <2>1. m * (i + 1) = m + m * i /\ m * i \in Nat
    OBVIOUS
  <2>2. Pow(b, m * (i + 1)) = c * Pow(b, m * i)
    BY <2>1, PowSum
  <2> HIDE DEF c
  <2> QED
    BY <1>0, <1>2, <2>2, PowDef
<1> HIDE DEF T
<1>3. \A i \in Nat : i \in T
  BY <1>1, <1>2, Induction
<1> QED
  BY <1>3 DEF T

LEMMA DivModSmall ==
  ASSUME NEW n \in Nat, NEW a \in Int, n < a
  PROVE  n \div a = 0 /\ n % a = n
<1>1. n = 0 * a + n /\ n \in 0 .. a - 1 /\ a > 0
  OBVIOUS
<1> QED
  BY <1>1, DivModUnique

\* Dividing by a product is dividing twice.
LEMMA DivModProduct ==
  ASSUME NEW n \in Nat, NEW a \in Nat \ {0}, NEW b \in Nat \ {0}
  PROVE  /\ n \div (a * b) = (n \div a) \div b
         /\ n % (a * b) = (n % a) + a * ((n \div a) % b)
<1> DEFINE q == n \div a
           r == n % a
           p == q \div b
           s == q % b
<1>1. q \in Nat /\ r \in 0 .. a - 1 /\ n = q * a + r
  BY DivMod
<1>2. p \in Nat /\ s \in 0 .. b - 1 /\ q = p * b + s
  <2> HIDE DEF q
  <2> QED
    BY <1>1, DivMod
<1> HIDE DEF q, r, p, s
<1>3. n = p * (a * b) + (r + a * s)
  BY <1>1, <1>2
<1>4. r + a * s \in 0 .. a * b - 1
  <2>1. PICK d \in Nat : b = s + 1 + d
    <3>1. b - s - 1 \in Nat /\ b = s + 1 + (b - s - 1)
      BY <1>2
    <3> QED
      BY <3>1
  <2>2. a * b = a * s + a + a * d /\ a * d >= 0 /\ a * s >= 0
    BY <1>2, <2>1
  <2> QED
    BY <1>1, <1>2, <2>2
<1>5. a * b \in Int /\ a * b > 0
  OBVIOUS
<1>6. n \div (a * b) = p /\ n % (a * b) = r + a * s
  <2> DEFINE m == a * b
             t == r + a * s
  <2> HIDE DEF m, t
  <2>1. m \in Int /\ m > 0 /\ t \in 0 .. m - 1 /\ n = p * m + t
    BY <1>3, <1>4, <1>5 DEF m, t
  <2>2. n \div m = p /\ n % m = t
    BY <1>2, <2>1, DivModUnique
  <2> QED
    BY <2>2 DEF m, t
<1> QED
  BY <1>6 DEF p, q, r, s

-----------------------------------------------------------------------------
(* The exclusive or *)

XorStep(x) ==
  [cd \in Nat \X Nat |->
     ((cd[1] + cd[2]) % 2) + 2 * x[<<cd[1] \div 2, cd[2] \div 2>>]]

LEMMA Halves ==
  ASSUME NEW a \in Nat
  PROVE  a \div 2 \in Nat /\ a % 2 \in 0 .. 1 /\ a = 2 * (a \div 2) + (a % 2)
OBVIOUS

LEMMA XorStepType ==
  ASSUME NEW x \in [Nat \X Nat -> Nat]
  PROVE  XorStep(x) \in [Nat \X Nat -> Nat]
<1> SUFFICES ASSUME NEW a \in Nat, NEW b \in Nat
             PROVE  ((a + b) % 2) + 2 * x[<<a \div 2, b \div 2>>] \in Nat
  BY DEF XorStep
<1>1. (a + b) % 2 \in Nat /\ a \div 2 \in Nat /\ b \div 2 \in Nat
  BY Halves
<1>2. x[<<a \div 2, b \div 2>>] \in Nat
  BY <1>1
<1> QED
  BY <1>1, <1>2

XorFunction(x) ==
  /\ x[0] = [cd \in Nat \X Nat |-> 0]
  /\ \A n \in Nat : /\ x[n] \in [Nat \X Nat -> Nat]
                    /\ x[n + 1] = XorStep(x[n])
                    /\ \A a, b \in Nat : Xor(n, a, b) = x[n][<<a, b>>]

\* The recursive function of Xor exists: XorFunction(x) says what it is.
LEMMA XorDef == \E x : XorFunction(x)
<1> DEFINE S == [Nat \X Nat -> Nat]
           zero == [cd \in Nat \X Nat |-> 0]
           f == [z \in Nat \X S |-> XorStep(z[2])]
           P(p) == p = [i \in Nat |-> IF i = 0 THEN zero ELSE XorStep(p[i - 1])]
           Q(p) == p = [i \in Nat |->
                          IF i = 0 THEN [cd \in Nat \X Nat |-> 0]
                          ELSE [cd \in Nat \X Nat |->
                                  ((cd[1] + cd[2]) % 2)
                                    + 2 * p[i - 1][<<cd[1] \div 2, cd[2] \div 2>>]]]
<1>1. zero \in S /\ f \in [Nat \X S -> S]
  BY XorStepType
<1>2. \A i \in Nat, x \in S : f[<<i, x>>] = XorStep(x)
  OBVIOUS
<1> HIDE DEF f, S
<1>3. PICK g : Recurses(g, S, zero, f)
  BY <1>1, Recursion
<1>4. P(g)
  <2>1. \A i \in Nat : g[i] = IF i = 0 THEN zero ELSE XorStep(g[i - 1])
    <3> TAKE i \in Nat
    <3>1. CASE i = 0
      BY <1>3, <3>1 DEF Recurses
    <3>2. CASE i # 0
      <4>1. i - 1 \in Nat /\ (i - 1) + 1 = i
        BY <3>2
      <4> QED
        BY <1>2, <1>3, <3>2, <4>1 DEF Recurses
    <3> QED
      BY <3>1, <3>2
  <2>2. g = [i \in Nat |-> g[i]]
    BY <1>3 DEF Recurses
  <2> HIDE DEF zero
  <2> QED
    BY <2>1, <2>2
<1>5. Q(g)
  BY <1>4 DEF XorStep
<1> DEFINE p == CHOOSE p : Q(p)
<1>6. Q(p)
  BY <1>5
<1>7. \A n, a, b \in Nat : Xor(n, a, b) = p[n][<<a, b>>]
  BY DEF Xor
<1> HIDE DEF p
<1>8. P(p)
  BY <1>6 DEF XorStep
<1> HIDE DEF Q
<1>9. p[0] = zero /\ \A n \in Nat : p[n + 1] = XorStep(p[n])
  <2> HIDE DEF zero
  <2> QED
    BY <1>8
<1> HIDE DEF P
<1> DEFINE T == {n \in Nat : p[n] \in S}
<1>10. \A n \in Nat : n \in T
  <2>1. 0 \in T /\ \A n \in Nat : n \in T => n + 1 \in T
    BY <1>1, <1>9, XorStepType DEF S
  <2> HIDE DEF T
  <2> QED
    BY <2>1, Induction
<1>11. XorFunction(p)
  BY <1>7, <1>9, <1>10 DEF S, XorFunction
<1> QED
  BY <1>11

LEMMA XorNone ==
  \A a, b \in Nat : Xor(0, a, b) = 0
<1>1. PICK x : XorFunction(x)
  BY XorDef
<1> TAKE a, b \in Nat
<1>2. \A n \in Nat : Xor(n, a, b) = x[n][<<a, b>>]
  BY <1>1 DEF XorFunction
<1>3. x[0][<<a, b>>] = 0
  BY <1>1 DEF XorFunction
<1> QED
  BY <1>2, <1>3

LEMMA XorNat ==
  \A n, a, b \in Nat : Xor(n, a, b) \in Nat
<1>1. PICK x : XorFunction(x)
  BY XorDef
<1> TAKE n, a, b \in Nat
<1>2. Xor(n, a, b) = x[n][<<a, b>>]
  BY <1>1 DEF XorFunction
<1>3. x[n] \in [Nat \X Nat -> Nat]
  BY <1>1 DEF XorFunction
<1> QED
  BY <1>2, <1>3

\* The lowest digit of an exclusive or, and the others.
XorDigits(n, a, b) ==
  /\ Xor(n + 1, a, b) = ((a + b) % 2) + 2 * Xor(n, a \div 2, b \div 2)
  /\ Xor(n + 1, a, b) % 2 = (a + b) % 2
  /\ Xor(n + 1, a, b) \div 2 = Xor(n, a \div 2, b \div 2)

LEMMA XorBit ==
  ASSUME NEW n \in Nat, NEW a \in Nat, NEW b \in Nat
  PROVE  XorDigits(n, a, b)
<1> DEFINE c == a \div 2
           d == b \div 2
<1>0. PICK xs : XorFunction(xs)
  BY XorDef
<1> DEFINE x == xs[n]
<1>2. c \in Nat /\ d \in Nat
  OBVIOUS
<1>1. /\ x \in [Nat \X Nat -> Nat] /\ xs[n + 1] = XorStep(x)
      /\ Xor(n, a, b) = x[<<a, b>>] /\ Xor(n, c, d) = x[<<c, d>>]
      /\ Xor(n + 1, a, b) = xs[n + 1][<<a, b>>]
  <2> HIDE DEF c, d
  <2>1. x \in [Nat \X Nat -> Nat] /\ xs[n + 1] = XorStep(x)
    BY <1>0 DEF XorFunction
  <2>2. \A m, e, f \in Nat : Xor(m, e, f) = xs[m][<<e, f>>]
    BY <1>0 DEF XorFunction
  <2>3. n + 1 \in Nat
    OBVIOUS
  <2> QED
    BY <1>2, <2>1, <2>2, <2>3
<1>3. XorStep(x)[<<a, b>>] = ((a + b) % 2) + 2 * x[<<c, d>>]
  BY DEF XorStep
<1> HIDE DEF x, c, d
<1>4. x[<<a, b>>] \in Nat /\ x[<<c, d>>] \in Nat
  BY <1>1, <1>2
<1> DEFINE y == x[<<c, d>>]
           r == (a + b) % 2
<1>5. y \in Nat /\ r \in 0 .. 1
  BY <1>4
<1> HIDE DEF y, r
<1>6. (r + 2 * y) % 2 = r /\ (r + 2 * y) \div 2 = y
  BY <1>5
<1> QED
  BY <1>1, <1>3, <1>4, <1>6 DEF XorDigits, x, c, d, y, r

LEMMA HalfBelow ==
  ASSUME NEW n \in Nat, NEW a \in Nat, a < Pow(2, n + 1)
  PROVE  a \div 2 \in Nat /\ a \div 2 < Pow(2, n)
<1> DEFINE p == Pow(2, n)
<1>1. p \in Nat /\ Pow(2, n + 1) = 2 * p
  BY PowDef
<1> HIDE DEF p
<1>2. a < 2 * p
  BY <1>1
<1>3. a \div 2 \in Nat /\ a \div 2 < p
  BY <1>1, <1>2
<1> QED
  BY <1>3 DEF p

\* An exclusive or of n digits has n digits.
LEMMA XorBound ==
  ASSUME NEW n \in Nat
  PROVE  \A a, b \in Nat : Xor(n, a, b) \in 0 .. Pow(2, n) - 1
<1> DEFINE T == {i \in Nat : \A a, b \in Nat : Xor(i, a, b) < Pow(2, i)}
<1>1. 0 \in T
  BY XorNone, PowDef
<1>2. ASSUME NEW i \in Nat, i \in T PROVE i + 1 \in T
  <2> SUFFICES ASSUME NEW a \in Nat, NEW b \in Nat
               PROVE  Xor(i + 1, a, b) < Pow(2, i + 1)
    OBVIOUS
  <2> DEFINE y == Xor(i, a \div 2, b \div 2)
             p == Pow(2, i)
             r == (a + b) % 2
  <2>1. a \div 2 \in Nat /\ b \div 2 \in Nat
    BY Halves
  <2>2. y < p
    BY <1>2, <2>1
  <2>3. y \in Nat /\ Xor(i + 1, a, b) = r + 2 * y /\ r \in 0 .. 1
    <3>1. r \in 0 .. 1
      OBVIOUS
    <3>2. y \in Nat
      BY <2>1, XorNat
    <3>3. Xor(i + 1, a, b) = r + 2 * y
      <4>1. XorDigits(i, a, b)
        BY XorBit
      <4> QED
        BY <4>1 DEF XorDigits
    <3> QED
      BY <3>1, <3>2, <3>3
  <2>4. p \in Nat /\ Pow(2, i + 1) = 2 * p
    BY PowDef
  <2> HIDE DEF y, p, r
  <2>5. r + 2 * y < 2 * p
    BY <2>2, <2>3, <2>4
  <2> QED
    BY <2>3, <2>4, <2>5
<1> HIDE DEF T
<1>3. \A i \in Nat : i \in T
  BY <1>1, <1>2, Induction
<1>4. ASSUME NEW a \in Nat, NEW b \in Nat
      PROVE  Xor(n, a, b) \in 0 .. Pow(2, n) - 1
  <2>1. Xor(n, a, b) < Pow(2, n)
    BY <1>3 DEF T
  <2>2. Xor(n, a, b) \in Nat /\ Pow(2, n) \in Nat
    BY XorNat, PowDef
  <2> QED
    BY <2>1, <2>2
<1> QED
  BY <1>4

LEMMA XorCommutes ==
  ASSUME NEW n \in Nat
  PROVE  \A a, b \in Nat : Xor(n, a, b) = Xor(n, b, a)
<1> DEFINE T == {i \in Nat :
                   \A a, b \in Nat : Xor(i, a, b) = Xor(i, b, a)}
<1>1. 0 \in T
  BY XorNone
<1>2. ASSUME NEW i \in Nat, i \in T PROVE i + 1 \in T
  <2> SUFFICES ASSUME NEW a \in Nat, NEW b \in Nat
               PROVE  Xor(i + 1, a, b) = Xor(i + 1, b, a)
    OBVIOUS
  <2>1. a \div 2 \in Nat /\ b \div 2 \in Nat /\ a + b = b + a
    BY Halves
  <2>2. Xor(i, a \div 2, b \div 2) = Xor(i, b \div 2, a \div 2)
    BY <1>2, <2>1
  <2>3. Xor(i + 1, a, b)
          = ((a + b) % 2) + 2 * Xor(i, a \div 2, b \div 2)
    <3>1. XorDigits(i, a, b)
      BY XorBit
    <3> QED
      BY <3>1 DEF XorDigits
  <2>4. Xor(i + 1, b, a)
          = ((b + a) % 2) + 2 * Xor(i, b \div 2, a \div 2)
    <3>1. XorDigits(i, b, a)
      BY XorBit
    <3> QED
      BY <3>1 DEF XorDigits
  <2> QED
    BY <2>1, <2>2, <2>3, <2>4
<1> HIDE DEF T
<1>3. \A i \in Nat : i \in T
  BY <1>1, <1>2, Induction
<1> QED
  BY <1>3 DEF T

XorGroups(n) ==
  \A a, b, c \in Nat : Xor(n, Xor(n, a, b), c) = Xor(n, a, Xor(n, b, c))

LEMMA XorGroupsStep ==
  ASSUME NEW i \in Nat, XorGroups(i)
  PROVE  XorGroups(i + 1)
<1> SUFFICES ASSUME NEW a \in Nat, NEW b \in Nat, NEW c \in Nat
             PROVE  Xor(i + 1, Xor(i + 1, a, b), c) = Xor(i + 1, a, Xor(i + 1, b, c))
  BY DEF XorGroups
<1> DEFINE u == Xor(i + 1, a, b)
           v == Xor(i + 1, b, c)
<1>1. a \div 2 \in Nat /\ b \div 2 \in Nat /\ c \div 2 \in Nat
  BY Halves
<1>2. u \in Nat /\ v \in Nat
  <2>1. i + 1 \in Nat
    OBVIOUS
  <2> QED
    BY <2>1, XorNat
<1>3. u % 2 = (a + b) % 2 /\ u \div 2 = Xor(i, a \div 2, b \div 2)
  <2>1. XorDigits(i, a, b)
    BY XorBit
  <2> QED
    BY <2>1 DEF XorDigits
<1>4. v % 2 = (b + c) % 2 /\ v \div 2 = Xor(i, b \div 2, c \div 2)
  <2>1. XorDigits(i, b, c)
    BY XorBit
  <2> QED
    BY <2>1 DEF XorDigits
<1> HIDE DEF u, v
<1>5. Xor(i + 1, u, c) = ((u + c) % 2) + 2 * Xor(i, u \div 2, c \div 2)
  <2>1. XorDigits(i, u, c)
    BY <1>2, XorBit
  <2> QED
    BY <2>1 DEF XorDigits
<1>6. Xor(i + 1, a, v) = ((a + v) % 2) + 2 * Xor(i, a \div 2, v \div 2)
  <2>1. XorDigits(i, a, v)
    BY <1>2, XorBit
  <2> QED
    BY <2>1 DEF XorDigits
<1>7. Xor(i, u \div 2, c \div 2) = Xor(i, a \div 2, v \div 2)
  BY <1>1, <1>3, <1>4 DEF XorGroups
<1>8. (u + c) % 2 = (a + v) % 2
  BY <1>2, <1>3, <1>4
<1> QED
  BY <1>5, <1>6, <1>7, <1>8 DEF u, v

\* The exclusive or is associative.
LEMMA XorAssociates ==
  ASSUME NEW n \in Nat
  PROVE  \A a, b, c \in Nat : Xor(n, Xor(n, a, b), c) = Xor(n, a, Xor(n, b, c))
<1> DEFINE T == {i \in Nat : XorGroups(i)}
<1>1. 0 \in T
  BY XorNone DEF XorGroups
<1>2. ASSUME NEW i \in Nat, i \in T PROVE i + 1 \in T
  BY <1>2, XorGroupsStep
<1> HIDE DEF T
<1>3. \A i \in Nat : i \in T
  BY <1>1, <1>2, Induction
<1> QED
  BY <1>3 DEF T, XorGroups

\* Zero changes nothing.
LEMMA XorZero ==
  ASSUME NEW n \in Nat
  PROVE  \A a \in 0 .. Pow(2, n) - 1 :
           Xor(n, a, 0) = a /\ Xor(n, 0, a) = a
<1> DEFINE T == {i \in Nat :
                   \A a \in Nat : a < Pow(2, i) => Xor(i, a, 0) = a}
<1>1. 0 \in T
  BY XorNone, PowDef
<1>2. ASSUME NEW i \in Nat, i \in T PROVE i + 1 \in T
  <2> SUFFICES ASSUME NEW a \in Nat, a < Pow(2, i + 1)
               PROVE  Xor(i + 1, a, 0) = a
    OBVIOUS
  <2>1. Xor(i, a \div 2, 0) = a \div 2
    BY <1>2, HalfBelow
  <2>2. 0 \div 2 = 0 /\ a + 0 = a
    OBVIOUS
  <2>3. Xor(i + 1, a, 0) = (a % 2) + 2 * Xor(i, a \div 2, 0)
    <3>1. XorDigits(i, a, 0)
      BY XorBit
    <3> QED
      BY <2>2, <3>1 DEF XorDigits
  <2> QED
    BY <2>1, <2>3, Halves
<1> HIDE DEF T
<1>3. \A i \in Nat : i \in T
  BY <1>1, <1>2, Induction
<1>4. Pow(2, n) \in Nat
  BY PowDef
<1>5. ASSUME NEW a \in 0 .. Pow(2, n) - 1 PROVE Xor(n, a, 0) = a
  <2>1. a \in Nat /\ a < Pow(2, n)
    BY <1>4
  <2> QED
    BY <1>3, <2>1 DEF T
<1> QED
  BY <1>4, <1>5, XorCommutes

\* A number cancels itself.
LEMMA XorSelf ==
  ASSUME NEW n \in Nat
  PROVE  \A a \in Nat : Xor(n, a, a) = 0
<1> DEFINE T == {i \in Nat : \A a \in Nat : Xor(i, a, a) = 0}
<1>1. 0 \in T
  BY XorNone
<1>2. ASSUME NEW i \in Nat, i \in T PROVE i + 1 \in T
  <2> SUFFICES ASSUME NEW a \in Nat PROVE Xor(i + 1, a, a) = 0
    OBVIOUS
  <2>1. Xor(i, a \div 2, a \div 2) = 0
    BY <1>2, Halves
  <2>2. (a + a) % 2 = 0
    OBVIOUS
  <2>3. Xor(i + 1, a, a)
          = ((a + a) % 2) + 2 * Xor(i, a \div 2, a \div 2)
    <3>1. XorDigits(i, a, a)
      BY XorBit
    <3> QED
      BY <3>1 DEF XorDigits
  <2> QED
    BY <2>1, <2>2, <2>3
<1> HIDE DEF T
<1>3. \A i \in Nat : i \in T
  BY <1>1, <1>2, Induction
<1> QED
  BY <1>3 DEF T

\* Digits in front that are zero do not matter.
LEMMA XorWidth ==
  ASSUME NEW k \in Nat, NEW n \in Nat
  PROVE  \A a, b \in 0 .. Pow(2, k) - 1 :
           Xor(k + n, a, b) = Xor(k, a, b)
<1> DEFINE T == {i \in Nat : \A a, b \in Nat :
                   a < Pow(2, i) /\ b < Pow(2, i) =>
                     Xor(i + n, a, b) = Xor(i, a, b)}
<1>1. 0 \in T
  <2>1. \A a \in Nat : a < Pow(2, 0) => a = 0
    BY PowDef
  <2>2. Xor(0 + n, 0, 0) = 0 /\ Xor(0, 0, 0) = 0
    BY XorSelf
  <2> QED
    BY <2>1, <2>2
<1>2. ASSUME NEW i \in Nat, i \in T PROVE i + 1 \in T
  <2> SUFFICES ASSUME NEW a \in Nat, NEW b \in Nat,
                      a < Pow(2, i + 1), b < Pow(2, i + 1)
               PROVE  Xor((i + 1) + n, a, b) = Xor(i + 1, a, b)
    OBVIOUS
  <2>1. Xor(i + n, a \div 2, b \div 2) = Xor(i, a \div 2, b \div 2)
    BY <1>2, HalfBelow
  <2>2. (i + 1) + n = (i + n) + 1 /\ i + n \in Nat
    OBVIOUS
  <2>3. Xor(i + 1, a, b)
          = ((a + b) % 2) + 2 * Xor(i, a \div 2, b \div 2)
    <3>1. XorDigits(i, a, b)
      BY XorBit
    <3> QED
      BY <3>1 DEF XorDigits
  <2>4. Xor((i + n) + 1, a, b)
          = ((a + b) % 2) + 2 * Xor(i + n, a \div 2, b \div 2)
    <3>1. XorDigits(i + n, a, b)
      BY <2>2, XorBit
    <3> QED
      BY <3>1 DEF XorDigits
  <2> QED
    BY <2>1, <2>2, <2>3, <2>4
<1> HIDE DEF T
<1>3. \A i \in Nat : i \in T
  BY <1>1, <1>2, Induction
<1>4. Pow(2, k) \in Nat
  BY PowDef
<1>5. ASSUME NEW a \in 0 .. Pow(2, k) - 1, NEW b \in 0 .. Pow(2, k) - 1
      PROVE  Xor(k + n, a, b) = Xor(k, a, b)
  <2>1. a \in Nat /\ b \in Nat /\ a < Pow(2, k) /\ b < Pow(2, k)
    BY <1>4
  <2> QED
    BY <1>3, <2>1 DEF T
<1> QED
  BY <1>5

\* The digits of a and b are those of both halves.
LEMMA XorHalf ==
  ASSUME NEW n \in Nat, NEW a \in 0 .. Pow(2, n) - 1, NEW b \in 0 .. Pow(2, n) - 1
  PROVE  /\ Xor(n, a, b) % 2 = (a + b) % 2
         /\ Xor(n, a, b) \div 2 = Xor(n, a \div 2, b \div 2)
<1>1. Xor(n + 1, a, b) = Xor(n, a, b)
  <2>1. 1 \in Nat
    OBVIOUS
  <2> QED
    BY <2>1, XorWidth
<1>2. a \in Nat /\ b \in Nat
  BY PowDef
<1>3. XorDigits(n, a, b)
  BY <1>2, XorBit
<1> QED
  BY <1>1, <1>3 DEF XorDigits

\* Numbers that have no digit in common.
LEMMA XorJoins ==
  ASSUME NEW k \in Nat, NEW n \in Nat, NEW lo \in 0 .. Pow(2, k) - 1,
         NEW hi \in 0 .. Pow(2, n) - 1
  PROVE  /\ Xor(k + n, lo, Pow(2, k) * hi) = lo + Pow(2, k) * hi
         /\ lo + Pow(2, k) * hi \in 0 .. Pow(2, k + n) - 1
<1> DEFINE T == {i \in Nat : \A l \in Nat : l < Pow(2, i) =>
                   Xor(i + n, l, Pow(2, i) * hi) = l + Pow(2, i) * hi}
<1>0. Pow(2, n) \in Nat /\ hi \in Nat /\ hi < Pow(2, n)
  BY PowDef
<1>1. 0 \in T
  <2>1. \A l \in Nat : l < Pow(2, 0) => l = 0
    BY PowDef
  <2>2. Pow(2, 0) * hi = hi
    <3>1. Pow(2, 0) = 1
      BY PowDef
    <3> QED
      BY <1>0, <3>1
  <2>3. Xor(0 + n, 0, hi) = hi
    BY XorZero
  <2> QED
    BY <1>0, <2>1, <2>2, <2>3
<1>2. ASSUME NEW i \in Nat, i \in T PROVE i + 1 \in T
  <2> SUFFICES ASSUME NEW l \in Nat, l < Pow(2, i + 1)
               PROVE  Xor((i + 1) + n, l, Pow(2, i + 1) * hi)
                        = l + Pow(2, i + 1) * hi
    BY DEF T
  <2> DEFINE p == Pow(2, i)
             m == p * hi
             b == Pow(2, i + 1) * hi
  <2>1. p \in Nat /\ Pow(2, i + 1) = 2 * p
    BY PowDef
  <2>2. m \in Nat /\ b = 2 * m
    <3> HIDE DEF p
    <3> QED
      BY <1>0, <2>1
  <2> HIDE DEF b
  <2>3. b \div 2 = m /\ (l + b) % 2 = l % 2
    <3> HIDE DEF m
    <3> QED
      BY <2>2
  <2>4. Xor(i + n, l \div 2, m) = (l \div 2) + m
    BY <1>2, HalfBelow
  <2> HIDE DEF m
  <2>5. (i + 1) + n = (i + n) + 1 /\ i + n \in Nat
    OBVIOUS
  <2>6. Xor((i + n) + 1, l, b)
          = ((l + b) % 2) + 2 * Xor(i + n, l \div 2, b \div 2)
    <3>1. b \in Nat
      BY <2>2
    <3> QED
      <4>1. XorDigits(i + n, l, b)
        BY <2>5, <3>1, XorBit
      <4> QED
        BY <4>1 DEF XorDigits
  <2>7. (l % 2) + 2 * ((l \div 2) + m) = l + b
    BY <2>2
  <2> QED
    BY <2>3, <2>4, <2>5, <2>6, <2>7 DEF b
<1> HIDE DEF T
<1>3. \A i \in Nat : i \in T
  BY <1>1, <1>2, Induction
<1>4. Pow(2, k) \in Nat /\ lo \in Nat /\ lo < Pow(2, k)
  BY PowDef
<1>5. Xor(k + n, lo, Pow(2, k) * hi) = lo + Pow(2, k) * hi
  BY <1>3, <1>4 DEF T
<1>6. lo + Pow(2, k) * hi \in 0 .. Pow(2, k + n) - 1
  <2>1. Pow(2, k) * hi \in Nat /\ k + n \in Nat
    <3> DEFINE p == Pow(2, k)
    <3> HIDE DEF p
    <3>1. p * hi \in Nat
      BY <1>0, <1>4 DEF p
    <3> QED
      BY <3>1 DEF p
  <2> QED
    BY <1>4, <1>5, <2>1, XorBound
<1> QED
  BY <1>5, <1>6

=============================================================================
