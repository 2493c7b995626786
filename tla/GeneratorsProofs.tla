-------------------------- MODULE GeneratorsProofs --------------------------
(***************************************************************************)
(* Theorems about Generators: the CRC that is computed with a table, byte  *)
(* after byte, is the division by the polynomial, bit after bit; a chunk   *)
(* holds the words of its position; two blocks of the CRC differ in each   *)
(* word; the keys of two streams differ.                                   *)
(*                                                                         *)
(* A step of the CRC is linear, BitStepLinear, and can be undone,          *)
(* BitStepInjective; these two facts carry all that is said of the CRC.    *)
(***************************************************************************)
EXTENDS Generators, NumberFacts, SequenceTheorems, TLAPS

Word == 0 .. AllOnes

LEMMA Sizes ==
  /\ ByteBits \in Nat \ {0} /\ CrcBytes \in Nat \ {0} /\ TidBytes \in Nat \ {0}
  /\ WordBytes \in Nat \ {0} /\ BaseWords \in Nat \ {0} /\ CipherKey \in Nat \ {0}
  /\ CrcBits \in Nat \ {0} /\ Base \in Nat \ {0} /\ AllOnes \in Nat
  /\ Pow(2, CrcBits) = AllOnes + 1
<1>1. /\ ByteBits \in Nat \ {0} /\ CrcBytes \in Nat \ {0} /\ TidBytes \in Nat \ {0}
      /\ WordBytes \in Nat \ {0} /\ BaseWords \in Nat \ {0} /\ CipherKey \in Nat \ {0}
  BY GeneratorsAssumption
<1>2. CrcBits \in Nat \ {0}
  <2>1. \A a, b \in Nat \ {0} : a * b \in Nat \ {0}
    OBVIOUS
  <2> QED
    BY <1>1, <2>1 DEF CrcBits
<1>3. Pow(2, CrcBits) \in Nat \ {0} /\ Pow(2, ByteBits) \in Nat \ {0}
  BY <1>1, <1>2, PowPositive
<1> QED
  BY <1>1, <1>2, <1>3 DEF AllOnes, Base

-----------------------------------------------------------------------------
(* Words *)

LEMMA WordXor ==
  /\ \A a, b \in Word : /\ a ^^ b \in Word /\ a ^^ b = b ^^ a
                        /\ (a ^^ b) % 2 = (a + b) % 2
                        /\ (a ^^ b) \div 2 = (a \div 2) ^^ (b \div 2)
                        /\ a \div 2 \in Word
  /\ \A a \in Word : a ^^ 0 = a /\ 0 ^^ a = a /\ a ^^ a = 0
<1>1. CrcBits \in Nat /\ Word = 0 .. Pow(2, CrcBits) - 1 /\ Word \subseteq Nat
  BY Sizes DEF Word
<1>2. \A a, b \in Word : a ^^ b \in Word /\ a ^^ b = b ^^ a
  BY <1>1, XorBound, XorCommutes DEF ^^
<1>3. \A a, b \in Word : /\ (a ^^ b) % 2 = (a + b) % 2
                         /\ (a ^^ b) \div 2 = (a \div 2) ^^ (b \div 2)
  BY <1>1, XorHalf DEF ^^
<1>4. \A a \in Word : a ^^ 0 = a /\ 0 ^^ a = a /\ a ^^ a = 0
  BY <1>1, XorZero, XorSelf DEF ^^
<1>5. \A a \in Word : a \div 2 \in Word
  <2>1. AllOnes \in Nat
    BY Sizes
  <2> TAKE a \in Word
  <2>2. a \in Nat /\ a <= AllOnes
    BY <2>1 DEF Word
  <2>3. a \div 2 \in Nat /\ a \div 2 <= a
    BY <2>2
  <2> QED
    BY <2>1, <2>2, <2>3 DEF Word
<1> QED
  BY <1>2, <1>3, <1>4, <1>5

LEMMA WordXorGroups ==
  ASSUME NEW a \in Word, NEW b \in Word, NEW c \in Word
  PROVE  (a ^^ b) ^^ c = a ^^ (b ^^ c)
<1>1. CrcBits \in Nat /\ a \in Nat /\ b \in Nat /\ c \in Nat
  BY Sizes DEF Word
<1> QED
  BY <1>1, XorAssociates DEF ^^

\* What is xored twice is gone.
LEMMA WordXorCancels ==
  ASSUME NEW a \in Word, NEW b \in Word, NEW c \in Word, a ^^ c = b ^^ c
  PROVE  a = b
<1>1. (a ^^ c) ^^ c = a /\ (b ^^ c) ^^ c = b
  <2>1. c ^^ c = 0 /\ a ^^ 0 = a /\ b ^^ 0 = b
    BY WordXor
  <2> QED
    BY <2>1, WordXorGroups
<1> QED
  BY <1>1

LEMMA WordXorSwaps ==
  ASSUME NEW a \in Word, NEW b \in Word, NEW c \in Word
  PROVE  (a ^^ b) ^^ c = (a ^^ c) ^^ b
<1>1. (a ^^ b) ^^ c = a ^^ (b ^^ c) /\ (a ^^ c) ^^ b = a ^^ (c ^^ b)
  BY WordXorGroups
<1>2. b ^^ c = c ^^ b
  BY WordXor
<1> QED
  BY <1>1, <1>2

LEMMA WordXorPairs ==
  ASSUME NEW a \in Word, NEW b \in Word, NEW c \in Word, NEW d \in Word
  PROVE  (a ^^ b) ^^ (c ^^ d) = (a ^^ c) ^^ (b ^^ d)
<1>1. (a ^^ b) ^^ (c ^^ d) = ((a ^^ b) ^^ c) ^^ d
  <2>1. a ^^ b \in Word
    BY WordXor
  <2> QED
    BY <2>1, WordXorGroups
<1>2. (a ^^ c) ^^ (b ^^ d) = ((a ^^ c) ^^ b) ^^ d
  <2>1. a ^^ c \in Word
    BY WordXor
  <2> QED
    BY <2>1, WordXorGroups
<1> QED
  BY <1>1, <1>2, WordXorSwaps

-----------------------------------------------------------------------------
(* Steps of the CRC *)

LEMMA PolyWord == Poly \in Word /\ Poly >= Pow(2, CrcBits - 1)
<1>1. Pow(2, CrcBits - 1) \in Nat
  <2>1. CrcBits - 1 \in Nat
    BY Sizes
  <2> QED
    BY <2>1, PowDef
<1> QED
  BY <1>1, Sizes, GeneratorsAssumption DEF Word

LEMMA BitStepType ==
  ASSUME NEW d \in Word
  PROVE  BitStep(d) \in Word
BY WordXor, PolyWord DEF BitStep

LEMMA BitStepLinear ==
  ASSUME NEW u \in Word, NEW v \in Word
  PROVE  BitStep(u ^^ v) = BitStep(u) ^^ BitStep(v)
<1> DEFINE a == u \div 2
           b == v \div 2
           w == u ^^ v
<1>0. u \in Nat /\ v \in Nat
  BY Sizes DEF Word
<1>1. a \in Word /\ b \in Word /\ w \in Word /\ Poly \in Word
  BY WordXor, PolyWord
<1>2. w % 2 = (u + v) % 2 /\ w \div 2 = a ^^ b
  BY WordXor
<1> HIDE DEF w
<1>3. CASE u % 2 = 0 /\ v % 2 = 0
  <2>1. (u + v) % 2 = 0
    BY <1>0, <1>3
  <2> QED
    BY <1>2, <1>3, <2>1 DEF BitStep, w
<1>4. CASE u % 2 = 0 /\ v % 2 = 1
  <2>1. (u + v) % 2 = 1
    BY <1>0, <1>4
  <2>2. BitStep(w) = (a ^^ b) ^^ Poly
    BY <1>2, <2>1 DEF BitStep
  <2>3. BitStep(u) = a /\ BitStep(v) = b ^^ Poly
    BY <1>4 DEF BitStep
  <2> HIDE DEF a, b
  <2>4. (a ^^ b) ^^ Poly = a ^^ (b ^^ Poly)
    BY <1>1, WordXorGroups
  <2> QED
    BY <2>2, <2>3, <2>4 DEF w
<1>5. CASE u % 2 = 1 /\ v % 2 = 0
  <2>1. (u + v) % 2 = 1
    BY <1>0, <1>5
  <2>2. BitStep(w) = (a ^^ b) ^^ Poly
    BY <1>2, <2>1 DEF BitStep
  <2>3. BitStep(u) = a ^^ Poly /\ BitStep(v) = b
    BY <1>5 DEF BitStep
  <2> HIDE DEF a, b
  <2>4. (a ^^ b) ^^ Poly = (a ^^ Poly) ^^ b
    BY <1>1, WordXorSwaps
  <2> QED
    BY <2>2, <2>3, <2>4 DEF w
<1>6. CASE u % 2 = 1 /\ v % 2 = 1
  <2>1. (u + v) % 2 = 0
    BY <1>0, <1>6
  <2>2. BitStep(w) = a ^^ b
    BY <1>2, <2>1 DEF BitStep
  <2>3. BitStep(u) = a ^^ Poly /\ BitStep(v) = b ^^ Poly
    BY <1>6 DEF BitStep
  <2> HIDE DEF a, b
  <2>4. (a ^^ Poly) ^^ (b ^^ Poly) = (a ^^ b) ^^ (Poly ^^ Poly)
    BY <1>1, WordXorPairs
  <2>5. Poly ^^ Poly = 0 /\ a ^^ b \in Word
    BY <1>1, WordXor
  <2>6. (a ^^ b) ^^ 0 = a ^^ b
    BY <2>5, WordXor
  <2> QED
    BY <2>2, <2>3, <2>4, <2>5, <2>6 DEF w
<1>7. u % 2 \in {0, 1} /\ v % 2 \in {0, 1}
  BY <1>0
<1> QED
  BY <1>3, <1>4, <1>5, <1>6, <1>7

\* The highest bit shows whether the polynomial has been xored.
LEMMA HalvesAreNotPoly ==
  ASSUME NEW u \in Word, NEW v \in Word
  PROVE  u \div 2 # (v \div 2) ^^ Poly
<1> DEFINE k == CrcBits - 1
           a == u \div 2
           b == v \div 2
<1>1. k \in Nat /\ k + 1 = CrcBits
  BY Sizes
<1>2. a \in 0 .. Pow(2, k) - 1 /\ b \in 0 .. Pow(2, k) - 1
  <2>1. Pow(2, k) \in Nat
    BY <1>1, PowDef
  <2>2. u \in Nat /\ v \in Nat /\ u < Pow(2, k + 1) /\ v < Pow(2, k + 1)
    BY <1>1, Sizes DEF Word
  <2> HIDE DEF k
  <2> QED
    BY <1>1, <2>1, <2>2, HalfBelow
<1>3. a \in Word /\ b \in Word /\ Poly \in Word
  BY WordXor, PolyWord
<1> HIDE DEF a, b
<1>4. a ^^ b < Pow(2, k)
  <2>1. Xor(k + 1, a, b) = Xor(k, a, b)
    <3>1. 1 \in Nat
      OBVIOUS
    <3> HIDE DEF k
    <3> QED
      BY <1>1, <1>2, <3>1, XorWidth
  <2>2. a ^^ b = Xor(k, a, b)
    BY <1>1, <2>1 DEF ^^
  <2>3. Xor(k, a, b) \in 0 .. Pow(2, k) - 1 /\ Pow(2, k) \in Nat
    <3>1. a \in Nat /\ b \in Nat
      BY <1>2
    <3> HIDE DEF k
    <3> QED
      BY <1>1, <3>1, XorBound, PowDef
  <2> QED
    BY <2>2, <2>3
<1>5. ASSUME a = b ^^ Poly PROVE FALSE
  <2>1. a ^^ b = Poly
    <3>1. (b ^^ Poly) ^^ b = (b ^^ b) ^^ Poly
      BY <1>3, WordXorSwaps
    <3>2. b ^^ b = 0 /\ 0 ^^ Poly = Poly
      BY <1>3, WordXor
    <3> QED
      BY <1>5, <3>1, <3>2
  <2>2. Pow(2, k) \in Nat /\ Poly \in Nat
    <3>1. Poly \in Nat
      BY <1>3, Sizes DEF Word
    <3> HIDE DEF k
    <3>2. Pow(2, k) \in Nat
      BY <1>1, PowDef
    <3> QED
      BY <3>1, <3>2
  <2>3. Poly >= Pow(2, k)
    BY PolyWord
  <2> HIDE DEF k
  <2> QED
    BY <1>4, <2>1, <2>2, <2>3
<1> QED
  BY <1>5 DEF a, b

LEMMA BitStepInjective ==
  ASSUME NEW u \in Word, NEW v \in Word, BitStep(u) = BitStep(v)
  PROVE  u = v
<1>1. u \div 2 \in Word /\ v \div 2 \in Word /\ Poly \in Word
  BY WordXor, PolyWord
<1>2. (u % 2 = 0) = (v % 2 = 0)
  BY HalvesAreNotPoly DEF BitStep
<1>3. u \div 2 = v \div 2
  <2>1. CASE u % 2 = 0
    BY <1>2, <2>1 DEF BitStep
  <2>2. CASE u % 2 # 0
    <3>1. (u \div 2) ^^ Poly = (v \div 2) ^^ Poly
      BY <1>2, <2>2 DEF BitStep
    <3> QED
      BY <1>1, <3>1, WordXorCancels
  <2> QED
    BY <2>1, <2>2
<1>4. u \in Nat /\ v \in Nat
  BY Sizes DEF Word
<1> QED
  BY <1>2, <1>3, <1>4, Halves

LEMMA BitStepsDef ==
  ASSUME NEW d \in Word
  PROVE  /\ BitSteps(d, 0) = d
         /\ \A n \in Nat : /\ BitSteps(d, n) \in Word
                           /\ BitSteps(d, n + 1) = BitStep(BitSteps(d, n))
<1> DEFINE P(p) == p = [k \in Nat |-> IF k = 0 THEN d ELSE BitStep(p[k - 1])]
           f == [z \in Nat \X Word |-> BitStep(z[2])]
<1>1. f \in [Nat \X Word -> Word]
  BY BitStepType
<1>2. \A n \in Nat, w \in Word : f[<<n, w>>] = BitStep(w)
  OBVIOUS
<1> HIDE DEF f
<1>3. PICK g : Recurses(g, Word, d, f)
  BY <1>1, Recursion
<1>4. g \in [Nat -> Word] /\ g[0] = d /\ \A n \in Nat : g[n + 1] = BitStep(g[n])
  BY <1>2, <1>3 DEF Recurses
<1>5. P(g)
  <2>1. \A i \in Nat : g[i] = IF i = 0 THEN d ELSE BitStep(g[i - 1])
    <3> TAKE i \in Nat
    <3>1. CASE i = 0
      BY <1>4, <3>1
    <3>2. CASE i # 0
      <4>1. i - 1 \in Nat /\ (i - 1) + 1 = i
        BY <3>2
      <4> QED
        BY <1>4, <3>2, <4>1
    <3> QED
      BY <3>1, <3>2
  <2> QED
    BY <1>4, <2>1
<1> DEFINE p == CHOOSE p : P(p)
<1>6. P(p)
  BY <1>5
<1>7. \A n \in Nat : BitSteps(d, n) = p[n]
  BY DEF BitSteps
<1> HIDE DEF p
<1>8. p = [k \in Nat |-> IF k = 0 THEN d ELSE BitStep(p[k - 1])]
  BY <1>6
<1> HIDE DEF P
<1>9. p[0] = d /\ \A n \in Nat : p[n + 1] = BitStep(p[n])
  BY <1>8
<1> DEFINE T == {n \in Nat : p[n] \in Word}
<1>10. \A n \in Nat : n \in T
  <2>1. 0 \in T /\ \A n \in Nat : n \in T => n + 1 \in T
    BY <1>9, BitStepType
  <2> HIDE DEF T
  <2> QED
    BY <2>1, Induction
<1> QED
  BY <1>7, <1>9, <1>10

LEMMA BitStepsLinear ==
  ASSUME NEW u \in Word, NEW v \in Word, NEW n \in Nat
  PROVE  BitSteps(u ^^ v, n) = BitSteps(u, n) ^^ BitSteps(v, n)
<1> DEFINE T == {i \in Nat : BitSteps(u ^^ v, i) = BitSteps(u, i) ^^ BitSteps(v, i)}
<1>0. u ^^ v \in Word
  BY WordXor
<1>1. 0 \in T
  BY <1>0, BitStepsDef
<1>2. ASSUME NEW i \in Nat, i \in T PROVE i + 1 \in T
  <2>1. BitSteps(u ^^ v, i + 1) = BitStep(BitSteps(u, i) ^^ BitSteps(v, i))
    BY <1>0, <1>2, BitStepsDef
  <2>2. BitSteps(u, i) \in Word /\ BitSteps(v, i) \in Word
    BY BitStepsDef
  <2>3. /\ BitSteps(u, i + 1) = BitStep(BitSteps(u, i))
        /\ BitSteps(v, i + 1) = BitStep(BitSteps(v, i))
    BY BitStepsDef
  <2> QED
    BY <2>1, <2>2, <2>3, BitStepLinear
<1> HIDE DEF T
<1>3. \A i \in Nat : i \in T
  BY <1>1, <1>2, Induction
<1> QED
  BY <1>3 DEF T

LEMMA BitStepsInjective ==
  ASSUME NEW u \in Word, NEW v \in Word, NEW n \in Nat,
         BitSteps(u, n) = BitSteps(v, n)
  PROVE  u = v
<1> DEFINE T == {i \in Nat : BitSteps(u, i) = BitSteps(v, i) => u = v}
<1>1. 0 \in T
  BY BitStepsDef
<1>2. ASSUME NEW i \in Nat, i \in T PROVE i + 1 \in T
  <2> SUFFICES ASSUME BitSteps(u, i + 1) = BitSteps(v, i + 1) PROVE u = v
    OBVIOUS
  <2>1. BitStep(BitSteps(u, i)) = BitStep(BitSteps(v, i))
    BY BitStepsDef
  <2>2. BitSteps(u, i) = BitSteps(v, i)
    BY <2>1, BitStepsDef, BitStepInjective
  <2> QED
    BY <1>2, <2>2
<1> HIDE DEF T
<1>3. \A i \in Nat : i \in T
  BY <1>1, <1>2, Induction
<1> QED
  BY <1>3 DEF T

LEMMA BitStepsSum ==
  ASSUME NEW d \in Word, NEW m \in Nat, NEW n \in Nat
  PROVE  BitSteps(BitSteps(d, m), n) = BitSteps(d, m + n)
<1> DEFINE w == BitSteps(d, m)
           T == {i \in Nat : BitSteps(w, i) = BitSteps(d, m + i)}
<1>0. w \in Word
  BY BitStepsDef
<1>1. 0 \in T
  BY <1>0, BitStepsDef
<1>2. ASSUME NEW i \in Nat, i \in T PROVE i + 1 \in T
  <2>1. m + (i + 1) = (m + i) + 1 /\ m + i \in Nat
    OBVIOUS
  <2>2. BitSteps(d, m + (i + 1)) = BitStep(BitSteps(d, m + i))
    BY <2>1, BitStepsDef
  <2> HIDE DEF w
  <2>3. BitSteps(w, i + 1) = BitStep(BitSteps(w, i))
    BY <1>0, BitStepsDef
  <2> QED
    BY <1>2, <2>2, <2>3
<1> HIDE DEF T
<1>3. \A i \in Nat : i \in T
  BY <1>1, <1>2, Induction
<1> QED
  BY <1>3 DEF T

\* Bits that are zero are shifted out.
LEMMA BitStepsShift ==
  ASSUME NEW k \in Nat, NEW v \in Nat, Pow(2, k) * v \in Word
  PROVE  v \in Word /\ BitSteps(Pow(2, k) * v, k) = v
<1> DEFINE d == Pow(2, k) * v
           T == {i \in Nat : i <= k => /\ BitSteps(d, i) = Pow(2, k - i) * v}
<1>0. Pow(2, 0) = 1
  BY PowDef
<1>1. 0 \in T
  <2>1. k - 0 = k
    OBVIOUS
  <2> QED
    BY <2>1, BitStepsDef
<1>2. ASSUME NEW i \in Nat, i \in T PROVE i + 1 \in T
  <2> SUFFICES ASSUME i + 1 <= k PROVE BitSteps(d, i + 1) = Pow(2, k - (i + 1)) * v
    OBVIOUS
  <2> DEFINE j == k - (i + 1)
             p == Pow(2, j)
  <2>1. j \in Nat /\ j + 1 = k - i /\ i <= k
    OBVIOUS
  <2>2. p \in Nat /\ Pow(2, k - i) = 2 * p
    <3> HIDE DEF j
    <3>1. 2 \in Nat
      OBVIOUS
    <3>2. p \in Nat /\ Pow(2, j + 1) = 2 * p
      BY <2>1, <3>1, PowDef
    <3> HIDE DEF p
    <3> QED
      BY <2>1, <3>2
  <2>3. BitSteps(d, i) = 2 * (p * v) /\ p * v \in Nat
    <3>1. BitSteps(d, i) = Pow(2, k - i) * v
      BY <1>2, <2>1
    <3> HIDE DEF p, d
    <3> QED
      BY <2>2, <3>1
  <2>4. BitStep(2 * (p * v)) = p * v
    <3> DEFINE q == p * v
    <3> HIDE DEF q
    <3>1. q \in Nat
      BY <2>3 DEF q
    <3>2. BitStep(2 * q) = q
      <4>1. (2 * q) % 2 = 0 /\ (2 * q) \div 2 = q
        BY <3>1
      <4> QED
        BY <4>1 DEF BitStep
    <3> QED
      BY <3>2 DEF q
  <2>5. BitSteps(d, i + 1) = BitStep(BitSteps(d, i))
    BY BitStepsDef
  <2> QED
    BY <2>3, <2>4, <2>5
<1> HIDE DEF T
<1>3. \A i \in Nat : i \in T
  BY <1>1, <1>2, Induction
<1>4. BitSteps(d, k) = v
  <2>1. BitSteps(d, k) = Pow(2, k - k) * v
    BY <1>3 DEF T
  <2>2. k - k = 0 /\ 1 * v = v
    OBVIOUS
  <2> QED
    BY <1>0, <2>1, <2>2
<1>5. v \in Word
  BY <1>4, BitStepsDef
<1> QED
  BY <1>4, <1>5

-----------------------------------------------------------------------------
(* Bytes *)

LEMMA BaseBits ==
  /\ CrcBits - ByteBits \in Nat /\ ByteBits \in Nat /\ Base = Pow(2, ByteBits)
  /\ ByteBits + (CrcBits - ByteBits) = CrcBits
  /\ Base * Pow(2, CrcBits - ByteBits) = AllOnes + 1
<1>1. CrcBits >= ByteBits
  <2>1. PICK k \in Nat : CrcBytes = k + 1
    <3>1. CrcBytes - 1 \in Nat /\ CrcBytes = (CrcBytes - 1) + 1
      BY Sizes
    <3> QED
      BY <3>1
  <2>2. CrcBits = ByteBits * k + ByteBits /\ ByteBits * k >= 0
    BY <2>1, Sizes DEF CrcBits
  <2> QED
    BY <2>2, Sizes
<1>2. /\ CrcBits - ByteBits \in Nat /\ ByteBits \in Nat /\ Base = Pow(2, ByteBits)
      /\ ByteBits + (CrcBits - ByteBits) = CrcBits
  BY <1>1, Sizes DEF Base
<1>3. Pow(2, ByteBits + (CrcBits - ByteBits)) = Base * Pow(2, CrcBits - ByteBits)
  <2> DEFINE m == CrcBits - ByteBits
  <2> HIDE DEF m
  <2>1. Pow(2, ByteBits + m) = Pow(2, ByteBits) * Pow(2, m)
    BY <1>2, PowSum DEF m
  <2> QED
    BY <1>2, <2>1 DEF m
<1> QED
  BY <1>2, <1>3, Sizes

LEMMA ByteXor ==
  /\ Bytes \subseteq Word /\ Bytes \subseteq Nat
  /\ \A a, b \in Bytes : a ^^ b \in Bytes
<1> DEFINE m == CrcBits - ByteBits
<1>0. /\ m \in Nat /\ ByteBits + m = CrcBits /\ ByteBits \in Nat
      /\ Bytes = 0 .. Pow(2, ByteBits) - 1 /\ Pow(2, ByteBits) \in Nat
  BY BaseBits, PowDef DEF Bytes
<1>1. Bytes \subseteq Word /\ Bytes \subseteq Nat
  <2>1. Base <= Pow(2, CrcBits)
    BY BaseBits, Sizes, PowMonotone
  <2> QED
    BY <2>1, Sizes DEF Word, Bytes
<1> HIDE DEF m
<1>2. ASSUME NEW a \in Bytes, NEW b \in Bytes PROVE a ^^ b \in Bytes
  <2>1. Xor(ByteBits + m, a, b) = Xor(ByteBits, a, b)
    BY <1>0, XorWidth
  <2>2. Xor(ByteBits, a, b) \in Bytes
    BY <1>0, <1>1, XorBound
  <2> QED
    BY <1>0, <2>1, <2>2 DEF ^^
<1> QED
  BY <1>1, <1>2

\* A word is its lowest byte and the others.
LEMMA WordSplit ==
  ASSUME NEW c \in Word
  PROVE  /\ c % Base \in Bytes /\ c \div Base \in Word
         /\ Base * (c \div Base) \in Word
         /\ c = (c % Base) ^^ (Base * (c \div Base))
<1> DEFINE m == CrcBits - ByteBits
           lo == c % Base
           hi == c \div Base
           M == Pow(2, m)
<1>0. /\ m \in Nat /\ ByteBits + m = CrcBits /\ ByteBits \in Nat
      /\ Base = Pow(2, ByteBits) /\ Base * M = AllOnes + 1
  BY BaseBits
<1>1. Base \in Nat \ {0} /\ AllOnes \in Nat /\ c \in Nat /\ c <= AllOnes
  BY Sizes DEF Word
<1> HIDE DEF m
<1>2. M \in Nat
  BY <1>0, PowDef
<1>3. hi \in Nat /\ lo \in 0 .. Base - 1 /\ c = hi * Base + lo
  BY <1>1, DivMod
<1> HIDE DEF lo, hi, M
<1>4. hi < M
  <2> SUFFICES ASSUME hi >= M PROVE FALSE
    BY <1>2, <1>3
  <2>1. PICK d \in Nat : hi = M + d
    <3>1. hi - M \in Nat /\ hi = M + (hi - M)
      BY <1>2, <1>3
    <3> QED
      BY <3>1
  <2>2. hi * Base = Base * M + d * Base /\ d * Base >= 0
    BY <1>1, <1>2, <2>1
  <2> QED
    BY <1>0, <1>1, <1>3, <2>2
<1>5. /\ Xor(ByteBits + m, lo, Base * hi) = lo + Base * hi
      /\ lo + Base * hi \in 0 .. Pow(2, ByteBits + m) - 1
  <2>1. lo \in 0 .. Pow(2, ByteBits) - 1 /\ hi \in 0 .. Pow(2, m) - 1
    BY <1>0, <1>2, <1>3, <1>4 DEF M
  <2> QED
    BY <1>0, <2>1, XorJoins
<1>6. c = lo ^^ (Base * hi)
  <2>1. hi * Base = Base * hi /\ Base * hi \in Nat
    BY <1>1, <1>3
  <2> QED
    BY <1>0, <1>3, <1>5, <2>1 DEF ^^
<1>7. hi \in Word /\ Base * hi \in Word
  <2>1. hi <= hi * Base /\ hi * Base = Base * hi /\ Base * hi \in Nat
    <3>1. PICK b \in Nat : Base = b + 1
      <4>1. Base - 1 \in Nat /\ Base = (Base - 1) + 1
        BY <1>1
      <4> QED
        BY <4>1
    <3>2. hi * Base = hi * b + hi /\ hi * b >= 0
      BY <1>3, <3>1
    <3> QED
      BY <1>1, <1>3, <3>2
  <2> QED
    BY <1>1, <1>3, <2>1 DEF Word
<1> QED
  BY <1>3, <1>6, <1>7 DEF lo, hi, Bytes

\* The table does the steps of a whole byte.
LEMMA ByteStepIsBits ==
  ASSUME NEW c \in Word, NEW d \in Bytes
  PROVE  /\ c ^^ d \in Word
         /\ ByteStep(c, d) = BitSteps(c ^^ d, ByteBits)
         /\ ByteStep(c, d) \in Word
<1> DEFINE lo == c % Base
           hi == c \div Base
           up == Base * hi
<1>1. lo \in Bytes /\ hi \in Word /\ up \in Word /\ c = lo ^^ up
  BY WordSplit
<1>2. ByteStep(c, d) = Crc64Lut[lo ^^ d] ^^ hi
  BY DEF ByteStep
<1>3. BitSteps(up, ByteBits) = hi
  <2>1. hi \in Nat /\ ByteBits \in Nat /\ Pow(2, ByteBits) * hi \in Word
    BY <1>1, BaseBits, Sizes DEF Word
  <2> HIDE DEF hi
  <2> QED
    BY <2>1, BitStepsShift, BaseBits
<1> HIDE DEF lo, hi, up
<1>4. lo ^^ d \in Bytes /\ lo \in Word /\ d \in Word /\ lo ^^ d \in Word
  BY <1>1, ByteXor
<1>5. Crc64Lut[lo ^^ d] = BitSteps(lo ^^ d, ByteBits)
  BY <1>4 DEF Crc64Lut
<1>6. c ^^ d = (lo ^^ d) ^^ up /\ c ^^ d \in Word
  BY <1>1, <1>4, WordXorSwaps, WordXor
<1>7. BitSteps((lo ^^ d) ^^ up, ByteBits) = BitSteps(lo ^^ d, ByteBits) ^^ hi
  BY <1>1, <1>3, <1>4, BaseBits, BitStepsLinear
<1>8. BitSteps(c ^^ d, ByteBits) \in Word
  BY <1>6, BaseBits, BitStepsDef
<1> QED
  BY <1>2, <1>5, <1>6, <1>7, <1>8

LEMMA ByteStepInjective ==
  ASSUME NEW c \in Word, NEW e \in Word, NEW d \in Bytes,
         ByteStep(c, d) = ByteStep(e, d)
  PROVE  c = e
<1>1. c ^^ d = e ^^ d
  BY ByteStepIsBits, BitStepsInjective, BaseBits
<1> QED
  BY <1>1, ByteXor, WordXorCancels

-----------------------------------------------------------------------------
(* The CRC of a sequence of bytes *)

CrcRun(c, crc, data) ==
  /\ c \in [0 .. Len(data) -> Word] /\ c[0] = crc
  /\ \A i \in 1 .. Len(data) : c[i] = ByteStep(c[i - 1], data[i])

LEMMA CrcRunUnique ==
  ASSUME NEW crc, NEW data \in Seq(Bytes), NEW c, NEW e,
         CrcRun(c, crc, data), CrcRun(e, crc, data)
  PROVE  c[Len(data)] = e[Len(data)]
<1> DEFINE T == {i \in Nat : i <= Len(data) => c[i] = e[i]}
<1>1. 0 \in T
  BY DEF CrcRun
<1>2. ASSUME NEW i \in Nat, i \in T PROVE i + 1 \in T
  <2> SUFFICES ASSUME i + 1 <= Len(data) PROVE c[i + 1] = e[i + 1]
    OBVIOUS
  <2>1. i + 1 \in 1 .. Len(data) /\ (i + 1) - 1 = i /\ c[i] = e[i]
    BY <1>2
  <2> QED
    BY <2>1 DEF CrcRun
<1> HIDE DEF T
<1>3. \A i \in Nat : i \in T
  BY <1>1, <1>2, Induction
<1>4. Len(data) \in Nat
  OBVIOUS
<1> QED
  BY <1>3, <1>4 DEF T

LEMMA Crc64Run ==
  ASSUME NEW crc \in Word, NEW data \in Seq(Bytes)
  PROVE  \E c : CrcRun(c, crc, data) /\ Crc64(crc, data) = c[Len(data)]
<1> DEFINE D == 0 .. Len(data)
           P(c) == c = [i \in D |-> IF i = 0 THEN crc ELSE ByteStep(c[i - 1], data[i])]
           f == [z \in Nat \X Word |->
                   IF z[1] < Len(data) THEN ByteStep(z[2], data[z[1] + 1]) ELSE z[2]]
<1>0. Len(data) \in Nat
  OBVIOUS
<1>1. f \in [Nat \X Word -> Word]
  <2>1. ASSUME NEW n \in Nat, NEW w \in Word, n < Len(data)
        PROVE  ByteStep(w, data[n + 1]) \in Word
    <3>1. n + 1 \in 1 .. Len(data)
      BY <2>1
    <3>2. data[n + 1] \in Bytes
      BY <3>1
    <3> QED
      BY <3>2, ByteStepIsBits
  <2> QED
    BY <2>1
<1>2. \A n \in Nat, w \in Word :
        n < Len(data) => f[<<n, w>>] = ByteStep(w, data[n + 1])
  OBVIOUS
<1> HIDE DEF f
<1>3. PICK g : Recurses(g, Word, crc, f)
  BY <1>1, Recursion
<1> DEFINE h == [i \in D |-> g[i]]
<1>4. h[0] = crc /\ \A i \in D : i # 0 => h[i] = ByteStep(h[i - 1], data[i])
  <2>1. 0 \in D /\ h[0] = crc
    BY <1>0, <1>3 DEF Recurses
  <2>2. ASSUME NEW i \in D, i # 0 PROVE h[i] = ByteStep(h[i - 1], data[i])
    <3>1. i - 1 \in Nat /\ (i - 1) + 1 = i /\ i - 1 < Len(data) /\ i - 1 \in D
      BY <1>0, <2>2
    <3>2. g[i] = f[<<i - 1, g[i - 1]>>] /\ g[i - 1] \in Word
      BY <1>3, <3>1 DEF Recurses
    <3> HIDE DEF D
    <3> QED
      BY <1>2, <3>1, <3>2
  <2> QED
    BY <2>1, <2>2
<1>5. P(h)
  <2>1. h = [i \in D |-> h[i]]
    OBVIOUS
  <2> HIDE DEF h
  <2> QED
    BY <1>4, <2>1
<1> DEFINE c == CHOOSE c : P(c)
<1>6. P(c)
  BY <1>5
<1>7. Crc64(crc, data) = c[Len(data)]
  BY DEF Crc64
<1> HIDE DEF c
<1>8. c = [i \in D |-> IF i = 0 THEN crc ELSE ByteStep(c[i - 1], data[i])]
  BY <1>6
<1> HIDE DEF P
<1>9. c[0] = crc /\ \A i \in 1 .. Len(data) : c[i] = ByteStep(c[i - 1], data[i])
  BY <1>0, <1>8
<1> DEFINE T == {i \in Nat : i <= Len(data) => c[i] \in Word}
<1>10. \A i \in Nat : i \in T
  <2>1. 0 \in T
    BY <1>9
  <2>2. ASSUME NEW i \in Nat, i \in T PROVE i + 1 \in T
    <3> SUFFICES ASSUME i + 1 <= Len(data) PROVE c[i + 1] \in Word
      OBVIOUS
    <3>1. i + 1 \in 1 .. Len(data) /\ (i + 1) - 1 = i /\ c[i] \in Word
      BY <1>0, <2>2
    <3>2. data[i + 1] \in Bytes
      BY <3>1
    <3> QED
      BY <1>9, <3>1, <3>2, ByteStepIsBits
  <2> HIDE DEF T
  <2> QED
    BY <2>1, <2>2, Induction
<1>11. c \in [D -> Word]
  <2>1. \A i \in D : c[i] \in Word
    BY <1>0, <1>10
  <2> QED
    BY <1>8, <2>1
<1> QED
  BY <1>7, <1>9, <1>11 DEF CrcRun

LEMMA Crc64OfRun ==
  ASSUME NEW crc \in Word, NEW data \in Seq(Bytes), NEW c, CrcRun(c, crc, data)
  PROVE  Crc64(crc, data) = c[Len(data)]
BY Crc64Run, CrcRunUnique

LEMMA Crc64Type ==
  ASSUME NEW crc \in Word, NEW data \in Seq(Bytes)
  PROVE  Crc64(crc, data) \in Word
<1>1. PICK c : CrcRun(c, crc, data) /\ Crc64(crc, data) = c[Len(data)]
  BY Crc64Run
<1>2. Len(data) \in 0 .. Len(data)
  OBVIOUS
<1> QED
  BY <1>1, <1>2 DEF CrcRun

LEMMA Crc64Concat ==
  ASSUME NEW crc \in Word, NEW r \in Seq(Bytes), NEW s \in Seq(Bytes)
  PROVE  Crc64(crc, r \o s) = Crc64(Crc64(crc, r), s)
<1> DEFINE m == Len(r)
           n == Len(s)
<1>0. r \o s \in Seq(Bytes) /\ Len(r \o s) = m + n /\ m \in Nat /\ n \in Nat
  OBVIOUS
<1>1. PICK c : CrcRun(c, crc, r \o s) /\ Crc64(crc, r \o s) = c[Len(r \o s)]
  BY <1>0, Crc64Run
<1>2. /\ c \in [0 .. m + n -> Word] /\ c[0] = crc
      /\ \A i \in 1 .. m + n : c[i] = ByteStep(c[i - 1], (r \o s)[i])
  BY <1>0, <1>1 DEF CrcRun
<1> DEFINE a == [i \in 0 .. m |-> c[i]]
           b == [i \in 0 .. n |-> c[m + i]]
<1>3. CrcRun(a, crc, r)
  <2>1. a \in [0 .. m -> Word] /\ a[0] = crc
    BY <1>0, <1>2
  <2>2. ASSUME NEW i \in 1 .. m PROVE a[i] = ByteStep(a[i - 1], r[i])
    <3>1. i \in 1 .. m + n /\ i - 1 \in 0 .. m /\ i \in 0 .. m /\ (r \o s)[i] = r[i]
      BY <1>0
    <3> QED
      BY <1>2, <3>1
  <2> QED
    BY <2>1, <2>2 DEF CrcRun
<1>4. CrcRun(b, c[m], s)
  <2>1. b \in [0 .. n -> Word] /\ b[0] = c[m]
    <3>1. \A i \in 0 .. n : m + i \in 0 .. m + n
      BY <1>0
    <3>2. m + 0 = m /\ 0 \in 0 .. n
      BY <1>0
    <3> QED
      BY <1>2, <3>1, <3>2
  <2>2. ASSUME NEW i \in 1 .. n PROVE b[i] = ByteStep(b[i - 1], s[i])
    <3>1. /\ m + i \in 1 .. m + n /\ i - 1 \in 0 .. n /\ i \in 0 .. n
          /\ (m + i) - 1 = m + (i - 1)
      BY <1>0
    <3>2. (r \o s)[m + i] = s[i]
      BY <1>0
    <3>3. c[m + i] = ByteStep(c[m + (i - 1)], s[i])
      BY <1>2, <3>1, <3>2
    <3> QED
      BY <3>1, <3>3
  <2> QED
    BY <2>1, <2>2 DEF CrcRun
<1>5. Crc64(crc, r) = c[m]
  <2>1. Crc64(crc, r) = a[m] /\ m \in 0 .. m
    BY <1>0, <1>3, Crc64OfRun
  <2> QED
    BY <2>1
<1>6. Crc64(c[m], s) = c[m + n]
  <2>1. c[m] \in Word
    BY <1>0, <1>2
  <2>2. Crc64(c[m], s) = b[n] /\ n \in 0 .. n
    BY <1>0, <1>4, <2>1, Crc64OfRun
  <2> QED
    BY <2>2
<1> QED
  BY <1>0, <1>1, <1>5, <1>6

-----------------------------------------------------------------------------
(* Numbers as bytes *)

LEMMA LeBytesDef ==
  ASSUME NEW n \in Nat, NEW k \in Nat
  PROVE  /\ LeBytes(n, k) \in Seq(Bytes) /\ Len(LeBytes(n, k)) = k
         /\ \A i \in 1 .. k : LeBytes(n, k)[i] = (n \div Pow(Base, i - 1)) % Base
<1>1. ASSUME NEW i \in 1 .. k PROVE (n \div Pow(Base, i - 1)) % Base \in Bytes
  <2>1. i - 1 \in Nat /\ Base \in Nat \ {0}
    BY Sizes
  <2>2. Pow(Base, i - 1) \in Nat \ {0}
    BY <2>1, PowPositive
  <2> DEFINE q == Pow(Base, i - 1)
  <2> HIDE DEF q
  <2>3. n \div q \in Nat
    BY <2>2, DivMod DEF q
  <2>4. (n \div q) % Base \in 0 .. Base - 1
    BY <2>1, <2>3, DivMod
  <2> QED
    BY <2>4 DEF q, Bytes
<1>2. LeBytes(n, k) \in [1 .. k -> Bytes]
  BY <1>1 DEF LeBytes
<1> QED
  BY <1>2 DEF LeBytes

\* One digit more.
LEMMA ModDigit ==
  ASSUME NEW n \in Nat, NEW j \in Nat
  PROVE  n % Pow(Base, j + 1)
           = (n % Pow(Base, j)) + Pow(Base, j) * ((n \div Pow(Base, j)) % Base)
<1> DEFINE q == Pow(Base, j)
<1>1. q \in Nat \ {0} /\ Base \in Nat \ {0} /\ Pow(Base, j + 1) = Base * q
  BY Sizes, PowPositive, PowDef
<1> HIDE DEF q
<1>2. n % (q * Base) = (n % q) + q * ((n \div q) % Base)
  BY <1>1, DivModProduct
<1>3. Base * q = q * Base
  BY <1>1
<1> QED
  BY <1>1, <1>2, <1>3 DEF q

LEMMA LeBytesInjective ==
  ASSUME NEW k \in Nat, NEW n \in 0 .. Pow(Base, k) - 1, NEW m \in 0 .. Pow(Base, k) - 1,
         LeBytes(n, k) = LeBytes(m, k)
  PROVE  n = m
<1> DEFINE T == {j \in Nat : j <= k => n % Pow(Base, j) = m % Pow(Base, j)}
<1>0. Pow(Base, k) \in Nat /\ n \in Nat /\ m \in Nat
  BY Sizes, PowDef
<1>1. 0 \in T
  <2>1. Pow(Base, 0) = 1 /\ n % 1 = 0 /\ m % 1 = 0
    BY <1>0, Sizes, PowDef
  <2> QED
    BY <2>1
<1>2. ASSUME NEW j \in Nat, j \in T PROVE j + 1 \in T
  <2> SUFFICES ASSUME j + 1 <= k
               PROVE  n % Pow(Base, j + 1) = m % Pow(Base, j + 1)
    OBVIOUS
  <2>1. n % Pow(Base, j) = m % Pow(Base, j)
    BY <1>2
  <2>2. (n \div Pow(Base, j)) % Base = (m \div Pow(Base, j)) % Base
    <3>1. j + 1 \in 1 .. k /\ (j + 1) - 1 = j
      OBVIOUS
    <3>2. LeBytes(n, k)[j + 1] = (n \div Pow(Base, (j + 1) - 1)) % Base
      BY <1>0, <3>1, LeBytesDef
    <3>3. LeBytes(m, k)[j + 1] = (m \div Pow(Base, (j + 1) - 1)) % Base
      BY <1>0, <3>1, LeBytesDef
    <3> QED
      BY <3>1, <3>2, <3>3
  <2> QED
    BY <1>0, <2>1, <2>2, ModDigit
<1> HIDE DEF T
<1>3. \A j \in Nat : j \in T
  BY <1>1, <1>2, Induction
<1>4. n % Pow(Base, k) = m % Pow(Base, k)
  BY <1>3 DEF T
<1>5. n < Pow(Base, k) /\ m < Pow(Base, k)
  BY <1>0
<1> QED
  BY <1>0, <1>4, <1>5, DivModSmall

-----------------------------------------------------------------------------
(* The blocks of the CRC *)

\* The bytes of a counter are shifted through the register like one number.
LEMMA CrcOfNumber ==
  ASSUME NEW s \in Word, NEW n \in Nat
  PROVE  Crc64(s, LeBytes(n, CrcBytes))
           = BitSteps(s ^^ (n % Pow(Base, CrcBytes)), CrcBits)
<1> DEFINE data == LeBytes(n, CrcBytes)
<1>0. data \in Seq(Bytes) /\ Len(data) = CrcBytes /\ CrcBytes \in Nat
  BY LeBytesDef, Sizes
<1>1. PICK c : CrcRun(c, s, data) /\ Crc64(s, data) = c[CrcBytes]
  BY <1>0, Crc64Run
<1> DEFINE T == {j \in Nat : j <= CrcBytes =>
                   /\ n % Pow(Base, j) \in Word
                   /\ c[j] = BitSteps(s ^^ (n % Pow(Base, j)), ByteBits * j)}
<1>2. 0 \in T
  <2>1. Pow(Base, 0) = 1 /\ n % 1 = 0 /\ ByteBits * 0 = 0
    BY Sizes, PowDef
  <2>2. 0 \in Word /\ s ^^ 0 = s /\ BitSteps(s, 0) = s
    BY Sizes, WordXor, BitStepsDef DEF Word
  <2>3. c[0] = s
    BY <1>1 DEF CrcRun
  <2> QED
    BY <2>1, <2>2, <2>3
<1>3. ASSUME NEW j \in Nat, j \in T PROVE j + 1 \in T
  <2> SUFFICES ASSUME j + 1 <= CrcBytes
               PROVE  /\ n % Pow(Base, j + 1) \in Word
                      /\ c[j + 1] = BitSteps(s ^^ (n % Pow(Base, j + 1)),
                                             ByteBits * (j + 1))
    OBVIOUS
  <2> DEFINE q == Pow(Base, j)
             kb == ByteBits * j
             nb == CrcBits - kb
             lo == n % q
             dg == (n \div q) % Base
             up == q * dg
  <2>1. /\ kb \in Nat /\ nb \in Nat /\ kb + nb = CrcBits /\ nb >= ByteBits
        /\ ByteBits * (j + 1) = kb + ByteBits /\ ByteBits \in Nat
    <3>1. PICK e \in Nat : CrcBytes = (j + 1) + e
      <4>1. CrcBytes - (j + 1) \in Nat
            /\ CrcBytes = (j + 1) + (CrcBytes - (j + 1))
        BY <1>0
      <4> QED
        BY <4>1
    <3>2. CrcBits = ByteBits * j + ByteBits + ByteBits * e /\ ByteBits * e \in Nat
          /\ ByteBits * j \in Nat /\ ByteBits * (j + 1) = ByteBits * j + ByteBits
      BY <3>1, Sizes DEF CrcBits
    <3> QED
      BY <3>2, Sizes
  <2>2. q = Pow(2, kb) /\ q \in Nat \ {0}
    <3>1. Pow(Pow(2, ByteBits), j) = Pow(2, ByteBits * j)
      BY Sizes, PowTimes
    <3> QED
      BY <3>1, Sizes, PowPositive DEF Base
  <2>3. n % Pow(Base, j + 1) = lo + up
    BY ModDigit
  <2>4. lo \in 0 .. q - 1 /\ n \div q \in Nat
    <3> HIDE DEF q
    <3> QED
      BY <2>2, DivMod
  <2>5. dg \in 0 .. Base - 1
    <3> DEFINE m == n \div q
    <3> HIDE DEF m
    <3>1. m % Base \in 0 .. Base - 1
      BY <2>4, Sizes, DivMod DEF m
    <3> QED
      BY <3>1 DEF m
  <2>6. data[j + 1] = dg
    <3>1. j + 1 \in 1 .. CrcBytes /\ (j + 1) - 1 = j
      BY <1>0
    <3>2. data[j + 1] = (n \div Pow(Base, (j + 1) - 1)) % Base
      BY <1>0, <3>1, LeBytesDef
    <3> QED
      BY <3>1, <3>2
  <2>7. c[j + 1] = ByteStep(c[j], data[j + 1]) /\ c[j] \in Word
    <3>1. j + 1 \in 1 .. CrcBytes /\ (j + 1) - 1 = j /\ j \in 0 .. CrcBytes
      BY <1>0
    <3> QED
      BY <1>0, <1>1, <3>1 DEF CrcRun
  <2>8. lo \in Word /\ c[j] = BitSteps(s ^^ lo, kb)
    BY <1>3, <1>0
  <2> HIDE DEF q, kb, nb, lo, dg, data, T
  <2>9. dg \in 0 .. Pow(2, nb) - 1
    <3>1. Base <= Pow(2, nb)
      BY <2>1, PowMonotone, BaseBits
    <3>2. Base \in Nat /\ Pow(2, nb) \in Nat
      BY <2>1, Sizes, PowDef
    <3> QED
      BY <2>5, <3>1, <3>2
  <2>10. /\ Xor(kb + nb, lo, Pow(2, kb) * dg) = lo + Pow(2, kb) * dg
         /\ lo + Pow(2, kb) * dg \in 0 .. Pow(2, kb + nb) - 1
    BY <2>1, <2>2, <2>4, <2>9, XorJoins
  <2>11. lo ^^ up = lo + up /\ lo + up \in Word
    BY <2>1, <2>2, <2>10, Sizes DEF ^^, Word
  <2>12. up \in Word
    <3>1. up \in Nat /\ lo \in Nat
      BY <2>2, <2>4, <2>5, Sizes
    <3> HIDE DEF up
    <3> QED
      BY <2>11, <3>1, Sizes DEF Word
  <2>13. dg \in Nat /\ dg \in Bytes /\ dg \in Word /\ BitSteps(up, kb) = dg
    <3>1. dg \in Nat /\ dg \in Bytes
      BY <2>5, Sizes DEF Bytes
    <3> QED
      BY <2>1, <2>2, <2>12, <3>1, BitStepsShift, ByteXor
  <2> HIDE DEF up
  <2>14. s ^^ lo \in Word /\ (s ^^ lo) ^^ up = s ^^ (lo + up) /\ s ^^ (lo + up) \in Word
    <3>1. s ^^ lo \in Word /\ s ^^ (lo + up) \in Word
      BY <2>8, <2>11, WordXor
    <3>2. (s ^^ lo) ^^ up = s ^^ (lo ^^ up)
      BY <2>8, <2>12, WordXorGroups
    <3> QED
      BY <2>11, <3>1, <3>2
  <2>15. c[j] ^^ dg = BitSteps(s ^^ (lo + up), kb)
    <3>1. BitSteps((s ^^ lo) ^^ up, kb) = BitSteps(s ^^ lo, kb) ^^ BitSteps(up, kb)
      BY <2>1, <2>12, <2>14, BitStepsLinear
    <3> QED
      BY <2>8, <2>13, <2>14, <3>1
  <2>16. c[j + 1] = BitSteps(c[j] ^^ dg, ByteBits)
    BY <2>6, <2>7, <2>13, ByteStepIsBits
  <2>17. BitSteps(BitSteps(s ^^ (lo + up), kb), ByteBits)
           = BitSteps(s ^^ (lo + up), kb + ByteBits)
    BY <2>1, <2>14, BitStepsSum
  <2>18. c[j + 1] = BitSteps(s ^^ (n % Pow(Base, j + 1)), ByteBits * (j + 1))
    BY <2>1, <2>3, <2>15, <2>16, <2>17
  <2> QED
    BY <2>3, <2>11, <2>18
<1> HIDE DEF T
<1>4. \A j \in Nat : j \in T
  BY <1>2, <1>3, Induction
<1>5. c[CrcBytes] = BitSteps(s ^^ (n % Pow(Base, CrcBytes)), ByteBits * CrcBytes)
  BY <1>0, <1>4 DEF T
<1> QED
  BY <1>1, <1>5 DEF CrcBits

\* The registers after each byte of a block.
BlockRun(state, k, c) ==
  /\ state \in [0 .. Base -> Word]
  /\ state[0] = Crc64(Crc64(AllOnes, k), CounterBytes(c))
  /\ \A i \in 1 .. Base : state[i] = ByteStep(state[i - 1], i - 1)
  /\ CrcBlock(k, c) = [i \in 1 .. Base |-> AllOnes - state[i]]

LEMMA BlockStart ==
  ASSUME NEW k \in Seq(Bytes), NEW c \in Nat
  PROVE  /\ CounterBytes(c) \in Seq(Bytes) /\ Crc64(AllOnes, k) \in Word
         /\ Crc64(Crc64(AllOnes, k), CounterBytes(c)) \in Word
<1>1. CounterBytes(c) \in Seq(Bytes) /\ AllOnes \in Word
  BY Sizes, LeBytesDef DEF CounterBytes, Word
<1> QED
  BY <1>1, Crc64Type

\* The CRC of one byte.
LEMMA CrcOfByte ==
  ASSUME NEW w \in Word, NEW b \in Bytes
  PROVE  Crc64(w, LeBytes(b, 1)) = ByteStep(w, b) /\ ByteStep(w, b) \in Word
<1> DEFINE data == LeBytes(b, 1)
<1>1. b \in Nat /\ 1 \in Nat /\ b < Base
  BY Sizes DEF Bytes
<1>2. data \in Seq(Bytes) /\ Len(data) = 1 /\ data[1] = b
  <2>1. /\ data \in Seq(Bytes) /\ Len(data) = 1
        /\ data[1] = (b \div Pow(Base, 1 - 1)) % Base
    <3>1. data \in Seq(Bytes) /\ Len(data) = 1
      BY <1>1, LeBytesDef
    <3>2. data[1] = (b \div Pow(Base, 1 - 1)) % Base
      BY DEF LeBytes
    <3> QED
      BY <3>1, <3>2
  <2>2. Pow(Base, 1 - 1) = 1
    BY Sizes, PowDef
  <2>3. b \div 1 = b /\ b % Base = b
    BY <1>1, Sizes, DivModSmall
  <2> QED
    BY <2>1, <2>2, <2>3
<1> HIDE DEF data
<1>3. PICK c : CrcRun(c, w, data) /\ Crc64(w, data) = c[1]
  BY <1>2, Crc64Run
<1>4. c[1] = ByteStep(c[1 - 1], data[1]) /\ c[0] = w
  BY <1>2, <1>3 DEF CrcRun
<1> QED
  BY <1>2, <1>3, <1>4, ByteStepIsBits DEF data

LEMMA CrcBlockRun ==
  ASSUME NEW k \in Seq(Bytes), NEW c \in Nat
  PROVE  \E state : BlockRun(state, k, c)
<1> DEFINE x == Crc64(Crc64(AllOnes, k), CounterBytes(c))
           D == 0 .. Base
           P(p) == p = [i \in D |-> IF i = 0 THEN Crc64(Crc64(AllOnes, k), CounterBytes(c))
                                    ELSE Crc64(p[i - 1], LeBytes(i - 1, 1))]
           f == [z \in Nat \X Word |->
                   IF z[1] < Base THEN ByteStep(z[2], z[1]) ELSE z[2]]
<1>0. Base \in Nat \ {0} /\ x \in Word
  BY Sizes, BlockStart
<1>1. f \in [Nat \X Word -> Word]
  <2>1. ASSUME NEW n \in Nat, NEW w \in Word, n < Base PROVE ByteStep(w, n) \in Word
    <3>1. n \in Bytes
      BY <1>0, <2>1 DEF Bytes
    <3> QED
      BY <3>1, ByteStepIsBits
  <2> QED
    BY <2>1
<1>2. \A n \in Nat, w \in Word : n < Base => f[<<n, w>>] = ByteStep(w, n)
  OBVIOUS
<1> HIDE DEF f, x
<1>3. PICK g : Recurses(g, Word, x, f)
  BY <1>0, <1>1, Recursion
<1>4. /\ g \in [Nat -> Word] /\ g[0] = x
      /\ \A n \in Nat : n < Base => g[n + 1] = ByteStep(g[n], n)
  BY <1>2, <1>3 DEF Recurses
<1> DEFINE h == [i \in D |-> g[i]]
<1>5. h[0] = x /\ \A i \in D : i # 0 => h[i] = Crc64(h[i - 1], LeBytes(i - 1, 1))
  <2>1. 0 \in D /\ h[0] = x
    BY <1>0, <1>4
  <2>2. ASSUME NEW i \in D, i # 0 PROVE h[i] = Crc64(h[i - 1], LeBytes(i - 1, 1))
    <3>1. i - 1 \in Nat /\ (i - 1) + 1 = i /\ i - 1 < Base /\ i - 1 \in D
      BY <1>0, <2>2
    <3>2. g[i] = ByteStep(g[i - 1], i - 1) /\ g[i - 1] \in Word
      BY <1>4, <3>1
    <3>3. i - 1 \in Bytes
      BY <1>0, <3>1 DEF Bytes
    <3>4. Crc64(g[i - 1], LeBytes(i - 1, 1)) = ByteStep(g[i - 1], i - 1)
      BY <3>2, <3>3, CrcOfByte
    <3> HIDE DEF D
    <3> QED
      BY <3>1, <3>2, <3>4
  <2> QED
    BY <2>1, <2>2
<1>6. P(h)
  <2>1. h = [i \in D |-> h[i]]
    OBVIOUS
  <2> HIDE DEF h
  <2> QED
    BY <1>5, <2>1 DEF x
<1> DEFINE p == CHOOSE p : P(p)
<1>7. P(p)
  BY <1>6
<1>8. CrcBlock(k, c) = [i \in 1 .. Base |-> AllOnes - p[i]]
  BY DEF CrcBlock
<1> HIDE DEF p
<1>9. p = [i \in D |-> IF i = 0 THEN x ELSE Crc64(p[i - 1], LeBytes(i - 1, 1))]
  BY <1>7 DEF x
<1> HIDE DEF P
<1>10. p[0] = x /\ \A i \in 1 .. Base : p[i] = Crc64(p[i - 1], LeBytes(i - 1, 1))
  BY <1>0, <1>9
<1> DEFINE T == {i \in Nat : i <= Base => p[i] \in Word}
<1>11. ASSUME NEW i \in Nat, p[i] \in Word, i < Base
       PROVE  p[i + 1] = ByteStep(p[i], i) /\ p[i + 1] \in Word
  <2>1. i + 1 \in 1 .. Base /\ (i + 1) - 1 = i /\ i \in Bytes
    BY <1>0, <1>11 DEF Bytes
  <2>2. p[i + 1] = Crc64(p[i], LeBytes(i, 1))
    BY <1>10, <2>1
  <2> QED
    BY <1>11, <2>1, <2>2, CrcOfByte
<1>12. \A i \in Nat : i \in T
  <2>1. 0 \in T
    BY <1>0, <1>10
  <2>2. ASSUME NEW i \in Nat, i \in T PROVE i + 1 \in T
    <3> SUFFICES ASSUME i + 1 <= Base PROVE p[i + 1] \in Word
      OBVIOUS
    <3>1. i < Base /\ p[i] \in Word
      BY <1>0, <2>2
    <3> QED
      BY <1>11, <3>1
  <2> HIDE DEF T
  <2> QED
    BY <2>1, <2>2, Induction
<1>13. p \in [0 .. Base -> Word]
  <2>1. \A i \in D : p[i] \in Word
    BY <1>0, <1>12
  <2> QED
    BY <1>9, <2>1
<1>14. ASSUME NEW i \in 1 .. Base PROVE p[i] = ByteStep(p[i - 1], i - 1)
  <2>1. i - 1 \in Nat /\ i - 1 < Base /\ (i - 1) + 1 = i /\ i - 1 \in 0 .. Base
    BY <1>0
  <2> QED
    BY <1>11, <1>13, <2>1
<1>15. BlockRun(p, k, c)
  BY <1>8, <1>10, <1>13, <1>14 DEF BlockRun, x
<1> QED
  BY <1>15

\* Two blocks of one stream have no word in common.
LEMMA CrcBlocksDiffer ==
  ASSUME NEW k \in Seq(Bytes), NEW c \in Word, NEW d \in Word, c # d
  PROVE  \A i \in 1 .. Base : CrcBlock(k, c)[i] # CrcBlock(k, d)[i]
<1>0. c \in Nat /\ d \in Nat /\ Base \in Nat /\ AllOnes \in Nat
  BY Sizes DEF Word
<1>1. PICK r : BlockRun(r, k, c)
  BY <1>0, CrcBlockRun
<1>2. PICK s : BlockRun(s, k, d)
  BY <1>0, CrcBlockRun
<1>3. r[0] # s[0]
  <2> DEFINE w == Crc64(AllOnes, k)
  <2>1. w \in Word
    BY <1>0, BlockStart
  <2> HIDE DEF w
  <2>2. c % Pow(Base, CrcBytes) = c /\ d % Pow(Base, CrcBytes) = d
    <3>1. Pow(Pow(2, ByteBits), CrcBytes) = Pow(2, ByteBits * CrcBytes)
      BY Sizes, PowTimes
    <3>2. Pow(Base, CrcBytes) = AllOnes + 1
      BY <3>1, Sizes DEF Base, CrcBits
    <3>3. c < AllOnes + 1 /\ d < AllOnes + 1
      BY <1>0 DEF Word
    <3> QED
      BY <1>0, <3>2, <3>3, DivModSmall
  <2>3. /\ r[0] = BitSteps(w ^^ c, CrcBits)
        /\ s[0] = BitSteps(w ^^ d, CrcBits)
    BY <1>0, <1>1, <1>2, <2>1, <2>2, CrcOfNumber DEF BlockRun, CounterBytes, w
  <2>4. SUFFICES ASSUME r[0] = s[0] PROVE FALSE
    OBVIOUS
  <2>5. c ^^ w = d ^^ w
    <3>1. w ^^ c \in Word /\ w ^^ d \in Word /\ w ^^ c = c ^^ w /\ w ^^ d = d ^^ w
      BY <2>1, WordXor
    <3>2. w ^^ c = w ^^ d
      BY <2>3, <2>4, <3>1, Sizes, BitStepsInjective
    <3> QED
      BY <3>1, <3>2
  <2> QED
    BY <2>1, <2>5, WordXorCancels
<1> DEFINE T == {i \in Nat : i <= Base => r[i] # s[i]}
<1>4. 0 \in T
  BY <1>3
<1>5. ASSUME NEW i \in Nat, i \in T PROVE i + 1 \in T
  <2> SUFFICES ASSUME i + 1 <= Base, r[i + 1] = s[i + 1] PROVE FALSE
    OBVIOUS
  <2>1. /\ i + 1 \in 1 .. Base /\ (i + 1) - 1 = i /\ i \in Bytes /\ i \in 0 .. Base
        /\ i <= Base
    BY <1>0 DEF Bytes
  <2>2. r[i] \in Word /\ s[i] \in Word
    BY <1>1, <1>2, <2>1 DEF BlockRun
  <2>3. r[i + 1] = ByteStep(r[i], i) /\ s[i + 1] = ByteStep(s[i], i)
    BY <1>1, <1>2, <2>1 DEF BlockRun
  <2>4. r[i] = s[i]
    BY <2>1, <2>2, <2>3, ByteStepInjective
  <2> QED
    BY <1>5, <2>1, <2>4
<1> HIDE DEF T
<1>6. \A i \in Nat : i \in T
  BY <1>4, <1>5, Induction
<1> TAKE i \in 1 .. Base
<1>7. i \in Nat /\ i <= Base /\ i \in 0 .. Base
  BY <1>0
<1>8. r[i] # s[i] /\ r[i] \in Nat /\ s[i] \in Nat
  BY <1>0, <1>1, <1>2, <1>6, <1>7 DEF T, BlockRun, Word
<1>9. CrcBlock(k, c)[i] = AllOnes - r[i] /\ CrcBlock(k, d)[i] = AllOnes - s[i]
  BY <1>1, <1>2 DEF BlockRun
<1> QED
  BY <1>0, <1>8, <1>9

-----------------------------------------------------------------------------
(* The division by the polynomial *)

LEMMA DivisionStepXor ==
  ASSUME NEW s \in Word, NEW e \in Word
  PROVE  DivisionStep(s ^^ e, e % 2) = BitStep(s) ^^ (e \div 2)
<1> DEFINE w == s ^^ e
           a == s \div 2
           b == e \div 2
<1>1. /\ w \div 2 = a ^^ b /\ w % 2 = (s + e) % 2 /\ s \in Nat /\ e \in Nat
      /\ a \in Word /\ b \in Word /\ Poly \in Word
  <2>1. s \in Nat /\ e \in Nat
    BY Sizes DEF Word
  <2> QED
    BY <2>1, WordXor, PolyWord
<1> HIDE DEF w, a, b
<1>2. (w % 2 = e % 2) = (s % 2 = 0)
  BY <1>1
<1>3. CASE s % 2 = 0
  BY <1>1, <1>2, <1>3 DEF DivisionStep, BitStep, w, a, b
<1>4. CASE s % 2 # 0
  <2>1. (a ^^ b) ^^ Poly = (a ^^ Poly) ^^ b
    BY <1>1, WordXorSwaps
  <2>2. DivisionStep(w, e % 2) = (a ^^ b) ^^ Poly
    BY <1>1, <1>2, <1>4 DEF DivisionStep
  <2>3. BitStep(s) = a ^^ Poly
    BY <1>4 DEF BitStep, a
  <2> QED
    BY <2>1, <2>2, <2>3 DEF w, b
<1> QED
  BY <1>3, <1>4

LEMMA DivisionStepType ==
  ASSUME NEW r \in Word, NEW bit
  PROVE  DivisionStep(r, bit) \in Word
BY WordXor, PolyWord DEF DivisionStep

\* The bits of one byte.
LEMMA ByteDivision ==
  ASSUME NEW c \in Word, NEW d \in Bytes, NEW m \in Nat, NEW r, r[m] = c,
         \A i \in 0 .. ByteBits - 1 :
           r[(m + i) + 1] = DivisionStep(r[m + i], (d \div Pow(2, i)) % 2)
  PROVE  r[m + ByteBits] = ByteStep(c, d)
<1> DEFINE x == c ^^ d
           T == {i \in Nat : i <= ByteBits =>
                   r[m + i] = BitSteps(x, i) ^^ (d \div Pow(2, i))}
<1>0. /\ d \in Word /\ d \in Nat /\ x \in Word /\ d < Pow(2, ByteBits)
      /\ x ^^ d = c /\ ByteBits \in Nat
  <2>1. d \in Word /\ d \in Nat /\ x \in Word /\ ByteBits \in Nat
    BY ByteXor, WordXor, Sizes
  <2>2. d < Pow(2, ByteBits)
    BY Sizes DEF Bytes, Base
  <2>3. x ^^ d = c ^^ (d ^^ d) /\ d ^^ d = 0 /\ c ^^ 0 = c
    BY <2>1, WordXor, WordXorGroups
  <2> QED
    BY <2>1, <2>2, <2>3
<1> HIDE DEF x
<1>1. 0 \in T
  <2>1. m + 0 = m /\ Pow(2, 0) = 1 /\ d \div 1 = d
    BY <1>0, PowDef
  <2>2. BitSteps(x, 0) = x
    BY <1>0, BitStepsDef
  <2> QED
    BY <1>0, <2>1, <2>2
<1>2. ASSUME NEW i \in Nat, i \in T PROVE i + 1 \in T
  <2> SUFFICES ASSUME i + 1 <= ByteBits
               PROVE  r[m + (i + 1)] = BitSteps(x, i + 1) ^^ (d \div Pow(2, i + 1))
    OBVIOUS
  <2> DEFINE s == BitSteps(x, i)
             q == Pow(2, i)
             e == d \div q
  <2>1. i \in 0 .. ByteBits - 1 /\ m + (i + 1) = (m + i) + 1
    BY <1>0
  <2>2. r[m + i] = s ^^ e
    BY <1>0, <1>2
  <2>3. r[(m + i) + 1] = DivisionStep(r[m + i], e % 2)
    BY <2>1
  <2>4. s \in Word /\ BitSteps(x, i + 1) = BitStep(s)
    BY <1>0, BitStepsDef
  <2>5. q \in Nat \ {0} /\ Pow(2, i + 1) = 2 * q
    <3>1. 2 \in Nat \ {0}
      OBVIOUS
    <3> QED
      BY <3>1, PowDef, PowPositive
  <2> HIDE DEF s, q
  <2>6. d \div (q * 2) = e \div 2 /\ q * 2 = 2 * q
    <3>1. 2 \in Nat \ {0} /\ q * 2 = 2 * q
      BY <2>5
    <3>2. d \div (q * 2) = (d \div q) \div 2
      BY <1>0, <2>5, <3>1, DivModProduct
    <3> QED
      BY <3>1, <3>2
  <2>7. e \in Word
    <3>1. e \in Nat /\ d = e * q + (d % q) /\ d % q \in 0 .. q - 1
      BY <1>0, <2>5, DivMod
    <3> HIDE DEF e
    <3>2. e <= e * q /\ e * q \in Nat
      <4>1. PICK b \in Nat : q = b + 1
        <5>1. q - 1 \in Nat /\ q = (q - 1) + 1
          BY <2>5
        <5> QED
          BY <5>1
      <4>2. e * q = e * b + e /\ e * b >= 0
        BY <3>1, <4>1
      <4> QED
        BY <3>1, <4>2
    <3>3. e <= d
      BY <1>0, <2>5, <3>1, <3>2
    <3> QED
      BY <1>0, <3>1, <3>3, Sizes DEF Word
  <2> HIDE DEF e
  <2>8. DivisionStep(s ^^ e, e % 2) = BitStep(s) ^^ (e \div 2)
    BY <2>4, <2>7, DivisionStepXor
  <2> QED
    BY <2>1, <2>2, <2>3, <2>4, <2>5, <2>6, <2>8
<1> HIDE DEF T
<1>3. \A i \in Nat : i \in T
  BY <1>1, <1>2, Induction
<1>4. r[m + ByteBits] = BitSteps(x, ByteBits) ^^ (d \div Pow(2, ByteBits))
  BY <1>0, <1>3 DEF T
<1>5. d \div Pow(2, ByteBits) = 0
  BY <1>0, PowDef, DivModSmall
<1>6. BitSteps(x, ByteBits) \in Word /\ BitSteps(x, ByteBits) ^^ 0 = BitSteps(x, ByteBits)
  BY <1>0, BitStepsDef, WordXor
<1> QED
  BY <1>4, <1>5, <1>6, ByteStepIsBits DEF x

DivisionRun(reg, data) ==
  /\ reg \in [0 .. ByteBits * Len(data) -> Word] /\ reg[0] = AllOnes
  /\ \A n \in 1 .. ByteBits * Len(data) :
       reg[n] = DivisionStep(reg[n - 1], BitOf(data, n - 1))
  /\ BitwiseCrc(data) = AllOnes - reg[ByteBits * Len(data)]

LEMMA DivisionRunExists ==
  ASSUME NEW data \in Seq(Bytes)
  PROVE  \E reg : DivisionRun(reg, data)
<1> DEFINE N == ByteBits * Len(data)
           D == 0 .. N
           P(p) == p = [n \in D |-> IF n = 0 THEN AllOnes
                                    ELSE DivisionStep(p[n - 1], BitOf(data, n - 1))]
           f == [z \in Nat \X Word |-> DivisionStep(z[2], BitOf(data, z[1]))]
<1>0. N \in Nat /\ AllOnes \in Word
  <2>1. \A a, b \in Nat : a * b \in Nat
    OBVIOUS
  <2> QED
    BY <2>1, Sizes DEF Word
<1> HIDE DEF N
<1>1. f \in [Nat \X Word -> Word]
  BY DivisionStepType
<1>2. \A n \in Nat, w \in Word : f[<<n, w>>] = DivisionStep(w, BitOf(data, n))
  OBVIOUS
<1> HIDE DEF f
<1>3. PICK g : Recurses(g, Word, AllOnes, f)
  BY <1>0, <1>1, Recursion
<1>4. /\ g \in [Nat -> Word] /\ g[0] = AllOnes
      /\ \A n \in Nat : g[n + 1] = DivisionStep(g[n], BitOf(data, n))
  BY <1>2, <1>3 DEF Recurses
<1> DEFINE h == [n \in D |-> g[n]]
<1>5. /\ h[0] = AllOnes
      /\ \A n \in D : n # 0 => h[n] = DivisionStep(h[n - 1], BitOf(data, n - 1))
  <2>1. 0 \in D /\ h[0] = AllOnes
    BY <1>0, <1>4
  <2>2. ASSUME NEW n \in D, n # 0
        PROVE  h[n] = DivisionStep(h[n - 1], BitOf(data, n - 1))
    <3>1. n - 1 \in Nat /\ (n - 1) + 1 = n /\ n - 1 \in D
      BY <1>0, <2>2
    <3> HIDE DEF D
    <3> QED
      BY <1>4, <3>1
  <2> QED
    BY <2>1, <2>2
<1>6. P(h)
  <2>1. h = [n \in D |-> h[n]]
    OBVIOUS
  <2> HIDE DEF h
  <2> QED
    BY <1>5, <2>1
<1> DEFINE p == CHOOSE p : P(p)
<1>7. P(p)
  BY <1>6
<1>8. BitwiseCrc(data) = AllOnes - p[N]
  BY DEF BitwiseCrc, N
<1> HIDE DEF p
<1>9. p = [n \in D |-> IF n = 0 THEN AllOnes
                       ELSE DivisionStep(p[n - 1], BitOf(data, n - 1))]
  BY <1>7
<1> HIDE DEF P
<1>10. /\ p[0] = AllOnes
       /\ \A n \in 1 .. N : p[n] = DivisionStep(p[n - 1], BitOf(data, n - 1))
  BY <1>0, <1>9
<1> DEFINE T == {n \in Nat : n <= N => p[n] \in Word}
<1>11. \A n \in Nat : n \in T
  <2>1. 0 \in T
    BY <1>0, <1>10
  <2>2. ASSUME NEW n \in Nat, n \in T PROVE n + 1 \in T
    <3> SUFFICES ASSUME n + 1 <= N PROVE p[n + 1] \in Word
      OBVIOUS
    <3>1. n + 1 \in 1 .. N /\ (n + 1) - 1 = n /\ p[n] \in Word
      BY <1>0, <2>2
    <3>2. p[n + 1] = DivisionStep(p[n], BitOf(data, n))
      BY <1>10, <3>1
    <3> QED
      BY <3>1, <3>2, DivisionStepType
  <2> HIDE DEF T
  <2> QED
    BY <2>1, <2>2, Induction
<1>12. p \in [D -> Word]
  <2>1. \A n \in D : p[n] \in Word
    BY <1>0, <1>11
  <2> QED
    BY <1>9, <2>1
<1>13. DivisionRun(p, data)
  BY <1>8, <1>10, <1>12 DEF DivisionRun, N
<1> QED
  BY <1>13

\* The table of crc64_gen_lut() and the bytes of crc64() (generator/crc.rs:21-46)
\* compute what the division by the polynomial does, bit after bit.
THEOREM BitwiseIsTable ==
  ASSUME NEW data \in Seq(Bytes)
  PROVE  BitwiseCrc(data) = AllOnes - Crc64(AllOnes, data)
<1> DEFINE L == Len(data)
<1>0. L \in Nat /\ ByteBits \in Nat \ {0} /\ AllOnes \in Word
  BY Sizes DEF Word
<1>1. PICK reg : DivisionRun(reg, data)
  BY DivisionRunExists
<1>2. PICK c : CrcRun(c, AllOnes, data) /\ Crc64(AllOnes, data) = c[L]
  BY <1>0, Crc64Run
<1> DEFINE T == {j \in Nat : j <= L => reg[ByteBits * j] = c[j]}
<1>3. 0 \in T
  <2>1. ByteBits * 0 = 0
    BY <1>0
  <2> QED
    BY <1>1, <1>2, <2>1 DEF DivisionRun, CrcRun
<1>4. ASSUME NEW j \in Nat, j \in T PROVE j + 1 \in T
  <2> SUFFICES ASSUME j + 1 <= L PROVE reg[ByteBits * (j + 1)] = c[j + 1]
    OBVIOUS
  <2> DEFINE d == data[j + 1]
             m == ByteBits * j
  <2>1. j + 1 \in 1 .. L /\ (j + 1) - 1 = j /\ j \in 0 .. L /\ d \in Bytes
    BY <1>0
  <2>2. /\ m \in Nat /\ ByteBits * (j + 1) = m + ByteBits
        /\ m + ByteBits <= ByteBits * L /\ ByteBits * L \in Nat
    <3>1. PICK e \in Nat : L = (j + 1) + e
      <4>1. L - (j + 1) \in Nat /\ L = (j + 1) + (L - (j + 1))
        BY <1>0
      <4> QED
        BY <4>1
    <3>2. /\ ByteBits * L = ByteBits * j + ByteBits + ByteBits * e
          /\ ByteBits * e \in Nat /\ ByteBits * j \in Nat
          /\ ByteBits * (j + 1) = ByteBits * j + ByteBits
      BY <1>0, <3>1
    <3> QED
      BY <1>0, <3>2
  <2>3. c[j] \in Word /\ c[j + 1] = ByteStep(c[j], d)
    BY <1>2, <2>1 DEF CrcRun
  <2>4. reg[m] = c[j]
    BY <1>0, <1>4
  <2> HIDE DEF L
  <2>5. ASSUME NEW i \in 0 .. ByteBits - 1
        PROVE  reg[(m + i) + 1] = DivisionStep(reg[m + i], (d \div Pow(2, i)) % 2)
    <3>1. m + i \in Nat /\ (m + i) + 1 \in 1 .. ByteBits * L /\ ((m + i) + 1) - 1 = m + i
      <4> HIDE DEF m
      <4> QED
        BY <1>0, <2>2
    <3>2. reg[(m + i) + 1] = DivisionStep(reg[m + i], BitOf(data, m + i))
      <4> HIDE DEF m
      <4> QED
        BY <1>1, <3>1 DEF DivisionRun, L
    <3>3. (m + i) \div ByteBits = j /\ (m + i) % ByteBits = i
      <4>1. j * ByteBits = m
        BY <1>0
      <4>2. (j * ByteBits + i) \div ByteBits = j /\ (j * ByteBits + i) % ByteBits = i
        BY <1>0, DivModUnique
      <4> QED
        BY <4>1, <4>2
    <3> QED
      BY <3>2, <3>3 DEF BitOf
  <2> HIDE DEF m, d
  <2>6. reg[m + ByteBits] = ByteStep(c[j], d)
    BY <2>1, <2>2, <2>3, <2>4, <2>5, ByteDivision
  <2> QED
    BY <2>2, <2>3, <2>6
<1> HIDE DEF T
<1>5. \A j \in Nat : j \in T
  BY <1>3, <1>4, Induction
<1>6. reg[ByteBits * L] = c[L]
  BY <1>0, <1>5 DEF T
<1> QED
  BY <1>1, <1>2, <1>6 DEF DivisionRun

\* Word w of a block is the remainder of the key, the counter and the bytes up
\* to w.
LEMMA BlockWord ==
  ASSUME NEW k \in Seq(Bytes), NEW c \in Nat, NEW w \in 0 .. Base - 1
  PROVE  CrcBlock(k, c)[w + 1]
           = BitwiseCrc(k \o LeBytes(c, CrcBytes) \o [i \in 1 .. w + 1 |-> i - 1])
<1> DEFINE le == LeBytes(c, CrcBytes)
           ix == [i \in 1 .. w + 1 |-> i - 1]
           x == Crc64(Crc64(AllOnes, k), le)
<1>0. /\ w \in Nat /\ w + 1 \in 1 .. Base /\ Base \in Nat /\ AllOnes \in Word
      /\ le \in Seq(Bytes) /\ x \in Word /\ Crc64(AllOnes, k) \in Word
  <2>1. w \in Nat /\ w + 1 \in 1 .. Base /\ Base \in Nat /\ AllOnes \in Word
    BY Sizes DEF Word
  <2>2. le \in Seq(Bytes) /\ x \in Word /\ Crc64(AllOnes, k) \in Word
    BY BlockStart DEF CounterBytes
  <2> QED
    BY <2>1, <2>2
<1>1. ix \in Seq(Bytes) /\ Len(ix) = w + 1
  <2>1. \A i \in 1 .. w + 1 : i - 1 \in Bytes
    BY <1>0 DEF Bytes
  <2>2. ix \in [1 .. w + 1 -> Bytes] /\ w + 1 \in Nat
    BY <1>0, <2>1
  <2> HIDE DEF ix
  <2> QED
    BY <2>2
<1>2. PICK st : BlockRun(st, k, c)
  BY CrcBlockRun
<1> DEFINE a == [i \in 0 .. w + 1 |-> st[i]]
<1>3. CrcRun(a, x, ix)
  <2>1. a \in [0 .. w + 1 -> Word] /\ a[0] = x
    <3>1. 0 .. w + 1 \subseteq 0 .. Base /\ 0 \in 0 .. w + 1
      BY <1>0
    <3> QED
      BY <1>2, <3>1 DEF BlockRun, CounterBytes
  <2>2. ASSUME NEW i \in 1 .. w + 1 PROVE a[i] = ByteStep(a[i - 1], ix[i])
    <3>1. i \in 1 .. Base /\ i \in 0 .. w + 1 /\ i - 1 \in 0 .. w + 1 /\ ix[i] = i - 1
      BY <1>0
    <3> HIDE DEF ix
    <3> QED
      BY <1>2, <3>1 DEF BlockRun
  <2> HIDE DEF a, ix
  <2> QED
    BY <1>1, <2>1, <2>2 DEF CrcRun
<1>4. Crc64(x, ix) = st[w + 1]
  <2>1. w + 1 \in 0 .. w + 1
    BY <1>0
  <2>2. Crc64(x, ix) = a[w + 1]
    <3> HIDE DEF a, ix, x
    <3> QED
      BY <1>0, <1>1, <1>3, Crc64OfRun
  <2> QED
    BY <2>1, <2>2
<1> HIDE DEF le, ix
<1>5. /\ Crc64(AllOnes, k \o le) = x /\ k \o le \in Seq(Bytes)
      /\ Crc64(AllOnes, (k \o le) \o ix) = Crc64(Crc64(AllOnes, k \o le), ix)
      /\ (k \o le) \o ix \in Seq(Bytes)
  <2>1. k \o le \in Seq(Bytes)
    BY <1>0
  <2>2. (k \o le) \o ix \in Seq(Bytes)
    BY <1>1, <2>1
  <2>3. Crc64(AllOnes, (k \o le) \o ix) = Crc64(Crc64(AllOnes, k \o le), ix)
    <3> DEFINE kl == k \o le
    <3> HIDE DEF kl
    <3>1. kl \in Seq(Bytes)
      BY <2>1 DEF kl
    <3>2. Crc64(AllOnes, kl \o ix) = Crc64(Crc64(AllOnes, kl), ix)
      BY <1>0, <1>1, <3>1, Crc64Concat
    <3> QED
      BY <3>2 DEF kl
  <2>4. Crc64(AllOnes, k \o le) = Crc64(Crc64(AllOnes, k), le)
    BY <1>0, <1>1, Crc64Concat
  <2> QED
    BY <1>0, <1>1, <2>1, <2>2, <2>3, <2>4
<1>6. BitwiseCrc((k \o le) \o ix) = AllOnes - st[w + 1]
  BY <1>4, <1>5, BitwiseIsTable
<1>7. CrcBlock(k, c)[w + 1] = AllOnes - st[w + 1]
  BY <1>0, <1>2 DEF BlockRun
<1> QED
  BY <1>6, <1>7 DEF le, ix

-----------------------------------------------------------------------------
(* The keys *)

LEMMA FoldType ==
  ASSUME NEW input \in Seq(Bytes), NEW size \in Nat \ {0}
  PROVE  Fold(input, size) \in [1 .. size -> Bytes]
<1> SUFFICES ASSUME NEW j \in 1 .. size PROVE Fold(input, size)[j] \in Bytes
  BY DEF Fold
<1> DEFINE D == 0 .. Len(input)
           P(p) == p = [i \in D |->
                          IF i = 0 THEN 0
                          ELSE IF i % size = j % size THEN p[i - 1] ^^ input[i]
                                                      ELSE p[i - 1]]
           g(i, w) == IF i % size = j % size THEN w ^^ input[i] ELSE w
           f == [z \in Nat \X Bytes |->
                   IF z[1] < Len(input) THEN g(z[1] + 1, z[2]) ELSE z[2]]
<1>0. Len(input) \in Nat /\ 0 \in Bytes
  BY Sizes DEF Bytes
<1>1. ASSUME NEW i \in 1 .. Len(input), NEW w \in Bytes PROVE g(i, w) \in Bytes
  <2>1. input[i] \in Bytes
    OBVIOUS
  <2>2. w ^^ input[i] \in Bytes
    BY <2>1, ByteXor
  <2> QED
    BY <2>2
<1> HIDE DEF g
<1>2. f \in [Nat \X Bytes -> Bytes]
  <2>1. ASSUME NEW n \in Nat, NEW w \in Bytes, n < Len(input)
        PROVE  g(n + 1, w) \in Bytes
    <3>1. n + 1 \in 1 .. Len(input)
      BY <1>0, <2>1
    <3> QED
      BY <1>1, <3>1
  <2> QED
    BY <2>1
<1>3. \A n \in Nat, w \in Bytes : n < Len(input) => f[<<n, w>>] = g(n + 1, w)
  OBVIOUS
<1> HIDE DEF f
<1>4. PICK r : Recurses(r, Bytes, 0, f)
  BY <1>0, <1>2, Recursion
<1> DEFINE h == [i \in D |-> r[i]]
<1>5. h[0] = 0 /\ \A i \in D : i # 0 => h[i] = g(i, h[i - 1])
  <2>1. 0 \in D /\ h[0] = 0
    BY <1>0, <1>4 DEF Recurses
  <2>2. ASSUME NEW i \in D, i # 0 PROVE h[i] = g(i, h[i - 1])
    <3>1. i - 1 \in Nat /\ (i - 1) + 1 = i /\ i - 1 < Len(input) /\ i - 1 \in D
      BY <1>0, <2>2
    <3>2. r[i] = f[<<i - 1, r[i - 1]>>] /\ r[i - 1] \in Bytes
      BY <1>4, <3>1 DEF Recurses
    <3> HIDE DEF D
    <3> QED
      BY <1>3, <3>1, <3>2
  <2> QED
    BY <2>1, <2>2
<1>6. P(h)
  <2>1. h = [i \in D |-> h[i]]
    OBVIOUS
  <2> HIDE DEF h
  <2> QED
    BY <1>5, <2>1 DEF g
<1> DEFINE p == CHOOSE p : P(p)
<1>7. P(p)
  BY <1>6
<1>8. Fold(input, size)[j] = p[Len(input)]
  BY DEF Fold
<1> HIDE DEF p
<1>9. p = [i \in D |-> IF i = 0 THEN 0 ELSE g(i, p[i - 1])]
  BY <1>7 DEF g
<1> HIDE DEF P
<1> DEFINE T == {i \in Nat : i <= Len(input) => p[i] \in Bytes}
<1>10. \A i \in Nat : i \in T
  <2>1. 0 \in T
    BY <1>0, <1>9
  <2>2. ASSUME NEW i \in Nat, i \in T PROVE i + 1 \in T
    <3> SUFFICES ASSUME i + 1 <= Len(input) PROVE p[i + 1] \in Bytes
      OBVIOUS
    <3>1. /\ i + 1 \in 1 .. Len(input) /\ i + 1 \in D /\ (i + 1) - 1 = i
          /\ i + 1 # 0 /\ p[i] \in Bytes
      BY <1>0, <2>2
    <3>2. p[i + 1] = g(i + 1, p[i])
      <4> HIDE DEF D
      <4> QED
        BY <1>9, <3>1
    <3> QED
      BY <1>1, <3>1, <3>2
  <2> HIDE DEF T
  <2> QED
    BY <2>1, <2>2, Induction
<1> QED
  BY <1>0, <1>8, <1>10

LEMMA Joined ==
  ASSUME NEW a \in Seq(Bytes), NEW b \in Seq(Bytes)
  PROVE  /\ a \o b \in Seq(Bytes) /\ Len(a \o b) = Len(a) + Len(b)
         /\ \A i \in 1 .. Len(a) : (a \o b)[i] = a[i]
         /\ \A i \in 1 .. Len(b) : (a \o b)[Len(a) + i] = b[i]
OBVIOUS

\* The keys of two streams of one seed differ.
LEMMA KeyInjective ==
  ASSUME NEW s \in Seeds, NEW t \in Threads, NEW u \in Threads,
         NEW q \in Rounds, NEW r \in Rounds, Key(s, t, q) = Key(s, u, r)
  PROVE  t = u /\ q = r
<1> DEFINE mark(n) == IF n > 0 THEN <<R>> \o LeBytes(n, CrcBytes) ELSE << >>
           a == LeBytes(t, TidBytes)
           b == LeBytes(u, TidBytes)
<1>0. /\ s \in Seq(Bytes) /\ q \in Nat /\ r \in Nat /\ CrcBytes \in Nat \ {0}
      /\ TidBytes \in Nat
      /\ t \in 0 .. Pow(Base, TidBytes) - 1 /\ u \in 0 .. Pow(Base, TidBytes) - 1
      /\ q \in 0 .. Pow(Base, CrcBytes) - 1 /\ r \in 0 .. Pow(Base, CrcBytes) - 1
      /\ t \in Nat /\ u \in Nat /\ R \in Bytes
  <2>1. s \in Seq(Bytes) /\ CrcBytes \in Nat \ {0} /\ TidBytes \in Nat \ {0}
    BY GeneratorsAssumption
  <2>2. t \in 0 .. Pow(Base, TidBytes) - 1 /\ u \in 0 .. Pow(Base, TidBytes) - 1
    BY GeneratorsAssumption
  <2>3. q \in 0 .. AllOnes /\ r \in 0 .. AllOnes
    BY GeneratorsAssumption
  <2>4. AllOnes = Pow(Base, CrcBytes) - 1
    <3>1. Pow(Pow(2, ByteBits), CrcBytes) = Pow(2, ByteBits * CrcBytes)
      BY Sizes, PowTimes
    <3> QED
      BY <3>1 DEF Base, CrcBits, AllOnes
  <2>5. Pow(Base, TidBytes) \in Nat
    BY <2>1, Sizes, PowDef
  <2>6. R \in Bytes
    BY Sizes DEF R, Bytes
  <2> QED
    BY <2>1, <2>2, <2>3, <2>4, <2>5, <2>6, Sizes
<1>1. /\ a \in Seq(Bytes) /\ b \in Seq(Bytes) /\ Len(a) = TidBytes /\ Len(b) = TidBytes
  BY <1>0, LeBytesDef
<1>2. ASSUME NEW n \in Nat
      PROVE  /\ mark(n) \in Seq(Bytes)
             /\ Len(mark(n)) = IF n > 0 THEN CrcBytes + 1 ELSE 0
             /\ n > 0 => \A i \in 1 .. CrcBytes :
                           mark(n)[i + 1] = LeBytes(n, CrcBytes)[i]
  <2> DEFINE l == LeBytes(n, CrcBytes)
  <2>1. l \in Seq(Bytes) /\ Len(l) = CrcBytes
    BY <1>0, LeBytesDef
  <2> HIDE DEF l
  <2>2. /\ <<R>> \o l \in Seq(Bytes) /\ Len(<<R>> \o l) = CrcBytes + 1
        /\ \A i \in 1 .. CrcBytes : (<<R>> \o l)[i + 1] = l[i]
    BY <1>0, <2>1
  <2> QED
    BY <1>0, <2>1, <2>2 DEF l
<1>3. Key(s, t, q) = (s \o a) \o mark(q) /\ Key(s, u, r) = (s \o b) \o mark(r)
  BY DEF Key
<1> HIDE DEF mark
<1>4. /\ mark(q) \in Seq(Bytes) /\ mark(r) \in Seq(Bytes)
      /\ Len(mark(q)) = IF q > 0 THEN CrcBytes + 1 ELSE 0
      /\ Len(mark(r)) = IF r > 0 THEN CrcBytes + 1 ELSE 0
  BY <1>0, <1>2
<1> DEFINE m == Len(s)
           x == s \o a
           y == s \o b
           d == mark(q)
           e == mark(r)
<1> HIDE DEF a, b
<1>5. /\ m \in Nat /\ TidBytes \in Nat /\ x \in Seq(Bytes) /\ y \in Seq(Bytes)
      /\ Len(x) = m + TidBytes /\ Len(y) = m + TidBytes
      /\ \A i \in 1 .. TidBytes : x[m + i] = a[i] /\ y[m + i] = b[i]
  <2>1. /\ x \in Seq(Bytes) /\ Len(x) = m + Len(a)
        /\ \A i \in 1 .. Len(a) : x[m + i] = a[i]
    BY <1>0, <1>1, Joined
  <2>2. /\ y \in Seq(Bytes) /\ Len(y) = m + Len(b)
        /\ \A i \in 1 .. Len(b) : y[m + i] = b[i]
    BY <1>0, <1>1, Joined
  <2>3. m \in Nat
    BY <1>0
  <2> HIDE DEF m, x, y
  <2> QED
    BY <1>0, <1>1, <2>1, <2>2, <2>3
<1> HIDE DEF m, x, y, d, e
<1>6. x \o d = y \o e /\ d \in Seq(Bytes) /\ e \in Seq(Bytes)
  BY <1>3, <1>4 DEF x, y, d, e
<1>7. Len(d) = Len(e)
  <2>1. Len(x \o d) = Len(x) + Len(d) /\ Len(y \o e) = Len(y) + Len(e)
    BY <1>5, <1>6, Joined
  <2>2. Len(d) \in Nat /\ Len(e) \in Nat
    BY <1>6
  <2> QED
    BY <1>5, <1>6, <2>1, <2>2
<1>8. t = u
  <2>1. ASSUME NEW i \in 1 .. TidBytes PROVE a[i] = b[i]
    <3>1. m + i \in 1 .. Len(x) /\ m + i \in 1 .. Len(y)
      BY <1>5
    <3>2. (x \o d)[m + i] = x[m + i] /\ (y \o e)[m + i] = y[m + i]
      BY <1>5, <1>6, <3>1, Joined
    <3> QED
      BY <1>5, <1>6, <3>2
  <2>2. a = b
    BY <1>0, <1>1, <2>1
  <2> QED
    BY <1>0, <2>2, LeBytesInjective DEF a, b
<1>9. q = r
  <2>1. (q > 0) = (r > 0)
    BY <1>0, <1>4, <1>7 DEF d, e
  <2>2. CASE q > 0
    <3>1. ASSUME NEW i \in 1 .. CrcBytes
          PROVE  LeBytes(q, CrcBytes)[i] = LeBytes(r, CrcBytes)[i]
      <4>1. i + 1 \in 1 .. Len(d) /\ i + 1 \in 1 .. Len(e)
        BY <1>0, <1>4, <2>1, <2>2 DEF d, e
      <4>2. (x \o d)[Len(x) + (i + 1)] = d[i + 1]
        BY <1>5, <1>6, <4>1, Joined
      <4>3. (y \o e)[Len(y) + (i + 1)] = e[i + 1]
        BY <1>5, <1>6, <4>1, Joined
      <4>4. d[i + 1] = e[i + 1]
        BY <1>5, <1>6, <4>2, <4>3
      <4>5. d[i + 1] = LeBytes(q, CrcBytes)[i]
        BY <1>0, <1>2, <2>2 DEF d
      <4>6. e[i + 1] = LeBytes(r, CrcBytes)[i]
        BY <1>0, <1>2, <2>1, <2>2 DEF e
      <4> QED
        BY <4>4, <4>5, <4>6
    <3>2. LeBytes(q, CrcBytes) = LeBytes(r, CrcBytes)
      BY <3>1 DEF LeBytes
    <3> QED
      BY <1>0, <3>2, LeBytesInjective
  <2>3. CASE ~(q > 0)
    BY <1>0, <2>1, <2>3
  <2> QED
    BY <2>2, <2>3
<1> QED
  BY <1>8, <1>9

-----------------------------------------------------------------------------
(* The worker *)

\* The word at byte p of a stream with a key, and what a chunk that ends at
\* byte a holds.
CrcWord(key, p) ==
  BitwiseCrc(key \o LeBytes(p \div (CrcBytes * Base), CrcBytes)
                 \o [i \in 1 .. ((p % (CrcBytes * Base)) \div CrcBytes) + 1 |-> i - 1])

Pattern(type, key, p) ==
  IF type = "Crc" THEN CrcWord(key, p) ELSE KeyStream(key, p \div WordBytes)

SizeOfWord(type) == IF type = "Crc" THEN CrcBytes ELSE WordBytes
Highest(type)    == IF type = "Crc" THEN AllOnes ELSE Pow(Base, WordBytes) - 1

IsPattern(type, key, inv, ch, a) ==
  \A i \in DOMAIN ch :
    LET w == Pattern(type, key, a - (Len(ch) - i + 1) * SizeOfWord(type))
    IN  ch[i] = IF inv THEN Highest(type) - w ELSE w

\* The bytes that one count of the generator stands for.
Unit(type) == IF type = "Crc" THEN CrcBytes * Base ELSE WordBytes

\* The invariant: a generator that goes on has the key of its stream and is
\* where it should be.
GeneratorsInv ==
  /\ stype \in Types /\ seed \in Seeds /\ thread \in Threads /\ round \in Rounds
  /\ factor \in ChunkFactors
  /\ folded \in {<< >>, NewKey} /\ at \in Nat /\ counter \in Nat
  /\ active => folded = NewKey /\ at = counter * Unit(stype)
  /\ IsPattern(stype, folded, invert, chunk, at)

LEMMA IsPatternNow ==
  IsPattern(stype, folded, invert, chunk, at) <=> ChunkIsPattern
BY DEF IsPattern, ChunkIsPattern, Pattern, CrcWord, SizeOfWord, Highest, WordAt,
       WordSize, BaseSize, MaxWord

LEMMA NewKeyType ==
  ASSUME GeneratorsInv
  PROVE  /\ NewKey # << >>
         /\ stype = "Crc" => NewKey \in Seq(Bytes)
<1>1. Derive(Key(seed, thread, round)) \in Seq(Bytes)
  BY GeneratorsAssumption DEF GeneratorsInv
<1> DEFINE size == IF stype = "Crc" THEN CrcBytes ELSE CipherKey
<1>2. size \in Nat \ {0}
  BY Sizes
<1> HIDE DEF size
<1>3. NewKey \in [1 .. size -> Bytes]
  BY <1>1, <1>2, FoldType DEF NewKey, size
<1>4. NewKey # << >>
  <2>1. 1 \in DOMAIN NewKey
    BY <1>2, <1>3
  <2> QED
    BY <2>1
<1>5. NewKey \in Seq(Bytes)
  BY <1>2, <1>3
<1> QED
  BY <1>4, <1>5

\* The bytes of a block of the CRC, and the byte at word w of block n + b, as
\* the end of a chunk of f blocks gives it.
CrcUnit == CrcBytes * Base

CrcByte(n, f, b, w) ==
  (n * CrcUnit + f * CrcUnit) - (f * Base - (b * Base + w + 1) + 1) * CrcBytes

LEMMA CrcPosition ==
  ASSUME NEW n \in Nat, NEW f \in Nat, NEW b \in Nat, NEW w \in 0 .. Base - 1
  PROVE  /\ CrcByte(n, f, b, w) \div CrcUnit = n + b
         /\ (CrcByte(n, f, b, w) % CrcUnit) \div CrcBytes = w
<1> DEFINE v == w * CrcBytes
<1>0. Base \in Nat \ {0} /\ CrcBytes \in Nat \ {0} /\ w \in Nat
  BY Sizes
<1>1. CrcUnit \in Nat \ {0} /\ v \in 0 .. CrcUnit - 1
  <2>1. PICK e \in Nat : Base = w + 1 + e
    <3>1. Base - w - 1 \in Nat /\ Base = w + 1 + (Base - w - 1)
      BY <1>0
    <3> QED
      BY <3>1
  <2>2. CrcUnit = v + CrcBytes + CrcBytes * e /\ CrcBytes * e \in Nat /\ v \in Nat
    BY <1>0, <2>1 DEF CrcUnit
  <2> QED
    BY <1>0, <2>2
<1>2. CrcByte(n, f, b, w) = (n + b) * CrcUnit + v
  <2>1. f * Base - (b * Base + w + 1) + 1 = f * Base - b * Base - w
    BY <1>0
  <2>2. (f * Base - b * Base - w) * CrcBytes
          = f * CrcUnit - b * CrcUnit - w * CrcBytes
    BY <1>0 DEF CrcUnit
  <2> DEFINE x == f * CrcUnit
             y == b * CrcUnit
             z == n * CrcUnit
  <2>3. x \in Int /\ y \in Int /\ z \in Int /\ v \in Int
    BY <1>0, <1>1
  <2>4. CrcByte(n, f, b, w) = (z + x) - (x - y - v)
    BY <2>1, <2>2 DEF CrcByte
  <2>5. (n + b) * CrcUnit = z + y
    BY <1>1
  <2> HIDE DEF x, y, z, v
  <2> QED
    BY <2>3, <2>4, <2>5
<1>3. n + b \in Nat
  OBVIOUS
<1> HIDE DEF v
<1>4. /\ CrcByte(n, f, b, w) \div CrcUnit = n + b
      /\ CrcByte(n, f, b, w) % CrcUnit = v
  <2> DEFINE m == n + b
  <2> HIDE DEF m
  <2>1. m \in Nat /\ CrcUnit \in Int /\ CrcUnit > 0
    BY <1>1, <1>3 DEF m
  <2>2. CrcByte(n, f, b, w) = m * CrcUnit + v
    BY <1>2 DEF m
  <2>3. CrcByte(n, f, b, w) \div CrcUnit = m /\ CrcByte(n, f, b, w) % CrcUnit = v
    BY <1>1, <2>1, <2>2, DivModUnique
  <2> QED
    BY <2>3 DEF m
<1>5. v \div CrcBytes = w
  BY <1>0, DivModMultiple DEF v
<1> QED
  BY <1>4, <1>5

LEMMA CrcOutput ==
  ASSUME GeneratorsInv, active, stype = "Crc"
  PROVE  /\ Len(Output) = factor * Base /\ DOMAIN Output = 1 .. factor * Base
         /\ \A i \in 1 .. factor * Base :
              Output[i] = CrcWord(folded, (at + factor * BaseSize)
                                            - (factor * Base - i + 1) * CrcBytes)
<1> DEFINE unit == CrcBytes * Base
<1>0. /\ at = counter * unit /\ factor \in Nat /\ counter \in Nat /\ BaseSize = unit
      /\ folded \in Seq(Bytes) /\ Base \in Nat \ {0} /\ factor * Base \in Nat
  <2>1. factor \in Nat
    BY GeneratorsAssumption DEF GeneratorsInv
  <2>2. factor * Base \in Nat
    BY <2>1, Sizes
  <2> QED
    BY <2>1, <2>2, Sizes, NewKeyType DEF GeneratorsInv, BaseSize, Unit
<1> DEFINE block == [b \in 0 .. factor - 1 |-> CrcBlock(folded, counter + b)]
<1>1. Output = [i \in 1 .. factor * Base |->
                  block[(i - 1) \div Base][((i - 1) % Base) + 1]]
  BY DEF Output
<1> HIDE DEF unit
<1>2. ASSUME NEW i \in 1 .. factor * Base
      PROVE  Output[i] = CrcWord(folded, (at + factor * BaseSize)
                                           - (factor * Base - i + 1) * CrcBytes)
  <2> DEFINE b == (i - 1) \div Base
             w == (i - 1) % Base
             p == (counter * unit + factor * unit) - (factor * Base - i + 1) * CrcBytes
  <2>1. i - 1 \in Nat /\ i - 1 < factor * Base
    BY <1>0
  <2>2. b \in Nat /\ w \in 0 .. Base - 1 /\ i - 1 = b * Base + w
    BY <1>0, <2>1, DivMod
  <2> HIDE DEF b, w
  <2>3. b < factor
    <3> SUFFICES ASSUME b >= factor PROVE FALSE
      BY <1>0, <2>2
    <3>1. PICK e \in Nat : b = factor + e
      <4>1. b - factor \in Nat /\ b = factor + (b - factor)
        BY <1>0, <2>2
      <4> QED
        BY <4>1
    <3>2. b * Base = factor * Base + e * Base /\ e * Base \in Nat
      BY <1>0, <3>1
    <3> QED
      BY <1>0, <2>1, <2>2, <3>2
  <2>4. Output[i] = CrcBlock(folded, counter + b)[w + 1]
    <3>1. b \in 0 .. factor - 1
      BY <1>0, <2>2, <2>3
    <3> QED
      BY <1>1, <3>1 DEF b, w
  <2>5. CrcBlock(folded, counter + b)[w + 1]
          = BitwiseCrc(folded \o LeBytes(counter + b, CrcBytes)
                              \o [j \in 1 .. w + 1 |-> j - 1])
    <3>1. counter + b \in Nat
      BY <1>0, <2>2
    <3> QED
      BY <1>0, <2>2, <3>1, BlockWord
  <2>6. p \div unit = counter + b /\ (p % unit) \div CrcBytes = w
    <3>1. i = b * Base + w + 1
      BY <1>0, <2>2
    <3>2. p = CrcByte(counter, factor, b, w)
      BY <3>1 DEF CrcByte, CrcUnit, unit
    <3>3. unit = CrcUnit
      BY DEF CrcUnit, unit
    <3> HIDE DEF p
    <3> QED
      BY <1>0, <2>2, <3>2, <3>3, CrcPosition
  <2>7. CrcWord(folded, p) = BitwiseCrc(folded \o LeBytes(counter + b, CrcBytes)
                                               \o [j \in 1 .. w + 1 |-> j - 1])
    <3> HIDE DEF p
    <3> QED
      BY <2>6 DEF CrcWord, unit
  <2> QED
    BY <1>0, <2>4, <2>5, <2>7
<1>3. Len(Output) = factor * Base /\ DOMAIN Output = 1 .. factor * Base
  BY <1>0, <1>1
<1> QED
  BY <1>2, <1>3

LEMMA CipherOutput ==
  ASSUME GeneratorsInv, active, stype # "Crc"
  PROVE  /\ Len(Output) = factor * BaseWords /\ DOMAIN Output = 1 .. factor * BaseWords
         /\ \A i \in 1 .. factor * BaseWords :
              Output[i] = KeyStream(folded,
                            ((at + factor * BaseSize)
                               - (factor * BaseWords - i + 1) * WordBytes) \div WordBytes)
<1>0. /\ at = counter * WordBytes /\ factor \in Nat /\ counter \in Nat
      /\ BaseSize = WordBytes * BaseWords /\ factor * BaseWords \in Nat
      /\ WordBytes \in Nat \ {0} /\ BaseWords \in Nat \ {0}
  <2>1. factor \in Nat
    BY GeneratorsAssumption DEF GeneratorsInv
  <2>2. factor * BaseWords \in Nat
    BY <2>1, Sizes
  <2> QED
    BY <2>1, <2>2, Sizes DEF GeneratorsInv, BaseSize, Unit
<1>1. Output = [i \in 1 .. factor * BaseWords |-> KeyStream(folded, counter + i - 1)]
  BY DEF Output
<1>2. ASSUME NEW i \in 1 .. factor * BaseWords
      PROVE  Output[i] = KeyStream(folded,
                            ((at + factor * BaseSize)
                               - (factor * BaseWords - i + 1) * WordBytes) \div WordBytes)
  <2> DEFINE fb == factor * BaseWords
             p == (at + factor * BaseSize) - (fb - i + 1) * WordBytes
             k == counter + i - 1
  <2>1. factor * BaseSize = fb * WordBytes
    BY <1>0
  <2>2. fb \in Nat /\ i \in Int /\ i >= 1 /\ k \in Nat
    BY <1>0
  <2> HIDE DEF fb
  <2>3. (counter * WordBytes + fb * WordBytes) - (fb - i + 1) * WordBytes = k * WordBytes
    BY <1>0, <2>2
  <2>4. p = k * WordBytes
    BY <1>0, <2>1, <2>3
  <2> HIDE DEF k, p
  <2>5. p \div WordBytes = k
    BY <1>0, <2>2, <2>4, DivModMultiple
  <2> QED
    BY <1>1, <2>5 DEF p, k, fb
<1>3. Len(Output) = factor * BaseWords /\ DOMAIN Output = 1 .. factor * BaseWords
  BY <1>0, <1>1
<1> QED
  BY <1>2, <1>3

-----------------------------------------------------------------------------
(* The invariant *)

LEMMA InitInv == Init => GeneratorsInv
BY DEF Init, GeneratorsInv, IsPattern

LEMMA StartInv ==
  ASSUME GeneratorsInv, NEW off \in Offsets, Start(off)
  PROVE  GeneratorsInv'
<1>1. /\ UNCHANGED <<stype, seed, thread, round, invert, factor>>
      /\ folded' = NewKey /\ NewKey' = NewKey /\ Unit(stype)' = Unit(stype)
  BY DEF Start, args, NewKey, Key, Unit
<1>2. at' \in Nat
  BY GeneratorsAssumption DEF Start
<1>3. /\ off \in Nat /\ WordSize \in Nat \ {0} /\ BaseSize \in Nat \ {0}
  BY Sizes, GeneratorsAssumption DEF WordSize, BaseSize
<1>4. counter' \in Nat /\ (active' => at' = counter' * Unit(stype))
  <2>1. CASE Seekable(off)
    <3> DEFINE size == Unit(stype)
    <3>1. size \in Nat \ {0} /\ SeekCounter(off) = off \div size /\ off % size = 0
      BY <1>3, <2>1 DEF SeekCounter, Unit, Seekable, WordSize, BaseSize
    <3> HIDE DEF size
    <3>2. off \div size \in Nat /\ off = (off \div size) * size + (off % size)
      BY <1>3, <3>1, DivMod
    <3>3. off = (off \div size) * size
      <4> DEFINE q == (off \div size) * size
      <4>1. q \in Nat /\ off = q + 0
        BY <3>1, <3>2
      <4> HIDE DEF q
      <4>2. off = q
        BY <4>1
      <4> QED
        BY <4>2 DEF q
    <3> QED
      BY <2>1, <3>1, <3>2, <3>3 DEF Start, size
  <2>2. CASE ~Seekable(off)
    BY <2>2 DEF Start
  <2> QED
    BY <2>1, <2>2
<1>5. IsPattern(stype, folded, invert, chunk, at)'
  BY DEF Start, IsPattern
<1> QED
  BY <1>1, <1>2, <1>4, <1>5 DEF GeneratorsInv

\* What next() puts into the buffer is the pattern up to where it ends.
LEMMA OutputIsPattern ==
  ASSUME GeneratorsInv, active
  PROVE  IsPattern(stype, folded, FALSE, Output, at + factor * BaseSize)
<1>1. CASE stype = "Crc"
  BY <1>1, CrcOutput DEF IsPattern, Pattern, SizeOfWord
<1>2. CASE stype # "Crc"
  BY <1>2, CipherOutput DEF IsPattern, Pattern, SizeOfWord
<1> QED
  BY <1>1, <1>2

LEMMA ProduceInv ==
  ASSUME GeneratorsInv, Produce
  PROVE  GeneratorsInv'
<1>1. /\ UNCHANGED <<stype, seed, thread, round, invert, factor>>
      /\ folded' = folded /\ NewKey' = NewKey /\ Unit(stype)' = Unit(stype)
  BY DEF Produce, args, NewKey, Key, Unit
<1>2. active /\ at = counter * Unit(stype) /\ factor \in Nat /\ counter \in Nat
  BY GeneratorsAssumption DEF Produce, GeneratorsInv
<1>3. /\ counter' \in Nat /\ at' \in Nat /\ at' = counter' * Unit(stype)
  <2>1. CASE stype = "Crc"
    <3> DEFINE u == CrcBytes * Base
    <3>1. u \in Nat /\ Unit(stype) = u /\ BaseSize = u
      BY <2>1, Sizes DEF Unit, BaseSize
    <3>2. counter' = counter + factor /\ at' = counter * u + factor * u
      BY <1>2, <2>1, <3>1 DEF Produce, CounterAfter
    <3> HIDE DEF u
    <3>3. (counter + factor) * u = counter * u + factor * u /\ (counter + factor) * u \in Nat
      BY <1>2, <3>1
    <3> QED
      BY <1>2, <3>1, <3>2, <3>3
  <2>2. CASE stype # "Crc"
    <3>1. Unit(stype) = WordBytes /\ BaseSize = WordBytes * BaseWords
      BY <2>2 DEF Unit, BaseSize
    <3>2. /\ counter' = counter + factor * BaseWords
          /\ at' = counter * WordBytes + factor * (WordBytes * BaseWords)
      BY <1>2, <2>2, <3>1 DEF Produce, CounterAfter
    <3>3. WordBytes \in Nat /\ BaseWords \in Nat
      BY Sizes
    <3> DEFINE n == factor * BaseWords
    <3>4. n \in Nat /\ factor * (WordBytes * BaseWords) = n * WordBytes
      BY <1>2, <3>3
    <3> HIDE DEF n
    <3>5. (counter + n) * WordBytes = counter * WordBytes + n * WordBytes
          /\ (counter + n) * WordBytes \in Nat /\ counter + n \in Nat
      BY <1>2, <3>3, <3>4
    <3> QED
      BY <3>1, <3>2, <3>4, <3>5 DEF n
  <2> QED
    BY <2>1, <2>2
<1>4. IsPattern(stype, folded, invert, chunk, at)'
  <2>1. IsPattern(stype, folded, FALSE, Output, at')
    BY <1>2, OutputIsPattern DEF Produce
  <2>2. IsPattern(stype, folded, invert, chunk', at')
    <3>1. CASE invert
      <4>1. chunk' = [i \in DOMAIN Output |-> MaxWord - Output[i]]
        BY <3>1 DEF Produce
      <4>2. MaxWord = Highest(stype)
        BY DEF MaxWord, Highest
      <4>3. Len(chunk') = Len(Output) /\ DOMAIN chunk' = DOMAIN Output
        <5>1. \E n \in Nat : DOMAIN Output = 1 .. n /\ Len(Output) = n
          <6>1. factor * Base \in Nat /\ factor * BaseWords \in Nat
            BY <1>2, Sizes
          <6> QED
            BY <1>2, <6>1, CrcOutput, CipherOutput
        <5> QED
          BY <4>1, <5>1
      <4> QED
        BY <2>1, <3>1, <4>1, <4>2, <4>3 DEF IsPattern
    <3>2. CASE ~invert
      <4>1. chunk' = Output
        BY <3>2 DEF Produce
      <4> QED
        BY <2>1, <3>2, <4>1 DEF IsPattern
    <3> QED
      BY <3>1, <3>2
  <2> QED
    BY <1>1, <2>2 DEF IsPattern, Pattern, CrcWord, SizeOfWord, Highest
<1> QED
  BY <1>1, <1>2, <1>3, <1>4 DEF GeneratorsInv, Produce

LEMMA IdleInv ==
  ASSUME GeneratorsInv, Stop \/ UNCHANGED vars
  PROVE  GeneratorsInv'
<1>1. UNCHANGED <<stype, seed, thread, round, invert, factor, folded, counter, chunk, at>>
      /\ (active' => active)
  BY DEF Stop, vars, args
<1>2. NewKey' = NewKey /\ Unit(stype)' = Unit(stype)
  BY <1>1 DEF NewKey, Key, Unit
<1>3. IsPattern(stype, folded, invert, chunk, at)'
  BY <1>1 DEF GeneratorsInv, IsPattern, Pattern, CrcWord, SizeOfWord, Highest
<1> QED
  BY <1>1, <1>2, <1>3 DEF GeneratorsInv

LEMMA GeneratorsInvariant == Spec => []GeneratorsInv
<1>1. GeneratorsInv /\ [Next]_vars => GeneratorsInv'
  BY StartInv, ProduceInv, IdleInv DEF Next
<1> QED
  BY InitInv, <1>1, PTL DEF Spec

-----------------------------------------------------------------------------
(* The results *)

\* What a generator computes depends on the position in the stream alone:
\* wherever seek() went and however many blocks next() computes at once, for
\* every width of a byte and of the CRC, every polynomial of full degree, every
\* hash and every cipher.
THEOREM ChunkIsPatternHolds == Spec => []ChunkIsPattern
<1>1. GeneratorsInv => ChunkIsPattern
  BY IsPatternNow DEF GeneratorsInv
<1> QED
  BY GeneratorsInvariant, <1>1, PTL

\* As long as the counter has not gone round, no two blocks of one CRC stream
\* have a word in common at the same place.
THEOREM BlocksDifferHolds == Spec => []BlocksDiffer
<1>1. ASSUME GeneratorsInv PROVE BlocksDiffer
  <2> SUFFICES ASSUME stype = "Crc", folded # << >>
               PROVE  \A c, d \in 0 .. MaxCounter - 1 : c # d =>
                        \A i \in 1 .. Base : CrcBlock(folded, c)[i] # CrcBlock(folded, d)[i]
    BY DEF BlocksDiffer
  <2>1. folded \in Seq(Bytes)
    BY <1>1, NewKeyType DEF GeneratorsInv
  <2>2. 0 .. MaxCounter - 1 \subseteq Word
    BY Sizes, GeneratorsAssumption DEF Word
  <2> QED
    BY <2>1, <2>2, CrcBlocksDiffer
<1> QED
  BY GeneratorsInvariant, <1>1, PTL

\* The concatenation that the key is derived from can be taken apart again:
\* thread and round of a stream are determined by it.
THEOREM KeysDifferHolds == Spec => []KeysDiffer
<1>1. GeneratorsInv => KeysDiffer
  BY KeyInjective DEF GeneratorsInv, KeysDiffer
<1> QED
  BY GeneratorsInvariant, <1>1, PTL
=============================================================================
