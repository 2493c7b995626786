------------------------------ MODULE ByteCount ------------------------------
(***************************************************************************)
(* The byte counts of the command line (--seek, --bytes): parsebytes()     *)
(* reads one and prettybytes() prints it (disktest-lib/src/util.rs).       *)
(*                                                                         *)
(* A text is a number and a suffix; spaces and letter case do not matter.  *)
(* The number is an integer or a decimal fraction, of which quarters are   *)
(* kept.  The numbers of the code are scaled down: Kib for 1024, Kilo for  *)
(* 1000, U64Max for 2^64 - 1, Mantissa for the 53 bits of an f64.  Two     *)
(* exbibytes, 2 * Kib ^ 6, are 2^61 in the code.                           *)
(***************************************************************************)
EXTENDS Integers, Numbers

CONSTANTS Kib, Kilo, U64Max, Mantissa,
          Slack,       \* how far from 2^61 a sum of logarithms may be wrong
          Tenths, Hundredths, TenThousandths,  \* 10, 100 and 10000
          Integers4,   \* the integers a text may have
          Quarters     \* the fractions that an f64 can be, in quarters

\* Log2 is exact enough that a float below its bound fits by far.
ASSUME ByteCountAssumption ==
  /\ {Kib, Kilo, U64Max, Mantissa, Tenths, Hundredths, TenThousandths} \subseteq Nat \ {0}
  /\ Slack \in Nat
  /\ 1 < Kilo /\ Kilo < Kib /\ 2 * (2 * Pow(Kib, 6) + Slack) <= U64Max
  /\ Integers4 \subseteq Nat /\ Quarters \subseteq Int
  /\ Tenths < Hundredths /\ 2 * Hundredths <= Kilo
  /\ 2 * TenThousandths <= Pow(Kilo, 2)

VARIABLES text,   \* what was given
          bytes,  \* what parsebytes() returned
          shown   \* what prettybytes() printed last

vars == <<text, bytes, shown>>

Err       == -1
NotParsed == -2

Suffixes == {[form |-> f, exp |-> e] : f \in {"ib", "short", "b"}, e \in 1 .. 6}
NoSuffix == [form |-> "none", exp |-> 0]

Factor(u) == IF u.form = "b" THEN Pow(Kilo, u.exp) ELSE Pow(Kib, u.exp)

Texts ==
  [kind : {"int"}, num : Integers4, unit : Suffixes \cup {NoSuffix}]
    \cup [kind : {"float"}, num : Quarters, unit : Suffixes \cup {NoSuffix}]
    \cup [kind : {"nan", "inf", "-inf"}, num : {0}, unit : Suffixes]

-----------------------------------------------------------------------------
(* parsebytes() *)

\* The binary digits that n has too many for an f64.
Excess(n) ==
  CHOOSE i \in 0 .. n : /\ n < Pow(2, Mantissa) * Pow(2, i)
                        /\ i = 0 \/ n >= Pow(2, Mantissa) * Pow(2, i - 1)

\* The f64 next to n, the even one of two.
F64(n) ==
  LET unit == Pow(2, Excess(n))
      down == n \div unit
      rest == 2 * (n % unit)
  IN  IF rest > unit \/ (rest = unit /\ down % 2 = 1) THEN (down + 1) * unit
                                                      ELSE down * unit

\* An integer times a factor, unless it overflows.
CheckedMul(n, f) == IF n <= U64Max \div f THEN {n * f} ELSE {Err}

\* Mutant: the product is cut off, not rounded.
RoundProduct_Down(q, f) == F64(q * f) \div 4

\* q quarters times a factor, as an f64, rounded to an integer.
RoundProduct(q, f) == (F64(q * f) + 2) \div 4

\* The product of q quarters and f has a logarithm below 61 for sure, or may
\* have one as far as f64 can tell.
SurelyBelow(q, f) == q <= (4 * (2 * Pow(Kib, 6) - Slack) - 1) \div f

\* Mutant: the bound is the width of a u64, 64 for 61.
MaybeBelow_64(q, f) == q <= (4 * (16 * Pow(Kib, 6) + Slack)) \div f

MaybeBelow(q, f) == q <= (4 * (2 * Pow(Kib, 6) + Slack)) \div f

\* A negative number and a NaN have no logarithm; they count as 0.
FloatMul(q, f) ==
  IF q <= 0 THEN {0}
  ELSE (IF MaybeBelow(q, f) THEN {RoundProduct(q, f)} ELSE {})
         \cup (IF SurelyBelow(q, f) THEN {} ELSE {Err})

\* With the suffix that fits, an integer too large for a u64 is a float; without
\* one there are integers only.
Results(t) ==
  IF t.unit = NoSuffix
  THEN IF t.kind = "int" /\ t.num <= U64Max THEN {t.num} ELSE {Err}
  ELSE CASE t.kind = "int" /\ t.num <= U64Max -> CheckedMul(t.num, Factor(t.unit))
         [] t.kind = "int" /\ t.num > U64Max  -> FloatMul(4 * t.num, Factor(t.unit))
         [] t.kind = "float"                  -> FloatMul(t.num, Factor(t.unit))
         [] t.kind = "inf"                    -> {Err}
         [] t.kind \in {"nan", "-inf"}        -> {0}

Parse ==
  /\ bytes = NotParsed
  /\ bytes' \in Results(text)
  /\ UNCHANGED <<text, shown>>

-----------------------------------------------------------------------------
(* prettybytes() *)

\* The power of base whose unit is used.
Power(count, base) ==
  CHOOSE e \in 1 .. 6 : /\ e = 1 \/ count >= Pow(base, e)
                        /\ e = 6 \/ count < Pow(base, e + 1)

\* Mutant: the division cuts off all but one power.
Scaled_Short(count, base, e) ==
  IF e >= 3 THEN <<count \div Pow(base, e - 1), base>> ELSE <<count, Pow(base, e)>>

\* The fraction that is printed: a large count loses its last digits first.
Scaled(count, base, e) ==
  CASE e >= 4 -> <<count \div Pow(base, e - 2), Pow(base, 2)>>
    [] e = 3  -> <<count \div Pow(base, 2), base>>
    [] e <= 2 -> <<count, Pow(base, e)>>

\* Digits behind the point.
Precision(e) ==
  CASE e >= 4 -> TenThousandths [] e = 3 -> Hundredths [] e <= 2 -> Tenths

\* The numbers next to a fraction, with that many digits; one of two if it lies
\* in the middle.
Nearest(x, digits) ==
  LET k == (x[1] * digits) \div x[2]
  IN  {i \in {k, k + 1} : 2 * (i * x[2] - x[1] * digits) \in -x[2] .. x[2]}

Show(base) ==
  /\ bytes >= Kib
  /\ LET e == Power(bytes, base)
     IN  \E k \in Nearest(Scaled(bytes, base, e), Precision(e)) :
           shown' = [base |-> base, exp |-> e, num |-> k]
  /\ UNCHANGED <<text, bytes>>

-----------------------------------------------------------------------------

NotShown == [base |-> 1, exp |-> 0, num |-> 0]

Init == text \in Texts /\ bytes = NotParsed /\ shown = NotShown

Next == Parse \/ Show(Kib) \/ Show(Kilo)

Spec == Init /\ [][Next]_vars

-----------------------------------------------------------------------------
(* Properties *)

\* Four times the exact product of a text; a negative number, which is a fraction
\* to the parser, and a NaN stand for nothing.
Exact ==
  (IF text.kind = "int" THEN 4 * text.num ELSE IF text.num > 0 THEN text.num ELSE 0)
    * Factor(text.unit)

\* What an f64 may make of n quarters, with its rounding to an integer.
Precision64(n) == LET error == 2 + n \div Pow(2, Mantissa) IN -error .. error

\* A byte count that is accepted is what was written: exactly for an integer,
\* for a fraction the next integer, up to the precision of an f64, and 0 for a
\* negative number.  Nothing wraps around or is cut off at 2^64.
AcceptedAsWritten ==
  bytes >= 0 =>
    /\ bytes \in 0 .. U64Max
    /\ text.kind = "int" /\ text.num <= U64Max => 4 * bytes = Exact
    /\ 4 * bytes - Exact \in Precision64(Exact)

\* The two ways of reading a number agree, though one looks for an overflow in
\* the product and the other in a sum of logarithms (util.rs:95, 102): a whole
\* number that is accepted as a fraction ("3.0 KiB") is accepted as an integer
\* ("3 KiB"), too, and gives the same byte count up to the precision of an f64.
FractionIsInteger ==
  bytes >= 0 /\ text.kind = "float" /\ text.num > 0 /\ text.num % 4 = 0 =>
    \A b \in Results([text EXCEPT !.kind = "int", !.num = @ \div 4]) :
      b >= 0 /\ 4 * (bytes - b) \in Precision64(4 * b)

\* The size that is printed is off by less than its last digit, though the
\* division before the point is one of integers (util.rs:45-48).
ShownIsClose ==
  shown # NotShown =>
    LET unit == Pow(shown.base, shown.exp)
    IN  shown.num * unit - bytes * Precision(shown.exp) \in -(unit - 1) .. unit - 1

=============================================================================
