------------------------------ MODULE Numbers ------------------------------
(***************************************************************************)
(* Powers, and the exclusive or of two machine words, as recursive         *)
(* functions.                                                              *)
(***************************************************************************)
EXTENDS Integers

\* b to the power of n.
Pow(b, n) ==
  LET p[i \in Nat] == IF i = 0 THEN 1 ELSE b * p[i - 1] IN p[n]

\* The exclusive or of the lowest n digits of two numbers.
Xor(n, a, b) ==
  LET x[i \in Nat] ==
        IF i = 0 THEN [cd \in Nat \X Nat |-> 0]
        ELSE [cd \in Nat \X Nat |->
                ((cd[1] + cd[2]) % 2) + 2 * x[i - 1][<<cd[1] \div 2, cd[2] \div 2>>]]
  IN  x[n][<<a, b>>]

=============================================================================
