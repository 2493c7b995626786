----------------------------- MODULE MCByteCount -----------------------------
(***************************************************************************)
(* ByteCount for TLC: powers of 8 for 1024 and of 7 for 1000, 22 bits for  *)
(* 64 and 14 for 53; small numbers, and some on both sides of each limit.  *)
(***************************************************************************)
EXTENDS ByteCount

Around(n) == n - 2 .. n + 2

MCIntegers ==
  0 .. 40 \cup Around(2 ^ 9) \cup Around(2 ^ 16) \cup (2 ^ 22 - 2 .. 2 ^ 22 + 1)
MCQuarters ==
  -3 .. 150 \cup Around(2 ^ 9) \cup Around((2 ^ 21 + 2 ^ 9) \div 7 ^ 3)
    \cup Around(2 ^ 12)

=============================================================================
