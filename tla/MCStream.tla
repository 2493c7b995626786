------------------------------ MODULE MCStream ------------------------------
(***************************************************************************)
(* Stream for TLC: two base blocks to a chunk of four bytes, a stream      *)
(* opened at its beginning, one chunk further, and at an offset that the   *)
(* generator cannot seek to.                                               *)
(***************************************************************************)
EXTENDS Stream

MCOffsets == {0, 4, 3}

=============================================================================
