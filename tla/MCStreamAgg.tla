---------------------------- MODULE MCStreamAgg ----------------------------
(***************************************************************************)
(* StreamAgg for TLC: chunks of four bytes; offsets at the beginning, in   *)
(* the middle of a chunk, in the second round of the streams and at a      *)
(* multiple of all of them; sectors that fit into a chunk and one that     *)
(* does not.                                                               *)
(***************************************************************************)
EXTENDS StreamAgg

MCOffsets == {0, 6, 16}
MCSectorSizes == {4, 3}

=============================================================================
