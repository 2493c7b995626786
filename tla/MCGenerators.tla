---------------------------- MODULE MCGenerators ----------------------------
(***************************************************************************)
(* Generators for TLC: bytes of two bits and CRC words of two bytes, so    *)
(* that a stream has 16 blocks.  Hash and cipher are any functions that    *)
(* spread their arguments.                                                 *)
(***************************************************************************)
EXTENDS Generators, SequencesExt

MCDerive(key) ==
  [i \in 1 .. 3 |-> FoldLeft(LAMBDA a, b : (3 * a + b + i) % Base, i, key)]

MCKeyStream(k, w) == (5 * w + k[1] + 3 * (w \div 4) * k[2]) % 4

MCSeeds == {<<1>>, <<2, 3>>}

=============================================================================
