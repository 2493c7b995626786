------------------------------ MODULE Pattern ------------------------------
(***************************************************************************)
(* The pattern disktest writes, as its user sees it: a sequence of chunks  *)
(* numbered from the start of the disk.  Chunk g is always the same bytes, *)
(* wherever a run starts.  It is named by the worker that computes it and  *)
(* the position of its first byte in that worker's stream.  A run starts   *)
(* at the chunk its seek offset lies in, and goes through the chunks in    *)
(* order.  Module StreamAgg implements it.                                 *)
(***************************************************************************)
EXTENDS Integers

CONSTANTS NumThreads,  \* worker threads
          ChunkBytes,  \* bytes in one chunk
          Offsets      \* byte offsets a run may be started at

VARIABLES at,   \* number of the chunk delivered next
          out   \* the chunk delivered last

NoChunk == [thread |-> 0, pos |-> -1]

\* Chunk number g.
Canonical(g) ==
  [thread |-> g % NumThreads, pos |-> (g \div NumThreads) * ChunkBytes]

Init == at = 0 /\ out = NoChunk

\* Start a run; the offset is rounded down to a whole chunk.
Seek(off) ==
  /\ at' = off \div ChunkBytes
  /\ UNCHANGED out

Deliver ==
  /\ out' = Canonical(at)
  /\ at' = at + 1

Next == Deliver \/ \E off \in Offsets : Seek(off)

Spec == Init /\ [][Next]_<<at, out>>

=============================================================================
