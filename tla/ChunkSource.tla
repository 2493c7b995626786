----------------------------- MODULE ChunkSource -----------------------------
(***************************************************************************)
(* What one pseudo random stream promises to its user, with no thread, no  *)
(* channel and no lock in it: once opened at a byte offset it delivers the *)
(* chunks that follow that offset one after the other, it computes at most *)
(* MaxThres of them in advance, and it fails exactly when the generator    *)
(* cannot seek to the offset.  Module Stream implements it.                *)
(*                                                                         *)
(* A chunk is identified by the generator position of its first byte: the  *)
(* generators compute their output from (seed, position) alone             *)
(* (generator/chacha.rs:51-75, generator/crc.rs:80-125).                   *)
(***************************************************************************)
EXTENDS Integers

CONSTANTS MaxThres,     \* chunks computed in advance (DtStream::MAX_THRES)
          BaseSize,     \* bytes in one base block of the generator
          ChunkFactor,  \* base blocks in one chunk
          Offsets       \* byte offsets a stream may be opened at

VARIABLES phase,  \* "off", "on" or "failed"
          first,  \* offset the stream was opened at
          ahead,  \* chunks computed and not delivered yet
          taken,  \* chunks delivered since it was opened
          last    \* position of the chunk delivered last

vars == <<phase, first, ahead, taken, last>>

\* Bytes in one chunk.
ChunkSize == BaseSize * ChunkFactor

\* The generator can only seek to whole base blocks.
Seekable(off) == off % BaseSize = 0

\* Position of chunk number k of a stream opened at off.
ChunkPos(off, k) == off + k * ChunkSize

Init ==
  /\ phase = "off"
  /\ first = 0
  /\ ahead = 0
  /\ taken = 0
  /\ last = 0

Open(off) ==
  /\ phase = "off"
  /\ phase' = "on"
  /\ first' = off
  /\ ahead' = 0
  /\ taken' = 0
  /\ UNCHANGED last

Compute ==
  /\ phase = "on"
  /\ Seekable(first)
  /\ ahead < MaxThres
  /\ ahead' = ahead + 1
  /\ UNCHANGED <<phase, first, taken, last>>

Deliver ==
  /\ phase = "on"
  /\ ahead > 0
  /\ ahead' = ahead - 1
  /\ taken' = taken + 1
  /\ last' = ChunkPos(first, taken)
  /\ UNCHANGED <<phase, first>>

Fail ==
  /\ phase = "on"
  /\ ~Seekable(first)
  /\ phase' = "failed"
  /\ UNCHANGED <<first, ahead, taken, last>>

Close ==
  /\ phase # "off"
  /\ phase' = "off"
  /\ UNCHANGED <<first, ahead, taken, last>>

Next ==
  \/ \E off \in Offsets : Open(off)
  \/ Compute
  \/ Deliver
  \/ Fail
  \/ Close

Spec == Init /\ [][Next]_vars

=============================================================================
