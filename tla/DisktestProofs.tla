--------------------------- MODULE DisktestProofs ---------------------------
(***************************************************************************)
(* Proofs about Disktest, for every disk, fake or not, chunk size, request *)
(* and number of failures and losses.                                      *)
(*                                                                         *)
(* The inductive invariant is built in layers.  Book relates the counters, *)
(* the buffer and the file position while a call runs; the layers after it *)
(* each add what one property needs.  Three parts follow one another: one  *)
(* call, what Ok of write() says of the medium, and what verify() says,    *)
(* alone and after write().                                                *)
(***************************************************************************)
EXTENDS Disktest, NumberFacts, TLAPS

USE IoAssumption, DisktestAssumption

-----------------------------------------------------------------------------
(* The operations of RawIo *)

\* A cell lies in a block of the medium.
LEMMA PhysInBlocks == \A p \in Nat : Phys(p) \in Blocks
<1>1. Real \in Int /\ Real > 0
  OBVIOUS
<1> QED
  BY <1>1, DivMod DEF Phys, Blocks

\* Every content of a cell is a pattern or Junk.
LEMMA PatInContents == \A r \in Rounds, p \in Nat : Pat(r, p) \in Contents
BY DEF Pat, Contents

\* put keeps the types, when it has room for the data.
LEMMA PutTyped ==
  ASSUME IoTypeOK, NEW data, NEW n \in Nat, n <= Room,
         \A i \in 0 .. n - 1 : data[i] \in Contents,
         Put(data, n), UNCHANGED <<rots, late>>, errs' \in 0 .. MaxErrs
  PROVE  IoTypeOK'
<1> DEFINE S == fpos .. fpos + n - 1
           Last(b) == (fpos + n - 1) - ((fpos + n - 1 - b) % Real)
<1>1. fpos' = fpos + n /\ fpos' \in Nat
  BY DEF Put, IoTypeOK
<1>2. S \subseteq Cells /\ (n > 0 => fpos + n <= Capacity)
  BY DEF Room, Cells, IoTypeOK
<1>3. len' \in 0 .. Capacity
  BY <1>2 DEF Put, IoTypeOK
<1>4. UNCHANGED <<kind, wbErr, handle>>
  BY DEF Put
<1>5. CASE kind = "chr"
  <2>1. UNCHANGED <<cache, dirty>>
        /\ medium' = [b \in Blocks |-> IF Last(b) >= fpos
                                       THEN data[Last(b) - fpos] ELSE medium[b]]
    BY <1>5 DEF Put
  <2>2. ASSUME NEW b \in Blocks, Last(b) >= fpos
        PROVE  data[Last(b) - fpos] \in Contents
    <3>1. (fpos + n - 1 - b) % Real \in 0 .. Real - 1
      BY DEF Blocks, IoTypeOK
    <3>2. Last(b) - fpos \in 0 .. n - 1
      BY <2>2, <3>1 DEF IoTypeOK
    <3> QED
      BY <3>2
  <2>3. medium' \in [Blocks -> Contents]
    BY <2>1, <2>2 DEF IoTypeOK
  <2> QED
    BY <1>1, <1>3, <1>4, <2>1, <2>3 DEF IoTypeOK
<1>6. CASE kind # "chr"
  <2>1. /\ UNCHANGED medium
        /\ dirty' = dirty \cup S
        /\ cache' = [p \in DOMAIN cache \cup S |->
                       IF p \in S THEN data[p - fpos] ELSE cache[p]]
    BY <1>6 DEF Put
  <2>2. DOMAIN cache' = DOMAIN cache \cup S
    BY <2>1
  <2>3. ASSUME NEW p \in S PROVE data[p - fpos] \in Contents
    <3>1. p - fpos \in 0 .. n - 1
      BY DEF IoTypeOK
    <3> QED
      BY <3>1
  <2>4. \A p \in DOMAIN cache' : cache'[p] \in Contents
    BY <2>1, <2>2, <2>3 DEF IoTypeOK
  <2> QED
    BY <1>1, <1>2, <1>3, <1>4, <2>1, <2>2, <2>4 DEF IoTypeOK
<1> QED
  BY <1>5, <1>6

\* A read keeps the types.
LEMMA ReadTyped ==
  ASSUME IoTypeOK, NEW n \in Nat, n = 0 \/ fpos + n <= len,
         ReadOk(n), UNCHANGED <<rots, late>>
  PROVE  IoTypeOK' /\ \A i \in 1 .. n : Content(fpos + i - 1) \in Contents
<1> DEFINE S == fpos .. fpos + n - 1
<1>1. S \subseteq Cells
  BY DEF Cells, IoTypeOK
<1>2. \A p \in DOMAIN cache \cup S : Content(p) \in Contents
  BY <1>1, PhysInBlocks DEF Content, IoTypeOK, Cells
<1>3. \A i \in 1 .. n : fpos + i - 1 \in S
  BY DEF IoTypeOK
<1>4. IoTypeOK'
  BY <1>1, <1>2 DEF ReadOk, IoTypeOK
<1> QED
  BY <1>2, <1>3, <1>4

\* Eviction keeps the types of the cache.
LEMMA EvictTyped ==
  ASSUME IoTypeOK, NEW S, Evicted(S), S \cap dirty = {}
  PROVE  /\ DOMAIN cache' = DOMAIN cache \ S
         /\ \A p \in DOMAIN cache' : cache'[p] = cache[p]
         /\ \A p \in DOMAIN cache' : cache'[p] \in Contents
         /\ dirty \subseteq DOMAIN cache'
BY DEF Evicted, IoTypeOK

\* The kernel keeps the types.
LEMMA KernelTyped == IoTypeOK /\ Kernel => IoTypeOK'
<1> SUFFICES ASSUME IoTypeOK, Kernel PROVE IoTypeOK'
  OBVIOUS
<1>1. ASSUME NEW p \in Cells, Writeback(p) PROVE IoTypeOK'
  <2>1. Phys(p) \in Blocks
    BY PhysInBlocks DEF Cells
  <2> QED
    BY <1>1, <2>1 DEF Writeback, IoTypeOK
<1>2. ASSUME NEW p \in Cells, WritebackFails(p) PROVE IoTypeOK'
  BY <1>2 DEF WritebackFails, Fault, IoTypeOK
<1>3. ASSUME NEW p \in Cells, Evict(p) PROVE IoTypeOK'
  <2>1. Evicted({p}) /\ {p} \cap dirty = {}
    BY <1>3 DEF Evict
  <2> QED
    BY <1>3, <2>1, EvictTyped DEF Evict, IoTypeOK
<1>4. ASSUME NEW b \in Blocks, Rot(b) PROVE IoTypeOK'
  BY <1>4 DEF Rot, IoTypeOK, Contents
<1> QED
  BY <1>1, <1>2, <1>3, <1>4 DEF Kernel


-----------------------------------------------------------------------------
(* The calls *)

\* The open file is the one the call needs.
HandleInv ==
  /\ pc \in {"io", "sync", "close"} => handle = Mode
  /\ pc \in {"activate", "seek", "drop"} => handle \in {"none", Mode}
  /\ pc \in {"open", "idle", "dead"} => handle = "none"
  /\ op = "verify" => dropCount = 0

\* The counters agree with the request, and in the loop with the chunks taken,
\* the buffer and the file position.
Book ==
  /\ HandleInv
  /\ done + left = max
  /\ pc \notin {"idle", "dead"} => round \in Rounds
  /\ pc \in {"open", "activate", "seek", "io"} => res = "none"
  /\ pc \in {"open", "activate", "seek"} => done = 0 /\ buf = << >>
  /\ pc \in {"seek", "io"} => done = chunks * Chunk
  /\ pc = "io" =>
       /\ readLen = Min2(Chunk, left) \/ op = "write"
       /\ fpos = first + done + Len(buf)
       /\ op = "write" => buf = << >>
       /\ op = "verify" => Len(buf) < readLen \/ (readLen = 0 /\ buf = << >>)

Base == TypeOK /\ Book

\* The chunk that comes next, as long as the chunks before it were whole.
LEMMA ChunkDataPat ==
  ASSUME TypeOK, round \in Rounds, done = chunks * Chunk
  PROVE  /\ \A i \in 0 .. Chunk - 1 : ChunkData[i] = Pat(round, first + done + i)
         /\ \A i \in 0 .. Chunk - 1 : ChunkData[i] \in Contents
<1>1. \A i \in 0 .. Chunk - 1 : ChunkData[i] = Pat(round, first + done + i)
  BY DEF ChunkData, TypeOK
<1>2. \A i \in 0 .. Chunk - 1 : first + done + i \in Nat
  BY DEF TypeOK
<1> QED
  BY <1>1, <1>2, PatInContents

LEMMA RoundDownNat == \A s \in Nat : RoundDown(s) \in Nat /\ RoundDown(s) <= s
<1> SUFFICES ASSUME NEW s \in Nat PROVE RoundDown(s) \in Nat /\ RoundDown(s) <= s
  OBVIOUS
<1>0. Chunk \in Int /\ Chunk > 0
  OBVIOUS
<1>1. /\ s \div Chunk \in Nat /\ s % Chunk \in 0 .. Chunk - 1
      /\ s = (s \div Chunk) * Chunk + (s % Chunk)
  BY <1>0, DivMod
<1>2. (s \div Chunk) * Chunk \in Nat
  BY <1>1
<1> QED
  BY <1>1, <1>2 DEF RoundDown

LEMMA BaseInit == Init => Base
<1> SUFFICES ASSUME Init PROVE Base
  OBVIOUS
<1>1. IoTypeOK
  <2>1. DOMAIN cache = {}
    BY DEF Init, IoInit
  <2>2. kind \in {"regular", "blk", "chr"} /\ len \in 0 .. Capacity
    BY DEF Init, IoInit
  <2>3. medium \in [Blocks -> Contents]
    BY DEF Init, IoInit, Contents
  <2>4. wbErr \in BOOLEAN /\ handle \in {"none", "read", "write"}
    BY DEF Init, IoInit
  <2>5. /\ fpos \in Nat /\ errs \in 0 .. MaxErrs /\ rots \in 0 .. MaxRots
        /\ late \subseteq Blocks /\ dirty = {}
    BY DEF Init, IoInit
  <2> QED
    BY <2>1, <2>2, <2>3, <2>4, <2>5 DEF IoTypeOK
<1>2. TypeOK
  <2>1. buf \in Seq(Contents) /\ Len(buf) = 0
    BY DEF Init
  <2>2. abort \in BOOLEAN /\ cold \in BOOLEAN
    BY DEF Init
  <2>3. /\ op \in {"write", "verify"} /\ round \in Rounds \cup {0}
        /\ seek \in Nat /\ max \in 0 .. Unlimited
        /\ first \in Nat /\ chunks \in Nat
    BY DEF Init
  <2>4. /\ left \in 0 .. Unlimited /\ done \in 0 .. Unlimited
        /\ readLen \in 0 .. Chunk
        /\ dropOffset \in Nat /\ dropCount \in Nat
        /\ calls \in 0 .. MaxCalls
    BY DEF Init
  <2>5. pc = "idle" /\ res = "none"
    BY DEF Init
  <2> QED
    BY <1>1, <2>1, <2>2, <2>3, <2>4, <2>5 DEF TypeOK
<1>3. Book
  BY DEF Init, IoInit, Book, HandleInv
<1> QED
  BY <1>2, <1>3 DEF Base

\* The caller.
LEMMA BaseCall ==
  ASSUME Base, NEW o \in {"write", "verify"}, NEW r \in Rounds,
         NEW s \in Seeks, NEW m \in Sizes, Call(o, r, s, m)
  PROVE  Base'
<1>1. RoundDown(s) \in Nat
  BY RoundDownNat
<1>2. IoTypeOK'
  BY DEF Base, TypeOK, IoTypeOK, Call, ioVars
<1>3. TypeOK'
  BY <1>1, <1>2 DEF Base, TypeOK, Call, ioVars
<1>4. Book'
  BY DEF Base, TypeOK, Book, HandleInv, Call, ioVars, Mode
<1> QED
  BY <1>3, <1>4 DEF Base

LEMMA BaseSignal == Base /\ Signal => Base'
BY DEF Base, TypeOK, IoTypeOK, Book, HandleInv, Signal, ioVars, runVars,
       argVars, fileVars, Mode, Min2

LEMMA BaseKill == Base /\ Kill => Base'
BY DEF Base, TypeOK, IoTypeOK, Book, HandleInv, Kill, runVars, argVars,
       fileVars, Mode, Min2

LEMMA BaseEnvironment == Base /\ Environment => Base'
<1> SUFFICES ASSUME Base, Environment PROVE Base'
  OBVIOUS
<1>1. IoTypeOK'
  BY KernelTyped DEF Base, TypeOK, Environment
<1>2. UNCHANGED <<kind, len, handle, fpos>>
  BY DEF Environment, Kernel, Writeback, WritebackFails, Evict, Rot
<1> QED
  BY <1>1, <1>2 DEF Base, TypeOK, Book, HandleInv, Environment, runVars,
     argVars, fileVars, Mode, Min2

\* init()
LEMMA BaseGetSectorSize == Base /\ GetSectorSize => Base'
BY DEF Base, TypeOK, IoTypeOK, Book, HandleInv, GetSectorSize, DoOpen, Open,
       OpenFails, Fault, Others, runVars, argVars, fileVars, Mode, Min2

LEMMA BaseActivate == Base /\ Activate => Base'
<1> SUFFICES ASSUME Base, Activate PROVE Base'
  OBVIOUS
<1>1. RoundDown(seek) \in Nat
  BY RoundDownNat DEF Base, TypeOK
<1>2. errs' \in 0 .. MaxErrs
  BY DEF Base, TypeOK, IoTypeOK, Activate, Fault
<1>3. IoTypeOK'
  BY <1>2 DEF Base, TypeOK, IoTypeOK, Activate, Others
<1>4. TypeOK'
  BY <1>1, <1>3 DEF Base, TypeOK, Activate, Others, argVars, fileVars
<1>5. Book'
  BY DEF Base, TypeOK, Book, HandleInv, Activate, Others, argVars, fileVars,
         Mode, Min2
<1> QED
  BY <1>4, <1>5 DEF Base

LEMMA BaseReopen == Base /\ Reopen => Base'
BY DEF Base, TypeOK, IoTypeOK, Book, HandleInv, Reopen, DoOpen, Open,
       OpenFails, Fault, Others, runVars, argVars, fileVars, Mode, Min2

LEMMA BaseSeekFile == Base /\ SeekFile => Base'
BY SMTT(30) DEF Base, TypeOK, IoTypeOK, Book, HandleInv, SeekFile, SeekOk, SeekFails,
       Fault, Others, argVars, fileVars, Mode, Min2

-----------------------------------------------------------------------------
(* write() *)

\* The length of a chunk is in range, and short only for the last one.
LEMMA ChunkLen ==
  ASSUME Base
  PROVE  /\ Min2(Chunk, left) \in 0 .. Chunk
         /\ Min2(Chunk, left) <= left
         /\ left # Min2(Chunk, left) => Min2(Chunk, left) = Chunk
BY DEF Base, TypeOK, Min2

\* Whatever write() puts into the file, the types are kept.
LEMMA WriteTyped ==
  ASSUME Base, pc = "io", op = "write", NEW k \in Nat, k <= Chunk, k <= Room,
         Put(ChunkData, k), UNCHANGED <<rots, late>>, errs' \in 0 .. MaxErrs
  PROVE  IoTypeOK'
<1>1. \A i \in 0 .. k - 1 : ChunkData[i] \in Contents
  <2>1. \A i \in 0 .. Chunk - 1 : ChunkData[i] \in Contents
    BY ChunkDataPat DEF Base, Book
  <2> QED
    BY <2>1
<1> QED
  BY <1>1, PutTyped DEF Base, TypeOK

LEMMA BaseWriteChunk == Base /\ WriteChunk => Base'
<1> SUFFICES ASSUME Base, WriteChunk PROVE Base'
  OBVIOUS
<1> DEFINE n == Min2(Chunk, left)
<1>0. /\ pc = "io" /\ op = "write" /\ handle = "write" /\ round \in Rounds
      /\ fpos = first + done /\ done = chunks * Chunk /\ buf = << >>
      /\ n \in 0 .. Chunk /\ n <= left /\ (left # n => n = Chunk)
      /\ Room \in Nat
  BY ChunkLen DEF Base, Book, HandleInv, TypeOK, IoTypeOK, Mode, WriteChunk, Room
<1>1. /\ chunks' = chunks + 1 /\ Others
      /\ UNCHANGED <<first, buf, readLen, dropOffset, stored>>
  BY DEF WriteChunk
<1>2. (chunks + 1) * Chunk = chunks * Chunk + Chunk
  BY DEF Base, TypeOK
<1> HIDE DEF n
<1>3. CASE WriteOk(ChunkData, n) /\ CountDrop(n) /\ done' = done + n /\ left' = left - n
           /\ \/ left = n /\ pc' = "sync" /\ res' = "ok"
              \/ left # n /\ abort /\ pc' = "sync" /\ res' = "aborted"
              \/ left # n /\ ~abort /\ UNCHANGED <<pc, res>>
  <2>0. n <= Room /\ Put(ChunkData, n) /\ errs' \in 0 .. MaxErrs
    BY <1>3 DEF WriteOk, Base, TypeOK, IoTypeOK
  <2>1. IoTypeOK'
    BY <1>0, <1>1, <2>0, WriteTyped DEF Others
  <2>2. fpos' = fpos + n /\ UNCHANGED handle
    BY <2>0 DEF Put
  <2>3. TypeOK'
    <3>1. left' \in 0 .. Unlimited /\ done' \in 0 .. Unlimited /\ dropCount' \in Nat
      BY <1>0, <1>3 DEF Base, TypeOK, Book, CountDrop
    <3>2. /\ pc' \in {"io", "sync"}
          /\ res' \in {"none", "ok", "err", "enospc", "aborted", "mismatch"}
      BY <1>0, <1>3 DEF Base, TypeOK
    <3> QED
      BY <1>1, <2>1, <3>1, <3>2 DEF Base, TypeOK, Others, argVars
  <2>4. Book'
    BY <1>0, <1>1, <1>2, <1>3, <2>2
       DEF Base, TypeOK, IoTypeOK, Book, HandleInv, CountDrop, Others, argVars, Mode
  <2> QED
    BY <2>3, <2>4 DEF Base
<1>4. CASE WriteEnospc(ChunkData, n) /\ CountDrop(n) /\ pc' = "sync"
           /\ res' = (IF max = Unlimited THEN "ok" ELSE "enospc")
           /\ UNCHANGED <<done, left>>
  <2>1. IoTypeOK'
    BY <1>0, <1>1, <1>4, WriteTyped, SMTT(30)
       DEF WriteEnospc, Others, Base, TypeOK, IoTypeOK
  <2>2. UNCHANGED handle
    BY <1>4 DEF WriteEnospc, Put
  <2>3. TypeOK'
    BY <1>0, <1>1, <1>4, <2>1 DEF Base, TypeOK, CountDrop, Others, argVars
  <2>4. Book'
    BY <1>0, <1>1, <1>4, <2>2 DEF Base, Book, HandleInv, Others, argVars, Mode
  <2> QED
    BY <2>3, <2>4 DEF Base
<1>5. CASE WriteFails(ChunkData, n) /\ pc' = "sync" /\ res' = "err"
           /\ UNCHANGED <<dropCount, done, left>>
  <2>1. PICK k \in 0 .. n : k <= Room /\ Put(ChunkData, k)
    BY <1>5 DEF WriteFails
  <2>2. k \in Nat /\ k <= Chunk /\ errs' \in 0 .. MaxErrs
    BY <1>0, <1>5 DEF WriteFails, Fault, Base, TypeOK, IoTypeOK
  <2>3. IoTypeOK'
    BY <1>0, <1>1, <2>1, <2>2, WriteTyped DEF Others
  <2>4. UNCHANGED handle
    BY <2>1 DEF Put
  <2>5. TypeOK'
    BY <1>0, <1>1, <1>5, <2>3 DEF Base, TypeOK, Others, argVars
  <2>6. Book'
    BY <1>0, <1>1, <1>5, <2>4 DEF Base, Book, HandleInv, Others, argVars, Mode
  <2> QED
    BY <2>5, <2>6 DEF Base
<1> QED
  BY <1>3, <1>4, <1>5 DEF WriteChunk, n

LEMMA BaseWriteFinalize == Base /\ WriteFinalize => Base'
<1> SUFFICES ASSUME Base, WriteFinalize PROVE Base'
  OBVIOUS
<1>1. IoTypeOK' /\ UNCHANGED <<handle, fpos>>
  BY DEF Base, TypeOK, IoTypeOK, WriteFinalize, SyncOk, SyncFails, ioVars, Others
<1>2. res' \in {"none", "ok", "err", "enospc", "aborted", "mismatch"}
  BY DEF Base, TypeOK, WriteFinalize, Failed
<1> QED
  BY <1>1, <1>2 DEF Base, TypeOK, Book, HandleInv, WriteFinalize, Others,
     runVars, argVars, fileVars, Mode, Min2

-----------------------------------------------------------------------------
(* The end of a call *)

\* DisktestFile::close() gives the file back and changes nothing on the medium.
LEMMA CloseFileEffect ==
  ASSUME Base, pc \in {"close", "drop"}, handle # "none",
         NEW ok \in BOOLEAN, CloseFile(ok), UNCHANGED <<rots, late>>
  PROVE  /\ IoTypeOK'
         /\ handle' = "none"
         /\ dropOffset' \in Nat /\ dropCount' = 0
         /\ UNCHANGED <<kind, len, medium, dirty, fpos>>
         /\ DOMAIN cache' \subseteq DOMAIN cache
         /\ \A p \in DOMAIN cache' : cache'[p] = cache[p]
<1>1. /\ dropOffset' = dropOffset + dropCount /\ dropCount' = 0
      /\ dropOffset' \in Nat
  BY DEF CloseFile, Base, TypeOK
<1>2. CASE dropCount > 0 /\ ok
  <2>1. DropCachesOk(dropOffset, dropCount)
    BY <1>2 DEF CloseFile
  <2>2. handle = "write"
    BY <1>2 DEF Base, Book, HandleInv, Mode, TypeOK
  <2>3. /\ handle' = "none" /\ errs' \in 0 .. MaxErrs
        /\ UNCHANGED <<kind, len, medium, dirty, wbErr, fpos>>
    BY <2>1 DEF DropCachesOk, Fault, Base, TypeOK, IoTypeOK
  <2>4. UNCHANGED cache \/ \E S : Evicted(S) /\ S \cap dirty = {}
    <3>1. CASE kind = "chr" /\ UNCHANGED cache
      BY <3>1
    <3>2. CASE kind # "chr" /\ Flushed /\ Evicted(Covered(dropOffset, dropCount))
      <4>1. dirty = {}
        BY <2>2, <3>2 DEF Flushed, Flushes
      <4> QED
        BY <3>2, <4>1
    <3>3. CASE kind # "chr" /\ Evicted(DOMAIN cache \ dirty)
      <4>1. (DOMAIN cache \ dirty) \cap dirty = {}
        OBVIOUS
      <4> QED
        BY <3>3, <4>1
    <3> QED
      BY <2>1, <3>1, <3>2, <3>3 DEF DropCachesOk
  <2>5. CASE UNCHANGED cache
    BY <1>1, <2>3, <2>5 DEF Base, TypeOK, IoTypeOK
  <2>6. CASE \E S : Evicted(S) /\ S \cap dirty = {}
    <3>1. PICK S : Evicted(S) /\ S \cap dirty = {}
      BY <2>6
    <3>2. /\ DOMAIN cache' = DOMAIN cache \ S
          /\ \A p \in DOMAIN cache' : cache'[p] = cache[p]
          /\ \A p \in DOMAIN cache' : cache'[p] \in Contents
          /\ dirty \subseteq DOMAIN cache'
      BY <3>1, EvictTyped DEF Base, TypeOK
    <3> QED
      BY <1>1, <2>3, <3>2 DEF Base, TypeOK, IoTypeOK
  <2> QED
    BY <2>4, <2>5, <2>6
<1>3. CASE dropCount > 0 /\ ~ok
  <2>1. DropCachesFails
    BY <1>3 DEF CloseFile
  <2>2. errs' \in 0 .. MaxErrs /\ wbErr' \in BOOLEAN
    <3>1. IoTypeOK
      BY DEF Base, TypeOK
    <3>2. CASE wbErr' = FALSE /\ UNCHANGED errs
      BY <3>1, <3>2 DEF IoTypeOK
    <3>3. CASE errs + 2 <= MaxErrs /\ errs' = errs + 2 /\ UNCHANGED wbErr
      BY <3>1, <3>3 DEF IoTypeOK
    <3> QED
      BY <2>1, <3>2, <3>3 DEF DropCachesFails
  <2>3. handle' = "none" /\ UNCHANGED <<kind, len, medium, cache, dirty, fpos>>
    BY <2>1 DEF DropCachesFails
  <2>4. IoTypeOK'
    BY <2>2, <2>3 DEF Base, TypeOK, IoTypeOK
  <2>5. cache' = cache
    BY <2>3
  <2> QED
    BY <1>1, <2>3, <2>4, <2>5
<1>4. CASE ~(dropCount > 0)
  BY <1>1, <1>4 DEF CloseFile, CloseOk, CloseFails, Base, TypeOK, IoTypeOK
<1> QED
  BY <1>2, <1>3, <1>4

LEMMA BaseFinalize == Base /\ Finalize => Base'
<1> SUFFICES ASSUME Base, Finalize PROVE Base'
  OBVIOUS
<1>1. pc = "close" /\ handle # "none" /\ UNCHANGED <<rots, late>>
  BY DEF Finalize, Base, Book, HandleInv, Mode, Others
<1>2. PICK ok \in BOOLEAN : CloseFile(ok)
  BY DEF Finalize
<1>3. /\ IoTypeOK' /\ handle' = "none"
      /\ dropOffset' \in Nat /\ dropCount' = 0
  BY <1>1, <1>2, CloseFileEffect
<1>4. res' \in {"none", "ok", "err", "enospc", "aborted", "mismatch"}
  BY DEF Base, TypeOK, Finalize, Failed
<1>5. pc' = "drop" /\ Others /\ UNCHANGED runVars
  BY DEF Finalize
<1>6. TypeOK'
  BY <1>3, <1>4, <1>5 DEF Base, TypeOK, Others, runVars, argVars
<1>7. Book'
  BY <1>1, <1>3, <1>5 DEF Base, Book, HandleInv, Others, runVars, argVars
<1> QED
  BY <1>6, <1>7 DEF Base

LEMMA BaseDropFile == Base /\ DropFile => Base'
<1> SUFFICES ASSUME Base, DropFile PROVE Base'
  OBVIOUS
<1>1. /\ pc = "drop" /\ pc' \in {"idle", "dead"} /\ UNCHANGED <<rots, late>>
      /\ Others /\ UNCHANGED <<runVars, res, stored>>
  BY DEF DropFile, Others
<1>2. CASE handle = "none" /\ UNCHANGED <<ioVars, fileVars>>
  BY <1>1, <1>2 DEF Base, TypeOK, IoTypeOK, Book, HandleInv, Others, runVars,
     argVars, ioVars, fileVars
<1>3. CASE handle # "none" /\ \E ok \in BOOLEAN : CloseFile(ok)
  <2>1. /\ IoTypeOK' /\ handle' = "none"
        /\ dropOffset' \in Nat /\ dropCount' = 0
    BY <1>1, <1>3, CloseFileEffect
  <2>2. TypeOK'
    BY <1>1, <2>1 DEF Base, TypeOK, Others, runVars, argVars
  <2>3. Book'
    BY <1>1, <2>1 DEF Base, Book, HandleInv, Others, runVars, argVars
  <2> QED
    BY <2>2, <2>3 DEF Base
<1> QED
  BY <1>2, <1>3 DEF DropFile

-----------------------------------------------------------------------------
(* verify() *)

\* The buffer after a read() of n cells.
Filled(n) == buf \o [i \in 1 .. n |-> Content(fpos + i - 1)]

\* A read() fills the buffer by what it returns, and never beyond its end.  On
\* Windows it may return nothing before the end.
LEMMA FilledFacts ==
  ASSUME Base, pc = "io", op = "verify", NEW n \in Readable(Want) \cup {0},
         ReadOk(n), UNCHANGED <<rots, late>>
  PROVE  /\ IoTypeOK'
         /\ n \in Nat
         /\ n = 0 /\ n \in Readable(Want) => Want = 0 \/ fpos >= len
         /\ Filled(n) \in Seq(Contents)
         /\ Len(Filled(n)) = Len(buf) + n
         /\ Len(buf) + n <= readLen
         /\ readLen <= left /\ readLen <= Chunk /\ readLen \in Nat
         /\ left # readLen => readLen = Chunk
         /\ \A i \in 1 .. n : Filled(n)[Len(buf) + i] = Content(fpos + i - 1)
         /\ \A i \in 1 .. Len(buf) : Filled(n)[i] = buf[i]
<1> DEFINE new == [i \in 1 .. n |-> Content(fpos + i - 1)]
<1>1. /\ readLen \in Nat /\ readLen <= Chunk /\ readLen <= left
      /\ left # readLen => readLen = Chunk
      /\ Len(buf) \in Nat /\ Len(buf) <= readLen
      /\ buf \in Seq(Contents)
      /\ fpos \in Nat /\ len \in Nat
  BY DEF Base, TypeOK, IoTypeOK, Book, Min2
<1>2. Want \in Nat /\ Want = readLen - Len(buf)
  BY <1>1 DEF Want
<1>3. /\ n \in Nat /\ n <= Want
      /\ n = 0 /\ n \in Readable(Want) => Want = 0 \/ fpos >= len
      /\ n = 0 \/ fpos + n <= len
  BY <1>1, <1>2 DEF Readable
<1>4. IoTypeOK' /\ \A i \in 1 .. n : Content(fpos + i - 1) \in Contents
  BY <1>3, ReadTyped DEF Base, TypeOK
<1>5. new \in Seq(Contents) /\ Len(new) = n
  BY <1>3, <1>4
<1>6. /\ buf \o new \in Seq(Contents)
      /\ Len(buf \o new) = Len(buf) + n
  BY <1>1, <1>3, <1>5
<1>7. \A i \in 1 .. n : (buf \o new)[Len(buf) + i] = new[i]
  BY <1>1, <1>3, <1>5
<1>8. \A i \in 1 .. Len(buf) : (buf \o new)[i] = buf[i]
  BY <1>1, <1>3, <1>5
<1> QED
  <2>1. /\ Filled(n) \in Seq(Contents) /\ Len(Filled(n)) = Len(buf) + n
        /\ \A i \in 1 .. Len(buf) : Filled(n)[i] = buf[i]
    BY <1>6, <1>8 DEF Filled
  <2>2. \A i \in 1 .. n : Filled(n)[Len(buf) + i] = Content(fpos + i - 1)
    BY <1>7 DEF Filled
  <2>3. Len(buf) + n <= readLen
    BY <1>1, <1>2, <1>3
  <2> QED
    BY <1>1, <1>3, <1>4, <2>1, <2>2, <2>3
\* What Continue leaves behind.
LEMMA ContinueFacts ==
  ASSUME NEW end \in BOOLEAN, pc = "io", res = "none", Continue(end)
  PROVE  \/ pc' = "io" /\ res' = "none" /\ ~end
         \/ pc' = "close" /\ res' = "ok" /\ end
         \/ pc' = "close" /\ res' = "aborted"
BY DEF Continue

LEMMA BaseReadSome ==
  ASSUME Base, pc = "io", op = "verify", NEW n \in Readable(Want) \cup {0},
         ReadSome(n, Filled(n)), Others, UNCHANGED <<first, fileVars, stored>>
  PROVE  Base'
<1> DEFINE b == Filled(n)
<1>0. ReadOk(n) /\ UNCHANGED <<rots, late>>
  BY DEF ReadSome, Others
<1>1. /\ IoTypeOK' /\ n \in Nat
      /\ b \in Seq(Contents) /\ Len(b) = Len(buf) + n /\ Len(b) <= readLen
      /\ readLen <= left /\ readLen <= Chunk /\ readLen \in Nat
      /\ left # readLen => readLen = Chunk
  BY <1>0, FilledFacts
<1>2. /\ fpos' = fpos + n /\ UNCHANGED <<kind, len, medium, dirty, wbErr, handle>>
  BY <1>0 DEF ReadOk
<1>3. /\ res = "none" /\ done + left = max /\ done = chunks * Chunk
      /\ fpos = first + done + Len(buf) /\ handle = Mode
      /\ Len(buf) < readLen \/ (readLen = 0 /\ buf = << >>)
      /\ round \in Rounds /\ dropCount = 0
      /\ readLen = Min2(Chunk, left)
      /\ Len(buf) \in Nat /\ max \in 0 .. Unlimited
      /\ left \in Nat /\ done \in Nat /\ first \in Nat /\ chunks \in Nat
      /\ fpos \in Nat
  BY DEF Base, TypeOK, IoTypeOK, Book, HandleInv
<1>4. (chunks + 1) * Chunk = chunks * Chunk + Chunk
  BY DEF Base, TypeOK
<1>5. UNCHANGED <<first, dropOffset, dropCount, stored, rots, late, op, round,
                  seek, max, cold, abort, calls>>
  BY DEF fileVars, Others, argVars
<1> HIDE DEF b
<1>6. CASE /\ ~Compares(b, n) /\ buf' = b /\ Continue(AtEnd(left, n))
           /\ UNCHANGED <<chunks, left, done, readLen>>
  <2>1. \/ pc' = "io" /\ res' = "none" /\ ~AtEnd(left, n)
        \/ pc' = "close" /\ res' \in {"ok", "aborted"}
    BY <1>3, <1>6, ContinueFacts DEF AtEnd
  <2>2. TypeOK'
    BY <1>1, <1>5, <1>6, <2>1 DEF Base, TypeOK
  <2>3. pc' = "io" => Len(b) < readLen /\ n # 0
    BY <1>1, <1>3, <1>6, <2>1 DEF Compares, AtEnd
  <2>4. fpos' = first' + done' + Len(buf')
    BY <1>1, <1>2, <1>3, <1>5, <1>6
  <2>5. HandleInv'
    BY <1>2, <1>3, <1>5, <2>1 DEF HandleInv, Mode
  <2>6. Book'
    BY <1>3, <1>5, <1>6, <2>1, <2>3, <2>4, <2>5 DEF Book
  <2> QED
    BY <2>2, <2>6 DEF Base
<1>7. CASE /\ Compares(b, n) /\ ~Mismatch(b) /\ chunks' = chunks + 1
           /\ done' = done + Len(b) /\ left' = left - Len(b)
           /\ buf' = << >> /\ readLen' = Min2(Chunk, left - Len(b))
           /\ Continue(AtEnd(left - Len(b), n))
  <2>1. \/ pc' = "io" /\ res' = "none" /\ ~AtEnd(left - Len(b), n)
        \/ pc' = "close" /\ res' \in {"ok", "aborted"}
    BY <1>3, <1>7, ContinueFacts DEF AtEnd
  <2>2. /\ left' \in 0 .. Unlimited /\ done' \in 0 .. Unlimited
        /\ done' + left' = max
    <3>1. Len(b) \in Nat /\ Len(b) <= left
      BY <1>1, <1>3
    <3>2. left' = left - Len(b) /\ done' = done + Len(b)
      BY <1>7
    <3> QED
      BY <1>3, <3>1, <3>2
  <2>3. /\ readLen' = Min2(Chunk, left') /\ readLen' \in 0 .. Chunk
        /\ left' # 0 => readLen' > 0
    BY <1>7, <2>2 DEF Min2
  <2>4. buf' \in Seq(Contents) /\ Len(buf') = 0 /\ buf' = << >>
    BY <1>7
  <2>5. TypeOK'
    BY <1>1, <1>5, <1>7, <2>1, <2>2, <2>3, <2>4, SMTT(30) DEF Base, TypeOK
  <2>6. pc' = "io" => /\ done' = chunks' * Chunk
                      /\ fpos' = first + done' /\ readLen' > 0
    <3>1. SUFFICES ASSUME pc' = "io"
                   PROVE  /\ done' = chunks' * Chunk
                          /\ fpos' = first + done' /\ readLen' > 0
      OBVIOUS
    <3>2. n # 0 /\ left - Len(b) # 0
      BY <2>1, <3>1 DEF AtEnd
    <3>3. Len(b) = readLen /\ left # readLen
      BY <1>7, <3>2 DEF Compares
    <3>4. Len(b) = Chunk
      BY <1>1, <3>3
    <3>5. done' = chunks' * Chunk
      BY <1>3, <1>4, <1>7, <3>4
    <3>6. fpos' = first + done'
      BY <1>1, <1>2, <1>3, <1>7
    <3> QED
      BY <1>7, <2>3, <3>2, <3>5, <3>6
  <2>7. HandleInv'
    BY <1>2, <1>3, <1>5, <2>1 DEF HandleInv, Mode
  <2>8. fpos' = first + done' => fpos' = first' + done' + Len(buf')
    BY <1>3, <1>5, <2>2, <2>4
  <2>9. Book'
    BY <1>3, <1>5, <2>1, <2>2, <2>3, <2>4, <2>6, <2>7, <2>8 DEF Book
  <2> QED
    BY <2>5, <2>9 DEF Base
<1>8. CASE /\ Compares(b, n) /\ Mismatch(b) /\ chunks' = chunks + 1 /\ buf' = b
           /\ pc' = "close" /\ res' = "mismatch"
           /\ UNCHANGED <<left, done, readLen>>
  <2>1. TypeOK'
    BY <1>1, <1>5, <1>8 DEF Base, TypeOK
  <2>2. Book'
    BY <1>2, <1>3, <1>5, <1>8 DEF Base, Book, HandleInv, Mode
  <2> QED
    BY <2>1, <2>2 DEF Base
<1> QED
  BY <1>6, <1>7, <1>8 DEF ReadSome, b

LEMMA BaseReadChunk == Base /\ ReadChunk => Base'
<1> SUFFICES ASSUME Base, ReadChunk PROVE Base'
  OBVIOUS
<1>1. /\ pc = "io" /\ op = "verify" /\ Others
      /\ UNCHANGED <<first, fileVars, stored>>
  BY DEF ReadChunk
<1>2. CASE \E n \in Readable(Want) : ReadSome(n, Filled(n))
  BY <1>1, <1>2, BaseReadSome
<1>3. CASE /\ ReadFails /\ pc' = "close" /\ res' = "err"
           /\ UNCHANGED <<chunks, left, done, buf, readLen>>
  <2>1. IoTypeOK' /\ UNCHANGED <<handle, fpos>>
    BY <1>1, <1>3 DEF Base, TypeOK, IoTypeOK, ReadFails, Fault, Others
  <2>2. TypeOK'
    BY <1>1, <1>3, <2>1 DEF Base, TypeOK, Others, argVars, fileVars
  <2>3. Book'
    BY <1>1, <1>3, <2>1 DEF Base, Book, HandleInv, Others, argVars, fileVars, Mode
  <2> QED
    BY <2>2, <2>3 DEF Base
<1> QED
  BY <1>2, <1>3 DEF ReadChunk, Filled

-----------------------------------------------------------------------------

\* Every step keeps Base.
LEMMA BaseNext == Base /\ [Next]_vars => Base'
<1> SUFFICES ASSUME Base, [Next]_vars PROVE Base'
  OBVIOUS
<1>1. CASE UNCHANGED vars
  BY <1>1 DEF vars, ioVars, argVars, runVars, fileVars, Base, TypeOK, IoTypeOK,
     Book, HandleInv, Mode, Min2
<1>2. CASE Program
  BY <1>2, BaseGetSectorSize, BaseActivate, BaseReopen, BaseSeekFile,
     BaseWriteChunk, BaseWriteFinalize, BaseReadChunk, BaseFinalize, BaseDropFile
     DEF Program
<1>3. CASE \E o \in {"write", "verify"}, r \in Rounds, s \in Seeks, m \in Sizes :
             Call(o, r, s, m)
  BY <1>3, BaseCall
<1> QED
  BY <1>1, <1>2, <1>3, BaseSignal, BaseKill, BaseEnvironment DEF Next, Terminated

\* The variables keep their types.
THEOREM Typing == Spec => []TypeOK
<1>1. Init => Base
  BY BaseInit
<1>2. Base /\ [Next]_vars => Base'
  BY BaseNext
<1>3. Base => TypeOK
  BY DEF Base
<1> QED
  BY <1>1, <1>2, <1>3, PTL DEF Spec

-----------------------------------------------------------------------------
(* Ok means all of the request *)

Complete ==
  /\ op = "write" /\ res = "ok" =>
       IF max = Unlimited THEN fpos >= Capacity
                          ELSE fpos - first = max /\ done = max
  /\ op = "verify" /\ res = "ok" => done = max \/ first + done >= len

\* Outside of the loops the result only gets worse, and what Complete speaks of
\* does not change.
LEMMA OutsideLoops ==
  ASSUME Base, [Next]_vars, ~WriteChunk, ~ReadChunk, res' = "ok"
  PROVE  res = "ok" /\ UNCHANGED <<op, max, first, done, fpos, len>>
<1>1. CASE UNCHANGED vars
  BY <1>1 DEF vars, ioVars, argVars, runVars
<1>2. CASE \E o \in {"write", "verify"}, r \in Rounds, s \in Seeks, m \in Sizes :
             Call(o, r, s, m)
  BY <1>2 DEF Call
<1>3. CASE Signal \/ Kill
  BY <1>3 DEF Signal, Kill, ioVars, argVars, runVars
<1>4. CASE Environment
  BY <1>4 DEF Environment, Kernel, Writeback, WritebackFails, Evict, Rot,
     argVars, runVars
<1>5. CASE GetSectorSize \/ Activate \/ Reopen \/ SeekFile
  BY <1>5 DEF Base, Book, GetSectorSize, Activate, Reopen, SeekFile
<1>6. CASE WriteFinalize
  BY <1>6 DEF WriteFinalize, SyncOk, SyncFails, Failed, ioVars, Others,
     argVars, runVars
<1>7. ASSUME Finalize \/ DropFile
      PROVE  res = "ok" /\ UNCHANGED <<op, max, first, done, fpos, len>>
  <2>1. res = "ok" /\ UNCHANGED <<op, max, first, done>>
    BY <1>7 DEF Finalize, DropFile, Failed, Others, argVars, runVars
  <2>2. CASE handle = "none"
    <3>1. pc # "close"
      BY <2>2 DEF Base, Book, HandleInv, Mode
    <3>2. UNCHANGED ioVars
      BY <1>7, <2>2, <3>1 DEF Finalize, DropFile
    <3> QED
      BY <2>1, <3>2 DEF ioVars
  <2>3. CASE handle # "none"
    <3>1. /\ pc \in {"close", "drop"} /\ UNCHANGED <<rots, late>>
          /\ \E ok \in BOOLEAN : CloseFile(ok)
      BY <1>7, <2>3 DEF Finalize, DropFile, Others
    <3>2. UNCHANGED <<fpos, len>>
      BY <2>3, <3>1, CloseFileEffect
    <3> QED
      BY <2>1, <3>2
  <2> QED
    BY <2>1, <2>2, <2>3
<1> QED
  BY <1>1, <1>2, <1>3, <1>4, <1>5, <1>6, <1>7 DEF Next, Program, Terminated

LEMMA CompleteWrite ==
  ASSUME Base, WriteChunk PROVE Complete'
<1> DEFINE n == Min2(Chunk, left)
<1>0. /\ pc = "io" /\ op = "write" /\ res = "none"
      /\ fpos = first + done /\ done + left = max
      /\ n \in Nat /\ n <= left
      /\ first \in Nat /\ done \in Nat /\ left \in Nat /\ max \in Nat
  BY ChunkLen DEF Base, Book, TypeOK, WriteChunk
<1>1. UNCHANGED <<op, max, first>>
  BY DEF WriteChunk, Others, argVars
<1> HIDE DEF n
<1>2. CASE WriteOk(ChunkData, n) /\ done' = done + n
           /\ \/ left = n
              \/ res' # "ok"
  <2>1. fpos' = fpos + n
    BY <1>2 DEF WriteOk, Put
  <2> QED
    BY <1>0, <1>1, <1>2, <2>1 DEF Complete
<1>3. CASE WriteEnospc(ChunkData, n)
           /\ res' = (IF max = Unlimited THEN "ok" ELSE "enospc")
  <2>1. fpos' = fpos + Room
    BY <1>3 DEF WriteEnospc, Put
  <2>2. fpos' >= Capacity
    BY <2>1 DEF Room, Base, TypeOK, IoTypeOK
  <2> QED
    BY <1>0, <1>1, <1>3, <2>2 DEF Complete
<1>4. CASE res' = "err"
  BY <1>1, <1>4, <1>0 DEF Complete
<1> QED
  BY <1>0, <1>2, <1>3, <1>4 DEF WriteChunk, n

LEMMA CompleteRead ==
  ASSUME Base, ReadChunk PROVE Complete'
<1>0. /\ pc = "io" /\ op = "verify" /\ res = "none"
      /\ fpos = first + done + Len(buf) /\ done + left = max
      /\ Len(buf) < readLen \/ (readLen = 0 /\ buf = << >>)
      /\ readLen = Min2(Chunk, left)
      /\ first \in Nat /\ done \in Nat /\ left \in Nat /\ max \in Nat
      /\ len \in Nat /\ Len(buf) \in Nat /\ readLen \in Nat
  BY DEF Base, Book, TypeOK, IoTypeOK, ReadChunk
<1>1. UNCHANGED <<op, max, first, rots, late>>
  BY DEF ReadChunk, Others, argVars
<1>2. SUFFICES ASSUME res' = "ok"
               PROVE  done' = max \/ first + done' >= len'
  BY <1>0, <1>1 DEF Complete
<1>3. PICK n \in Readable(Want) : ReadSome(n, Filled(n))
  BY <1>2 DEF ReadChunk, Filled
<1>4. ReadOk(n) /\ UNCHANGED len
  BY <1>3 DEF ReadSome, ReadOk
<1>5. /\ n \in Nat /\ (n = 0 => Want = 0 \/ fpos >= len)
      /\ Len(Filled(n)) = Len(buf) + n
  BY <1>0, <1>1, <1>4, FilledFacts
<1>6. CASE /\ ~Compares(Filled(n), n) /\ Continue(AtEnd(left, n))
           /\ UNCHANGED done
  <2>1. AtEnd(left, n)
    BY <1>0, <1>2, <1>6, ContinueFacts DEF AtEnd
  <2>2. readLen # 0
    BY <1>0, <1>5, <1>6, <2>1 DEF Compares, Want, AtEnd, Readable, Min2
  <2>3. n = 0 /\ Filled(n) = << >>
    BY <1>0, <1>6, <2>1, <2>2 DEF AtEnd, Compares, Min2
  <2>4. Len(buf) = 0
    BY <1>0, <1>5, <2>3
  <2>5. Want # 0
    BY <1>0, <2>2, <2>4 DEF Want, Min2
  <2>6. fpos >= len
    BY <1>5, <2>3, <2>5
  <2>7. first + done >= len
    BY <1>0, <2>4, <2>6
  <2>8. first' = first /\ done' = done /\ len' = len
    BY <1>1, <1>4, <1>6
  <2> QED
    BY <2>7, <2>8
<1>7. CASE /\ done' = done + Len(Filled(n))
           /\ Continue(AtEnd(left - Len(Filled(n)), n))
  <2>1. left - Len(Filled(n)) = 0 \/ n = 0
    BY <1>0, <1>2, <1>7, ContinueFacts DEF AtEnd
  <2>2. CASE left - Len(Filled(n)) = 0
    BY <1>0, <1>5, <1>7, <2>2
  <2>3. CASE n = 0 /\ readLen # 0
    <3>1. Want # 0
      BY <1>0, <2>3 DEF Want
    <3>2. fpos >= len /\ len' = len
      BY <1>4, <1>5, <2>3, <3>1
    <3>3. first + done' = fpos
      BY <1>0, <1>5, <1>7, <2>3
    <3> QED
      BY <3>2, <3>3
  <2>4. CASE readLen = 0
    BY <1>0, <1>5, <1>7, <2>1, <2>4 DEF Min2, Want
  <2> QED
    BY <2>1, <2>2, <2>3, <2>4
<1> QED
  BY <1>2, <1>3, <1>6, <1>7 DEF ReadSome

LEMMA CompleteNext == Base /\ Complete /\ [Next]_vars => Complete'
<1> SUFFICES ASSUME Base, Complete, [Next]_vars PROVE Complete'
  OBVIOUS
<1>1. CASE WriteChunk
  BY <1>1, CompleteWrite
<1>2. CASE ReadChunk
  BY <1>2, CompleteRead
<1>3. CASE ~WriteChunk /\ ~ReadChunk
  BY <1>3, OutsideLoops DEF Complete
<1> QED
  BY <1>1, <1>2, <1>3

\* What Ok promises, for every request and every length of the disk.
THEOREM OkMeansCompleteHolds == Spec => []OkMeansComplete
<1>1. Init => Base /\ Complete
  BY BaseInit DEF Init, Complete
<1>2. Base /\ Complete => OkMeansComplete
  BY DEF Complete, OkMeansComplete, WroteOk, VerifiedOk
<1> QED
  BY <1>1, <1>2, BaseNext, CompleteNext, PTL DEF Spec

-----------------------------------------------------------------------------
(***************************************************************************)
(* What Ok of write() says of the medium and of the page cache, for every  *)
(* disk, fake or not, request and number of failures and losses.           *)
(*                                                                         *)
(* Every cell written is waiting to be stored, or is safe, or a store has  *)
(* failed and fsync() has not said so yet.  When fsync() succeeds, nothing *)
(* waits and no failure is left to report: all is safe.                    *)
(***************************************************************************)

\* A call of write() is under way, or has found nothing wrong.
Writing == op = "write" /\ (pc = "io" \/ res = "ok")

\* Block b holds the data of another cell q, and q was not overtaken by this
\* call: what it holds is from this call, or q was not written by it, or the
\* newer data of q is waiting to be stored.
Overwritten(b, p, q, r) ==
  /\ q # p /\ Phys(q) = b /\ medium[b] = Pat(r, q)
  /\ q \in Written => r = round \/ q \in dirty

Safe(p) ==
  \/ Phys(p) \in late
  \/ medium[Phys(p)] = Pat(round, p)
  \/ \E q \in Cells, r \in Rounds : Overwritten(Phys(p), p, q, r)

\* A character device has no cache.
NoCache == kind = "chr" => DOMAIN cache = {} /\ dirty = {} /\ ~wbErr

\* What waits to be stored is a pattern of its own cell.
DirtyPat == \A q \in dirty : \E r \in Rounds : cache[q] = Pat(r, q)

\* What this call has written and waits to be stored is of this round.
DirtyNew == Writing => \A q \in dirty \cap Written : cache[q] = Pat(round, q)

\* Nothing written is lost without a failure to report.
NothingLost == Writing => wbErr \/ \A p \in Written : p \in dirty \/ Safe(p)

\* After fsync() there is neither dirty data nor a failure to report.
Synced ==
  op = "write" /\ res = "ok" /\ pc \notin {"io", "sync"} =>
    dirty = {} /\ ~wbErr /\ (pc = "close" \/ handle = "none")

\* The cells written are cells of the disk.
InCells == Writing => Written \subseteq Cells

WriteInv ==
  NoCache /\ DirtyPat /\ DirtyNew /\ NothingLost /\ Synced /\ InCells

-----------------------------------------------------------------------------
(* What the invariant does not depend on *)

\* Outside of write(), and once it is known to fail, only what waits to be
\* stored matters.
LEMMA NotWriting ==
  ASSUME WriteInv,
         ~Writing', ~(op' = "write" /\ res' = "ok"),
         kind' = kind, wbErr' => wbErr, dirty' \subseteq dirty,
         kind = "chr" => DOMAIN cache' \subseteq DOMAIN cache,
         \A q \in dirty' : cache'[q] = cache[q]
  PROVE  WriteInv'
<1>1. NoCache'
  BY DEF WriteInv, NoCache
<1>2. DirtyPat'
  BY DEF WriteInv, DirtyPat, Pat
<1>3. DirtyNew' /\ NothingLost' /\ InCells'
  BY DEF DirtyNew, NothingLost, InCells
<1>4. Synced'
  BY DEF Synced
<1> QED
  BY <1>1, <1>2, <1>3, <1>4 DEF WriteInv

\* What neither writes nor stores.
LEMMA WriteCalm ==
  ASSUME WriteInv,
         UNCHANGED <<kind, op, round, first, fpos, medium, late, dirty, wbErr>>,
         Writing' => Writing, Synced',
         DOMAIN cache' \subseteq DOMAIN cache,
         \A q \in dirty : cache'[q] = cache[q]
  PROVE  WriteInv'
<1>1. NoCache' /\ DirtyPat'
  BY DEF WriteInv, NoCache, DirtyPat, Pat
<1>2. Written' = Written
  BY DEF Written
<1>3. DirtyNew' /\ InCells'
  BY <1>2 DEF WriteInv, DirtyNew, InCells, Pat, Cells
<1>4. \A p : Safe(p) => Safe(p)'
  BY <1>2 DEF Safe, Overwritten, Pat, Phys, Cells
<1>5. NothingLost'
  BY <1>2, <1>4 DEF WriteInv, NothingLost
<1> QED
  BY <1>1, <1>3, <1>5 DEF WriteInv

LEMMA WriteInit == Init => WriteInv
<1> SUFFICES ASSUME Init PROVE WriteInv
  OBVIOUS
<1>1. /\ DOMAIN cache = {} /\ dirty = {} /\ wbErr = FALSE
      /\ pc = "idle" /\ res = "none"
  BY DEF Init, IoInit
<1>2. NoCache /\ DirtyPat
  BY <1>1 DEF NoCache, DirtyPat
<1>3. ~Writing /\ Synced
  BY <1>1 DEF Writing, Synced
<1>4. DirtyNew /\ NothingLost /\ InCells
  BY <1>3 DEF DirtyNew, NothingLost, InCells
<1> QED
  BY <1>2, <1>3, <1>4 DEF WriteInv

-----------------------------------------------------------------------------
(* The kernel and the medium *)

\* A cell is stored: it is safe, and what it overwrites was overtaken.
LEMMA WriteWriteback ==
  ASSUME Base, WriteInv, NEW x \in Cells, Writeback(x),
         UNCHANGED <<op, round, first, pc, res>>
  PROVE  WriteInv'
<1>1. /\ x \in dirty /\ dirty' = dirty \ {x}
      /\ medium' = [medium EXCEPT ![Phys(x)] = cache[x]]
      /\ UNCHANGED <<kind, cache, wbErr, handle, fpos, late>>
      /\ Phys(x) \in Blocks
  BY PhysInBlocks DEF Writeback, Cells
<1>2. medium \in [Blocks -> Contents]
  BY DEF Base, TypeOK, IoTypeOK
<1>3. Writing' = Writing /\ Written' = Written /\ Cells' = Cells
  BY <1>1 DEF Writing, Written
<1>4. NoCache' /\ DirtyPat' /\ Synced'
  BY <1>1 DEF WriteInv, NoCache, DirtyPat, Synced, Pat
<1>5. DirtyNew' /\ InCells'
  BY <1>1, <1>3 DEF WriteInv, DirtyNew, InCells, Pat
<1>6. PICK r \in Rounds : cache[x] = Pat(r, x)
  BY <1>1 DEF WriteInv, DirtyPat
<1>7. ASSUME Writing, NEW p \in Written, p \in dirty \/ Safe(p)
      PROVE  p \in dirty' \/ Safe(p)'
  <2>0. x \in Written => cache[x] = Pat(round, x)
    BY <1>1, <1>7 DEF WriteInv, DirtyNew
  <2>1. CASE p = x
    <3>1. medium'[Phys(p)] = Pat(round, p)
      BY <1>1, <1>2, <1>7, <2>0, <2>1
    <3> QED
      BY <1>1, <3>1 DEF Safe, Phys, Pat
  <2>2. CASE p # x /\ p \in dirty
    BY <1>1, <2>2
  <2>3. CASE p # x /\ Safe(p) /\ Phys(p) = Phys(x)
    <3>1. medium'[Phys(p)] = cache[x]
      BY <1>1, <1>2, <2>3
    <3>2. CASE x \in Written /\ round \in Rounds
      <4>1. medium'[Phys(p)] = Pat(round, x)
        BY <2>0, <3>1, <3>2
      <4>2. Overwritten(Phys(p), p, x, round)'
        BY <1>1, <2>3, <4>1 DEF Overwritten, Phys, Pat
      <4> QED
        BY <3>2, <4>2 DEF Safe, Phys
    <3>3. CASE x \notin Written
      <4>1. Overwritten(Phys(p), p, x, r)'
        BY <1>3, <1>6, <2>3, <3>1, <3>3 DEF Overwritten, Phys, Pat
      <4> QED
        BY <4>1 DEF Safe, Phys
    <3>4. x \in Written => round \in Rounds
      BY <1>6, <2>0 DEF Pat
    <3> QED
      BY <3>2, <3>3, <3>4
  <2>4. CASE Safe(p) /\ Phys(p) # Phys(x)
    <3>1. medium'[Phys(p)] = medium[Phys(p)]
      BY <1>1, <1>2, <2>4
    <3>2. \A q \in Cells, s \in Rounds :
            Overwritten(Phys(p), p, q, s) => Overwritten(Phys(p), p, q, s)'
      BY <1>1, <1>3, <2>4, <3>1 DEF Overwritten, Phys, Pat
    <3> QED
      BY <1>1, <2>4, <3>1, <3>2 DEF Safe, Phys, Pat
  <2> QED
    BY <1>7, <2>1, <2>2, <2>3, <2>4
<1>8. NothingLost'
  BY <1>1, <1>3, <1>7 DEF WriteInv, NothingLost
<1> QED
  BY <1>4, <1>5, <1>8 DEF WriteInv

LEMMA WriteEnvironment == Base /\ WriteInv /\ Environment => WriteInv'
<1> SUFFICES ASSUME Base, WriteInv, Environment PROVE WriteInv'
  OBVIOUS
<1>1. UNCHANGED <<op, round, first, pc, res>>
  BY DEF Environment, argVars, runVars
<1>2. ASSUME NEW p \in Cells, Writeback(p) PROVE WriteInv'
  BY <1>1, <1>2, WriteWriteback
<1>3. ASSUME NEW p \in Cells, WritebackFails(p) PROVE WriteInv'
  <2>1. /\ p \in dirty /\ dirty' = dirty \ {p} /\ wbErr' = TRUE
        /\ UNCHANGED <<kind, medium, cache, handle, fpos, late>>
    BY <1>3 DEF WritebackFails
  <2>2. Writing' = Writing /\ Written' = Written /\ Cells' = Cells
    BY <1>1, <2>1 DEF Writing, Written
  <2>3. NoCache' /\ DirtyPat' /\ Synced'
    BY <1>1, <2>1 DEF WriteInv, NoCache, DirtyPat, Synced, Pat
  <2>4. DirtyNew' /\ InCells' /\ NothingLost'
    BY <1>1, <2>1, <2>2 DEF WriteInv, DirtyNew, InCells, NothingLost, Pat
  <2> QED
    BY <2>3, <2>4 DEF WriteInv
<1>4. ASSUME NEW p \in Cells, Evict(p) PROVE WriteInv'
  <2>1. /\ UNCHANGED <<kind, medium, dirty, wbErr, handle, fpos, late>>
        /\ p \notin dirty
        /\ cache' = [q \in DOMAIN cache \ {p} |-> cache[q]]
        /\ dirty \subseteq DOMAIN cache
    BY <1>4 DEF Evict, Evicted, Base, TypeOK, IoTypeOK
  <2>2. Writing' = Writing /\ Synced'
    BY <1>1, <2>1 DEF Writing, WriteInv, Synced
  <2> QED
    BY <1>1, <2>1, <2>2, WriteCalm
<1>5. ASSUME NEW b \in Blocks, Rot(b) PROVE WriteInv'
  <2>1. /\ late' = late \cup {b} /\ medium' = [medium EXCEPT ![b] = Junk]
        /\ UNCHANGED <<kind, cache, dirty, wbErr, handle, fpos>>
        /\ medium \in [Blocks -> Contents]
    BY <1>5 DEF Rot, Base, TypeOK, IoTypeOK
  <2>2. Writing' = Writing /\ Written' = Written /\ Cells' = Cells
    BY <1>1, <2>1 DEF Writing, Written
  <2>3. NoCache' /\ DirtyPat' /\ Synced'
    BY <1>1, <2>1 DEF WriteInv, NoCache, DirtyPat, Synced, Pat
  <2>4. DirtyNew' /\ InCells'
    BY <1>1, <2>1, <2>2 DEF WriteInv, DirtyNew, InCells, Pat
  <2>5. ASSUME NEW p, Safe(p) PROVE Safe(p)'
    <3>1. CASE Phys(p) = b
      BY <2>1, <3>1 DEF Safe, Phys
    <3>2. CASE Phys(p) # b
      <4>1. medium'[Phys(p)] = medium[Phys(p)]
        BY <2>1, <3>2
      <4>2. \A q \in Cells, s \in Rounds :
              Overwritten(Phys(p), p, q, s) => Overwritten(Phys(p), p, q, s)'
        BY <1>1, <2>1, <2>2, <4>1 DEF Overwritten, Phys, Pat
      <4> QED
        BY <1>1, <2>1, <2>5, <4>1, <4>2 DEF Safe, Phys, Pat
    <3> QED
      BY <3>1, <3>2
  <2>6. NothingLost'
    BY <1>1, <2>1, <2>2, <2>5 DEF WriteInv, NothingLost
  <2> QED
    BY <2>3, <2>4, <2>6 DEF WriteInv
<1> QED
  BY <1>2, <1>3, <1>4, <1>5 DEF Environment, Kernel

-----------------------------------------------------------------------------
(* write() *)

\* The cells put into the file are of this round and of their own position.
LEMMA PutData ==
  ASSUME Base, pc = "io", op = "write", NEW k \in Nat, k <= Chunk,
         NEW q \in fpos .. fpos + k - 1
  PROVE  ChunkData[q - fpos] = Pat(round, q) /\ round \in Rounds
<1>1. /\ fpos = first + done /\ done = chunks * Chunk /\ round \in Rounds
      /\ fpos \in Nat
  BY DEF Base, Book, TypeOK, IoTypeOK
<1>2. q - fpos \in 0 .. Chunk - 1
  BY <1>1
<1>3. ChunkData[q - fpos] = Pat(round, first + done + (q - fpos))
  BY <1>1, <1>2, ChunkDataPat DEF Base
<1>4. first + done + (q - fpos) = q
  BY <1>1, <1>2
<1> QED
  BY <1>1, <1>3, <1>4

\* Of the cells up to h that lie in block b, the one furthest on.
LEMMA LastOf ==
  ASSUME NEW h \in Int, h >= -1, NEW b \in Blocks
  PROVE  LET L == h - ((h - b) % Real)
         IN  /\ L \in Int /\ L <= h
             /\ L >= 0 => Phys(L) = b
             /\ \A p \in Nat : p <= h /\ Phys(p) = b => p <= L
<1> DEFINE m == (h - b) % Real
           q == (h - b) \div Real
           L == h - m
<1>1. m \in 0 .. Real - 1 /\ q \in Int /\ h - b = Real * q + m
  BY DEF Blocks
<1>2. b \in 0 .. Real - 1 /\ Real \in Int /\ Real > 0
  BY DEF Blocks
<1> HIDE DEF m, q
<1>3. L = Real * q + b /\ L \in Int /\ L <= h
  BY <1>1, <1>2
<1>4. L >= 0 => Phys(L) = b
  <2> SUFFICES ASSUME L >= 0 PROVE Phys(L) = b
    OBVIOUS
  <2>1. q \in Nat
    <3>1. CASE q < 0
      <4>1. PICK d \in Nat : q = -1 - d
        <5>1. -1 - q \in Nat /\ q = -1 - (-1 - q)
          BY <1>1, <3>1
        <5> QED
          BY <5>1
      <4>2. Real * q = -Real - Real * d /\ Real * d >= 0
        BY <1>2, <4>1
      <4> QED
        BY <1>2, <1>3, <4>2
    <3> QED
      BY <1>1, <3>1
  <2>2. L = q * Real + b
    BY <1>1, <1>2, <1>3
  <2> QED
    BY <1>2, <2>1, <2>2, DivModUnique DEF Phys
<1>5. ASSUME NEW p \in Nat, p <= h, Phys(p) = b PROVE p <= L
  <2>1. PICK c \in Nat : p = c * Real + b
    BY <1>2, <1>5, DivMod DEF Phys
  <2>2. CASE c > q
    <3>1. PICK d \in Nat : c = q + 1 + d
      <4>1. c - q - 1 \in Nat /\ c = q + 1 + (c - q - 1)
        BY <1>1, <2>2
      <4> QED
        BY <4>1
    <3>2. c * Real = Real * q + Real + d * Real /\ d * Real >= 0
      BY <1>1, <1>2, <3>1
    <3>3. p >= L + Real
      BY <1>1, <1>2, <1>3, <2>1, <3>2
    <3> QED
      BY <1>1, <1>2, <1>5, <3>3
  <2>3. CASE c <= q
    <3>1. PICK d \in Nat : q = c + d
      <4>1. q - c \in Nat /\ q = c + (q - c)
        BY <1>1, <2>3
      <4> QED
        BY <4>1
    <3>2. Real * q = c * Real + d * Real /\ d * Real >= 0
      BY <1>1, <1>2, <3>1
    <3> QED
      BY <1>2, <1>3, <2>1, <3>2
  <2> QED
    BY <1>1, <2>2, <2>3
<1> QED
  BY <1>3, <1>4, <1>5 DEF m

\* What is put into the file waits to be stored, or is on a character device.
LEMMA PutKeeps ==
  ASSUME Base, WriteInv, pc = "io", op = "write", NEW k \in Nat, k <= Chunk,
         k <= Room, Put(ChunkData, k), UNCHANGED <<op, round, first, late>>,
         pc' \in {"io", "sync"}
  PROVE  WriteInv'
<1> DEFINE S == fpos .. fpos + k - 1
           h == fpos + k - 1
           Last(b) == (fpos + k - 1) - ((fpos + k - 1 - b) % Real)
<1>0. /\ fpos = first + done /\ fpos \in Nat /\ first \in Nat
      /\ first <= fpos /\ Writing /\ round \in Rounds
      /\ k # 0 => fpos + k <= Capacity
      /\ medium \in [Blocks -> Contents]
      /\ Phys(0) = Phys(0)'
  BY DEF Base, Book, TypeOK, IoTypeOK, Writing, Room, Phys
<1>1. /\ fpos' = fpos + k /\ UNCHANGED <<kind, wbErr>>
      /\ S \subseteq Cells /\ h \in Int /\ h >= -1
  BY <1>0 DEF Put, Cells
<1>2. Written' = Written \cup S
  BY <1>0, <1>1 DEF Written
<1>3. \A q \in S : ChunkData[q - fpos] = Pat(round, q)
  BY PutData
<1>4. Synced'
  BY DEF Synced
<1>5. InCells'
  BY <1>0, <1>1, <1>2 DEF WriteInv, InCells, Cells
<1> HIDE DEF S, Last, h
<1>6. CASE kind # "chr"
  <2>1. /\ UNCHANGED medium /\ dirty' = dirty \cup S
        /\ cache' = [p \in DOMAIN cache \cup S |->
                       IF p \in S THEN ChunkData[p - fpos] ELSE cache[p]]
        /\ dirty \subseteq DOMAIN cache
    BY <1>6 DEF Put, S, Base, TypeOK, IoTypeOK
  <2>2. /\ \A q \in S : cache'[q] = Pat(round, q)
        /\ \A q \in dirty \ S : cache'[q] = cache[q]
    BY <1>3, <2>1
  <2>3. NoCache'
    BY <1>1, <1>6 DEF NoCache
  <2>4. DirtyPat'
    BY <1>0, <2>1, <2>2 DEF WriteInv, DirtyPat, Pat
  <2>5. DirtyNew'
    BY <1>0, <1>2, <2>1, <2>2 DEF WriteInv, DirtyNew, Pat
  <2>6. ASSUME NEW p \in Written, p \in dirty \/ Safe(p)
        PROVE  p \in dirty' \/ Safe(p)'
    <3>1. CASE p \in dirty
      BY <2>1, <3>1
    <3>2. CASE Safe(p)
      <4>1. \A q \in Cells, s \in Rounds :
              Overwritten(Phys(p), p, q, s) => Overwritten(Phys(p), p, q, s)'
        BY <1>2, <2>1 DEF Overwritten, Phys, Pat
      <4> QED
        BY <2>1, <3>2, <4>1 DEF Safe, Phys, Pat
    <3> QED
      BY <2>6, <3>1, <3>2
  <2>7. NothingLost'
    BY <1>0, <1>1, <1>2, <2>1, <2>6 DEF WriteInv, NothingLost
  <2> QED
    BY <1>4, <1>5, <2>3, <2>4, <2>5, <2>7 DEF WriteInv
<1>7. CASE kind = "chr"
  <2>1. /\ UNCHANGED <<cache, dirty>>
        /\ medium' = [b \in Blocks |-> IF Last(b) >= fpos
                                       THEN ChunkData[Last(b) - fpos]
                                       ELSE medium[b]]
    BY <1>7 DEF Put, Last
  <2>2. DOMAIN cache = {} /\ dirty = {} /\ ~wbErr
    BY <1>7 DEF WriteInv, NoCache
  <2>3. NoCache' /\ DirtyPat' /\ DirtyNew'
    BY <1>1, <2>1, <2>2 DEF NoCache, DirtyPat, DirtyNew
  <2>4. \A b \in Blocks :
           /\ Last(b) \in Int /\ Last(b) <= h
           /\ Last(b) >= 0 => Phys(Last(b)) = b
           /\ \A p \in Nat : p <= h /\ Phys(p) = b => p <= Last(b)
    <3> SUFFICES ASSUME NEW b \in Blocks
                 PROVE  /\ Last(b) \in Int /\ Last(b) <= h
                        /\ Last(b) >= 0 => Phys(Last(b)) = b
                        /\ \A p \in Nat : p <= h /\ Phys(p) = b => p <= Last(b)
      OBVIOUS
    <3>1. fpos + k - 1 = h /\ fpos + k - 1 - b = h - b
      BY <1>0 DEF h, Blocks
    <3>2. Last(b) = h - ((h - b) % Real)
      BY <3>1 DEF Last
    <3> QED
      BY <1>1, <3>2, LastOf
  <2>5. ASSUME Writing', NEW p \in Written' PROVE Safe(p)'
    <3>0. p \in Cells /\ p \in Nat /\ p <= h
      <4>1. p \in Cells
        BY <1>5, <2>5 DEF InCells, Cells
      <4>2. p \in first .. fpos + k - 1
        BY <1>0, <1>1, <2>5 DEF Written
      <4> QED
        BY <4>1, <4>2 DEF Cells, h
    <3>1. PICK b \in Blocks : b = Phys(p)
      BY <3>0, PhysInBlocks
    <3>2. PICK q \in Int : q = Last(b)
      BY <2>4
    <3>3. q <= h /\ (q >= 0 => Phys(q) = b) /\ p <= q
      BY <2>4, <3>0, <3>1, <3>2
    <3>4. medium'[b] = IF q >= fpos THEN ChunkData[q - fpos] ELSE medium[b]
      BY <2>1, <3>2
    <3>5. CASE q >= fpos
      <4>1. q \in S /\ q \in Cells
        BY <1>0, <1>1, <3>3, <3>5 DEF S, h
      <4>2. medium'[b] = Pat(round, q) /\ Phys(q) = b
        BY <1>0, <1>3, <3>3, <3>4, <3>5, <4>1
      <4>3. CASE q = p
        BY <3>1, <4>2, <4>3 DEF Safe, Phys, Pat
      <4>4. CASE q # p
        <5>1. Overwritten(b, p, q, round)'
          BY <4>2, <4>4 DEF Overwritten, Phys, Pat
        <5>2. (\E c \in Cells, r \in Rounds : Overwritten(Phys(p), p, c, r))'
          BY <1>0, <3>1, <4>1, <5>1 DEF Phys, Cells
        <5> QED
          BY <5>2 DEF Safe
      <4> QED
        BY <4>3, <4>4
    <3>6. CASE q < fpos
      <4>1. medium'[b] = medium[b]
        BY <1>0, <3>4, <3>6
      <4>2. p \in Written
        BY <1>0, <1>1, <2>5, <3>0, <3>3, <3>6 DEF Written
      <4>3. Safe(p)
        BY <1>0, <2>2, <4>2 DEF WriteInv, NothingLost
      <4>4. ASSUME NEW c \in Cells, NEW s \in Rounds, Overwritten(b, p, c, s)
            PROVE  Overwritten(b, p, c, s)'
        <5>1. c \notin S
          <6> SUFFICES ASSUME c \in S PROVE FALSE
            OBVIOUS
          <6>1. c \in Nat /\ c <= h /\ c >= fpos /\ Phys(c) = b
            BY <1>0, <4>4 DEF S, h, Overwritten
          <6>2. c <= q
            BY <2>4, <3>2, <6>1
          <6> QED
            BY <1>0, <3>6, <6>1, <6>2
        <5> QED
          BY <1>2, <2>1, <4>1, <4>4, <5>1 DEF Overwritten, Phys, Pat
      <4> QED
        BY <3>1, <4>1, <4>3, <4>4 DEF Safe, Phys, Pat, Cells
    <3> QED
      BY <1>0, <3>5, <3>6
  <2>6. NothingLost'
    BY <2>5 DEF NothingLost
  <2> QED
    BY <1>4, <1>5, <2>3, <2>6 DEF WriteInv
<1> QED
  BY <1>6, <1>7

LEMMA WriteWriteChunk == Base /\ WriteInv /\ WriteChunk => WriteInv'
<1> SUFFICES ASSUME Base, WriteInv, WriteChunk PROVE WriteInv'
  OBVIOUS
<1> DEFINE n == Min2(Chunk, left)
<1>1. /\ pc = "io" /\ op = "write" /\ UNCHANGED <<op, round, first, late>>
      /\ pc' \in {"io", "sync"}
  BY DEF WriteChunk, Others, argVars
<1>2. n \in Nat /\ n <= Chunk /\ Room \in Nat
  BY ChunkLen DEF Base, TypeOK, IoTypeOK, Room
<1> HIDE DEF n
<1>3. \E k \in Nat : k <= n /\ k <= Room /\ Put(ChunkData, k)
  <2>1. CASE WriteOk(ChunkData, n)
    BY <1>2, <2>1 DEF WriteOk
  <2>2. CASE WriteEnospc(ChunkData, n)
    <3>1. Room < n /\ Put(ChunkData, Room)
      BY <2>2, <1>2 DEF WriteEnospc
    <3> QED
      BY <1>2, <3>1
  <2>3. CASE WriteFails(ChunkData, n)
    BY <1>2, <2>3 DEF WriteFails
  <2> QED
    BY <2>1, <2>2, <2>3 DEF WriteChunk, n
<1>4. PICK k \in Nat : k <= n /\ k <= Room /\ Put(ChunkData, k)
  BY <1>3
<1>5. k <= Chunk
  BY <1>2, <1>4
<1> QED
  BY <1>1, <1>4, <1>5, PutKeeps

-----------------------------------------------------------------------------
(* The rest of the program *)

LEMMA WriteReadChunk == Base /\ WriteInv /\ ReadChunk => WriteInv'
<1> SUFFICES ASSUME Base, WriteInv, ReadChunk PROVE WriteInv'
  OBVIOUS
<1>1. op' = "verify"
  BY DEF ReadChunk, Others, argVars
<1>2. /\ UNCHANGED <<kind, wbErr, dirty>>
      /\ kind = "chr" => DOMAIN cache' \subseteq DOMAIN cache
      /\ \A q \in DOMAIN cache : cache'[q] = cache[q]
  <2>1. ASSUME NEW n, ReadOk(n)
        PROVE  /\ UNCHANGED <<kind, wbErr, dirty>>
               /\ kind = "chr" => DOMAIN cache' \subseteq DOMAIN cache
               /\ \A q \in DOMAIN cache : cache'[q] = cache[q]
    BY <2>1 DEF ReadOk, Content
  <2>2. CASE ReadFails
    BY <2>2 DEF ReadFails
  <2> QED
    BY <2>1, <2>2 DEF ReadChunk, ReadSome
<1>3. dirty \subseteq DOMAIN cache
  BY DEF Base, TypeOK, IoTypeOK
<1>4. ~Writing' /\ ~(op' = "write" /\ res' = "ok")
  BY <1>1 DEF Writing
<1> QED
  BY <1>2, <1>3, <1>4, NotWriting

\* init(), until the loop begins.
LEMMA WriteBegin ==
  ASSUME Base, WriteInv, GetSectorSize \/ Activate \/ Reopen \/ SeekFile
  PROVE  WriteInv'
<1>2. CASE pc' # "io"
  <2>1. UNCHANGED <<kind, cache, dirty, wbErr>> /\ res' \in {"none", "err"}
    BY DEF GetSectorSize, Activate, Reopen, SeekFile, DoOpen, Open, OpenFails,
       SeekOk, SeekFails, ioVars, Others, Base, Book
  <2>2. ~Writing' /\ ~(op' = "write" /\ res' = "ok")
    BY <1>2, <2>1 DEF Writing
  <2> QED
    BY <2>1, <2>2, NotWriting
<1>3. CASE pc' = "io"
  <2>1. /\ SeekFile /\ fpos' = first /\ first' = first /\ res' = "none"
        /\ UNCHANGED <<kind, cache, dirty, wbErr>>
    BY <1>3 DEF GetSectorSize, Activate, Reopen, SeekFile, SeekOk, SeekFails,
       Others, Base, Book
  <2>2. Written' = {}
    <3>1. first \in Nat
      BY DEF Base, TypeOK
    <3> QED
      BY <2>1, <3>1 DEF Written
  <2>3. NoCache' /\ DirtyPat' /\ Synced'
    BY <2>1 DEF WriteInv, NoCache, DirtyPat, Synced, Pat
  <2>4. DirtyNew' /\ NothingLost' /\ InCells'
    BY <2>2 DEF DirtyNew, NothingLost, InCells
  <2> QED
    BY <2>3, <2>4 DEF WriteInv
<1> QED
  BY <1>2, <1>3

\* write_finalize() until the file is closed.
LEMMA WriteWriteFinalize == Base /\ WriteInv /\ WriteFinalize => WriteInv'
<1> SUFFICES ASSUME Base, WriteInv, WriteFinalize PROVE WriteInv'
  OBVIOUS
<1>1. pc = "sync" /\ UNCHANGED <<op, round, first, late>>
  BY DEF WriteFinalize, Others, argVars, runVars
<1>2. CASE SyncOk /\ pc' = "close" /\ UNCHANGED res
  <2>1. UNCHANGED <<kind, fpos, medium, cache, dirty, wbErr>>
    BY <1>2 DEF SyncOk, ioVars
  <2>2. Writing' => Writing
    BY <1>1, <1>2 DEF Writing
  <2>3. op = "write" => dirty = {} /\ ~wbErr
    <3>1. op = "write" => handle = "write"
      BY <1>1 DEF Base, Book, HandleInv, Mode
    <3> QED
      BY <1>2, <3>1 DEF SyncOk, Flushed, Flushes, WriteInv, NoCache
  <2>4. Synced'
    BY <1>1, <1>2, <2>1, <2>3 DEF Synced
  <2> QED
    BY <1>1, <2>1, <2>2, <2>4, WriteCalm
<1>3. CASE SyncFails /\ pc' = "drop" /\ res' = Failed(res)
  <2>1. ~Writing' /\ ~(op' = "write" /\ res' = "ok")
    BY <1>3 DEF Writing, Failed
  <2>2. UNCHANGED <<kind, cache, dirty>> /\ ~wbErr'
    BY <1>3 DEF SyncFails
  <2> QED
    BY <2>1, <2>2, NotWriting
<1> QED
  BY <1>2, <1>3 DEF WriteFinalize

\* Closing the file loses nothing that is waiting to be stored, and a failure
\* that it reports is not lost.
LEMMA CloseKeeps ==
  ASSUME Base, WriteInv, pc \in {"close", "drop"}, handle # "none",
         NEW ok \in BOOLEAN, CloseFile(ok), UNCHANGED <<rots, late>>
  PROVE  /\ UNCHANGED <<kind, medium, dirty, fpos>>
         /\ handle' = "none" /\ (wbErr' => wbErr)
         /\ ok => wbErr' = wbErr
         /\ DOMAIN cache' \subseteq DOMAIN cache
         /\ \A q \in dirty : cache'[q] = cache[q]
<1>1. /\ IoTypeOK' /\ handle' = "none"
      /\ UNCHANGED <<kind, medium, dirty, fpos>>
      /\ DOMAIN cache' \subseteq DOMAIN cache
      /\ \A p \in DOMAIN cache' : cache'[p] = cache[p]
  BY CloseFileEffect
<1>2. \A q \in dirty : cache'[q] = cache[q]
  BY <1>1 DEF IoTypeOK
<1>3. (wbErr' => wbErr) /\ (ok => wbErr' = wbErr)
  <2>1. CASE ok
    BY <2>1 DEF CloseFile, DropCachesOk, CloseOk
  <2>2. CASE ~ok
    BY <2>2 DEF CloseFile, DropCachesFails, CloseFails, FlushFailed
  <2> QED
    BY <2>1, <2>2
<1> QED
  BY <1>1, <1>2, <1>3

LEMMA WriteEnd ==
  ASSUME Base, WriteInv, Finalize \/ DropFile PROVE WriteInv'
<1>1. UNCHANGED <<op, round, first, late, rots>>
      /\ pc' \in {"drop", "idle", "dead"} /\ pc \in {"close", "drop"}
  BY DEF Finalize, DropFile, Others, argVars, runVars
<1>2. CASE pc = "drop" /\ handle = "none" /\ UNCHANGED <<ioVars, res>>
  <2>1. UNCHANGED <<kind, fpos, medium, cache, dirty, wbErr, handle>>
    BY <1>2 DEF ioVars
  <2>2. (Writing' => Writing) /\ Synced'
    BY <1>1, <1>2, <2>1 DEF Writing, WriteInv, Synced
  <2> QED
    BY <1>1, <2>1, <2>2, WriteCalm
<1>3. CASE handle # "none" /\ CloseFile(TRUE) /\ UNCHANGED res
  <2>1. /\ UNCHANGED <<kind, medium, dirty, fpos, wbErr>> /\ handle' = "none"
        /\ DOMAIN cache' \subseteq DOMAIN cache
        /\ \A q \in dirty : cache'[q] = cache[q]
    BY <1>1, <1>3, CloseKeeps
  <2>2. (Writing' => Writing) /\ Synced'
    BY <1>1, <1>3, <2>1 DEF Writing, WriteInv, Synced
  <2> QED
    BY <1>1, <2>1, <2>2, WriteCalm
<1>4. CASE /\ handle # "none" /\ CloseFile(FALSE)
           /\ res' = Failed(res) \/ (pc = "drop" /\ UNCHANGED res)
  <2>1. /\ kind' = kind /\ dirty' = dirty /\ (wbErr' => wbErr)
        /\ DOMAIN cache' \subseteq DOMAIN cache
        /\ \A q \in dirty : cache'[q] = cache[q]
    BY <1>1, <1>4, CloseKeeps
  <2>2. ~(op' = "write" /\ res' = "ok")
    BY <1>1, <1>4 DEF WriteInv, Synced, Failed
  <2>3. ~Writing'
    BY <1>1, <2>2 DEF Writing
  <2> QED
    BY <2>1, <2>2, <2>3, NotWriting
<1>5. pc = "close" => handle # "none"
  BY DEF Base, Book, HandleInv, Mode
<1> QED
  BY <1>2, <1>3, <1>4, <1>5 DEF Finalize, DropFile

LEMMA WriteNext == Base /\ WriteInv /\ [Next]_vars => WriteInv'
<1> SUFFICES ASSUME Base, WriteInv, [Next]_vars PROVE WriteInv'
  OBVIOUS
<1>1. CASE UNCHANGED vars \/ Signal
  <2>1. UNCHANGED <<kind, op, round, first, fpos, medium, late, dirty, wbErr,
                    cache, handle, pc, res>>
    BY <1>1 DEF vars, Signal, ioVars, argVars, runVars
  <2>2. (Writing' => Writing) /\ Synced'
    BY <2>1 DEF Writing, WriteInv, Synced
  <2> QED
    BY <2>1, <2>2, WriteCalm
<1>2. CASE Kill \/ \E o \in {"write", "verify"}, r \in Rounds, s \in Seeks,
                     m \in Sizes : Call(o, r, s, m)
  <2>1. /\ UNCHANGED <<kind, dirty, wbErr, cache>>
        /\ res' = "none" /\ pc' \in {"idle", "open"}
    BY <1>2 DEF Kill, Call, ioVars
  <2>2. ~Writing' /\ ~(op' = "write" /\ res' = "ok")
    BY <2>1 DEF Writing
  <2> QED
    BY <2>1, <2>2, NotWriting
<1>3. CASE Program
  BY <1>3, WriteBegin, WriteWriteChunk, WriteWriteFinalize, WriteReadChunk,
     WriteEnd DEF Program
<1> QED
  BY <1>1, <1>2, <1>3, WriteEnvironment DEF Next, Terminated

\* write() never reports as written what is not on the medium, however many
\* stores fail in the background and whoever was killed before.
THEOREM WriteOkDurableHolds == Spec => []WriteOkDurable
<1>1. Init => Base /\ WriteInv
  BY BaseInit, WriteInit
<1>2. Base /\ WriteInv /\ [Next]_vars => WriteInv'
  BY WriteNext
<1>3. WriteInv => WriteOkDurable
  <2> SUFFICES ASSUME WriteInv, WroteOk, NEW p \in Written
               PROVE  \/ Phys(p) \in late
                      \/ medium[Phys(p)] = Pat(round, p)
                      \/ \E q \in Cells \ {p}, r \in Rounds :
                           /\ Phys(q) = Phys(p) /\ medium[Phys(p)] = Pat(r, q)
                           /\ q \in Written => r = round
    BY DEF WriteOkDurable
  <2>1. Writing /\ dirty = {} /\ ~wbErr
    BY DEF WroteOk, Writing, WriteInv, Synced
  <2>2. Safe(p)
    BY <2>1 DEF WriteInv, NothingLost
  <2> QED
    BY <2>1, <2>2 DEF Safe, Overwritten
<1> QED
  BY <1>1, <1>2, <1>3, BaseNext, PTL DEF Spec

-----------------------------------------------------------------------------
(* The page cache after write() *)

\* Chunks are whole pages, and a byte count either is, too, or is no limit.
\* For other byte counts the property is not true.
Aligned ==
  /\ Chunk % PageCells = 0
  /\ \A m \in Sizes : m = Unlimited \/ m % PageCells = 0

\* The request is one of the caller.
Requested == max \in Sizes \cup {0} /\ first % PageCells = 0

\* All that is written is counted for the range to drop.
Counted ==
  Writing /\ pc \in {"io", "sync", "close"} =>
    dropOffset = first /\ fpos <= first + dropCount

\* Once the file is closed, nothing written is cached.
Dropped ==
  op = "write" /\ res = "ok" /\ pc \in {"drop", "idle", "dead"} =>
    DOMAIN cache \cap Written = {}

ColdInv == Requested /\ Counted /\ Dropped

\* Cells of the same page are on the same side of where a page begins.
LEMMA SamePage ==
  ASSUME NEW p \in Nat, NEW q \in Nat, q \div PageCells = p \div PageCells,
         NEW e \in Nat, e % PageCells = 0
  PROVE  (p < e => q < e) /\ (e <= p => e <= q)
<1> DEFINE d == p \div PageCells
           c == e \div PageCells
<1>1. /\ d \in Nat /\ c \in Nat /\ e = c * PageCells
      /\ \E i \in 0 .. PageCells - 1 : p = d * PageCells + i
      /\ \E i \in 0 .. PageCells - 1 : q = d * PageCells + i
  <2>1. PageCells \in Int /\ PageCells > 0
    OBVIOUS
  <2> QED
    BY <2>1, DivMod
<1> HIDE DEF d, c
<1>2. CASE d < c
  <2>1. PICK k \in Nat : c = d + 1 + k
    <3>1. c - d - 1 \in Nat /\ c = d + 1 + (c - d - 1)
      BY <1>1, <1>2
    <3> QED
      BY <3>1
  <2>2. c * PageCells = d * PageCells + PageCells + k * PageCells
        /\ k * PageCells >= 0 /\ d * PageCells \in Nat
    BY <1>1, <2>1
  <2> QED
    BY <1>1, <2>2
<1>3. CASE d >= c
  <2>1. PICK k \in Nat : d = c + k
    <3>1. d - c \in Nat /\ d = c + (d - c)
      BY <1>1, <1>3
    <3> QED
      BY <3>1
  <2>2. d * PageCells = c * PageCells + k * PageCells
        /\ k * PageCells >= 0 /\ c * PageCells \in Nat
    BY <1>1, <2>1
  <2> QED
    BY <1>1, <2>2
<1> QED
  BY <1>1, <1>2, <1>3

\* Multiples of a page add up to one.
LEMMA PageSum ==
  ASSUME NEW a \in Nat, NEW b \in Nat, a % PageCells = 0, b % PageCells = 0
  PROVE  (a + b) % PageCells = 0
<1>1. PageCells \in Int /\ PageCells > 0
  OBVIOUS
<1>2. PICK c \in Nat : a = c * PageCells
  BY <1>1, DivMod
<1>3. PICK d \in Nat : b = d * PageCells
  BY <1>1, DivMod
<1>4. a + b = (c + d) * PageCells /\ c + d \in Nat
  BY <1>1, <1>2, <1>3
<1>5. ((c + d) * PageCells) % PageCells = 0
  BY <1>1, <1>4, DivModMultiple
<1> QED
  BY <1>4, <1>5

\* The activation begins at a page.
LEMMA RoundDownPage ==
  ASSUME Aligned, NEW s \in Nat PROVE RoundDown(s) % PageCells = 0
<1>1. PageCells \in Int /\ PageCells > 0 /\ Chunk \in Int /\ Chunk > 0
  OBVIOUS
<1>2. PICK c \in Nat : Chunk = c * PageCells
  BY <1>1, DivMod DEF Aligned
<1>3. /\ s \div Chunk \in Nat /\ s % Chunk \in 0 .. Chunk - 1
      /\ s = (s \div Chunk) * Chunk + (s % Chunk)
  BY <1>1, DivMod
<1>4. PICK d \in Nat : d = s \div Chunk
  BY <1>3
<1>5. RoundDown(s) = d * Chunk
  <2>1. d * Chunk \in Nat
    BY <1>1, <1>4
  <2> QED
    BY <1>3, <1>4, <2>1 DEF RoundDown
<1>6. d * Chunk = (d * c) * PageCells /\ d * c \in Nat
  BY <1>1, <1>2
<1> QED
  BY <1>1, <1>5, <1>6, DivModMultiple

\* What write() has written lies in whole pages of the range to drop.
LEMMA WrittenCovered ==
  ASSUME Aligned, Base, Complete, WriteInv, ColdInv, op = "write", res = "ok",
         pc = "close"
  PROVE  Written \subseteq Covered(dropOffset, dropCount)
<1>0. /\ Writing /\ dropOffset = first /\ fpos <= first + dropCount
      /\ first \in Nat /\ fpos \in Nat /\ dropCount \in Nat /\ max \in Nat
      /\ len \in Nat /\ len <= Capacity
      /\ first % PageCells = 0 /\ Written \subseteq Cells
  BY DEF ColdInv, Counted, Requested, Writing, WriteInv, InCells, Base, TypeOK,
     IoTypeOK
<1>1. fpos >= Capacity \/ fpos % PageCells = 0
  <2>1. CASE max = Unlimited
    BY <2>1 DEF Complete
  <2>2. CASE max # Unlimited
    <3>1. fpos = first + max
      BY <1>0, <2>2 DEF Complete
    <3>2. max % PageCells = 0
      <4>1. 0 % PageCells = 0
        <5>1. PageCells \in Int /\ PageCells > 0 /\ 0 * PageCells = 0
          OBVIOUS
        <5> QED
          BY <5>1, DivModMultiple
      <4> QED
        BY <2>2, <4>1 DEF ColdInv, Requested, Aligned
    <3> QED
      BY <1>0, <3>1, <3>2, PageSum
  <2> QED
    BY <2>1, <2>2
<1>2. SUFFICES ASSUME NEW p \in Written, NEW q \in Cells,
                      q \div PageCells = p \div PageCells, q < len
               PROVE  first <= q /\ q < first + dropCount
  BY <1>0 DEF Covered
<1>3. p \in Nat /\ q \in Nat /\ first <= p /\ p < fpos
  BY <1>0 DEF Written, Cells
<1>4. first <= q
  BY <1>0, <1>2, <1>3, SamePage
<1>5. q < fpos
  <2>1. CASE fpos >= Capacity
    BY <1>0, <1>2, <1>3, <2>1
  <2>2. CASE fpos % PageCells = 0
    <3>1. p < fpos => q < fpos
      BY <1>0, <1>2, <1>3, <2>2, SamePage
    <3> QED
      BY <1>3, <3>1
  <2> QED
    BY <1>1, <2>1, <2>2
<1> QED
  BY <1>0, <1>3, <1>4, <1>5

LEMMA ColdInit == Aligned /\ Init => ColdInv
<1> SUFFICES ASSUME Aligned, Init PROVE ColdInv
  OBVIOUS
<1>1. first = 0 /\ max = 0 /\ pc = "idle" /\ res = "none"
  BY DEF Init
<1>2. 0 % PageCells = 0
  <2>1. PageCells \in Int /\ PageCells > 0 /\ 0 * PageCells = 0
    OBVIOUS
  <2> QED
    BY <2>1, DivModMultiple
<1> QED
  BY <1>1, <1>2 DEF ColdInv, Requested, Counted, Dropped, Writing

\* Steps that leave the call, the range to drop and the file position alone.
LEMMA ColdCalm ==
  ASSUME ColdInv,
         UNCHANGED <<op, max, first, dropOffset, dropCount, fpos>>,
         Writing' /\ pc' \in {"io", "sync", "close"} =>
           Writing /\ pc \in {"io", "sync", "close"},
         op = "write" /\ res' = "ok" /\ pc' \in {"drop", "idle", "dead"} =>
           res = "ok" /\ pc \in {"drop", "idle", "dead"},
         DOMAIN cache' \subseteq DOMAIN cache
  PROVE  ColdInv'
<1>1. Written' = Written
  BY DEF Written
<1>2. Requested' /\ Counted'
  BY DEF ColdInv, Requested, Counted
<1>3. Dropped'
  BY <1>1 DEF ColdInv, Dropped
<1> QED
  BY <1>2, <1>3 DEF ColdInv

\* Outside of write() only the request matters.
LEMMA ColdIdle ==
  ASSUME Requested', ~(op' = "write" /\ (pc' = "io" \/ res' = "ok"))
  PROVE  ColdInv'
BY DEF ColdInv, Counted, Dropped, Writing

LEMMA ColdBegin ==
  ASSUME Aligned, Base, ColdInv,
         GetSectorSize \/ Activate \/ Reopen \/ SeekFile
  PROVE  ColdInv'
<1>1. res' \in {"none", "err"} /\ UNCHANGED <<op, max, seek>>
  BY DEF GetSectorSize, Activate, Reopen, SeekFile, Others, argVars, Base, Book
<1>2. first' = first \/ first' = RoundDown(seek)
  BY DEF GetSectorSize, Activate, Reopen, SeekFile, runVars
<1>3. Requested'
  <2>1. RoundDown(seek) % PageCells = 0
    BY RoundDownPage DEF Base, TypeOK
  <2> QED
    BY <1>1, <1>2, <2>1 DEF ColdInv, Requested
<1>4. CASE pc' # "io"
  BY <1>1, <1>3, <1>4, ColdIdle
<1>5. CASE pc' = "io"
  <2>1. SeekFile /\ fpos' = first /\ dropOffset' = first /\ dropCount' = 0
        /\ first' = first /\ first \in Nat
    BY <1>5 DEF GetSectorSize, Activate, Reopen, SeekFile, SeekOk, Base, Book,
       TypeOK
  <2>2. Counted' /\ Dropped'
    BY <1>5, <2>1 DEF Counted, Dropped
  <2> QED
    BY <1>3, <2>2 DEF ColdInv
<1> QED
  BY <1>4, <1>5

LEMMA ColdWriteChunk == Base /\ ColdInv /\ WriteChunk => ColdInv'
<1> SUFFICES ASSUME Base, ColdInv, WriteChunk PROVE ColdInv'
  OBVIOUS
<1> DEFINE n == Min2(Chunk, left)
<1>1. /\ pc = "io" /\ op = "write" /\ pc' \in {"io", "sync"}
      /\ UNCHANGED <<op, max, first, dropOffset>>
  BY DEF WriteChunk, Others, argVars
<1>2. /\ n \in Nat /\ Room \in Nat /\ fpos \in Nat /\ first \in Nat
      /\ dropCount \in Nat /\ dropOffset = first /\ fpos <= first + dropCount
  BY <1>1, ChunkLen DEF Base, TypeOK, IoTypeOK, Room, ColdInv, Counted, Writing
<1>3. Requested' /\ Dropped'
  BY <1>1 DEF ColdInv, Requested, Dropped
<1> HIDE DEF n
<1>4. CASE res' = "err"
  BY <1>1, <1>3, <1>4, ColdIdle DEF WriteChunk, WriteFails, Base, Book
<1>5. CASE (WriteOk(ChunkData, n) \/ WriteEnospc(ChunkData, n)) /\ CountDrop(n)
  <2>1. fpos' <= fpos + n /\ dropCount' = dropCount + n /\ fpos' \in Nat
    BY <1>2, <1>5 DEF WriteOk, WriteEnospc, Put, CountDrop
  <2>2. Counted'
    BY <1>1, <1>2, <2>1 DEF Counted
  <2> QED
    BY <1>3, <2>2 DEF ColdInv
<1> QED
  BY <1>4, <1>5 DEF WriteChunk, n

\* Closing the file drops all that was written.
LEMMA ColdFinalize ==
  ASSUME Aligned, Base, Complete, WriteInv, ColdInv, Finalize
  PROVE  ColdInv'
<1>1. /\ pc = "close" /\ pc' = "drop" /\ UNCHANGED <<op, max, first>>
      /\ handle # "none" /\ UNCHANGED <<rots, late>>
  BY DEF Finalize, Others, argVars, runVars, Base, Book, HandleInv, Mode
<1>2. Requested'
  BY <1>1 DEF ColdInv, Requested
<1>3. CASE ~(op = "write" /\ res' = "ok")
  BY <1>1, <1>2, <1>3, ColdIdle
<1>4. CASE op = "write" /\ res' = "ok"
  <2>1. CloseFile(TRUE) /\ res = "ok"
    BY <1>4 DEF Finalize, Failed
  <2>2. fpos' = fpos /\ DOMAIN cache' \subseteq DOMAIN cache
    BY <1>1, <2>1, CloseFileEffect
  <2>3. Written' = Written
    BY <1>1, <2>2 DEF Written
  <2>4. Written \subseteq Covered(dropOffset, dropCount)
    BY <1>1, <1>4, <2>1, WrittenCovered
  <2>5. dirty = {} /\ (kind = "chr" => DOMAIN cache = {})
    BY <1>1, <1>4, <2>1 DEF WriteInv, Synced, NoCache
  <2>6. CASE dropCount = 0
    <3>1. Written = {}
      BY <1>1, <1>4, <2>1, <2>6 DEF ColdInv, Counted, Writing, Written, Base,
         TypeOK, IoTypeOK
    <3> QED
      BY <1>1, <1>2, <2>3, <3>1 DEF ColdInv, Counted, Dropped
  <2>7. CASE dropCount # 0
    <3>1. DropCachesOk(dropOffset, dropCount)
      BY <2>1, <2>7 DEF CloseFile, Base, TypeOK
    <3>2. \/ DOMAIN cache' = {}
          \/ DOMAIN cache' = DOMAIN cache \ Covered(dropOffset, dropCount)
      BY <2>2, <2>5, <3>1 DEF DropCachesOk, Evicted
    <3>3. DOMAIN cache' \cap Written = {}
      BY <2>4, <3>2
    <3> QED
      BY <1>1, <1>2, <2>3, <3>3 DEF ColdInv, Counted, Dropped
  <2> QED
    BY <2>6, <2>7
<1> QED
  BY <1>3, <1>4

LEMMA ColdNext ==
  Aligned /\ Base /\ Complete /\ WriteInv /\ ColdInv /\ [Next]_vars => ColdInv'
<1> SUFFICES ASSUME Aligned, Base, Complete, WriteInv, ColdInv, [Next]_vars
             PROVE  ColdInv'
  OBVIOUS
<1>1. CASE UNCHANGED vars \/ Signal
  <2>1. UNCHANGED <<op, max, first, dropOffset, dropCount, fpos, pc, res, cache>>
    BY <1>1 DEF vars, Signal, ioVars, argVars, runVars, fileVars
  <2> QED
    BY <2>1, ColdCalm DEF Writing
<1>2. CASE Kill
  <2>1. UNCHANGED <<max, first>> /\ res' = "none" /\ pc' = "idle"
    BY <1>2 DEF Kill, argVars, runVars
  <2> QED
    BY <2>1, ColdIdle DEF ColdInv, Requested
<1>3. ASSUME NEW o \in {"write", "verify"}, NEW r \in Rounds, NEW s \in Seeks,
             NEW m \in Sizes, Call(o, r, s, m)
      PROVE  ColdInv'
  <2>1. first' = RoundDown(s) /\ max' = m /\ res' = "none" /\ pc' = "open"
    BY <1>3 DEF Call
  <2>2. RoundDown(s) % PageCells = 0
    BY RoundDownPage
  <2> QED
    BY <2>1, <2>2, ColdIdle DEF Requested
<1>4. CASE Environment
  <2>1. UNCHANGED <<op, max, first, dropOffset, dropCount, fpos, pc, res>>
        /\ DOMAIN cache' \subseteq DOMAIN cache
    BY <1>4 DEF Environment, Kernel, Writeback, WritebackFails, Evict, Evicted,
       Rot, argVars, runVars, fileVars
  <2> QED
    BY <2>1, ColdCalm DEF Writing
<1>5. CASE WriteFinalize
  <2>1. /\ UNCHANGED <<op, max, first, dropOffset, dropCount, fpos, cache>>
        /\ pc = "sync"
        /\ \/ pc' = "close" /\ res' = res
           \/ pc' = "drop" /\ res' # "ok"
    BY <1>5 DEF WriteFinalize, SyncOk, SyncFails, ioVars, Others, argVars,
       runVars, fileVars, Failed
  <2> QED
    BY <2>1, ColdCalm DEF Writing
<1>6. CASE ReadChunk
  <2>1. UNCHANGED <<op, max, first>> /\ op = "verify"
    BY <1>6 DEF ReadChunk, Others, argVars
  <2> QED
    BY <2>1, ColdIdle DEF ColdInv, Requested
<1>7. CASE DropFile
  <2>1. /\ UNCHANGED <<op, max, first, res, rots, late>>
        /\ pc = "drop" /\ pc' \in {"idle", "dead"}
    BY <1>7 DEF DropFile, Others, argVars, runVars
  <2>2. CASE op = "write" /\ res = "ok"
    <3>1. UNCHANGED <<dropOffset, dropCount, fpos, cache>>
      BY <1>7, <2>1, <2>2 DEF DropFile, WriteInv, Synced, ioVars, fileVars
    <3> QED
      BY <2>1, <3>1, ColdCalm DEF Writing
  <2>3. CASE ~(op = "write" /\ res = "ok")
    BY <2>1, <2>3, ColdIdle DEF ColdInv, Requested
  <2> QED
    BY <2>2, <2>3
<1> QED
  BY <1>1, <1>2, <1>3, <1>4, <1>5, <1>6, <1>7, ColdBegin, ColdWriteChunk,
     ColdFinalize DEF Next, Program, Terminated

\* With whole pages, a verify() after write() does not read from RAM: this is
\* the condition under which disktest-rawio/src/lib.rs:40 is right.
THEOREM ColdAfterWriteHolds ==
  ASSUME Aligned
  PROVE  Spec => []ColdAfterWrite
<1>1. Init => Base /\ Complete /\ WriteInv /\ ColdInv
  BY BaseInit, WriteInit, ColdInit DEF Init, Complete
<1>2. Base /\ Complete /\ WriteInv /\ ColdInv /\ [Next]_vars
        => Complete' /\ WriteInv' /\ ColdInv'
  BY CompleteNext, WriteNext, ColdNext
<1>3. ColdInv => ColdAfterWrite
  BY DEF ColdInv, Dropped, ColdAfterWrite, WroteOk
<1> QED
  BY <1>1, <1>2, <1>3, BaseNext, PTL DEF Spec

-----------------------------------------------------------------------------
(***************************************************************************)
(* What verify() says, alone and after write(), for every disk, fake or    *)
(* not, chunk size, request and number of failures and losses.             *)
(*                                                                         *)
(* Alone: VerifyInv follows the data from the medium into the buffer.      *)
(* Cells of the range that are not read yet are not cached, so a read()    *)
(* gets what the medium holds; what it holds can only change by a loss     *)
(* after that, for nothing is waiting to be stored.                        *)
(*                                                                         *)
(* After write(): a disk that keeps what it stores is never accused, and a *)
(* disk that is smaller than it claims to be never passes.  Both are about *)
(* the range that the last write() has reported as written.  From then on  *)
(* nothing is waiting to be stored, until the next write().  On a disk     *)
(* that works the range stays what it is, on the medium and in the cache.  *)
(* On one that is too small, two cells of the range that share a block are *)
(* never both found anywhere: after write() only one of them is left, and  *)
(* nothing brings the other one back.                                      *)
(***************************************************************************)

-----------------------------------------------------------------------------
(* What verify() has read *)

\* The block of cell p holds x, or has been lost during the call.
Holds(p, x) == Phys(p) \in late \/ medium[Phys(p)] = x

\* A call of verify() that began with a cold cache.
ColdVerify == op = "verify" /\ cold

\* Nothing is waiting to be stored.
Quiet == ColdVerify => dirty = {}

\* The cells not read yet are not cached.
UnreadCold ==
  ColdVerify /\ pc \in {"open", "activate", "seek", "io"} =>
    \A p \in DOMAIN cache :
      p < first + done + Len(buf) \/ p >= first + max

\* The cells compared hold the pattern, and those read what is in the buffer.
ReadFromMedium ==
  ColdVerify =>
    /\ \A p \in first .. first + done - 1 : Holds(p, Pat(round, p))
    /\ \A i \in 1 .. Len(buf) : Holds(first + done + i - 1, buf[i])

VerifyInv ==
  /\ first = RoundDown(seek)
  /\ Quiet
  /\ UnreadCold
  /\ ReadFromMedium

-----------------------------------------------------------------------------

\* What does not touch the medium, the buffer and the counters, and brings
\* nothing into the cache.
LEMMA Calm ==
  ASSUME VerifyInv,
         UNCHANGED <<op, cold, first, seek, max, round, done, buf, medium, late>>,
         dirty' \subseteq dirty,
         DOMAIN cache' \subseteq DOMAIN cache,
         pc' \in {"open", "activate", "seek", "io"}
           => pc \in {"open", "activate", "seek", "io"}
  PROVE  VerifyInv'
<1>1. ColdVerify' = ColdVerify
  BY DEF ColdVerify
<1>2. first' = RoundDown(seek') /\ Quiet'
  BY <1>1 DEF VerifyInv, Quiet, RoundDown
<1>3. UnreadCold'
  BY <1>1 DEF VerifyInv, UnreadCold
<1>4. ReadFromMedium'
  BY <1>1 DEF VerifyInv, ReadFromMedium, Holds, Pat, Phys
<1> QED
  BY <1>2, <1>3, <1>4 DEF VerifyInv

LEMMA VerifyInit == Init => VerifyInv
<1> SUFFICES ASSUME Init PROVE VerifyInv
  OBVIOUS
<1>1. 0 = RoundDown(0)
  <2>1. RoundDown(0) \in Nat /\ RoundDown(0) <= 0
    BY RoundDownNat
  <2> QED
    BY <2>1
<1>2. ~ColdVerify
  BY DEF Init, ColdVerify
<1>3. first = 0 /\ seek = 0
  BY DEF Init
<1>4. first = RoundDown(seek)
  BY <1>1, <1>3
<1> QED
  BY <1>2, <1>4 DEF VerifyInv, Quiet, UnreadCold, ReadFromMedium

LEMMA VerifyCall ==
  ASSUME NEW o \in {"write", "verify"}, NEW r \in Rounds,
         NEW s \in Seeks, NEW m \in Sizes, Call(o, r, s, m)
  PROVE  VerifyInv'
<1>0. RoundDown(s) \in Nat
  BY RoundDownNat
<1>1. /\ first' = RoundDown(seek') /\ first' = RoundDown(s) /\ done' = 0
      /\ buf' = << >> /\ max' = m
      /\ UNCHANGED <<dirty, cache>>
      /\ cold' => /\ dirty = {}
                  /\ \A p \in DOMAIN cache :
                       p < RoundDown(s) \/ p >= RoundDown(s) + m
  BY DEF Call, ioVars, RoundDown
<1>2. Quiet'
  BY <1>1 DEF Quiet, ColdVerify
<1>3. UnreadCold'
  <2>1. first' + done' + Len(buf') = RoundDown(s)
    BY <1>0, <1>1
  <2>2. cold' => \A p \in DOMAIN cache' :
                   p < first' + done' + Len(buf') \/ p >= first' + max'
    BY <1>1, <2>1
  <2> QED
    BY <2>2 DEF UnreadCold, ColdVerify
<1>4. ReadFromMedium'
  <2>1. first' .. first' + done' - 1 = {} /\ 1 .. Len(buf') = {}
    BY <1>0, <1>1
  <2> QED
    BY <2>1 DEF ReadFromMedium
<1> QED
  BY <1>1, <1>2, <1>3, <1>4 DEF VerifyInv

LEMMA VerifyEnvironment == Base /\ VerifyInv /\ Environment => VerifyInv'
<1> SUFFICES ASSUME Base, VerifyInv, Environment PROVE VerifyInv'
  OBVIOUS
<1>1. UNCHANGED <<op, cold, first, seek, max, round, done, buf, pc>>
  BY DEF Environment, argVars, runVars
<1>2. ASSUME NEW p \in Cells, Writeback(p) PROVE VerifyInv'
  <2>1. ~ColdVerify /\ ~ColdVerify'
    BY <1>1, <1>2 DEF Writeback, VerifyInv, Quiet, ColdVerify
  <2> QED
    BY <1>1, <2>1 DEF VerifyInv, Quiet, UnreadCold, ReadFromMedium, RoundDown
<1>3. ASSUME NEW p \in Cells, WritebackFails(p) PROVE VerifyInv'
  <2>1. UNCHANGED <<medium, late, cache>> /\ dirty' \subseteq dirty
    BY <1>3 DEF WritebackFails
  <2> QED
    BY <1>1, <2>1, Calm
<1>4. ASSUME NEW p \in Cells, Evict(p) PROVE VerifyInv'
  <2>1. UNCHANGED <<medium, late, dirty>> /\ DOMAIN cache' \subseteq DOMAIN cache
    BY <1>4 DEF Evict, Evicted
  <2> QED
    BY <1>1, <2>1, Calm
<1>5. ASSUME NEW b \in Blocks, Rot(b) PROVE VerifyInv'
  <2>1. /\ UNCHANGED <<dirty, cache>>
        /\ late' = late \cup {b}
        /\ medium' = [medium EXCEPT ![b] = Junk]
    BY <1>5 DEF Rot
  <2>2. \A p, x : Holds(p, x) => Holds(p, x)'
    BY <2>1 DEF Holds, Phys, Base, TypeOK, IoTypeOK
  <2>3. ColdVerify' = ColdVerify
    BY <1>1 DEF ColdVerify
  <2>4. first' = RoundDown(seek') /\ Quiet' /\ UnreadCold'
    BY <1>1, <2>1, <2>3 DEF VerifyInv, Quiet, UnreadCold, RoundDown
  <2>5. ReadFromMedium'
    BY <1>1, <2>2, <2>3 DEF VerifyInv, ReadFromMedium, Pat
  <2> QED
    BY <2>4, <2>5 DEF VerifyInv
<1> QED
  BY <1>2, <1>3, <1>4, <1>5 DEF Environment, Kernel

\* A read() of cells that are not cached gets what the medium holds.
LEMMA ReadsMedium ==
  ASSUME Base, VerifyInv, ColdVerify, pc = "io", NEW n \in Readable(Want) \cup {0},
         ReadOk(n), UNCHANGED <<rots, late>>
  PROVE  /\ \A i \in 1 .. Len(Filled(n)) :
              Holds(first + done + i - 1, Filled(n)[i])
         /\ \A p \in DOMAIN cache' :
              \/ p < first + done + Len(Filled(n))
              \/ p >= first + max
<1>1. /\ fpos = first + done + Len(buf) /\ done + left = max
      /\ first \in Nat /\ done \in Nat /\ left \in Nat /\ max \in Nat
      /\ Len(buf) \in Nat
      /\ DOMAIN cache \subseteq Nat
  BY DEF Base, TypeOK, IoTypeOK, Book, Cells, ColdVerify
<1>2. /\ n \in Nat /\ Len(Filled(n)) = Len(buf) + n
      /\ Len(buf) + n <= left
      /\ \A i \in 1 .. n : Filled(n)[Len(buf) + i] = Content(fpos + i - 1)
      /\ \A i \in 1 .. Len(buf) : Filled(n)[i] = buf[i]
  BY <1>1, FilledFacts DEF ColdVerify
<1>3. \A p \in DOMAIN cache : p < fpos \/ p >= first + max
  BY <1>1 DEF VerifyInv, UnreadCold
<1>4. ASSUME NEW i \in 1 .. Len(Filled(n))
      PROVE  Holds(first + done + i - 1, Filled(n)[i])
  <2>1. CASE i <= Len(buf)
    <3>1. i \in 1 .. Len(buf)
      BY <1>1, <2>1
    <3>2. Holds(first + done + i - 1, buf[i])
      BY <3>1 DEF VerifyInv, ReadFromMedium
    <3> QED
      BY <1>2, <3>1, <3>2
  <2>2. CASE i > Len(buf)
    <3> DEFINE j == i - Len(buf)
               p == fpos + j - 1
    <3>1. j \in 1 .. n /\ i = Len(buf) + j /\ p = first + done + i - 1
          /\ p >= fpos /\ p < first + max
      BY <1>1, <1>2, <2>2
    <3>2. Filled(n)[i] = Content(p)
      BY <1>2, <3>1
    <3>3. p \notin DOMAIN cache
      <4>1. p \in Int
        BY <1>1, <3>1
      <4> HIDE DEF p
      <4> QED
        BY <1>1, <1>3, <3>1, <4>1
    <3>4. Content(p) = medium[Phys(p)]
      BY <3>3 DEF Content
    <3>5. Holds(p, Filled(n)[i])
      BY <3>2, <3>4 DEF Holds
    <3> QED
      BY <3>1, <3>5
  <2> QED
    BY <1>1, <1>2, <2>1, <2>2
<1>5. ASSUME NEW p \in DOMAIN cache'
      PROVE  p < first + done + Len(Filled(n)) \/ p >= first + max
  <2>1. p \in DOMAIN cache \cup fpos .. fpos + n - 1
    BY DEF ReadOk
  <2> QED
    BY <1>1, <1>2, <1>3, <2>1
<1> QED
  BY <1>4, <1>5

LEMMA VerifyReadSome ==
  ASSUME Base, VerifyInv, ColdVerify, pc = "io", NEW n \in Readable(Want) \cup {0},
         ReadSome(n, Filled(n)),
         UNCHANGED <<op, cold, first, seek, max, round, late, rots>>
  PROVE  VerifyInv'
<1> DEFINE b == Filled(n)
<1>0. /\ pc = "io" /\ done = chunks * Chunk /\ round \in Rounds
      /\ first \in Nat /\ done \in Nat /\ Len(buf) \in Nat /\ max \in Nat
  BY DEF Base, Book, TypeOK
<1>1. UNCHANGED <<op, cold, first, seek, max, round, late, rots>>
  OBVIOUS
<1>2. ReadOk(n) /\ UNCHANGED <<medium, dirty>>
  BY <1>1 DEF ReadSome, ReadOk
<1>3. /\ \A i \in 1 .. Len(b) : Holds(first + done + i - 1, b[i])
      /\ \A p \in DOMAIN cache' : p < first + done + Len(b) \/ p >= first + max
  BY <1>0, <1>1, <1>2, ReadsMedium
<1>4. \A p, x : Holds(p, x)' = Holds(p, x)
  BY <1>1, <1>2 DEF Holds, Phys
<1>5. ColdVerify' = ColdVerify /\ first' = RoundDown(seek') /\ Quiet'
  BY <1>1, <1>2 DEF ColdVerify, VerifyInv, Quiet, RoundDown
<1>6. Len(b) \in Nat
  BY <1>0, <1>1, <1>2, FilledFacts DEF ColdVerify
<1>7. \A p \in first .. first + done - 1 : Holds(p, Pat(round, p))
  BY DEF VerifyInv, ReadFromMedium
<1>8. CASE buf' = b /\ done' = done
  <2>1. UnreadCold'
    BY <1>1, <1>3, <1>8 DEF UnreadCold
  <2>2. ReadFromMedium'
    BY <1>1, <1>3, <1>4, <1>7, <1>8 DEF ReadFromMedium, Pat
  <2> QED
    BY <1>5, <2>1, <2>2 DEF VerifyInv
<1>9. CASE buf' = << >> /\ done' = done + Len(b) /\ ~Mismatch(b) /\ Len(b) <= Chunk
  <2>1. first' + done' + Len(buf') = first + done + Len(b)
    BY <1>0, <1>1, <1>6, <1>9
  <2>2. UnreadCold'
    BY <1>1, <1>3, <2>1 DEF UnreadCold
  <2>3. \A i \in 1 .. Len(b) : Holds(first + done + i - 1, Pat(round, first + done + i - 1))
    <3> SUFFICES ASSUME NEW i \in 1 .. Len(b)
                 PROVE  Holds(first + done + i - 1, Pat(round, first + done + i - 1))
      OBVIOUS
    <3>1. i - 1 \in 0 .. Chunk - 1
      BY <1>6, <1>9
    <3>2. ChunkData[i - 1] = Pat(round, first + done + (i - 1))
      BY <1>0, <3>1, ChunkDataPat DEF Base
    <3>3. first + done + (i - 1) = first + done + i - 1
      BY <1>0
    <3>4. b[i] = ChunkData[i - 1]
      BY <1>9 DEF Mismatch
    <3> QED
      BY <1>3, <3>2, <3>3, <3>4
  <2>4. \A p \in first .. first + done' - 1 : Holds(p, Pat(round, p))
    <3> SUFFICES ASSUME NEW p \in first .. first + done' - 1
                 PROVE  Holds(p, Pat(round, p))
      OBVIOUS
    <3>1. CASE p < first + done
      BY <1>0, <1>7, <3>1
    <3>2. CASE p >= first + done
      <4> DEFINE k == Len(b)
      <4>t. first \in Nat /\ done \in Nat
        BY <1>0
      <4>0. k \in Nat /\ done' = done + k
        BY <1>6, <1>9
      <4> HIDE DEF k
      <4>1. PICK d \in Nat : p = first + done + d
        <5>1. p \in Int /\ p - (first + done) >= 0
          BY <3>2, <4>t
        <5>2. p - (first + done) \in Nat
          BY <4>t, <5>1
        <5>3. p = first + done + (p - (first + done))
          BY <4>t, <5>1
        <5> QED
          BY <5>2, <5>3
      <4>2. d + 1 \in 1 .. k
        BY <4>0, <4>1, <4>t
      <4>3. p = first + done + (d + 1) - 1
        BY <4>1, <4>t
      <4> QED
        BY <2>3, <4>2, <4>3 DEF k
    <3> QED
      BY <1>0, <3>1, <3>2
  <2>5. 1 .. Len(buf') = {}
    BY <1>9
  <2>6. ReadFromMedium'
    BY <1>1, <1>4, <2>4, <2>5 DEF ReadFromMedium, Pat
  <2> QED
    BY <1>5, <2>2, <2>6 DEF VerifyInv
<1>10. Len(b) <= Chunk
  BY <1>0, <1>1, <1>2, FilledFacts DEF ColdVerify
<1> QED
  BY <1>8, <1>9, <1>10 DEF ReadSome
LEMMA VerifyReadChunk == Base /\ VerifyInv /\ ReadChunk => VerifyInv'
<1> SUFFICES ASSUME Base, VerifyInv, ReadChunk PROVE VerifyInv'
  OBVIOUS
<1>0. pc = "io"
  BY DEF ReadChunk
<1>1. UNCHANGED <<op, cold, first, seek, max, round, late, rots>>
  BY DEF ReadChunk, Others, argVars
<1>2. CASE ReadFails /\ UNCHANGED <<done, buf>> /\ pc' = "close"
  <2>1. UNCHANGED <<medium, cache, dirty>>
    BY <1>2 DEF ReadFails
  <2> QED
    BY <1>1, <1>2, <2>1, Calm
<1>3. CASE ~ColdVerify
  BY <1>1, <1>3 DEF VerifyInv, Quiet, UnreadCold, ReadFromMedium, RoundDown,
     ColdVerify
<1>4. CASE ColdVerify /\ \E n \in Readable(Want) : ReadSome(n, Filled(n))
  BY <1>0, <1>1, <1>4, VerifyReadSome
<1> QED
  BY <1>2, <1>3, <1>4 DEF ReadChunk, Filled

\* The rest of the program only takes away from the cache.
LEMMA VerifyOther ==
  ASSUME Base, VerifyInv, Program, ~ReadChunk
  PROVE  VerifyInv'
<1>1. CASE GetSectorSize \/ Reopen
  <2>1. /\ UNCHANGED <<op, cold, first, seek, max, round, done, buf, medium,
                       late, dirty, cache>>
        /\ pc \in {"open", "activate", "seek", "io"}
    BY <1>1 DEF GetSectorSize, Reopen, DoOpen, Open, OpenFails, Others, argVars,
       runVars
  <2> QED
    BY <2>1, Calm
<1>2. CASE Activate
  <2>1. UNCHANGED <<op, cold, seek, max, round, done, buf, medium, late, dirty,
                    cache>> /\ pc = "activate"
    BY <1>2 DEF Activate, Others, argVars
  <2>2. first' = RoundDown(seek) \/ first' = first
    BY <1>2 DEF Activate
  <2>3. first' = first
    BY <2>2 DEF VerifyInv
  <2> QED
    BY <2>1, <2>3, Calm
<1>3. CASE SeekFile
  <2>1. UNCHANGED <<op, cold, first, seek, max, round, done, buf, medium, late,
                    dirty, cache>> /\ pc = "seek"
    BY <1>3 DEF SeekFile, SeekOk, SeekFails, ioVars, Others, argVars
  <2> QED
    BY <2>1, Calm
<1>4. CASE WriteChunk
  <2>1. UNCHANGED <<op, first, seek>> /\ op = "write"
    BY <1>4 DEF WriteChunk, Others, argVars
  <2> QED
    BY <2>1 DEF VerifyInv, Quiet, UnreadCold, ReadFromMedium, ColdVerify,
       RoundDown
<1>5. CASE WriteFinalize
  <2>1. UNCHANGED <<op, cold, first, seek, max, round, done, buf, medium, late,
                    dirty, cache>> /\ pc' \in {"close", "drop"}
    BY <1>5 DEF WriteFinalize, SyncOk, SyncFails, ioVars, Others, argVars,
       runVars
  <2> QED
    BY <2>1, Calm
<1>6. CASE Finalize \/ DropFile
  <2>1. UNCHANGED <<op, cold, first, seek, max, round, done, buf, late>>
        /\ pc' \in {"drop", "idle", "dead"}
    BY <1>6 DEF Finalize, DropFile, Others, argVars, runVars
  <2>2. UNCHANGED <<medium, dirty>> /\ DOMAIN cache' \subseteq DOMAIN cache
    <3>1. CASE UNCHANGED ioVars
      BY <3>1 DEF ioVars
    <3>2. CASE \E ok \in BOOLEAN : CloseFile(ok)
      BY <3>2 DEF CloseFile, DropCachesOk, DropCachesFails, CloseOk, CloseFails,
         Evicted
    <3> QED
      BY <1>6, <3>1, <3>2 DEF Finalize, DropFile
  <2> QED
    BY <2>1, <2>2, Calm
<1> QED
  BY <1>1, <1>2, <1>3, <1>4, <1>5, <1>6 DEF Program

LEMMA VerifyNext == Base /\ VerifyInv /\ [Next]_vars => VerifyInv'
<1> SUFFICES ASSUME Base, VerifyInv, [Next]_vars PROVE VerifyInv'
  OBVIOUS
<1>1. CASE UNCHANGED vars
  <2>1. UNCHANGED <<op, cold, first, seek, max, round, done, buf, medium, late,
                    dirty, cache, pc>>
    BY <1>1 DEF vars, ioVars, argVars, runVars
  <2> QED
    BY <2>1, Calm
<1>2. CASE Signal \/ Kill
  <2>1. UNCHANGED <<op, cold, first, seek, max, round, done, buf, medium, late,
                    dirty, cache>> /\ pc' \in {pc, "idle"}
    BY <1>2 DEF Signal, Kill, ioVars, argVars, runVars
  <2> QED
    BY <2>1, Calm
<1>3. CASE Program
  BY <1>3, VerifyReadChunk, VerifyOther
<1>4. CASE \E o \in {"write", "verify"}, r \in Rounds, s \in Seeks, m \in Sizes :
             Call(o, r, s, m)
  BY <1>4, VerifyCall
<1> QED
  BY <1>1, <1>2, <1>3, <1>4, VerifyEnvironment DEF Next, Terminated

\* verify() never vouches for what the medium does not hold: on every disk,
\* broken or fake, and whatever fails.
THEOREM VerifySoundHolds == Spec => []VerifySound
<1>1. Init => Base /\ VerifyInv
  BY BaseInit, VerifyInit
<1>2. Base /\ VerifyInv /\ [Next]_vars => VerifyInv'
  BY VerifyNext
<1>3. VerifyInv => VerifySound
  BY DEF VerifyInv, ReadFromMedium, VerifySound, VerifiedOk, ColdVerify, Holds
<1> QED
  BY <1>1, <1>2, <1>3, BaseNext, PTL DEF Spec


-----------------------------------------------------------------------------
(* The range write() has reported as written *)

Stored == stored.lo .. stored.hi - 1

\* What a cell of the range was to hold.
Of(p) == Pat(stored.round, p)

\* A range is known from the end of a write() to the start of the next one;
\* until then nothing is waiting to be stored.
StoredBook ==
  /\ stored.lo \in Nat /\ stored.hi \in Nat
  /\ op = "write" /\ pc \notin {"drop", "idle", "dead"} => stored = NoRange
  /\ stored # NoRange => dirty = {}
  /\ pc = "sync" => op = "write"

\* What this call has written is cached as it was written.
CacheNew ==
  Writing => \A p \in DOMAIN cache \cap Written : cache[p] = Pat(round, p)

Lossless == rots = 0 => late = {}

\* A disk that keeps what it stores.
Keeps == Real = Capacity /\ rots = 0

\* The range is on the medium, and what is cached of it is the same.
StoredGood ==
  Keeps => \A p \in Stored :
             /\ medium[Phys(p)] = Of(p)
             /\ p \in DOMAIN cache => cache[p] = Of(p)

\* What verify() has read of the range is as it was written.
BufGood ==
  Keeps /\ VerifiesStored =>
    \A i \in 1 .. Len(buf) :
      first + done + i - 1 < stored.hi => buf[i] = Pat(round, first + done + i - 1)

MismatchBeyond ==
  Keeps /\ VerifiesStored /\ res = "mismatch" => fpos > stored.hi

StoredInv ==
  StoredBook /\ CacheNew /\ Lossless /\ StoredGood /\ BufGood /\ MismatchBeyond

\* verify() has compared cell p, or is about to, and it is right.
Passed(p) ==
  /\ VerifiesStored
  /\ \/ p \in first .. first + done - 1
     \/ \E i \in 1 .. Len(buf) :
          p = first + done + i - 1 /\ buf[i] = Pat(round, p)

\* What was written to cell p is cached, on the medium, or has been read.
Seen(p) ==
  \/ p \in DOMAIN cache /\ cache[p] = Of(p)
  \/ medium[Phys(p)] = Of(p)
  \/ Passed(p)

\* Of two cells in the same block only one is left.
OneSeen ==
  \A p, q \in Stored : p # q /\ Phys(p) = Phys(q) => ~(Seen(p) /\ Seen(q))

-----------------------------------------------------------------------------
(* The steps there are *)

\* The steps of a call of verify(), or between calls, with the range known.
Later ==
  \/ UNCHANGED vars \/ Signal \/ Kill
  \/ \E r \in Rounds, s \in Seeks, m \in Sizes : Call("verify", r, s, m)
  \/ GetSectorSize \/ Activate \/ Reopen \/ SeekFile \/ ReadChunk
  \/ op = "verify" /\ Finalize
  \/ DropFile
  \/ (\E p \in Cells : Evict(p)) /\ Environment
  \/ (\E b \in Blocks : Rot(b)) /\ Environment

\* The end of a write() that returns Ok.
Reports == op = "write" /\ Finalize /\ res' = "ok"

LEMMA StepKinds ==
  ASSUME Base, WriteInv, StoredBook, [Next]_vars
  PROVE  \/ stored' = NoRange
         \/ Reports
         \/ stored # NoRange /\ stored' = stored /\ Later
<1> SUFFICES ASSUME stored' # NoRange, ~Reports
             PROVE  stored # NoRange /\ stored' = stored /\ Later
  OBVIOUS
<1>0. NoRange' = NoRange
  BY DEF NoRange
<1>1. CASE UNCHANGED vars
  BY <1>1 DEF vars, Later
<1>2. CASE Signal \/ Kill
  BY <1>2 DEF Signal, Kill, Later
<1>3. ASSUME NEW o \in {"write", "verify"}, NEW r \in Rounds, NEW s \in Seeks,
             NEW m \in Sizes, Call(o, r, s, m)
      PROVE  stored # NoRange /\ stored' = stored /\ Later
  <2>1. o = "verify" /\ stored' = stored
    BY <1>3 DEF Call
  <2> QED
    BY <1>3, <2>1 DEF Later
<1>4. CASE GetSectorSize \/ Activate \/ Reopen \/ SeekFile \/ ReadChunk \/ DropFile
  BY <1>4 DEF GetSectorSize, Activate, Reopen, SeekFile, ReadChunk, DropFile, Later
<1>5. CASE WriteChunk \/ WriteFinalize
  <2>1. stored' = stored /\ pc \in {"io", "sync"}
    BY <1>5 DEF WriteChunk, WriteFinalize
  <2>2. op = "write"
    BY <1>5 DEF WriteChunk, WriteFinalize, StoredBook
  <2> QED
    BY <2>1, <2>2 DEF StoredBook
<1>6. CASE Finalize
  <2>1. pc = "close" /\ (op = "write" => stored' = stored)
    BY <1>6 DEF Finalize, Reports
  <2>2. op # "write"
    BY <2>1 DEF StoredBook
  <2>3. op = "verify" /\ stored' = stored
    BY <1>6, <2>2 DEF Finalize, Base, TypeOK
  <2> QED
    BY <1>6, <2>3 DEF Later
<1>7. CASE Environment
  <2>1. stored' = stored
    BY <1>7 DEF Environment
  <2>2. dirty = {}
    BY <2>1 DEF StoredBook
  <2> QED
    BY <1>7, <2>1, <2>2 DEF Environment, Kernel, Writeback, WritebackFails, Later
<1> QED
  BY <1>1, <1>2, <1>3, <1>4, <1>5, <1>6, <1>7 DEF Next, Program, Terminated

\* A step that brings nothing back: the cache only shrinks, the medium only
\* loses, and what verify() has read stays or is forgotten.
Rests ==
  /\ DOMAIN cache' \subseteq DOMAIN cache
  /\ \A p \in DOMAIN cache' : cache'[p] = cache[p]
  /\ \A b \in Blocks : medium'[b] \in {medium[b], Junk}
  /\ rots' = 0 => rots = 0 /\ medium' = medium
  /\ UNCHANGED dirty
  /\ \/ /\ UNCHANGED <<op, round, first, done, buf, fpos>>
        /\ res' = "mismatch" => res = "mismatch"
     \/ done' = 0 /\ buf' = << >> /\ res' # "mismatch"

\* With nothing to store the kernel and the medium bring nothing back.
LEMMA EnvironmentRests ==
  ASSUME Base, dirty = {}, Environment
  PROVE  Rests
<1>1. UNCHANGED <<op, round, first, done, buf, res>>
  BY DEF Environment, argVars, runVars
<1>2. CASE \E p \in Cells : Evict(p)
  BY <1>1, <1>2 DEF Evict, Evicted, Rests
<1>3. CASE \E b \in Blocks : Rot(b)
  <2>1. PICK b \in Blocks : Rot(b)
    BY <1>3
  <2>2. /\ UNCHANGED <<cache, dirty, fpos>>
        /\ rots' = rots + 1 /\ rots \in Nat
        /\ medium' = [medium EXCEPT ![b] = Junk]
        /\ medium \in [Blocks -> Contents]
    BY <2>1 DEF Rot, Base, TypeOK, IoTypeOK
  <2> QED
    BY <1>1, <2>2 DEF Rests
<1> QED
  BY <1>2, <1>3 DEF Environment, Kernel, Writeback, WritebackFails

LEMMA LaterRests ==
  ASSUME Base, dirty = {}, Later, ~ReadChunk
  PROVE  Rests
<1>1. CASE \/ UNCHANGED vars \/ Signal \/ Kill
           \/ \E r \in Rounds, s \in Seeks, m \in Sizes : Call("verify", r, s, m)
  BY <1>1 DEF vars, Signal, Kill, Call, ioVars, argVars, runVars, Rests
<1>2. CASE GetSectorSize \/ Reopen \/ SeekFile \/ Activate
  <2>1. pc \in {"open", "activate", "seek"}
    BY <1>2 DEF GetSectorSize, Reopen, SeekFile, Activate
  <2>2. UNCHANGED <<cache, medium, dirty, rots, done, buf>> /\ res' \in {res, "err"}
    BY <1>2 DEF GetSectorSize, Reopen, SeekFile, Activate, DoOpen, Open,
       OpenFails, SeekOk, SeekFails, ioVars, runVars, Others
  <2> QED
    BY <2>1, <2>2 DEF Base, Book, Rests
<1>3. CASE Finalize \/ DropFile
  <2>1. /\ pc \in {"close", "drop"} /\ UNCHANGED <<rots, late>>
        /\ UNCHANGED <<op, round, first, done, buf>>
        /\ res' = "mismatch" => res = "mismatch"
    BY <1>3 DEF Finalize, DropFile, Others, argVars, runVars, Failed
  <2>2. CASE UNCHANGED ioVars
    BY <2>1, <2>2 DEF ioVars, Rests
  <2>3. CASE handle # "none" /\ \E ok \in BOOLEAN : CloseFile(ok)
    <3>1. /\ UNCHANGED <<medium, dirty, fpos>>
          /\ DOMAIN cache' \subseteq DOMAIN cache
          /\ \A p \in DOMAIN cache' : cache'[p] = cache[p]
      BY <2>1, <2>3, CloseFileEffect
    <3> QED
      BY <2>1, <3>1 DEF Rests
  <2>4. pc = "close" => handle # "none"
    BY DEF Base, Book, HandleInv, Mode
  <2> QED
    BY <1>3, <2>2, <2>3, <2>4 DEF Finalize, DropFile
<1> QED
  BY <1>1, <1>2, <1>3, EnvironmentRests DEF Later

\* After a read() nothing is waiting to be stored that was not before, and the
\* cache has what was read.
LEMMA ReadAdds ==
  ASSUME ReadChunk
  PROVE  /\ op = "verify" /\ UNCHANGED <<op, round, first, stored, rots, late>>
         /\ UNCHANGED <<medium, dirty>>
         /\ \A p \in DOMAIN cache' : cache'[p] = Content(p)
<1>1. op = "verify" /\ UNCHANGED <<op, round, first, stored, rots, late>>
  BY DEF ReadChunk, Others, argVars
<1>2. CASE ReadFails
  BY <1>1, <1>2 DEF ReadFails, Content
<1>3. ASSUME NEW n, ReadOk(n)
      PROVE  /\ UNCHANGED <<medium, dirty>>
             /\ \A p \in DOMAIN cache' : cache'[p] = Content(p)
  BY <1>3 DEF ReadOk, Content
<1> QED
  BY <1>1, <1>2, <1>3 DEF ReadChunk, ReadSome

-----------------------------------------------------------------------------
(* The range, and what was written *)

\* Only write() gets to its finalize.
LEMMA SyncNext ==
  ASSUME StoredBook, [Next]_vars PROVE pc' = "sync" => op' = "write"
<1>1. CASE UNCHANGED vars \/ Signal \/ Kill \/ Environment \/ Terminated
  BY <1>1 DEF vars, Signal, Kill, Environment, Terminated, argVars, StoredBook
<1>2. CASE \E o \in {"write", "verify"}, r \in Rounds, s \in Seeks, m \in Sizes :
             Call(o, r, s, m)
  BY <1>2 DEF Call
<1>3. CASE Program
  BY <1>3 DEF Program, GetSectorSize, Activate, Reopen, SeekFile, WriteChunk,
     WriteFinalize, ReadChunk, ReadSome, Continue, Finalize, DropFile, Others,
     argVars
<1> QED
  BY <1>1, <1>2, <1>3 DEF Next

LEMMA StoredBookNext ==
  Base /\ WriteInv /\ StoredBook /\ [Next]_vars => StoredBook'
<1> SUFFICES ASSUME Base, WriteInv, StoredBook, [Next]_vars PROVE StoredBook'
  OBVIOUS
<1>0. (pc' = "sync" => op' = "write") /\ NoRange' = NoRange
      /\ NoRange.lo = 0 /\ NoRange.hi = 0
  BY SyncNext DEF NoRange
<1>1. CASE stored' = NoRange
  BY <1>0, <1>1 DEF StoredBook
<1>2. CASE Reports
  <2>1. /\ pc = "close" /\ pc' = "drop" /\ handle # "none"
        /\ UNCHANGED <<rots, late>>
        /\ stored' = [round |-> round, lo |-> first, hi |-> fpos]
    BY <1>2 DEF Reports, Finalize, Others, Base, Book, HandleInv, Mode
  <2>2. res = "ok" /\ \E ok \in BOOLEAN : CloseFile(ok)
    BY <1>2 DEF Reports, Finalize, Failed
  <2>3. dirty' = dirty
    BY <2>1, <2>2, CloseFileEffect
  <2>4. dirty = {}
    BY <1>2, <2>1, <2>2 DEF Reports, WriteInv, Synced
  <2>5. first \in Nat /\ fpos \in Nat
    BY DEF Base, TypeOK, IoTypeOK
  <2> QED
    BY <1>0, <2>1, <2>3, <2>4, <2>5 DEF StoredBook
<1>3. CASE stored # NoRange /\ stored' = stored /\ Later
  <2>1. dirty' = dirty
    BY <1>3, LaterRests, ReadAdds DEF Rests, StoredBook
  <2>2. op' = "write" => pc' \in {"drop", "idle", "dead"}
    <3>1. op = "write" => pc \in {"drop", "idle", "dead"}
      BY <1>3 DEF StoredBook
    <3> QED
      BY <1>3, <3>1 DEF Later, vars, Signal, Kill, Call, GetSectorSize, Activate,
         Reopen, SeekFile, ReadChunk, Finalize, DropFile, Environment, Others,
         argVars
  <2> QED
    BY <1>0, <1>3, <2>1, <2>2 DEF StoredBook
<1> QED
  BY <1>1, <1>2, <1>3, StepKinds

LEMMA LosslessNext == Base /\ Lossless /\ [Next]_vars => Lossless'
<1> SUFFICES ASSUME Base, Lossless, [Next]_vars PROVE Lossless'
  OBVIOUS
<1>1. CASE UNCHANGED <<rots, late>>
  BY <1>1 DEF Lossless
<1>2. ASSUME NEW b \in Blocks, Rot(b) PROVE Lossless'
  BY <1>2 DEF Rot, Lossless, Base, TypeOK, IoTypeOK
<1>3. late' = {} \/ UNCHANGED <<rots, late>> \/ \E b \in Blocks : Rot(b)
  BY DEF Next, vars, Call, Signal, Kill, Terminated, Program, GetSectorSize,
     Activate, Reopen, SeekFile, WriteChunk, WriteFinalize, ReadChunk, Finalize,
     DropFile, Others, Environment, Kernel, Writeback, WritebackFails, Evict
<1> QED
  BY <1>1, <1>2, <1>3 DEF Lossless

LEMMA CacheCalm ==
  ASSUME CacheNew, Writing' => Writing, UNCHANGED <<round, first, fpos>>,
         DOMAIN cache' \subseteq DOMAIN cache,
         \A p \in DOMAIN cache' : cache'[p] = cache[p]
  PROVE  CacheNew'
BY DEF CacheNew, Written, Pat

LEMMA CacheWriteChunk == Base /\ WriteInv /\ CacheNew /\ WriteChunk => CacheNew'
<1> SUFFICES ASSUME Base, WriteInv, CacheNew, WriteChunk PROVE CacheNew'
  OBVIOUS
<1> DEFINE n == Min2(Chunk, left)
<1>1. /\ pc = "io" /\ op = "write" /\ UNCHANGED <<op, round, first>>
      /\ n \in Nat /\ n <= Chunk /\ Room \in Nat /\ Writing
      /\ first \in Nat /\ fpos \in Nat /\ first <= fpos
  BY ChunkLen DEF WriteChunk, Others, argVars, Base, Book, TypeOK, IoTypeOK,
     Room, Writing
<1> HIDE DEF n
<1>2. \E k \in Nat : k <= n /\ Put(ChunkData, k)
  <2>1. CASE WriteOk(ChunkData, n)
    BY <1>1, <2>1 DEF WriteOk
  <2>2. CASE WriteEnospc(ChunkData, n)
    BY <1>1, <2>2 DEF WriteEnospc
  <2>3. CASE WriteFails(ChunkData, n)
    BY <1>1, <2>3 DEF WriteFails
  <2> QED
    BY <2>1, <2>2, <2>3 DEF WriteChunk, n
<1>3. PICK k \in Nat : k <= n /\ Put(ChunkData, k)
  BY <1>2
<1> DEFINE S == fpos .. fpos + k - 1
<1>4. \A q \in S : ChunkData[q - fpos] = Pat(round, q)
  BY <1>1, <1>3, PutData
<1>5. fpos' = fpos + k /\ Written' = Written \cup S
  BY <1>1, <1>3 DEF Put, Written
<1> HIDE DEF S
<1>6. CASE kind = "chr"
  BY <1>3, <1>6 DEF Put, WriteInv, NoCache, CacheNew
<1>7. CASE kind # "chr"
  <2>1. cache' = [p \in DOMAIN cache \cup S |->
                    IF p \in S THEN ChunkData[p - fpos] ELSE cache[p]]
    BY <1>3, <1>7 DEF Put, S
  <2> QED
    BY <1>1, <1>4, <1>5, <2>1 DEF CacheNew, Pat
<1> QED
  BY <1>6, <1>7

LEMMA CacheNewNext ==
  Base /\ WriteInv /\ CacheNew /\ [Next]_vars => CacheNew'
<1> SUFFICES ASSUME Base, WriteInv, CacheNew, [Next]_vars, Writing'
             PROVE  CacheNew'
  BY DEF CacheNew
<1>1. CASE UNCHANGED vars \/ Signal \/ Kill
  BY <1>1, CacheCalm DEF vars, Signal, Kill, ioVars, argVars, runVars, Writing
<1>2. CASE Environment
  <2>1. /\ UNCHANGED <<op, pc, res, round, first, fpos>>
        /\ DOMAIN cache' \subseteq DOMAIN cache
        /\ \A p \in DOMAIN cache' : cache'[p] = cache[p]
    BY <1>2 DEF Environment, Kernel, Writeback, WritebackFails, Evict, Evicted,
       Rot, argVars, runVars
  <2> QED
    BY <2>1, CacheCalm DEF Writing
<1>3. CASE SeekFile
  <2>1. res' \in {"none", "err"}
    BY <1>3 DEF SeekFile, Base, Book
  <2>2. fpos' = first /\ first' = first /\ first \in Nat
    BY <1>3, <2>1 DEF SeekFile, SeekOk, Writing, Base, TypeOK
  <2>3. Written' = {}
    BY <2>2 DEF Written
  <2> QED
    BY <2>3 DEF CacheNew
<1>4. CASE WriteFinalize
  BY <1>4, CacheCalm DEF WriteFinalize, SyncOk, SyncFails, ioVars, Others,
     argVars, runVars, Failed, Writing
<1>5. CASE Finalize \/ DropFile
  <2>1. /\ UNCHANGED <<op, round, first, rots, late>> /\ pc \in {"close", "drop"}
        /\ pc' # "io" /\ (res' = "ok" => res = "ok")
    BY <1>5 DEF Finalize, DropFile, Others, argVars, runVars, Failed
  <2>2. CASE UNCHANGED ioVars
    BY <2>1, <2>2, CacheCalm DEF ioVars, Writing
  <2>3. CASE handle # "none" /\ \E ok \in BOOLEAN : CloseFile(ok)
    <3>1. /\ UNCHANGED fpos /\ DOMAIN cache' \subseteq DOMAIN cache
          /\ \A p \in DOMAIN cache' : cache'[p] = cache[p]
      BY <2>1, <2>3, CloseFileEffect
    <3> QED
      BY <2>1, <3>1, CacheCalm DEF Writing
  <2>4. pc = "close" => handle # "none"
    BY DEF Base, Book, HandleInv, Mode
  <2> QED
    BY <1>5, <2>2, <2>3, <2>4 DEF Finalize, DropFile
<1>6. ~(GetSectorSize \/ Activate \/ Reopen \/ ReadChunk)
  BY DEF GetSectorSize, Activate, Reopen, ReadChunk, Others, argVars, Writing,
     Base, Book
<1>7. ~ \E o \in {"write", "verify"}, r \in Rounds, s \in Seeks, m \in Sizes :
          Call(o, r, s, m)
  BY DEF Call, Writing
<1> QED
  BY <1>1, <1>2, <1>3, <1>4, <1>5, <1>6, <1>7, CacheWriteChunk
     DEF Next, Program, Terminated

-----------------------------------------------------------------------------
(* A disk that keeps what it stores *)

LEMMA Unset ==
  ASSUME Base', stored' = NoRange
  PROVE  StoredGood' /\ BufGood' /\ MismatchBeyond' /\ OneSeen'
<1>0. round' \in Nat
  <2>1. TypeOK'
    BY DEF Base
  <2>2. round' \in Rounds \cup {0}
    BY <2>1 DEF TypeOK
  <2> QED
    BY <2>2, IoAssumption
<1>1. stored'.lo = 0 /\ stored'.hi = 0 /\ stored'.round = -1
  BY DEF NoRange
<1>2. Stored' = {} /\ ~VerifiesStored'
  BY <1>0, <1>1 DEF Stored, VerifiesStored
<1> QED
  BY <1>2 DEF StoredGood, BufGood, MismatchBeyond, OneSeen

LEMMA RestsKeep ==
  ASSUME Base, Base', StoredInv, stored' = stored, Rests
  PROVE  StoredGood' /\ BufGood' /\ MismatchBeyond'
<1>1. Keeps' => Keeps /\ medium' = medium
  BY DEF Keeps, Rests
<1>2. StoredGood'
  BY <1>1 DEF StoredInv, StoredGood, Rests, Stored, Of, Pat, Phys
<1>3. CASE /\ UNCHANGED <<op, round, first, done, buf, fpos>>
           /\ res' = "mismatch" => res = "mismatch"
  BY <1>1, <1>2, <1>3 DEF StoredInv, BufGood, MismatchBeyond, VerifiesStored, Pat
<1>4. CASE buf' = << >> /\ res' # "mismatch"
  BY <1>2, <1>4 DEF BufGood, MismatchBeyond
<1> QED
  BY <1>2, <1>3, <1>4 DEF Rests

\* On a disk that keeps what it stores, a cell is its own block.
LEMMA PhysSame == ASSUME Keeps, NEW p \in Cells PROVE Phys(p) = p
<1>1. Real \in Int /\ Real > 0 /\ p \in 0 .. Real - 1
  BY DEF Keeps, Cells
<1>2. (0 * Real + p) % Real = p
  BY <1>1, DivModUnique
<1>3. 0 * Real + p = p
  BY <1>1
<1> QED
  BY <1>2, <1>3 DEF Phys

\* What write() reports as written is on the medium.
LEMMA ReportsGood ==
  ASSUME Base, WriteInv, CacheNew, Lossless, Reports
  PROVE  StoredGood' /\ BufGood' /\ MismatchBeyond'
<1>1. /\ pc = "close" /\ handle # "none" /\ UNCHANGED <<rots, late, op, round, first>>
      /\ stored' = [round |-> round, lo |-> first, hi |-> fpos]
      /\ op = "write"
  BY DEF Reports, Finalize, Others, argVars, runVars, Base, Book, HandleInv, Mode
<1>2. res = "ok" /\ \E ok \in BOOLEAN : CloseFile(ok)
  BY DEF Reports, Finalize, Failed
<1>3. /\ UNCHANGED <<medium, fpos>>
      /\ DOMAIN cache' \subseteq DOMAIN cache
      /\ \A p \in DOMAIN cache' : cache'[p] = cache[p]
  BY <1>1, <1>2, CloseFileEffect
<1>4. Writing /\ dirty = {} /\ ~wbErr
  BY <1>1, <1>2 DEF Writing, WriteInv, Synced
<1>5. BufGood' /\ MismatchBeyond'
  BY <1>1 DEF BufGood, MismatchBeyond, VerifiesStored
<1>6. ASSUME Keeps, NEW p \in Written
      PROVE  /\ medium[Phys(p)] = Pat(round, p)
             /\ p \in DOMAIN cache => cache[p] = Pat(round, p)
  <2>1. p \in Cells /\ Safe(p) /\ late = {}
    BY <1>4, <1>6 DEF WriteInv, InCells, NothingLost, Lossless, Keeps
  <2>2. \A q \in Cells : Phys(q) = Phys(p) => q = p
    BY <1>6, <2>1, PhysSame
  <2>3. medium[Phys(p)] = Pat(round, p)
    BY <2>1, <2>2 DEF Safe, Overwritten
  <2> QED
    BY <1>4, <2>3 DEF CacheNew
<1>7. Stored' = Written
  BY <1>1 DEF Stored, Written
<1>8. \A p : Of(p)' = Pat(round, p) /\ Phys(p)' = Phys(p)
  BY <1>1 DEF Of, Pat, Phys
<1>9. Keeps' => Keeps
  BY <1>1 DEF Keeps
<1>10. StoredGood'
  BY <1>3, <1>6, <1>7, <1>8, <1>9 DEF StoredGood
<1> QED
  BY <1>5, <1>10

\* What is in the buffer after a read() was in it before, or has been read from
\* its place.
LEMMA FromContent ==
  ASSUME Base, pc = "io", op = "verify", NEW n \in Readable(Want) \cup {0}, ReadOk(n),
         UNCHANGED <<rots, late>>, NEW i \in 1 .. Len(Filled(n))
  PROVE  \/ i \in 1 .. Len(buf) /\ Filled(n)[i] = buf[i]
         \/ Filled(n)[i] = Content(first + done + i - 1)
<1>1. /\ fpos = first + done + Len(buf) /\ first \in Nat /\ done \in Nat
      /\ Len(buf) \in Nat
  BY DEF Base, TypeOK, Book
<1>2. /\ n \in Nat /\ Len(Filled(n)) = Len(buf) + n
      /\ \A j \in 1 .. n : Filled(n)[Len(buf) + j] = Content(fpos + j - 1)
      /\ \A j \in 1 .. Len(buf) : Filled(n)[j] = buf[j]
  BY FilledFacts
<1>3. CASE i <= Len(buf)
  <2>1. i \in 1 .. Len(buf)
    BY <1>1, <1>3
  <2> QED
    BY <1>2, <2>1
<1>4. CASE i > Len(buf)
  <2>1. PICK j \in 1 .. n : i = Len(buf) + j
    <3>1. i - Len(buf) \in 1 .. n /\ i = Len(buf) + (i - Len(buf))
      BY <1>1, <1>2, <1>4
    <3> QED
      BY <3>1
  <2>2. fpos + j - 1 = first + done + i - 1
    BY <1>1, <2>1
  <2> QED
    BY <1>2, <2>1, <2>2
<1> QED
  BY <1>1, <1>3, <1>4

\* What verify() takes for a mismatch lies beyond the range.
LEMMA ReadKeeps ==
  ASSUME Base, StoredInv, ReadChunk
  PROVE  StoredGood' /\ BufGood' /\ MismatchBeyond'
<1>0. /\ pc = "io" /\ res = "none" /\ fpos = first + done + Len(buf)
      /\ done = chunks * Chunk /\ round \in Rounds
      /\ first \in Nat /\ done \in Nat /\ Len(buf) \in Nat
      /\ stored.lo \in Nat /\ stored.hi \in Nat
  BY DEF ReadChunk, Base, Book, TypeOK, StoredInv, StoredBook
<1>t. first \in Nat /\ done \in Nat /\ stored.lo \in Nat /\ stored.hi \in Nat
  BY <1>0
<1>1. /\ op = "verify" /\ UNCHANGED <<op, round, first, stored, rots, late>>
      /\ UNCHANGED <<medium, dirty>>
      /\ \A p \in DOMAIN cache' : cache'[p] = Content(p)
  BY ReadAdds
<1>2. Keeps => \A p \in Stored : Content(p) = Of(p)
  BY DEF StoredInv, StoredGood, Content
<1>3. StoredGood'
  BY <1>1, <1>2 DEF StoredInv, StoredGood, Keeps, Stored, Of, Pat, Phys
<1>4. CASE ReadFails /\ UNCHANGED <<done, buf>> /\ res' = "err"
  <2>1. BufGood' /\ MismatchBeyond'
    BY <1>1, <1>4 DEF StoredInv, BufGood, MismatchBeyond, Keeps, VerifiesStored,
       Pat
  <2> QED
    BY <1>3, <2>1
<1>5. ASSUME NEW n \in Readable(Want), ReadSome(n, Filled(n))
      PROVE  BufGood' /\ MismatchBeyond'
  <2> DEFINE b == Filled(n)
  <2>1. ReadOk(n) /\ fpos' = fpos + n
    BY <1>5 DEF ReadSome, ReadOk
  <2>2. n \in Nat /\ Len(b) = Len(buf) + n /\ Len(b) <= Chunk /\ Len(b) \in Nat
    <3>1. n \in Readable(Want) \cup {0}
      OBVIOUS
    <3>2. /\ n \in Nat /\ Len(b) = Len(buf) + n /\ Len(buf) + n <= readLen
          /\ readLen <= Chunk /\ readLen \in Nat
      BY <1>0, <1>1, <2>1, <3>1, FilledFacts
    <3> QED
      BY <1>0, <3>2
  <2>c. \A i \in 1 .. Len(b) : \/ i \in 1 .. Len(buf) /\ b[i] = buf[i]
                               \/ b[i] = Content(first + done + i - 1)
    BY <1>0, <1>1, <2>1, FromContent
  <2> HIDE DEF b
  <2>3. ASSUME Keeps, VerifiesStored, NEW i \in 1 .. Len(b),
               first + done + i - 1 < stored.hi
        PROVE  b[i] = Pat(round, first + done + i - 1)
    <3>1. CASE i \in 1 .. Len(buf) /\ b[i] = buf[i]
      BY <2>3, <3>1 DEF StoredInv, BufGood
    <3>2. CASE b[i] = Content(first + done + i - 1)
      <4>1. PICK p \in Nat : p = first + done + i - 1
        <5>1. i \in Nat /\ i >= 1
          BY <2>2
        <5>2. first + done + i - 1 \in Nat
          BY <1>t, <5>1
        <5> QED
          BY <5>2
      <4>2. p \in Stored
        BY <1>t, <2>2, <2>3, <4>1 DEF Stored, VerifiesStored
      <4> QED
        BY <1>2, <2>3, <3>2, <4>1, <4>2 DEF Of, VerifiesStored
    <3> QED
      BY <2>c, <3>1, <3>2
  <2>4. CASE buf' = b /\ done' = done /\ Mismatch(b)
    <3>1. BufGood'
      BY <1>1, <2>3, <2>4 DEF BufGood, Keeps, VerifiesStored, Pat
    <3>2. PICK i \in 1 .. Len(b) : b[i] # ChunkData[i - 1]
      BY <2>4 DEF Mismatch
    <3>3. b[i] # Pat(round, first + done + i - 1)
      <4>1. i - 1 \in 0 .. Chunk - 1
        BY <2>2
      <4>2. ChunkData[i - 1] = Pat(round, first + done + (i - 1))
        BY <1>0, <4>1, ChunkDataPat DEF Base
      <4>3. first + done + (i - 1) = first + done + i - 1
        BY <1>0
      <4> QED
        BY <3>2, <4>2, <4>3
    <3>4. PICK p \in Nat : p = first + done + i - 1
      <4>1. i \in Nat /\ i >= 1
        BY <2>2
      <4>2. first + done + i - 1 \in Nat
        BY <1>t, <4>1
      <4> QED
        BY <4>2
    <3>5. Keeps /\ VerifiesStored => p >= stored.hi
      BY <1>t, <2>3, <3>3, <3>4
    <3>6. fpos' > p /\ fpos' \in Nat
      <4>1. i <= Len(b) /\ Len(b) \in Nat /\ i \in Nat
        BY <2>2
      <4>2. fpos' = first + done + Len(b)
        BY <1>0, <2>1, <2>2
      <4> QED
        BY <1>t, <3>4, <4>1, <4>2
    <3>7. MismatchBeyond'
      BY <1>t, <1>1, <3>4, <3>5, <3>6 DEF MismatchBeyond, Keeps, VerifiesStored
    <3> QED
      BY <3>1, <3>7
  <2>5. CASE buf' = b /\ done' = done /\ res' \in {"none", "ok", "aborted"}
    BY <1>1, <2>3, <2>5 DEF BufGood, MismatchBeyond, Keeps, VerifiesStored, Pat
  <2>6. CASE buf' = << >> /\ res' \in {"none", "ok", "aborted"}
    BY <2>6 DEF BufGood, MismatchBeyond
  <2> QED
    BY <1>0, <1>5, <2>4, <2>5, <2>6 DEF ReadSome, Continue, b
<1> QED
  BY <1>3, <1>4, <1>5 DEF ReadChunk, Filled

LEMMA StoredNext == Base /\ Base' /\ WriteInv /\ StoredInv /\ [Next]_vars => StoredInv'
<1> SUFFICES ASSUME Base, Base', WriteInv, StoredInv, [Next]_vars PROVE StoredInv'
  OBVIOUS
<1>1. StoredBook' /\ CacheNew' /\ Lossless'
  BY StoredBookNext, CacheNewNext, LosslessNext DEF StoredInv
<1>2. CASE stored' = NoRange
  BY <1>1, <1>2, Unset DEF StoredInv
<1>3. CASE Reports
  BY <1>1, <1>3, ReportsGood DEF StoredInv
<1>4. CASE stored # NoRange /\ stored' = stored /\ Later
  <2>1. CASE ReadChunk
    BY <1>1, <2>1, ReadKeeps DEF StoredInv
  <2>2. CASE ~ReadChunk
    <3>1. Rests
      BY <1>4, <2>2, LaterRests DEF StoredInv, StoredBook
    <3> QED
      BY <1>1, <1>4, <3>1, RestsKeep DEF StoredInv
  <2> QED
    BY <2>1, <2>2
<1> QED
  BY <1>2, <1>3, <1>4, StepKinds DEF StoredInv

LEMMA StoredInit == Init => StoredInv
<1> SUFFICES ASSUME Init PROVE StoredInv
  OBVIOUS
<1>1. /\ DOMAIN cache = {} /\ late = {} /\ pc = "idle" /\ res = "none"
      /\ stored = NoRange /\ buf = << >>
      /\ stored.lo = 0 /\ stored.hi = 0
  BY DEF Init, IoInit, NoRange
<1>2. StoredBook /\ CacheNew /\ Lossless
  BY <1>1 DEF StoredBook, CacheNew, Lossless, Writing
<1>3. StoredGood /\ BufGood /\ MismatchBeyond
  BY <1>1 DEF StoredGood, BufGood, MismatchBeyond, Stored
<1> QED
  BY <1>2, <1>3 DEF StoredInv

\* verify() never reports a mismatch in what write() has reported as written, on
\* a disk that keeps what it stores: however often calls fail, are aborted or
\* killed, and whatever the kernel caches, writes back and evicts.
THEOREM NoFalseMismatchHolds == Spec => []NoFalseMismatch
<1>1. Init => Base /\ WriteInv /\ StoredInv
  BY BaseInit, WriteInit, StoredInit
<1>2. Base /\ Base' /\ WriteInv /\ StoredInv /\ [Next]_vars
        => WriteInv' /\ StoredInv'
  BY WriteNext, StoredNext
<1>3. Base /\ StoredInv => NoFalseMismatch
  <2>1. Base /\ StoredInv => fpos \in Int /\ stored.hi \in Int
    BY DEF Base, TypeOK, IoTypeOK, StoredInv, StoredBook
  <2> QED
    BY <2>1 DEF StoredInv, MismatchBeyond, NoFalseMismatch, Keeps
<1> QED
  BY <1>1, <1>2, <1>3, BaseNext, PTL DEF Spec

-----------------------------------------------------------------------------
(* A disk that is smaller than it claims to be *)

\* Nothing comes back in a step that rests.
LEMMA RestsSeen ==
  ASSUME Base, Base', StoredBook, stored' = stored, Rests, NEW p \in Stored, Seen(p)'
  PROVE  Seen(p)
<1>1. p \in Nat /\ Phys(p) \in Blocks /\ Of(p)' = Of(p) /\ Phys(p)' = Phys(p)
  BY PhysInBlocks DEF Stored, StoredBook, Of, Pat, Phys
<1>2. Of(p) # Junk
  BY <1>1 DEF Of, Pat, Junk
<1>3. CASE (p \in DOMAIN cache /\ cache[p] = Of(p))'
  BY <1>1, <1>3 DEF Rests, Seen
<1>4. CASE (medium[Phys(p)] = Of(p))'
  BY <1>1, <1>2, <1>4 DEF Rests, Seen
<1>5. CASE Passed(p)'
  <2>1. CASE UNCHANGED <<op, round, first, done, buf, fpos>>
    BY <1>5, <2>1 DEF Passed, VerifiesStored, Seen, Pat
  <2>2. CASE done' = 0 /\ buf' = << >>
    <3>1. TypeOK'
      BY DEF Base
    <3>2. first' \in Nat
      BY <3>1 DEF TypeOK
    <3>3. first' .. first' + done' - 1 = {}
      <4>1. \A f \in Nat : f .. f + 0 - 1 = {}
        OBVIOUS
      <4> QED
        BY <2>2, <3>2, <4>1
    <3>4. 1 .. Len(buf') = {}
      BY <2>2
    <3> QED
      BY <1>5, <3>3, <3>4 DEF Passed
  <2> QED
    BY <2>1, <2>2 DEF Rests
<1> QED
  BY <1>3, <1>4, <1>5 DEF Seen

\* What read() gets was in the cache or on the medium.
LEMMA ReadSomeSeen ==
  ASSUME Base, StoredBook, pc = "io", op = "verify",
         NEW n \in Readable(Want) \cup {0}, ReadSome(n, Filled(n)),
         UNCHANGED <<op, round, first, stored, rots, late>>,
         NEW p \in Stored, Seen(p)'
  PROVE  Seen(p)
<1> DEFINE b == Filled(n)
<1>0. /\ done = chunks * Chunk /\ round \in Rounds
      /\ first \in Nat /\ done \in Nat /\ Len(buf) \in Nat /\ p \in Nat
  BY DEF Base, Book, TypeOK, Stored, StoredBook
<1>1. /\ ReadOk(n) /\ UNCHANGED medium
      /\ \A q \in DOMAIN cache' : cache'[q] = Content(q)
  <2>1. ReadOk(n)
    BY DEF ReadSome
  <2> QED
    BY <2>1 DEF ReadOk, Content
<1>2. Of(p)' = Of(p) /\ Phys(p)' = Phys(p) /\ VerifiesStored' = VerifiesStored
  BY DEF Of, Pat, Phys, VerifiesStored
<1>3. Content(p) = Of(p) => Seen(p)
  BY DEF Content, Seen
<1>4. CASE (p \in DOMAIN cache /\ cache[p] = Of(p))'
  BY <1>1, <1>2, <1>3, <1>4
<1>5. CASE (medium[Phys(p)] = Of(p))'
  BY <1>1, <1>2, <1>5 DEF Seen
<1>6. ASSUME Passed(p)' PROVE Seen(p)
  <2>1. VerifiesStored
    BY <1>2, <1>6 DEF Passed
  <2>2. Len(b) <= Chunk /\ Len(b) \in Nat
    BY <1>0, <1>1, FilledFacts
  <2>3. \A i \in 1 .. Len(b) : \/ i \in 1 .. Len(buf) /\ b[i] = buf[i]
                               \/ b[i] = Content(first + done + i - 1)
    BY <1>1, FromContent
  <2> HIDE DEF b
  <2>4. ASSUME NEW i \in 1 .. Len(b), p = first + done + i - 1, b[i] = Pat(round, p)
        PROVE  Seen(p)
    <3>1. CASE i \in 1 .. Len(buf) /\ b[i] = buf[i]
      BY <2>1, <2>4, <3>1 DEF Passed, Seen
    <3>2. CASE b[i] = Content(p)
      <4>1. Content(p) = Of(p)
        BY <2>1, <2>4, <3>2 DEF Of, VerifiesStored
      <4> QED
        BY <1>3, <4>1
    <3> QED
      BY <2>3, <2>4, <3>1, <3>2
  <2>5. p \in first .. first + done - 1 => Seen(p)
    BY <2>1 DEF Passed, Seen
  <2>6. CASE buf' = b /\ done' = done
    BY <1>6, <2>4, <2>5, <2>6 DEF Passed, Pat
  <2>7. CASE buf' = << >> /\ done' = done + Len(b) /\ ~Mismatch(b)
    <3>1. p \in first .. first + done' - 1
      BY <1>6, <2>7 DEF Passed
    <3>2. CASE p >= first + done
      <4>1. PICK i \in Nat : p = first + done + i - 1 /\ i >= 1
        <5>1. p - first - done + 1 \in Nat /\ p - first - done + 1 >= 1
          BY <1>0, <3>2
        <5>2. p = first + done + (p - first - done + 1) - 1
          BY <1>0
        <5> QED
          BY <5>1, <5>2
      <4>2. i \in 1 .. Len(b) /\ i - 1 \in 0 .. Chunk - 1
        <5>1. first \in Nat /\ done \in Nat /\ Len(b) \in Nat /\ Len(b) <= Chunk
              /\ done' = done + Len(b)
          BY <1>0, <2>2, <2>7
        <5> QED
          BY <3>1, <4>1, <5>1
      <4>3. ChunkData[i - 1] = Pat(round, first + done + (i - 1))
        BY <1>0, <4>2, ChunkDataPat DEF Base
      <4>4. first + done + (i - 1) = p
        BY <1>0, <4>1
      <4>5. b[i] = ChunkData[i - 1]
        BY <2>7, <4>2 DEF Mismatch
      <4>6. b[i] = Pat(round, p)
        BY <4>3, <4>4, <4>5
      <4> QED
        BY <2>4, <4>1, <4>2, <4>6
    <3>3. CASE p < first + done
      BY <1>0, <2>5, <3>1, <3>3
    <3> QED
      BY <1>0, <3>2, <3>3
  <2> QED
    BY <2>6, <2>7 DEF ReadSome, b
<1> QED
  BY <1>4, <1>5, <1>6 DEF Seen

LEMMA ReadSeen ==
  ASSUME Base, StoredBook, ReadChunk, NEW p \in Stored, Seen(p)'
  PROVE  Seen(p)
<1>1. pc = "io" /\ op = "verify"
      /\ UNCHANGED <<op, round, first, stored, rots, late>>
  BY DEF ReadChunk, Others, argVars
<1>2. CASE \E n \in Readable(Want) : ReadSome(n, Filled(n))
  BY <1>1, <1>2, ReadSomeSeen
<1>3. CASE ReadFails /\ UNCHANGED <<done, buf>>
  BY <1>1, <1>3 DEF ReadFails, Seen, Passed, Of, Pat, Phys, VerifiesStored
<1> QED
  BY <1>2, <1>3 DEF ReadChunk, Filled

\* When write() reports a range, nothing of it is cached, and a block of the
\* medium holds one cell.
LEMMA ReportsOne ==
  ASSUME Base, Base', ColdInv', Reports
  PROVE  OneSeen'
<1>1. /\ op' = "write" /\ res' = "ok" /\ pc' = "drop"
      /\ first' = first /\ round' = round
      /\ stored' = [round |-> round, lo |-> first, hi |-> fpos]
      /\ pc = "close" /\ handle # "none" /\ UNCHANGED <<rots, late>>
  BY DEF Reports, Finalize, Others, argVars, runVars, Base, Book, HandleInv, Mode
<1>2. fpos' = fpos
  <2>1. \E ok \in BOOLEAN : CloseFile(ok)
    BY DEF Reports, Finalize
  <2> QED
    BY <1>1, <2>1, CloseFileEffect
<1>3. Stored' = Written'
  BY <1>1, <1>2 DEF Stored, Written
<1>4. DOMAIN cache' \cap Written' = {}
  BY <1>1 DEF ColdInv, Dropped
<1>5. ~VerifiesStored'
  BY <1>1 DEF VerifiesStored
<1>6. \A p \in Stored' : Seen(p)' => medium'[Phys(p)'] = Of(p)'
  BY <1>3, <1>4, <1>5 DEF Seen, Passed
<1>7. \A p, q : Of(p)' = Of(q)' => p = q
  BY DEF Of, Pat
<1> QED
  BY <1>6, <1>7 DEF OneSeen

LEMMA OneSeenNext ==
  ASSUME Base, Base', WriteInv, ColdInv', StoredBook, OneSeen, [Next]_vars
  PROVE  OneSeen'
<1>1. CASE stored' = NoRange
  BY <1>1, Unset
<1>2. CASE Reports
  BY <1>2, ReportsOne
<1>3. CASE stored # NoRange /\ stored' = stored /\ Later
  <2>1. \A p \in Stored : Seen(p)' => Seen(p)
    BY <1>3, LaterRests, RestsSeen, ReadSeen DEF StoredBook
  <2>2. Stored' = Stored /\ \A p : Phys(p)' = Phys(p)
    BY <1>3 DEF Stored, Phys
  <2> QED
    BY <2>1, <2>2 DEF OneSeen
<1> QED
  BY <1>1, <1>2, <1>3, StepKinds

\* A round of the blocks later is the same block.
LEMMA PhysRound == ASSUME NEW p \in Nat PROVE Phys(p + Real) = Phys(p)
<1>1. Real \in Int /\ Real > 0
  OBVIOUS
<1>2. PICK q \in Nat, r \in 0 .. Real - 1 : p = q * Real + r
  BY <1>1, DivMod
<1>3. p + Real = (q + 1) * Real + r /\ q + 1 \in Nat
  BY <1>1, <1>2
<1>4. (q * Real + r) % Real = r /\ ((q + 1) * Real + r) % Real = r
  BY <1>1, <1>3, DivModUnique
<1> QED
  BY <1>2, <1>3, <1>4 DEF Phys

LEMMA OneSeenDetects == Base /\ StoredBook /\ OneSeen => FakeDetected
<1> SUFFICES ASSUME Base, StoredBook, OneSeen, VerifiedOk, VerifiesStored,
                    first + done <= stored.hi, done > Real
             PROVE  FALSE
  BY DEF FakeDetected, Base, TypeOK
<1>1. /\ first \in Nat /\ done \in Nat /\ Real \in Nat /\ Real > 0
      /\ stored.lo \in Nat /\ stored.hi \in Nat
  BY DEF Base, TypeOK, StoredBook
<1>2. /\ first \in Stored /\ first + Real \in Stored
      /\ first \in first .. first + done - 1
      /\ first + Real \in first .. first + done - 1
      /\ first # first + Real
  BY <1>1 DEF Stored, VerifiesStored
<1>3. Seen(first) /\ Seen(first + Real)
  BY <1>2 DEF Seen, Passed
<1> QED
  BY <1>1, <1>2, <1>3, PhysRound DEF OneSeen

LEMMA OneSeenInit == Init => OneSeen
<1> SUFFICES ASSUME Init PROVE OneSeen
  OBVIOUS
<1>1. Stored = {}
  BY DEF Init, NoRange, Stored
<1> QED
  BY <1>1 DEF OneSeen

\* A disk that pretends to be larger than it is never passes a verify() of what
\* write() has reported as written, whatever fails and whatever it loses.
THEOREM FakeDetectedHolds ==
  ASSUME Aligned
  PROVE  Spec => []FakeDetected
<1> DEFINE IInv == /\ Complete /\ WriteInv /\ ColdInv
                   /\ StoredInv /\ OneSeen
<1>1. Init => Base /\ IInv
  BY BaseInit, WriteInit, ColdInit, StoredInit, OneSeenInit DEF Init, Complete
<1>2. Base /\ Base' /\ IInv /\ [Next]_vars => IInv'
  BY CompleteNext, WriteNext, ColdNext, StoredNext, OneSeenNext DEF StoredInv
<1>3. Base /\ IInv => FakeDetected
  BY OneSeenDetects DEF StoredInv
<1> QED
  BY <1>1, <1>2, <1>3, BaseNext, PTL DEF Spec

=============================================================================
