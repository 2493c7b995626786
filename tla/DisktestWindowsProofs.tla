----------------------- MODULE DisktestWindowsProofs -----------------------
(***************************************************************************)
(* Proofs about DisktestWindows, for every disk, geometry, chunk size,     *)
(* request and number of failures and losses.                              *)
(*                                                                         *)
(* A short write is taken for a whole one, so the counters of write() and  *)
(* the file position part at the end of the disk: in the loop of write()   *)
(* Book is replaced by WriteBook.  Everywhere else Base holds as it does   *)
(* on Linux, and the lemmas about it are used again.                       *)
(***************************************************************************)
EXTENDS DisktestWindows, DisktestProofs

USE IoAssumption, DisktestAssumption, WindowsAssumption

InWriteLoop == pc = "io" /\ op = "write"

\* Once the position is not where the counters say, it is at the end.
WriteBook ==
  /\ handle = "write" /\ round \in Rounds /\ res = "none" /\ buf = << >>
  /\ done + left = max /\ done = chunks * Chunk
  /\ fpos = first + done \/ Ends(0)

\* The disk does not end before its whole cylinders do.
Whole == Raw => len >= DiskSize

WinBase ==
  /\ TypeOK
  /\ IF InWriteLoop THEN WriteBook ELSE Book
  /\ Whole

LEMMA WinIsBase == WinBase /\ ~InWriteLoop => Base
BY DEF WinBase, Base

\* Where Base still holds after a step.
LEMMA BaseIsWin == ASSUME Base', Whole' PROVE WinBase'
<1>1. TypeOK' /\ Book'
  BY DEF Base
<1>2. ASSUME InWriteLoop' PROVE WriteBook'
  <2>1. /\ handle' = "write" /\ round' \in Rounds /\ res' = "none"
        /\ buf' = << >> /\ done' + left' = max' /\ done' = chunks' * Chunk
        /\ fpos' = first' + done' + Len(buf')
    BY <1>1, <1>2 DEF InWriteLoop, Book, HandleInv, Mode
  <2>2. first' \in Nat /\ done' \in Nat
    BY <1>1 DEF TypeOK
  <2>3. fpos' = first' + done'
    BY <2>1, <2>2
  <2> QED
    BY <2>1, <2>3 DEF WriteBook
<1> QED
  BY <1>1, <1>2 DEF WinBase

LEMMA WinBaseInit == Init => WinBase
<1> SUFFICES ASSUME Init PROVE WinBase
  OBVIOUS
<1>1. Base
  BY BaseInit
<1>2. Whole /\ ~InWriteLoop
  BY DEF Init, IoInit, Whole, Raw, InWriteLoop
<1> QED
  BY <1>1, <1>2 DEF WinBase, Base

-----------------------------------------------------------------------------
(* Steps in the loop of write() *)

\* The steps of others.
LEMMA LoopRests ==
  ASSUME WinBase, InWriteLoop,
         UNCHANGED vars \/ Signal \/ Kill \/ Environment
  PROVE  WinBase'
<1>0. TypeOK /\ WriteBook /\ Whole
  BY DEF WinBase
<1>1. CASE UNCHANGED vars \/ Signal
  <2>1. UNCHANGED <<ioVars, rots, late, pc, argVars, runVars, res, fileVars,
                    calls, stored>>
        /\ abort' \in BOOLEAN
    BY <1>0, <1>1 DEF vars, Signal, TypeOK
  <2>2. TypeOK'
    BY <1>0, <2>1 DEF TypeOK, IoTypeOK, ioVars, argVars, runVars, fileVars
  <2>3. InWriteLoop' /\ WriteBook' /\ Whole'
    BY <1>0, <2>1 DEF InWriteLoop, WriteBook, Whole, Raw, Ends, ioVars, argVars,
       runVars
  <2> QED
    BY <2>2, <2>3 DEF WinBase
<1>2. CASE Kill
  <2>1. TypeOK' /\ Whole'
    BY <1>0, <1>2 DEF TypeOK, IoTypeOK, Kill, runVars, argVars, fileVars, Whole, Raw
  <2>2. ~InWriteLoop' /\ Book'
    BY <1>0, <1>2 DEF InWriteLoop, WriteBook, Book, HandleInv, Kill, runVars,
       argVars, fileVars
  <2> QED
    BY <2>1, <2>2 DEF WinBase
<1>3. CASE Environment
  <2>1. IoTypeOK'
    BY <1>0, <1>3, KernelTyped DEF TypeOK, Environment
  <2>2. UNCHANGED <<kind, len, handle, fpos>>
    BY <1>3 DEF Environment, Kernel, Writeback, WritebackFails, Evict, Rot
  <2>3. TypeOK'
    BY <1>0, <1>3, <2>1 DEF TypeOK, Environment, runVars, argVars, fileVars
  <2>4. InWriteLoop' /\ WriteBook' /\ Whole'
    BY <1>0, <1>3, <2>2 DEF InWriteLoop, WriteBook, Whole, Raw, Ends,
       Environment, runVars, argVars
  <2> QED
    BY <2>3, <2>4 DEF WinBase
<1> QED
  BY <1>1, <1>2, <1>3

\* What a WriteFile() leaves behind that wrote k cells, and when it fails with
\* the answer of the end of the disk.
LEMMA WinPuts ==
  ASSUME WinBase, WinWriteChunk
  PROVE  \E k \in 0 .. Min2(Chunk, left) :
           /\ k <= Room /\ Put(ChunkData, k) /\ errs' \in 0 .. MaxErrs
           /\ \/ /\ \/ k = Min2(Chunk, left)
                    \/ k > 0 /\ Ends(k)
                 /\ CountDrop(Min2(Chunk, left))
                 /\ done' = done + Min2(Chunk, left)
                 /\ left' = left - Min2(Chunk, left)
                 /\ \/ left = Min2(Chunk, left) /\ pc' = "sync" /\ res' = "ok"
                    \/ left # Min2(Chunk, left) /\ pc' = "sync" /\ res' = "aborted"
                    \/ left # Min2(Chunk, left) /\ UNCHANGED <<pc, res>>
              \/ /\ \/ k = 0 /\ Ends(0)
                    \/ ~Raw /\ Min2(Chunk, left) > Room
                 /\ CountDrop(Min2(Chunk, left))
                 /\ pc' = "sync" /\ res' \in {"ok", "enospc"}
                 /\ UNCHANGED <<done, left>>
              \/ /\ pc' = "sync" /\ res' = "err"
                 /\ UNCHANGED <<dropCount, done, left>>
<1> DEFINE n == Min2(Chunk, left)
<1>0. n \in Nat /\ Room \in Nat /\ n <= Chunk
  BY DEF WinBase, TypeOK, IoTypeOK, Min2, Room
<1>e. errs \in 0 .. MaxErrs
  BY DEF WinBase, TypeOK, IoTypeOK
<1>s. ASSUME NEW k, WriteStops(ChunkData, n, k)
      PROVE  k <= n /\ k <= Room /\ Put(ChunkData, k) /\ errs' \in 0 .. MaxErrs
  BY <1>e, <1>s DEF WriteStops, Fault
<1> HIDE DEF n
<1>1. CASE /\ WriteOk(ChunkData, n) \/ WinWriteShort(ChunkData, n)
           /\ CountDrop(n)
           /\ done' = done + n /\ left' = left - n
           /\ \/ left = n /\ pc' = "sync" /\ res' = "ok"
              \/ left # n /\ abort /\ pc' = "sync" /\ res' = "aborted"
              \/ left # n /\ ~abort /\ UNCHANGED <<pc, res>>
  <2>1. CASE WriteOk(ChunkData, n)
    <3>1. n \in 0 .. n /\ n <= Room /\ Put(ChunkData, n) /\ errs' \in 0 .. MaxErrs
      BY <1>0, <1>e, <2>1 DEF WriteOk
    <3> QED
      BY <1>1, <3>1 DEF n
  <2>2. CASE WinWriteShort(ChunkData, n)
    <3>1. PICK k \in 1 .. n : Ends(k) /\ WriteStops(ChunkData, n, k)
      BY <2>2 DEF WinWriteShort
    <3>2. k \in 0 .. n /\ k > 0
      BY <1>0
    <3> QED
      BY <1>1, <1>s, <3>1, <3>2 DEF n
  <2> QED
    BY <1>1, <2>1, <2>2
<1>2. CASE /\ WinWriteEnospc(ChunkData, n) /\ CountDrop(n) /\ pc' = "sync"
           /\ res' = (IF max = Unlimited THEN "ok" ELSE "enospc")
           /\ UNCHANGED <<done, left>>
  <2>1. CASE Ends(0) /\ WriteStops(ChunkData, n, 0)
    <3>1. 0 \in 0 .. n
      BY <1>0
    <3> QED
      BY <1>2, <1>s, <2>1, <3>1 DEF n
  <2>2. CASE ~Raw /\ n > Room /\ \E k \in 0 .. Room : WriteStops(ChunkData, n, k)
    <3>1. PICK k \in 0 .. Room : WriteStops(ChunkData, n, k)
      BY <2>2
    <3>2. k \in 0 .. n
      BY <1>0, <2>2
    <3> QED
      BY <1>2, <1>s, <2>2, <3>1, <3>2 DEF n
  <2> QED
    BY <1>2, <2>1, <2>2 DEF WinWriteEnospc
<1>3. CASE WinWriteFails(ChunkData, n) /\ pc' = "sync" /\ res' = "err"
           /\ UNCHANGED <<dropCount, done, left>>
  <2>1. PICK k \in 0 .. n : WriteStops(ChunkData, n, k)
    BY <1>3 DEF WinWriteFails
  <2> QED
    BY <1>3, <1>s, <2>1 DEF n
<1> QED
  BY <1>1, <1>2, <1>3 DEF WinWriteChunk, n

LEMMA WinBaseWriteChunk == WinBase /\ WinWriteChunk => WinBase'
<1> SUFFICES ASSUME WinBase, WinWriteChunk PROVE WinBase'
  OBVIOUS
<1> DEFINE n == Min2(Chunk, left)
<1>0. /\ pc = "io" /\ op = "write" /\ TypeOK /\ WriteBook /\ Whole
      /\ n \in 0 .. Chunk /\ n <= left /\ (left # n => n = Chunk)
  BY DEF WinBase, InWriteLoop, WinWriteChunk, TypeOK, Min2
<1>1. /\ chunks' = chunks + 1 /\ Others
      /\ UNCHANGED <<first, buf, readLen, dropOffset, stored>>
  BY DEF WinWriteChunk
<1>2. (chunks + 1) * Chunk = chunks * Chunk + Chunk
  BY <1>0 DEF TypeOK
<1>3. PICK k \in 0 .. n :
           /\ k <= Room /\ Put(ChunkData, k) /\ errs' \in 0 .. MaxErrs
           /\ \/ /\ \/ k = n
                    \/ k > 0 /\ Ends(k)
                 /\ CountDrop(n)
                 /\ done' = done + n
                 /\ left' = left - n
                 /\ \/ left = n /\ pc' = "sync" /\ res' = "ok"
                    \/ left # n /\ pc' = "sync" /\ res' = "aborted"
                    \/ left # n /\ UNCHANGED <<pc, res>>
              \/ /\ CountDrop(n)
                 /\ pc' = "sync" /\ res' \in {"ok", "enospc"}
                 /\ UNCHANGED <<done, left>>
              \/ /\ pc' = "sync" /\ res' = "err"
                 /\ UNCHANGED <<dropCount, done, left>>
  BY WinPuts
<1> HIDE DEF n
<1>4. k \in Nat /\ k <= Chunk /\ k <= n
  BY <1>0, <1>3
<1>5. \A i \in 0 .. k - 1 : ChunkData[i] \in Contents
  <2>1. \A i \in 0 .. Chunk - 1 : ChunkData[i] \in Contents
    BY <1>0, ChunkDataPat DEF WriteBook
  <2> QED
    BY <1>4, <2>1
<1>6. IoTypeOK'
  BY <1>0, <1>1, <1>3, <1>4, <1>5, PutTyped DEF TypeOK, Others
<1>7. /\ fpos' = fpos + k /\ UNCHANGED <<kind, handle>>
      /\ len' = (IF k > 0 /\ fpos + k > len THEN fpos + k ELSE len)
  BY <1>3 DEF Put
<1>8. Whole'
  BY <1>0, <1>4, <1>7 DEF Whole, Raw, TypeOK, IoTypeOK
<1>9. /\ left' \in 0 .. Unlimited /\ done' \in 0 .. Unlimited
      /\ done' + left' = max /\ dropCount' \in Nat
  <2>1. /\ done \in Nat /\ left \in Nat /\ n \in Nat /\ n <= left
        /\ done + left = max /\ max \in 0 .. Unlimited /\ dropCount \in Nat
    BY <1>0 DEF TypeOK, WriteBook
  <2>2. \/ done' = done + n /\ left' = left - n
        \/ UNCHANGED <<done, left>>
    BY <1>3
  <2>3. dropCount' = dropCount \/ dropCount' = dropCount + n
    BY <1>3 DEF CountDrop
  <2> QED
    BY <2>1, <2>2, <2>3
<1>10. /\ pc' \in {"io", "sync"}
       /\ res' \in {"none", "ok", "err", "enospc", "aborted", "mismatch"}
       /\ pc' = "io" => res' = "none"
  BY <1>0, <1>3 DEF WriteBook
<1>11. TypeOK'
  BY <1>0, <1>1, <1>6, <1>9, <1>10 DEF TypeOK, Others, argVars
<1>12. UNCHANGED <<op, round, max>>
  BY <1>1 DEF Others, argVars
<1>13. CASE pc' = "io"
  <2>1. /\ k = n \/ Ends(k)
        /\ done' = done + n /\ n = Chunk
    BY <1>0, <1>3, <1>13
  <2>2. fpos' = first' + done' \/ Ends(0)'
    <3>1. /\ fpos \in Nat /\ first \in Nat /\ done \in Nat /\ n \in Nat
          /\ DiskSize \in Nat
      BY <1>0 DEF TypeOK, IoTypeOK
    <3>2. CASE k = n /\ fpos = first + done
      BY <1>1, <1>7, <2>1, <3>1, <3>2
    <3>3. CASE Ends(k) \/ Ends(0)
      BY <1>4, <1>7, <3>1, <3>3 DEF Ends, Raw
    <3> QED
      BY <1>0, <2>1, <3>2, <3>3 DEF WriteBook
  <2>3. done' = chunks' * Chunk
    BY <1>0, <1>1, <1>2, <2>1 DEF WriteBook
  <2>4. WriteBook'
    BY <1>0, <1>1, <1>7, <1>9, <1>10, <1>12, <1>13, <2>2, <2>3 DEF WriteBook
  <2> QED
    BY <1>0, <1>8, <1>11, <1>12, <1>13, <2>4 DEF WinBase, InWriteLoop
<1>14. CASE pc' = "sync"
  <2>1. Book'
    BY <1>0, <1>7, <1>9, <1>12, <1>14 DEF WriteBook, Book, HandleInv, Mode
  <2> QED
    BY <1>8, <1>11, <1>14, <2>1 DEF WinBase, InWriteLoop
<1> QED
  BY <1>10, <1>13, <1>14

-----------------------------------------------------------------------------
(* The other steps *)

\* What is the same on Linux.
LEMMA SharedSteps ==
  ASSUME WinBase, ~InWriteLoop,
         \/ UNCHANGED vars \/ Signal \/ Kill \/ Environment
         \/ Activate \/ WriteFinalize
         \/ \E o \in {"write", "verify"}, r \in Rounds, s \in Seeks, m \in Sizes :
              Call(o, r, s, m)
  PROVE  WinBase'
<1>1. Base
  BY WinIsBase
<1>2. [Next]_vars
  BY DEF Next, Program
<1>3. Base'
  BY <1>1, <1>2, BaseNext
<1>4. UNCHANGED <<kind, len>>
  BY DEF vars, Signal, Kill, Environment, Kernel, Writeback, WritebackFails,
     Evict, Rot, Activate, WriteFinalize, SyncOk, SyncFails, Call, ioVars
<1> QED
  BY <1>3, <1>4, BaseIsWin DEF WinBase, Whole, Raw

\* init()
LEMMA WinBaseInitSteps ==
  ASSUME WinBase, WinGetSectorSize \/ WinReopen \/ WinSeekFile
  PROVE  WinBase'
<1>0. Base
  BY WinIsBase DEF InWriteLoop, WinGetSectorSize, WinReopen, WinSeekFile
<1>1. ASSUME NEW mode, WinOpenFails(mode)
      PROVE  /\ wbErr' \in BOOLEAN /\ errs' \in 0 .. MaxErrs
             /\ UNCHANGED <<kind, len, medium, cache, dirty, handle, fpos>>
  <2>1. errs' \in 0 .. MaxErrs
    BY <1>0, <1>1 DEF WinOpenFails, Fault, Base, TypeOK, IoTypeOK
  <2>2. wbErr' = wbErr \/ wbErr' = (wbErr /\ mode # "write")
    BY <1>1 DEF WinOpenFails
  <2>3. wbErr \in BOOLEAN
    BY <1>0 DEF Base, TypeOK, IoTypeOK
  <2>4. wbErr' \in BOOLEAN
    BY <2>2, <2>3, Zenon
  <2> QED
    BY <1>1, <2>1, <2>4 DEF WinOpenFails
<1>2. UNCHANGED <<kind, len>>
  BY <1>1 DEF WinGetSectorSize, WinReopen, WinSeekFile, DoOpen, Open, WinSeekOk,
       WinSeekFails, Fault
<1> SUFFICES Base'
  BY <1>2, BaseIsWin DEF WinBase, Whole, Raw
<1>3. CASE WinGetSectorSize
  <2>1. CASE DoOpen
    <3>1. GetSectorSize
      BY <1>3, <2>1 DEF WinGetSectorSize, GetSectorSize
    <3> QED
      BY <1>0, <3>1, BaseGetSectorSize
  <2>2. CASE WinOpenFails(Mode) /\ UNCHANGED fileVars
    BY <1>0, <1>1, <1>3, <2>2 DEF Base, TypeOK, IoTypeOK, Book, HandleInv,
       WinGetSectorSize, Others, runVars, argVars, fileVars, Mode, Min2
  <2> QED
    BY <1>3, <2>1, <2>2 DEF WinGetSectorSize
<1>4. CASE WinReopen
  <2>1. CASE DoOpen /\ UNCHANGED <<pc, res>>
    <3>1. Reopen
      BY <1>4, <2>1 DEF WinReopen, Reopen
    <3> QED
      BY <1>0, <3>1, BaseReopen
  <2>2. CASE WinOpenFails(Mode) /\ pc' = "drop" /\ res' = "err" /\ UNCHANGED fileVars
    BY <1>0, <1>1, <1>4, <2>2 DEF Base, TypeOK, IoTypeOK, Book, HandleInv,
       WinReopen, Others, runVars, argVars, fileVars, Mode, Min2
  <2> QED
    BY <1>4, <2>1, <2>2 DEF WinReopen
<1>5. CASE WinSeekFile
  BY <1>0, <1>5, SMTT(30) DEF Base, TypeOK, IoTypeOK, Book, HandleInv,
     WinSeekFile, WinSeekOk, WinSeekFails, Fault, Others, argVars, fileVars, Mode, Min2
<1> QED
  BY <1>3, <1>4, <1>5

LEMMA WinBaseReadChunk == WinBase /\ WinReadChunk => WinBase'
<1> SUFFICES ASSUME WinBase, WinReadChunk PROVE WinBase'
  OBVIOUS
<1>1. /\ pc = "io" /\ op = "verify" /\ Others
      /\ UNCHANGED <<first, fileVars, stored>>
  BY DEF WinReadChunk
<1>2. Base
  BY <1>1, WinIsBase DEF InWriteLoop
<1>3. CASE \E n \in WinReadable(Want) : ReadSome(n, Filled(n))
  <2>1. PICK n \in Readable(Want) \cup {0} : ReadSome(n, Filled(n))
    BY <1>3 DEF WinReadable
  <2>2. Base'
    BY <1>1, <1>2, <2>1, BaseReadSome
  <2>3. UNCHANGED <<kind, len>>
    BY <2>1 DEF ReadSome, ReadOk
  <2> QED
    BY <2>2, <2>3, BaseIsWin DEF WinBase, Whole, Raw
<1>4. CASE WinReadFails /\ ReadChunk
  <2>1. UNCHANGED <<kind, len>>
    BY <1>4 DEF WinReadFails, ReadFails
  <2> QED
    BY <1>2, <1>4, <2>1, BaseReadChunk, BaseIsWin DEF WinBase, Whole, Raw
<1> QED
  BY <1>3, <1>4 DEF WinReadChunk, ReadChunk, WinReadFails, Filled

\* close() gives the file back, and nothing is waiting if it succeeds.
LEMMA WinCloseFileEffect ==
  ASSUME TypeOK, NEW ok \in BOOLEAN, WinCloseFile(ok), UNCHANGED <<rots, late>>
  PROVE  /\ IoTypeOK'
         /\ handle' = "none"
         /\ dropOffset' \in Nat /\ dropCount' = 0
         /\ UNCHANGED <<kind, len, medium, dirty, fpos>>
         /\ DOMAIN cache' \subseteq DOMAIN cache
         /\ \A p \in DOMAIN cache' : cache'[p] = cache[p]
         /\ ok => WinFlushed(handle)
         /\ ok /\ dropCount > 0 => DOMAIN cache' \subseteq dirty
<1>1. /\ dropOffset' = dropOffset + dropCount /\ dropCount' = 0
      /\ dropOffset' \in Nat
  BY DEF WinCloseFile, TypeOK
<1>2. \/ ok /\ dropCount > 0 /\ WinDropCachesOk
      \/ ~ok /\ dropCount > 0 /\ WinDropCachesFails
      \/ ok /\ ~(dropCount > 0) /\ WinCloseOk
      \/ ~ok /\ ~(dropCount > 0) /\ WinCloseFails
  BY DEF WinCloseFile
<1>3. Closed
  BY <1>2 DEF WinDropCachesOk, WinDropCachesFails, WinCloseOk, WinCloseFails
<1>4. /\ handle' = "none" /\ wbErr' \in BOOLEAN
      /\ UNCHANGED <<kind, len, medium, dirty, fpos>>
  BY <1>3 DEF Closed, TypeOK, IoTypeOK
<1>5. errs' \in 0 .. MaxErrs
  BY <1>2 DEF WinDropCachesOk, WinDropCachesFails, WinCloseOk, WinCloseFails,
     Fault, TypeOK, IoTypeOK
<1>6. UNCHANGED cache \/ Evicted(DOMAIN cache \ dirty)
  BY <1>2 DEF WinDropCachesOk, WinDropCachesFails, WinCloseOk, WinCloseFails
<1>7. /\ DOMAIN cache' \subseteq DOMAIN cache
      /\ \A p \in DOMAIN cache' : cache'[p] = cache[p]
      /\ dirty \subseteq DOMAIN cache'
      /\ \A p \in DOMAIN cache' : cache'[p] \in Contents
  BY <1>6, EvictTyped DEF TypeOK, IoTypeOK
<1>8. IoTypeOK'
  BY <1>4, <1>5, <1>7 DEF TypeOK, IoTypeOK
<1>9. ok => WinFlushed(handle)
  BY <1>2 DEF WinDropCachesOk, WinCloseOk
<1>10. ok /\ dropCount > 0 => DOMAIN cache' \subseteq dirty
  <2>1. SUFFICES ASSUME WinDropCachesOk PROVE DOMAIN cache' \subseteq dirty
    BY <1>2
  <2>2. DOMAIN cache' = DOMAIN cache \ (DOMAIN cache \ dirty)
    BY <2>1 DEF WinDropCachesOk, Evicted
  <2> QED
    BY <2>2
<1> QED
  BY <1>1, <1>4, <1>7, <1>8, <1>9, <1>10

LEMMA WinBaseEnd == WinBase /\ (WinFinalize \/ WinDropFile) => WinBase'
<1> SUFFICES ASSUME WinBase, WinFinalize \/ WinDropFile PROVE WinBase'
  OBVIOUS
<1>1. /\ pc \in {"close", "drop"} /\ pc' \in {"drop", "idle", "dead"}
      /\ Others /\ UNCHANGED runVars
      /\ res' \in {res, Failed(res)}
  BY DEF WinFinalize, WinDropFile
<1>2. Base
  BY <1>1, WinIsBase DEF InWriteLoop
<1>3. res' \in {"none", "ok", "err", "enospc", "aborted", "mismatch"}
  BY <1>1, <1>2 DEF Base, TypeOK, Failed
<1>4. CASE handle = "none" /\ UNCHANGED <<ioVars, fileVars>>
  <2>1. Base'
    BY <1>1, <1>2, <1>3, <1>4 DEF Base, TypeOK, IoTypeOK, Book, HandleInv,
       Others, runVars, argVars, ioVars, fileVars
  <2> QED
    BY <1>4, <2>1, BaseIsWin DEF WinBase, Whole, Raw, ioVars
<1>5. CASE \E ok \in BOOLEAN : WinCloseFile(ok)
  <2>1. PICK ok \in BOOLEAN : WinCloseFile(ok)
    BY <1>5
  <2>2. /\ IoTypeOK' /\ handle' = "none"
        /\ dropOffset' \in Nat /\ dropCount' = 0
        /\ UNCHANGED <<kind, len>>
    BY <1>1, <1>2, <2>1, WinCloseFileEffect DEF Base, Others
  <2>3. TypeOK'
    BY <1>1, <1>2, <1>3, <2>2 DEF Base, TypeOK, Others, runVars, argVars
  <2>4. Book'
    BY <1>1, <1>2, <2>2 DEF Base, Book, HandleInv, Others, runVars, argVars
  <2> QED
    BY <2>2, <2>3, <2>4, BaseIsWin DEF Base, WinBase, Whole, Raw
<1> QED
  BY <1>4, <1>5 DEF WinFinalize, WinDropFile

\* Every step keeps WinBase.
LEMMA WinBaseNext == WinBase /\ [WinNext]_vars => WinBase'
<1> SUFFICES ASSUME WinBase, [WinNext]_vars PROVE WinBase'
  OBVIOUS
<1>1. CASE UNCHANGED vars \/ Signal \/ Kill \/ Environment
  BY <1>1, LoopRests, SharedSteps
<1>2. CASE Activate \/ WriteFinalize
  BY <1>2, SharedSteps DEF InWriteLoop, Activate, WriteFinalize
<1>3. CASE \E o \in {"write", "verify"}, r \in Rounds, s \in Seeks, m \in Sizes :
             Call(o, r, s, m)
  BY <1>3, SharedSteps DEF InWriteLoop, Call
<1>4. CASE \/ WinGetSectorSize \/ WinReopen \/ WinSeekFile
           \/ WinWriteChunk \/ WinReadChunk \/ WinFinalize \/ WinDropFile
  BY <1>4, WinBaseInitSteps, WinBaseWriteChunk, WinBaseReadChunk, WinBaseEnd
<1> QED
  BY <1>1, <1>2, <1>3, <1>4 DEF WinNext, WinProgram, Terminated

\* The variables keep their types on Windows, too.
THEOREM WinTyping == WinSpec => []TypeOK
<1>1. WinBase => TypeOK
  BY DEF WinBase
<1> QED
  BY <1>1, WinBaseInit, WinBaseNext, PTL DEF WinSpec

-----------------------------------------------------------------------------
(* Ok means the end of the request, or of the disk *)

End == IF Raw THEN DiskSize ELSE Capacity - Chunk + 1

Fills ==
  /\ op = "write" /\ res = "ok" => fpos - first = max \/ fpos >= End
  /\ op = "verify" /\ res = "ok" =>
       done = max \/ first + done >= (IF Raw THEN DiskSize ELSE len)

LEMMA FillsWrite == WinBase /\ WinWriteChunk => Fills'
<1> SUFFICES ASSUME WinBase, WinWriteChunk, res' = "ok"
             PROVE  fpos' - first' = max' \/ fpos' >= End'
  BY DEF Fills, WinWriteChunk, Others, argVars
<1> DEFINE n == Min2(Chunk, left)
<1>0. /\ fpos = first + done \/ Ends(0)
      /\ done + left = max /\ res = "none"
      /\ first \in Nat /\ done \in Nat /\ left \in Nat /\ max \in Nat
      /\ fpos \in Nat /\ n \in Nat /\ n <= Chunk
  BY DEF WinWriteChunk, WinBase, WriteBook, InWriteLoop, TypeOK, IoTypeOK, Min2
<1>1. UNCHANGED <<max, first>>
  BY DEF WinWriteChunk, Others, argVars
<1>2. PICK k \in 0 .. n :
        /\ Put(ChunkData, k)
        /\ \/ (k = n \/ Ends(k)) /\ left = n
           \/ k = 0 /\ Ends(0)
           \/ ~Raw /\ n > Room
  BY <1>0, WinPuts
<1> HIDE DEF n
<1>3. fpos' = fpos + k /\ kind' = kind /\ k \in Nat
  BY <1>0, <1>2 DEF Put
<1>4. End' = End
  BY <1>3 DEF End, Raw
<1>5. CASE k = n /\ left = n /\ fpos = first + done
  BY <1>0, <1>1, <1>3, <1>5
<1>6. CASE Ends(k) \/ Ends(0)
  <2>1. fpos' >= DiskSize /\ Raw
    BY <1>0, <1>3, <1>6 DEF Ends
  <2> QED
    BY <1>4, <2>1 DEF End
<1>7. CASE ~Raw /\ n > Room
  <2>1. fpos > Capacity - Chunk
    BY <1>0, <1>7 DEF Room
  <2>2. fpos' >= Capacity - Chunk + 1
    BY <1>0, <1>3, <2>1
  <2> QED
    BY <1>4, <1>7, <2>2 DEF End
<1> QED
  BY <1>0, <1>2, <1>5, <1>6, <1>7

LEMMA FillsRead == WinBase /\ WinReadChunk => Fills'
<1> SUFFICES ASSUME WinBase, WinReadChunk PROVE Fills'
  OBVIOUS
<1> DEFINE E == IF Raw THEN DiskSize ELSE len
<1>b. Base
  BY WinIsBase DEF InWriteLoop, WinReadChunk
<1>0. /\ pc = "io" /\ op = "verify" /\ res = "none"
      /\ fpos = first + done + Len(buf) /\ done + left = max
      /\ Len(buf) < readLen \/ (readLen = 0 /\ buf = << >>)
      /\ readLen = Min2(Chunk, left)
      /\ first \in Nat /\ done \in Nat /\ left \in Nat /\ max \in Nat
      /\ len \in Nat /\ Len(buf) \in Nat /\ readLen \in Nat /\ fpos \in Nat
      /\ E \in Nat /\ E <= len
  BY <1>b DEF Base, Book, TypeOK, IoTypeOK, WinReadChunk, WinBase, Whole
<1>1. UNCHANGED <<op, max, first, rots, late>>
  BY DEF WinReadChunk, Others, argVars
<1>2. SUFFICES ASSUME res' = "ok"
               PROVE  done' = max \/ first + done' >= E'
  BY <1>0, <1>1 DEF Fills
<1>3. PICK n \in WinReadable(Want) : ReadSome(n, Filled(n))
  BY <1>2 DEF WinReadChunk, Filled
<1>4. ReadOk(n) /\ UNCHANGED <<kind, len>>
  BY <1>3 DEF ReadSome, ReadOk
<1>n. n \in Readable(Want) \cup {0}
  BY <1>3 DEF WinReadable
<1>5. /\ n \in Nat /\ Len(Filled(n)) = Len(buf) + n
      /\ (n = 0 => Want = 0 \/ fpos >= E)
  <2>1. /\ n \in Nat /\ Len(Filled(n)) = Len(buf) + n
        /\ n = 0 /\ n \in Readable(Want) => Want = 0 \/ fpos >= len
    BY <1>0, <1>1, <1>4, <1>b, <1>n, FilledFacts
  <2>2. n \notin Readable(Want) => fpos >= E
    BY <1>0, <1>3 DEF WinReadable, Ends
  <2> QED
    BY <1>0, <2>1, <2>2
<1>6. E' = E
  BY <1>4 DEF Raw
<1> HIDE DEF E
<1>7. CASE /\ ~Compares(Filled(n), n) /\ Continue(AtEnd(left, n))
           /\ UNCHANGED done
  <2>1. AtEnd(left, n)
    BY <1>0, <1>2, <1>7, ContinueFacts DEF AtEnd
  <2>2. readLen # 0
    BY <1>0, <1>3, <1>5, <1>7, <2>1
       DEF Compares, Want, AtEnd, Readable, WinReadable, Min2
  <2>3. n = 0 /\ Filled(n) = << >>
    BY <1>0, <1>7, <2>1, <2>2 DEF AtEnd, Compares, Min2
  <2>4. Len(buf) = 0
    BY <1>0, <1>5, <2>3
  <2>5. Want # 0
    BY <1>0, <2>2, <2>4 DEF Want, Min2
  <2>6. fpos >= E
    BY <1>5, <2>3, <2>5
  <2> QED
    BY <1>0, <1>6, <1>7, <2>4, <2>6
<1>8. CASE /\ done' = done + Len(Filled(n))
           /\ Continue(AtEnd(left - Len(Filled(n)), n))
  <2>1. left - Len(Filled(n)) = 0 \/ n = 0
    BY <1>0, <1>2, <1>8, ContinueFacts DEF AtEnd
  <2>2. CASE left - Len(Filled(n)) = 0
    BY <1>0, <1>5, <1>8, <2>2
  <2>3. CASE n = 0 /\ readLen # 0
    <3>1. Want # 0
      BY <1>0, <2>3 DEF Want
    <3>2. fpos >= E
      BY <1>5, <2>3, <3>1
    <3>3. first + done' = fpos
      BY <1>0, <1>5, <1>8, <2>3
    <3> QED
      BY <1>6, <3>2, <3>3
  <2>4. CASE readLen = 0
    <3>1. left = 0
      BY <1>0, <2>4 DEF Min2
    <3>2. Len(buf) = 0
      BY <1>0, <2>4
    <3>3. n = 0
      BY <1>0, <1>3, <2>4, <3>2 DEF Want, WinReadable, Readable
    <3> QED
      BY <1>0, <1>5, <1>8, <3>1, <3>2, <3>3
  <2> QED
    BY <2>1, <2>2, <2>3, <2>4
<1> QED
  BY <1>2, <1>3, <1>7, <1>8 DEF ReadSome

\* Outside of the loops the result only gets worse, and what Fills speaks of
\* does not change.
LEMMA WinOutsideLoops ==
  ASSUME WinBase, [WinNext]_vars, ~WinWriteChunk, ~WinReadChunk, res' = "ok"
  PROVE  res = "ok" /\ UNCHANGED <<op, max, first, done, fpos, len, kind>>
<1>1. CASE UNCHANGED vars
  BY <1>1 DEF vars, ioVars, argVars, runVars
<1>2. CASE \E o \in {"write", "verify"}, r \in Rounds, s \in Seeks, m \in Sizes :
             Call(o, r, s, m)
  BY <1>2 DEF Call
<1>3. CASE Signal \/ Kill
  BY <1>3 DEF Signal, Kill, ioVars, argVars, runVars
<1>4. CASE Environment
  BY <1>4 DEF Environment, Kernel, Writeback, WritebackFails, Evict, Rot,
     argVars, runVars
<1>5. CASE WinGetSectorSize \/ Activate \/ WinReopen \/ WinSeekFile
  BY <1>5 DEF WinBase, InWriteLoop, Book, WinGetSectorSize, Activate, WinReopen,
     WinSeekFile
<1>6. CASE WriteFinalize
  BY <1>6 DEF WriteFinalize, SyncOk, SyncFails, Failed, ioVars, Others,
     argVars, runVars
<1>7. CASE WinFinalize \/ WinDropFile
  <2>1. /\ res = "ok" /\ UNCHANGED <<op, max, first, done, rots, late>>
    BY <1>7 DEF WinFinalize, WinDropFile, Failed, Others, argVars, runVars
  <2>2. CASE UNCHANGED ioVars
    BY <2>1, <2>2 DEF ioVars
  <2>3. CASE \E ok \in BOOLEAN : WinCloseFile(ok)
    BY <2>1, <2>3, WinCloseFileEffect DEF WinBase
  <2> QED
    BY <1>7, <2>2, <2>3 DEF WinFinalize, WinDropFile
<1> QED
  BY <1>1, <1>2, <1>3, <1>4, <1>5, <1>6, <1>7 DEF WinNext, WinProgram, Terminated

LEMMA FillsNext == WinBase /\ Fills /\ [WinNext]_vars => Fills'
<1> SUFFICES ASSUME WinBase, Fills, [WinNext]_vars PROVE Fills'
  OBVIOUS
<1>1. CASE ~WinWriteChunk /\ ~WinReadChunk
  BY <1>1, WinOutsideLoops DEF Fills, End, Raw
<1> QED
  BY <1>1, FillsWrite, FillsRead

\* Ok of write() and verify() means that the request is done or the disk is
\* full, though short writes are not noticed.
THEOREM OkFillsDiskHolds == WinSpec => []OkFillsDisk
<1>1. Init => WinBase /\ Fills
  BY WinBaseInit DEF Init, Fills
<1>2. Fills => OkFillsDisk
  BY DEF Fills, End, OkFillsDisk, WroteOk, VerifiedOk
<1> QED
  BY <1>1, <1>2, WinBaseNext, FillsNext, PTL DEF WinSpec

-----------------------------------------------------------------------------
(* What verify() says *)

LEMMA WinVerifyNext == WinBase /\ VerifyInv /\ [WinNext]_vars => VerifyInv'
<1> SUFFICES ASSUME WinBase, VerifyInv, [WinNext]_vars PROVE VerifyInv'
  OBVIOUS
<1>1. CASE UNCHANGED vars \/ Signal \/ Kill
  <2>1. UNCHANGED <<op, cold, first, seek, max, round, done, buf, medium, late,
                    dirty, cache>> /\ pc' \in {pc, "idle"}
    BY <1>1 DEF vars, Signal, Kill, ioVars, argVars, runVars
  <2> QED
    BY <2>1, Calm
<1>2. CASE \E o \in {"write", "verify"}, r \in Rounds, s \in Seeks, m \in Sizes :
             Call(o, r, s, m)
  BY <1>2, VerifyCall
<1>3. CASE Environment
  <2>1. CASE InWriteLoop
    <3>1. /\ ~ColdVerify' /\ first' = first /\ seek' = seek
          /\ ~ColdVerify
      BY <1>3, <2>1 DEF InWriteLoop, ColdVerify, Environment, argVars, runVars
    <3> QED
      BY <3>1 DEF VerifyInv, Quiet, UnreadCold, ReadFromMedium, RoundDown
  <2>2. CASE ~InWriteLoop
    BY <1>3, <2>2, WinIsBase, VerifyEnvironment
  <2> QED
    BY <2>1, <2>2
<1>4. CASE WinGetSectorSize \/ WinReopen \/ WinSeekFile \/ WriteFinalize
  <2>1. /\ UNCHANGED <<op, cold, first, seek, max, round, done, buf, medium,
                       late, dirty, cache>>
        /\ \/ pc \in {"open", "activate", "seek", "io"}
           \/ pc' \in {"close", "drop"}
    BY <1>4 DEF WinGetSectorSize, WinReopen, WinSeekFile, WriteFinalize, DoOpen,
       Open, WinOpenFails, WinSeekOk, WinSeekFails, SyncOk, SyncFails, ioVars, Others, argVars,
       runVars
  <2> QED
    BY <2>1, Calm
<1>5. CASE Activate
  <2>1. UNCHANGED <<op, cold, seek, max, round, done, buf, medium, late, dirty,
                    cache>> /\ pc = "activate"
    BY <1>5 DEF Activate, Others, argVars
  <2>2. first' = first
    BY <1>5 DEF Activate, VerifyInv
  <2> QED
    BY <2>1, <2>2, Calm
<1>6. CASE WinWriteChunk
  <2>1. UNCHANGED <<op, first, seek>> /\ op = "write"
    BY <1>6 DEF WinWriteChunk, Others, argVars
  <2> QED
    BY <2>1 DEF VerifyInv, Quiet, UnreadCold, ReadFromMedium, ColdVerify,
       RoundDown
<1>7. CASE WinReadChunk
  <2>1. /\ UNCHANGED <<op, cold, first, seek, max, round, late, rots>>
        /\ pc = "io" /\ op = "verify"
    BY <1>7 DEF WinReadChunk, Others, argVars
  <2>2. Base
    BY <2>1, WinIsBase DEF InWriteLoop
  <2>3. CASE WinReadFails /\ UNCHANGED <<done, buf>> /\ pc' = "close"
    <3>1. UNCHANGED <<medium, cache, dirty>>
      BY <2>3 DEF WinReadFails, ReadFails
    <3> QED
      BY <2>1, <2>3, <3>1, Calm
  <2>4. CASE ~ColdVerify
    BY <2>1, <2>4 DEF VerifyInv, Quiet, UnreadCold, ReadFromMedium, RoundDown,
       ColdVerify
  <2>5. CASE ColdVerify /\ \E n \in WinReadable(Want) : ReadSome(n, Filled(n))
    <3>1. PICK n \in Readable(Want) \cup {0} : ReadSome(n, Filled(n))
      BY <2>5 DEF WinReadable
    <3> QED
      BY <2>1, <2>2, <2>5, <3>1, VerifyReadSome
  <2> QED
    BY <1>7, <2>3, <2>4, <2>5 DEF WinReadChunk, Filled
<1>8. CASE WinFinalize \/ WinDropFile
  <2>1. UNCHANGED <<op, cold, first, seek, max, round, done, buf, late, rots>>
        /\ pc' \in {"drop", "idle", "dead"}
    BY <1>8 DEF WinFinalize, WinDropFile, Others, argVars, runVars
  <2>2. UNCHANGED <<medium, dirty>> /\ DOMAIN cache' \subseteq DOMAIN cache
    <3>1. CASE UNCHANGED ioVars
      BY <3>1 DEF ioVars
    <3>2. CASE \E ok \in BOOLEAN : WinCloseFile(ok)
      BY <2>1, <3>2, WinCloseFileEffect DEF WinBase
    <3> QED
      BY <1>8, <3>1, <3>2 DEF WinFinalize, WinDropFile
  <2> QED
    BY <2>1, <2>2, Calm
<1> QED
  BY <1>1, <1>2, <1>3, <1>4, <1>5, <1>6, <1>7, <1>8
     DEF WinNext, WinProgram, Terminated

\* On Windows, too, verify() never vouches for what the medium does not hold.
THEOREM WinVerifySoundHolds == WinSpec => []VerifySound
<1>1. WinBase /\ VerifyInv => VerifySound
  BY DEF VerifyInv, ReadFromMedium, VerifySound, VerifiedOk, ColdVerify, Holds
<1> QED
  BY <1>1, WinBaseInit, VerifyInit, WinBaseNext, WinVerifyNext, PTL DEF WinSpec

-----------------------------------------------------------------------------
(* The cache after write() *)

\* Whatever is written is counted, and a count makes close() drop all there is.
WinCounted ==
  Writing /\ pc \in {"io", "sync", "close"} => fpos = first \/ dropCount > 0

WinColdInv == WinCounted /\ Dropped

\* Outside of write() there is nothing to say.
LEMMA WinColdIdle ==
  ASSUME ~(op' = "write" /\ (pc' = "io" \/ res' = "ok"))
  PROVE  WinColdInv'
BY DEF WinColdInv, WinCounted, Dropped, Writing

LEMMA WinColdCalm ==
  ASSUME WinColdInv,
         UNCHANGED <<op, first, fpos>>,
         Writing' /\ pc' \in {"io", "sync", "close"} =>
           Writing /\ pc \in {"io", "sync", "close"} /\ dropCount' = dropCount,
         op = "write" /\ res' = "ok" /\ pc' \in {"drop", "idle", "dead"} =>
           res = "ok" /\ pc \in {"drop", "idle", "dead"},
         DOMAIN cache' \subseteq DOMAIN cache
  PROVE  WinColdInv'
<1>1. Written' = Written
  BY DEF Written
<1>2. WinCounted'
  BY DEF WinColdInv, WinCounted
<1>3. Dropped'
  BY <1>1 DEF WinColdInv, Dropped
<1> QED
  BY <1>2, <1>3 DEF WinColdInv

LEMMA WinColdWriteChunk == WinBase /\ WinColdInv /\ WinWriteChunk => WinColdInv'
<1> SUFFICES ASSUME WinBase, WinColdInv, WinWriteChunk PROVE WinColdInv'
  OBVIOUS
<1> DEFINE n == Min2(Chunk, left)
<1>0. /\ pc = "io" /\ op = "write" /\ UNCHANGED <<op, first>>
      /\ n \in Nat /\ fpos \in Nat /\ first \in Nat /\ dropCount \in Nat
      /\ Room \in Nat
      /\ fpos = first \/ dropCount > 0
  BY DEF WinWriteChunk, Others, argVars, WinBase, TypeOK, IoTypeOK, Min2, Room,
     WinColdInv, WinCounted, Writing
<1>1. PICK k \in 0 .. n :
        /\ Put(ChunkData, k) /\ pc' \in {"io", "sync"}
        /\ \/ (k = n \/ k > 0) /\ dropCount' = dropCount + n
           \/ (k = 0 \/ n > Room) /\ dropCount' = dropCount + n
           \/ pc' = "sync" /\ res' = "err"
  BY <1>0, WinPuts DEF CountDrop
<1> HIDE DEF n
<1>2. fpos' = fpos + k /\ k \in Nat /\ k <= n
  BY <1>0, <1>1 DEF Put
<1>3. CASE pc' = "sync" /\ res' = "err"
  BY <1>3, WinColdIdle
<1>4. CASE dropCount' = dropCount + n /\ (k = n \/ k > 0 \/ k = 0 \/ n > Room)
  <2>1. fpos' = first' \/ dropCount' > 0
    BY <1>0, <1>2, <1>4
  <2> QED
    BY <1>1, <2>1 DEF WinColdInv, WinCounted, Dropped
<1> QED
  BY <1>1, <1>3, <1>4

\* Closing the file drops all that was written.
LEMMA WinColdFinalize ==
  ASSUME WinBase, WinColdInv, WinFinalize
  PROVE  WinColdInv'
<1>1. /\ pc = "close" /\ pc' = "drop" /\ UNCHANGED <<op, first, rots, late>>
      /\ TypeOK
      /\ op = "write" => handle = "write"
  BY DEF WinFinalize, Others, argVars, runVars, WinBase, InWriteLoop, Book,
     HandleInv, Mode
<1>2. CASE ~(op = "write" /\ res' = "ok")
  BY <1>1, <1>2, WinColdIdle
<1>3. CASE op = "write" /\ res' = "ok"
  <2>1. WinCloseFile(TRUE) /\ res = "ok"
    BY <1>3 DEF WinFinalize, Failed
  <2>2. /\ fpos' = fpos
        /\ WinFlushed(handle)
        /\ dropCount > 0 => DOMAIN cache' \subseteq dirty
    BY <1>1, <2>1, WinCloseFileEffect
  <2>3. dirty = {}
    BY <1>1, <1>3, <2>2 DEF WinFlushed
  <2>4. fpos = first \/ dropCount > 0
    BY <1>1, <1>3, <2>1 DEF WinColdInv, WinCounted, Writing
  <2>5. CASE fpos = first
    <3>1. first' .. fpos' - 1 = {}
      BY <1>1, <2>2, <2>5 DEF TypeOK
    <3> QED
      BY <1>1, <3>1 DEF WinColdInv, WinCounted, Dropped, Written
  <2>6. CASE dropCount > 0
    BY <1>1, <2>2, <2>3, <2>6 DEF WinColdInv, WinCounted, Dropped
  <2> QED
    BY <2>4, <2>5, <2>6
<1> QED
  BY <1>2, <1>3

LEMMA WinColdNext == WinBase /\ WinColdInv /\ [WinNext]_vars => WinColdInv'
<1> SUFFICES ASSUME WinBase, WinColdInv, [WinNext]_vars PROVE WinColdInv'
  OBVIOUS
<1>1. CASE UNCHANGED vars \/ Signal
  <2>1. UNCHANGED <<op, first, dropCount, fpos, pc, res, cache>>
    BY <1>1 DEF vars, Signal, ioVars, argVars, runVars, fileVars
  <2> QED
    BY <2>1, WinColdCalm DEF Writing
<1>2. CASE Kill
  BY <1>2, WinColdIdle DEF Kill
<1>3. CASE \E o \in {"write", "verify"}, r \in Rounds, s \in Seeks, m \in Sizes :
             Call(o, r, s, m)
  BY <1>3, WinColdIdle DEF Call
<1>4. CASE Environment
  <2>1. UNCHANGED <<op, first, dropCount, fpos, pc, res>>
        /\ DOMAIN cache' \subseteq DOMAIN cache
    BY <1>4 DEF Environment, Kernel, Writeback, WritebackFails, Evict, Evicted,
       Rot, argVars, runVars, fileVars
  <2> QED
    BY <2>1, WinColdCalm DEF Writing
<1>5. CASE WinGetSectorSize \/ Activate \/ WinReopen
  <2>1. res' \in {"none", "err"} /\ pc' # "io"
    BY <1>5 DEF WinGetSectorSize, Activate, WinReopen, WinBase, InWriteLoop, Book
  <2> QED
    BY <2>1, WinColdIdle
<1>6. CASE WinSeekFile
  BY <1>6 DEF WinSeekFile, WinSeekOk, WinColdInv, WinCounted, Dropped
<1>7. CASE WriteFinalize
  <2>1. /\ UNCHANGED <<op, first, dropCount, fpos, cache>>
        /\ pc = "sync"
        /\ \/ pc' = "close" /\ res' = res
           \/ pc' = "drop" /\ res' # "ok"
    BY <1>7 DEF WriteFinalize, SyncOk, SyncFails, ioVars, Others, argVars,
       runVars, fileVars, Failed
  <2> QED
    BY <2>1, WinColdCalm DEF Writing
<1>8. CASE WinReadChunk
  BY <1>8, WinColdIdle DEF WinReadChunk, Others, argVars
<1>9. CASE WinDropFile
  <2>1. /\ UNCHANGED <<op, first, res, rots, late>>
        /\ pc = "drop" /\ pc' \in {"idle", "dead"}
    BY <1>9 DEF WinDropFile, Others, argVars, runVars
  <2>2. UNCHANGED fpos /\ DOMAIN cache' \subseteq DOMAIN cache
    <3>1. CASE UNCHANGED ioVars
      BY <3>1 DEF ioVars
    <3>2. CASE \E ok \in BOOLEAN : WinCloseFile(ok)
      BY <2>1, <3>2, WinCloseFileEffect DEF WinBase
    <3> QED
      BY <1>9, <3>1, <3>2 DEF WinDropFile
  <2> QED
    BY <2>1, <2>2, WinColdCalm DEF Writing
<1> QED
  BY <1>1, <1>2, <1>3, <1>4, <1>5, <1>6, <1>7, <1>8, <1>9, WinColdWriteChunk,
     WinColdFinalize DEF WinNext, WinProgram, Terminated

LEMMA WinColdInit == Init => WinColdInv
BY DEF Init, WinColdInv, WinCounted, Dropped, Writing

\* On Windows a verify() after write() does not read from RAM, whatever the
\* chunks and byte counts are: all of the cache of the file is dropped.
THEOREM WinColdAfterWriteHolds == WinSpec => []ColdAfterWrite
<1>1. WinColdInv => ColdAfterWrite
  BY DEF WinColdInv, Dropped, ColdAfterWrite, WroteOk
<1> QED
  BY <1>1, WinBaseInit, WinColdInit, WinBaseNext, WinColdNext, PTL DEF WinSpec

-----------------------------------------------------------------------------
(* A disk that is smaller than it claims to be *)

\* As long as a range is known, no write() is in its loop.
LEMMA Known == WinBase /\ StoredBook /\ stored # NoRange => Base
BY WinIsBase DEF StoredBook, InWriteLoop

\* The end of a write() that returns Ok.
WinReports == op = "write" /\ WinFinalize /\ res' = "ok"

\* The steps of a call of verify(), or between calls, with the range known.
LEMMA WinStepKinds ==
  ASSUME WinBase, StoredBook, [WinNext]_vars
  PROVE  \/ stored' = NoRange
         \/ WinReports
         \/ stored # NoRange /\ stored' = stored /\ (Rests \/ WinReadChunk)
<1> SUFFICES ASSUME stored' # NoRange, ~WinReports, ~WinReadChunk
             PROVE  stored # NoRange /\ stored' = stored /\ Rests
  BY DEF NoRange, WinReadChunk
<1>0. NoRange' = NoRange
  BY DEF NoRange
<1>s. stored' = stored => stored # NoRange
  OBVIOUS
<1>b. stored' = stored => Base /\ dirty = {}
  BY Known DEF StoredBook
<1>1. CASE UNCHANGED vars \/ Signal \/ Kill
  BY <1>1, <1>s DEF vars, Signal, Kill, ioVars, argVars, runVars, Rests
<1>2. CASE \E o \in {"write", "verify"}, r \in Rounds, s \in Seeks, m \in Sizes :
             Call(o, r, s, m)
  BY <1>2, <1>s DEF Call, ioVars, Rests
<1>3. CASE WinGetSectorSize \/ WinReopen \/ WinSeekFile \/ Activate
  <2>1. pc \in {"open", "activate", "seek"} /\ stored' = stored
    BY <1>3 DEF WinGetSectorSize, WinReopen, WinSeekFile, Activate
  <2>2. UNCHANGED <<cache, medium, dirty, rots, done, buf>> /\ res' \in {res, "err"}
    BY <1>3 DEF WinGetSectorSize, WinReopen, WinSeekFile, Activate, DoOpen, Open,
       WinOpenFails, WinSeekOk, WinSeekFails, fileVars, runVars, Others
  <2> QED
    BY <1>b, <1>s, <2>1, <2>2 DEF Base, Book, Rests
<1>4. CASE WinWriteChunk \/ WriteFinalize
  <2>1. stored' = stored /\ pc \in {"io", "sync"} /\ op = "write"
    BY <1>4 DEF WinWriteChunk, WriteFinalize, StoredBook
  <2> QED
    BY <1>s, <2>1 DEF StoredBook
<1>5. CASE WinFinalize \/ WinDropFile
  <2>1. /\ UNCHANGED <<op, round, first, done, buf, rots, late>>
        /\ res' = "mismatch" => res = "mismatch"
        /\ stored' = stored
    BY <1>5 DEF WinFinalize, WinDropFile, WinReports, Others, argVars, runVars,
       Failed
  <2>2. CASE UNCHANGED ioVars
    BY <1>s, <2>1, <2>2 DEF ioVars, Rests
  <2>3. CASE \E ok \in BOOLEAN : WinCloseFile(ok)
    <3>1. /\ UNCHANGED <<medium, dirty, fpos>>
          /\ DOMAIN cache' \subseteq DOMAIN cache
          /\ \A p \in DOMAIN cache' : cache'[p] = cache[p]
      BY <2>1, <2>3, WinCloseFileEffect DEF WinBase
    <3> QED
      BY <1>s, <2>1, <3>1 DEF Rests
  <2> QED
    BY <1>5, <2>2, <2>3 DEF WinFinalize, WinDropFile
<1>6. CASE Environment
  <2>1. stored' = stored
    BY <1>6 DEF Environment
  <2> QED
    BY <1>6, <1>b, <1>s, <2>1, EnvironmentRests
<1> QED
  BY <1>1, <1>2, <1>3, <1>4, <1>5, <1>6 DEF WinNext, WinProgram, Terminated

\* Only write() gets to its finalize.
LEMMA WinSyncNext ==
  ASSUME StoredBook, [WinNext]_vars PROVE pc' = "sync" => op' = "write"
<1>1. CASE UNCHANGED vars \/ Signal \/ Kill \/ Environment \/ Terminated
  BY <1>1 DEF vars, Signal, Kill, Environment, Terminated, argVars, StoredBook
<1>2. CASE \E o \in {"write", "verify"}, r \in Rounds, s \in Seeks, m \in Sizes :
             Call(o, r, s, m)
  BY <1>2 DEF Call
<1>3. CASE WinProgram
  BY <1>3 DEF WinProgram, WinGetSectorSize, Activate, WinReopen, WinSeekFile,
     WinWriteChunk, WriteFinalize, WinReadChunk, ReadSome, Continue, WinFinalize,
     WinDropFile, Others, argVars
<1> QED
  BY <1>1, <1>2, <1>3 DEF WinNext

\* When write() reports a range, close() has flushed the file.
LEMMA WinReportsClean ==
  ASSUME WinBase, WinReports
  PROVE  /\ TypeOK /\ pc = "close" /\ pc' = "drop" /\ op' = "write" /\ res' = "ok"
         /\ stored' = [round |-> round, lo |-> first, hi |-> fpos]
         /\ UNCHANGED <<round, first, fpos>>
         /\ dirty' = {}
<1>1. /\ pc = "close" /\ pc' = "drop" /\ op' = "write" /\ op = "write"
      /\ res' = "ok" /\ TypeOK /\ handle = "write"
      /\ stored' = [round |-> round, lo |-> first, hi |-> fpos]
      /\ UNCHANGED <<round, first, rots, late>>
  BY DEF WinReports, WinFinalize, Others, argVars, runVars, WinBase, InWriteLoop,
     Book, HandleInv, Mode
<1>2. WinCloseFile(TRUE)
  BY DEF WinReports, WinFinalize, Failed
<1>3. UNCHANGED <<dirty, fpos>> /\ WinFlushed(handle)
  BY <1>1, <1>2, WinCloseFileEffect
<1> QED
  BY <1>1, <1>3 DEF WinFlushed

LEMMA WinStoredBookNext ==
  WinBase /\ StoredBook /\ [WinNext]_vars => StoredBook'
<1> SUFFICES ASSUME WinBase, StoredBook, [WinNext]_vars PROVE StoredBook'
  OBVIOUS
<1>0. (pc' = "sync" => op' = "write") /\ NoRange' = NoRange
      /\ NoRange.lo = 0 /\ NoRange.hi = 0
  BY WinSyncNext DEF NoRange
<1>1. CASE stored' = NoRange
  BY <1>0, <1>1 DEF StoredBook
<1>2. CASE WinReports
  <2>1. first \in Nat /\ fpos \in Nat
    BY DEF WinBase, TypeOK, IoTypeOK
  <2> QED
    BY <1>0, <1>2, <2>1, WinReportsClean DEF StoredBook
<1>3. CASE stored # NoRange /\ stored' = stored /\ (Rests \/ WinReadChunk)
  <2>1. dirty' = dirty
    BY <1>3 DEF Rests, WinReadChunk, ReadSome, ReadOk, WinReadFails, ReadFails
  <2>2. op' = "write" => pc' \in {"drop", "idle", "dead"}
    <3>1. op = "write" => pc \in {"drop", "idle", "dead"}
      BY <1>3 DEF StoredBook
    <3> QED
      BY <1>3, <3>1 DEF WinNext, WinProgram, Terminated, vars, Signal, Kill, Call,
         WinGetSectorSize, Activate, WinReopen, WinSeekFile, WinWriteChunk,
         WriteFinalize, WinReadChunk, WinFinalize, WinDropFile, Environment,
         Others, argVars, NoRange
  <2> QED
    BY <1>0, <1>3, <2>1, <2>2 DEF StoredBook
<1> QED
  BY <1>1, <1>2, <1>3, WinStepKinds

\* When write() reports a range, nothing of it is cached, and a block of the
\* medium holds one cell.
LEMMA WinReportsOne ==
  ASSUME WinBase, WinColdInv', WinReports
  PROVE  OneSeen'
<1>1. /\ op' = "write" /\ res' = "ok" /\ pc' = "drop"
      /\ stored' = [round |-> round, lo |-> first, hi |-> fpos]
      /\ UNCHANGED <<round, first, fpos>>
  BY WinReportsClean
<1>2. Stored' = Written'
  BY <1>1 DEF Stored, Written
<1>3. DOMAIN cache' \cap Written' = {}
  BY <1>1 DEF WinColdInv, Dropped
<1>4. ~VerifiesStored'
  BY <1>1 DEF VerifiesStored
<1>5. \A p \in Stored' : Seen(p)' => medium'[Phys(p)'] = Of(p)'
  BY <1>2, <1>3, <1>4 DEF Seen, Passed
<1>6. \A p, q : Of(p)' = Of(q)' => p = q
  BY DEF Of, Pat
<1> QED
  BY <1>5, <1>6 DEF OneSeen

LEMMA WinReadSeen ==
  ASSUME Base, StoredBook, WinReadChunk, NEW p \in Stored, Seen(p)'
  PROVE  Seen(p)
<1>1. pc = "io" /\ op = "verify"
      /\ UNCHANGED <<op, round, first, stored, rots, late>>
  BY DEF WinReadChunk, Others, argVars
<1>2. CASE \E n \in WinReadable(Want) : ReadSome(n, Filled(n))
  <2>1. PICK n \in Readable(Want) \cup {0} : ReadSome(n, Filled(n))
    BY <1>2 DEF WinReadable
  <2> QED
    BY <1>1, <2>1, ReadSomeSeen
<1>3. CASE WinReadFails /\ UNCHANGED <<done, buf>>
  BY <1>1, <1>3 DEF WinReadFails, ReadFails, Seen, Passed, Of, Pat, Phys,
     VerifiesStored
<1> QED
  BY <1>2, <1>3 DEF WinReadChunk, Filled

LEMMA WinOneSeenNext ==
  ASSUME WinBase, WinBase', WinColdInv', StoredBook, StoredBook', OneSeen,
         [WinNext]_vars
  PROVE  OneSeen'
<1>1. CASE stored' = NoRange
  <2>1. stored'.lo = 0 /\ stored'.hi = 0
    BY <1>1 DEF NoRange
  <2>2. Stored' = {}
    BY <2>1 DEF Stored
  <2> QED
    BY <2>2 DEF OneSeen
<1>2. CASE WinReports
  BY <1>2, WinReportsOne
<1>3. CASE stored # NoRange /\ stored' = stored /\ (Rests \/ WinReadChunk)
  <2>1. Base
    BY <1>3, Known
  <2>2. Base'
    BY <1>3 DEF WinBase, Base, StoredBook, InWriteLoop, NoRange
  <2>3. \A p \in Stored : Seen(p)' => Seen(p)
    BY <1>3, <2>1, <2>2, RestsSeen, WinReadSeen
  <2>4. Stored' = Stored /\ \A p : Phys(p)' = Phys(p)
    BY <1>3 DEF Stored, Phys
  <2> QED
    BY <2>3, <2>4 DEF OneSeen
<1> QED
  BY <1>1, <1>2, <1>3, WinStepKinds

LEMMA WinStoredInit == Init => StoredBook /\ OneSeen
<1> SUFFICES ASSUME Init PROVE StoredBook
  BY OneSeenInit
<1>1. stored.lo = 0 /\ stored.hi = 0 /\ stored = NoRange /\ pc = "idle"
  BY DEF Init, NoRange
<1> QED
  BY <1>1 DEF StoredBook

\* On Windows, too, a disk that pretends to be larger than it is never passes,
\* though write() may have put a part of the pattern at wrong places.
THEOREM WinFakeDetectedHolds == WinSpec => []FakeDetected
<1> DEFINE IInv == WinBase /\ WinColdInv /\ StoredBook /\ OneSeen
<1>1. Init => IInv
  BY WinBaseInit, WinColdInit, WinStoredInit
<1>2. IInv /\ [WinNext]_vars => IInv'
  <2>1. SUFFICES ASSUME IInv, [WinNext]_vars PROVE IInv'
    OBVIOUS
  <2>2. WinBase' /\ WinColdInv' /\ StoredBook'
    BY <2>1, WinBaseNext, WinColdNext, WinStoredBookNext
  <2>3. OneSeen'
    BY <2>1, <2>2, WinOneSeenNext
  <2> QED
    BY <2>2, <2>3
<1>3. IInv => FakeDetected
  <2>1. VerifiedOk => ~InWriteLoop
    BY DEF VerifiedOk, InWriteLoop
  <2>2. WinBase /\ VerifiedOk => Base
    BY <2>1, WinIsBase
  <2> QED
    BY <2>2, OneSeenDetects DEF FakeDetected
<1> QED
  BY <1>1, <1>2, <1>3, PTL DEF WinSpec

-----------------------------------------------------------------------------
(* What write() leaves on the medium *)

\* All cells of the block of cell p lie in the whole cylinders.
Clean(p) == \A q \in Cells : Phys(q) = Phys(p) => ~Raw \/ q < DiskSize

\* WriteInv, but for what lies behind the whole cylinders.
WinDirtyPat == \A q \in dirty : Clean(q) => \E r \in Rounds : cache[q] = Pat(r, q)

WinDirtyNew ==
  Writing => \A q \in dirty \cap Written : Clean(q) => cache[q] = Pat(round, q)

WinNothingLost ==
  Writing => wbErr \/ \A p \in Written : Clean(p) => p \in dirty \/ Safe(p)

WinWriteInv ==
  /\ kind # "chr"
  /\ WinDirtyPat /\ WinDirtyNew /\ WinNothingLost /\ Synced /\ InCells

LEMMA CleanSame == kind' = kind => \A p : Clean(p)' = Clean(p)
BY DEF Clean, Raw, Phys, Cells

\* Cells that share a block are both clean or neither is.
LEMMA CleanShared == \A p, q : Phys(p) = Phys(q) => Clean(p) = Clean(q)
BY DEF Clean

\* Outside of write(), and once it is known to fail, only what waits to be
\* stored matters.
LEMMA WinNotWriting ==
  ASSUME WinWriteInv,
         ~Writing', ~(op' = "write" /\ res' = "ok"),
         kind' = kind, dirty' \subseteq dirty,
         \A q \in dirty' : cache'[q] = cache[q]
  PROVE  WinWriteInv'
<1>1. WinDirtyPat'
  BY CleanSame DEF WinWriteInv, WinDirtyPat, Pat
<1>2. WinDirtyNew' /\ WinNothingLost' /\ InCells'
  BY DEF WinDirtyNew, WinNothingLost, InCells
<1>3. Synced'
  BY DEF Synced
<1> QED
  BY <1>1, <1>2, <1>3 DEF WinWriteInv

\* What neither writes nor stores.
LEMMA WinWriteCalm ==
  ASSUME WinWriteInv,
         UNCHANGED <<kind, op, round, first, fpos, medium, late, dirty, wbErr>>,
         Writing' => Writing, Synced',
         \A q \in dirty : cache'[q] = cache[q]
  PROVE  WinWriteInv'
<1>1. WinDirtyPat'
  BY CleanSame DEF WinWriteInv, WinDirtyPat, Pat
<1>2. Written' = Written
  BY DEF Written
<1>3. WinDirtyNew' /\ InCells'
  BY <1>2, CleanSame DEF WinWriteInv, WinDirtyNew, InCells, Pat, Cells
<1>4. \A p : Safe(p) => Safe(p)'
  BY <1>2 DEF Safe, Overwritten, Pat, Phys, Cells
<1>5. WinNothingLost'
  BY <1>2, <1>4, CleanSame DEF WinWriteInv, WinNothingLost
<1> QED
  BY <1>1, <1>3, <1>5 DEF WinWriteInv

LEMMA WinWriteInit == Init => WinWriteInv
<1> SUFFICES ASSUME Init PROVE WinWriteInv
  OBVIOUS
<1>1. /\ dirty = {} /\ pc = "idle" /\ res = "none" /\ kind # "chr"
  BY DEF Init, IoInit
<1>2. ~Writing /\ Synced /\ WinDirtyPat
  BY <1>1 DEF Writing, Synced, WinDirtyPat
<1> QED
  BY <1>1, <1>2 DEF WinWriteInv, WinDirtyNew, WinNothingLost, InCells

\* A cell is stored: it is safe, and what it overwrites was overtaken.
LEMMA WinWriteback ==
  ASSUME WinBase, WinWriteInv, NEW x \in Cells, Writeback(x),
         UNCHANGED <<op, round, first, pc, res>>
  PROVE  WinWriteInv'
<1>1. /\ x \in dirty /\ dirty' = dirty \ {x}
      /\ medium' = [medium EXCEPT ![Phys(x)] = cache[x]]
      /\ UNCHANGED <<kind, cache, wbErr, handle, fpos, late>>
      /\ Phys(x) \in Blocks
  BY PhysInBlocks DEF Writeback, Cells
<1>2. medium \in [Blocks -> Contents]
  BY DEF WinBase, TypeOK, IoTypeOK
<1>3. Writing' = Writing /\ Written' = Written /\ Cells' = Cells
      /\ \A p : Clean(p)' = Clean(p)
  BY <1>1, CleanSame DEF Writing, Written
<1>4. WinDirtyPat' /\ Synced' /\ kind' # "chr"
  BY <1>1, <1>3 DEF WinWriteInv, WinDirtyPat, Synced, Pat
<1>5. WinDirtyNew' /\ InCells'
  BY <1>1, <1>3 DEF WinWriteInv, WinDirtyNew, InCells, Pat
<1>7. ASSUME Writing, NEW p \in Written, Clean(p), p \in dirty \/ Safe(p)
      PROVE  p \in dirty' \/ Safe(p)'
  <2>1. CASE p = x
    <3>1. cache[x] = Pat(round, x)
      BY <1>1, <1>7, <2>1 DEF WinWriteInv, WinDirtyNew
    <3>2. medium'[Phys(p)] = Pat(round, p)
      BY <1>1, <1>2, <2>1, <3>1
    <3> QED
      BY <1>1, <3>2 DEF Safe, Phys, Pat
  <2>2. CASE p # x /\ p \in dirty
    BY <1>1, <2>2
  <2>3. CASE p # x /\ Safe(p) /\ Phys(p) = Phys(x)
    <3>0. Clean(x)
      BY <1>7, <2>3, CleanShared
    <3>1. medium'[Phys(p)] = cache[x]
      BY <1>1, <1>2, <2>3
    <3>2. PICK r \in Rounds : cache[x] = Pat(r, x)
      BY <1>1, <3>0 DEF WinWriteInv, WinDirtyPat
    <3>3. x \in Written => r = round
      BY <1>1, <1>7, <3>0, <3>2 DEF WinWriteInv, WinDirtyNew, Pat
    <3>4. Overwritten(Phys(p), p, x, r)'
      BY <1>1, <1>3, <2>3, <3>1, <3>2, <3>3 DEF Overwritten, Phys, Pat
    <3> QED
      BY <3>4 DEF Safe, Phys
  <2>4. CASE Safe(p) /\ Phys(p) # Phys(x)
    <3>1. medium'[Phys(p)] = medium[Phys(p)]
      BY <1>1, <1>2, <2>4
    <3>2. \A q \in Cells, s \in Rounds :
            Overwritten(Phys(p), p, q, s) => Overwritten(Phys(p), p, q, s)'
      BY <1>1, <1>3, <2>4, <3>1 DEF Overwritten, Phys, Pat
    <3> QED
      BY <1>1, <2>4, <3>1, <3>2 DEF Safe, Phys, Pat
  <2> QED
    BY <1>7, <2>1, <2>2, <2>3, <2>4
<1>8. WinNothingLost'
  BY <1>1, <1>3, <1>7 DEF WinWriteInv, WinNothingLost
<1> QED
  BY <1>4, <1>5, <1>8 DEF WinWriteInv

LEMMA WinWriteEnvironment ==
  WinBase /\ WinWriteInv /\ Environment => WinWriteInv'
<1> SUFFICES ASSUME WinBase, WinWriteInv, Environment PROVE WinWriteInv'
  OBVIOUS
<1>1. UNCHANGED <<op, round, first, pc, res>>
  BY DEF Environment, argVars, runVars
<1>2. ASSUME NEW p \in Cells, Writeback(p) PROVE WinWriteInv'
  BY <1>1, <1>2, WinWriteback
<1>3. ASSUME NEW p \in Cells, WritebackFails(p) PROVE WinWriteInv'
  <2>1. /\ p \in dirty /\ dirty' = dirty \ {p} /\ wbErr' = TRUE
        /\ UNCHANGED <<kind, medium, cache, handle, fpos, late>>
    BY <1>3 DEF WritebackFails
  <2>2. Writing' = Writing /\ Written' = Written /\ Cells' = Cells
        /\ \A q : Clean(q)' = Clean(q)
    BY <1>1, <2>1, CleanSame DEF Writing, Written
  <2>3. WinDirtyPat' /\ Synced' /\ kind' # "chr"
    BY <1>1, <2>1, <2>2 DEF WinWriteInv, WinDirtyPat, Synced, Pat
  <2>4. WinDirtyNew' /\ InCells' /\ WinNothingLost'
    BY <1>1, <2>1, <2>2 DEF WinWriteInv, WinDirtyNew, InCells, WinNothingLost, Pat
  <2> QED
    BY <2>3, <2>4 DEF WinWriteInv
<1>4. ASSUME NEW p \in Cells, Evict(p) PROVE WinWriteInv'
  <2>1. /\ UNCHANGED <<kind, medium, dirty, wbErr, handle, fpos, late>>
        /\ p \notin dirty
        /\ cache' = [q \in DOMAIN cache \ {p} |-> cache[q]]
        /\ dirty \subseteq DOMAIN cache
    BY <1>4 DEF Evict, Evicted, WinBase, TypeOK, IoTypeOK
  <2>2. Writing' = Writing /\ Synced'
    BY <1>1, <2>1 DEF Writing, WinWriteInv, Synced
  <2> QED
    BY <1>1, <2>1, <2>2, WinWriteCalm
<1>5. ASSUME NEW b \in Blocks, Rot(b) PROVE WinWriteInv'
  <2>1. /\ late' = late \cup {b} /\ medium' = [medium EXCEPT ![b] = Junk]
        /\ UNCHANGED <<kind, cache, dirty, wbErr, handle, fpos>>
        /\ medium \in [Blocks -> Contents]
    BY <1>5 DEF Rot, WinBase, TypeOK, IoTypeOK
  <2>2. Writing' = Writing /\ Written' = Written /\ Cells' = Cells
        /\ \A q : Clean(q)' = Clean(q)
    BY <1>1, <2>1, CleanSame DEF Writing, Written
  <2>3. WinDirtyPat' /\ Synced' /\ kind' # "chr"
    BY <1>1, <2>1, <2>2 DEF WinWriteInv, WinDirtyPat, Synced, Pat
  <2>4. WinDirtyNew' /\ InCells'
    BY <1>1, <2>1, <2>2 DEF WinWriteInv, WinDirtyNew, InCells, Pat
  <2>5. ASSUME NEW p, Safe(p) PROVE Safe(p)'
    <3>1. CASE Phys(p) = b
      BY <2>1, <3>1 DEF Safe, Phys
    <3>2. CASE Phys(p) # b
      <4>1. medium'[Phys(p)] = medium[Phys(p)]
        BY <2>1, <3>2
      <4>2. \A q \in Cells, s \in Rounds :
              Overwritten(Phys(p), p, q, s) => Overwritten(Phys(p), p, q, s)'
        BY <1>1, <2>1, <2>2, <4>1 DEF Overwritten, Phys, Pat
      <4> QED
        BY <1>1, <2>1, <2>5, <4>1, <4>2 DEF Safe, Phys, Pat
    <3> QED
      BY <3>1, <3>2
  <2>6. WinNothingLost'
    BY <1>1, <2>1, <2>2, <2>5 DEF WinWriteInv, WinNothingLost
  <2> QED
    BY <2>3, <2>4, <2>6 DEF WinWriteInv
<1> QED
  BY <1>2, <1>3, <1>4, <1>5 DEF Environment, Kernel

\* What is put into the file waits to be stored.  Once the position is not where
\* the counters say, all that is put lies behind the whole cylinders.
LEMMA WinPutKeeps ==
  ASSUME WinBase, WinWriteInv, InWriteLoop, NEW k \in Nat, k <= Chunk,
         k <= Room, Put(ChunkData, k), UNCHANGED <<op, round, first, late>>,
         pc' \in {"io", "sync"}
  PROVE  WinWriteInv'
<1> DEFINE S == fpos .. fpos + k - 1
<1>0. /\ fpos \in Nat /\ first \in Nat /\ Writing /\ round \in Rounds
      /\ done \in Nat /\ done = chunks * Chunk
      /\ fpos = first + done \/ Ends(0)
      /\ k # 0 => fpos + k <= Capacity
      /\ dirty \subseteq DOMAIN cache
  BY DEF WinBase, WriteBook, InWriteLoop, TypeOK, IoTypeOK, Writing, Room
<1>1. /\ fpos' = fpos + k /\ UNCHANGED <<kind, wbErr, medium>>
      /\ dirty' = dirty \cup S
      /\ cache' = [p \in DOMAIN cache \cup S |->
                     IF p \in S THEN ChunkData[p - fpos] ELSE cache[p]]
      /\ S \subseteq Cells
  BY <1>0 DEF Put, Cells, WinWriteInv
<1>2. Written' \subseteq Written \cup S
  BY <1>0, <1>1 DEF Written
<1>3. ASSUME NEW q \in S, Clean(q) PROVE cache'[q] = Pat(round, q)
  <2>1. q \in Nat /\ q >= fpos
    BY <1>0
  <2>2. ~Ends(0)
    <3>1. ~Raw \/ q < DiskSize
      BY <1>1, <1>3 DEF Clean
    <3> QED
      BY <1>0, <2>1, <3>1 DEF Ends
  <2>3. q - fpos \in 0 .. Chunk - 1 /\ first + done + (q - fpos) = q
    BY <1>0, <2>2
  <2>4. ChunkData[q - fpos] = Pat(round, first + done + (q - fpos))
    BY <1>0, <2>3, ChunkDataPat DEF WinBase
  <2> QED
    BY <1>1, <2>3, <2>4
<1>4. Synced' /\ kind' # "chr"
  BY <1>1 DEF Synced, WinWriteInv
<1> HIDE DEF S
<1>5. InCells' /\ Cells' = Cells
  BY <1>0, <1>1, <1>2 DEF WinWriteInv, InCells, Cells
<1>6. /\ \A q \in dirty \ S : cache'[q] = cache[q]
      /\ \A q : Clean(q)' = Clean(q)
  BY <1>0, <1>1, CleanSame
<1>7. WinDirtyPat'
  BY <1>0, <1>1, <1>3, <1>6 DEF WinWriteInv, WinDirtyPat, Pat
<1>8. WinDirtyNew'
  <2> SUFFICES ASSUME NEW q \in dirty', q \in Written', Clean(q)
               PROVE  cache'[q] = Pat(round, q)
    BY <1>6 DEF WinDirtyNew, Pat
  <2>1. CASE q \in S
    BY <1>3, <2>1
  <2>2. CASE q \notin S
    BY <1>0, <1>1, <1>2, <1>6, <2>2 DEF WinWriteInv, WinDirtyNew
  <2> QED
    BY <2>1, <2>2
<1>9. ASSUME NEW p \in Written, p \in dirty \/ Safe(p)
      PROVE  p \in dirty' \/ Safe(p)'
  <2>1. CASE p \in dirty
    BY <1>1, <2>1
  <2>2. CASE Safe(p)
    <3>1. \A q \in Cells, s \in Rounds :
            Overwritten(Phys(p), p, q, s) => Overwritten(Phys(p), p, q, s)'
      BY <1>1, <1>2 DEF Overwritten, Phys, Pat
    <3> QED
      BY <1>1, <1>5, <2>2, <3>1 DEF Safe, Phys, Pat
  <2> QED
    BY <1>9, <2>1, <2>2
<1>10. WinNothingLost'
  BY <1>0, <1>1, <1>2, <1>6, <1>9 DEF WinWriteInv, WinNothingLost
<1> QED
  BY <1>4, <1>5, <1>7, <1>8, <1>10 DEF WinWriteInv

LEMMA WinWriteWriteChunk == WinBase /\ WinWriteInv /\ WinWriteChunk => WinWriteInv'
<1> SUFFICES ASSUME WinBase, WinWriteInv, WinWriteChunk PROVE WinWriteInv'
  OBVIOUS
<1>1. /\ InWriteLoop /\ UNCHANGED <<op, round, first, late>>
      /\ pc' \in {"io", "sync"}
  BY DEF WinWriteChunk, Others, argVars, InWriteLoop
<1>2. PICK k \in 0 .. Min2(Chunk, left) : k <= Room /\ Put(ChunkData, k)
  BY WinPuts
<1>3. Min2(Chunk, left) \in Nat /\ Min2(Chunk, left) <= Chunk
  BY DEF WinBase, TypeOK, Min2
<1>4. k \in Nat /\ k <= Chunk
  BY <1>3
<1> QED
  BY <1>1, <1>2, <1>4, WinPutKeeps

\* init(), until the loop begins.
LEMMA WinWriteBegin ==
  ASSUME WinBase, WinWriteInv,
         WinGetSectorSize \/ Activate \/ WinReopen \/ WinSeekFile
  PROVE  WinWriteInv'
<1>0. /\ UNCHANGED <<kind, cache, dirty>> /\ res' \in {"none", "err"}
  <2>1. Base
    BY WinIsBase DEF InWriteLoop, WinGetSectorSize, Activate, WinReopen,
       WinSeekFile
  <2>2. UNCHANGED <<kind, cache, dirty>>
    BY DEF WinGetSectorSize, Activate, WinReopen, WinSeekFile, DoOpen, Open,
       WinOpenFails, WinSeekOk, WinSeekFails, fileVars, ioVars
  <2>3. res' \in {"none", "err"}
    BY <2>1 DEF WinGetSectorSize, Activate, WinReopen, WinSeekFile, Base, Book
  <2> QED
    BY <2>2, <2>3
<1>2. CASE pc' # "io"
  BY <1>0, <1>2, WinNotWriting DEF Writing
<1>3. CASE pc' = "io"
  <2>1. WinSeekFile /\ fpos' = first /\ first' = first /\ first \in Nat
    BY <1>3 DEF WinGetSectorSize, Activate, WinReopen, WinSeekFile, WinSeekOk,
       WinBase, TypeOK
  <2>2. Written' = {}
    BY <2>1 DEF Written
  <2>3. WinDirtyPat' /\ Synced' /\ kind' # "chr"
    BY <1>0, <1>3, CleanSame DEF WinWriteInv, WinDirtyPat, Synced, Pat
  <2>4. WinDirtyNew' /\ WinNothingLost' /\ InCells'
    BY <2>2 DEF WinDirtyNew, WinNothingLost, InCells
  <2> QED
    BY <2>3, <2>4 DEF WinWriteInv
<1> QED
  BY <1>2, <1>3

LEMMA WinWriteReadChunk == WinBase /\ WinWriteInv /\ WinReadChunk => WinWriteInv'
<1> SUFFICES ASSUME WinBase, WinWriteInv, WinReadChunk PROVE WinWriteInv'
  OBVIOUS
<1>1. op' = "verify"
  BY DEF WinReadChunk, Others, argVars
<1>2. UNCHANGED <<kind, dirty>> /\ \A q \in DOMAIN cache : cache'[q] = cache[q]
  <2>1. ASSUME NEW n, ReadOk(n)
        PROVE  /\ UNCHANGED <<kind, dirty>>
               /\ \A q \in DOMAIN cache : cache'[q] = cache[q]
    BY <2>1 DEF ReadOk, Content
  <2>2. CASE WinReadFails
    BY <2>2 DEF WinReadFails, ReadFails
  <2> QED
    BY <2>1, <2>2 DEF WinReadChunk, ReadSome
<1>3. dirty \subseteq DOMAIN cache
  BY DEF WinBase, TypeOK, IoTypeOK
<1> QED
  BY <1>1, <1>2, <1>3, WinNotWriting DEF Writing

\* write_finalize() until the file is closed.
LEMMA WinWriteWriteFinalize ==
  WinBase /\ WinWriteInv /\ WriteFinalize => WinWriteInv'
<1> SUFFICES ASSUME WinBase, WinWriteInv, WriteFinalize PROVE WinWriteInv'
  OBVIOUS
<1>1. pc = "sync" /\ UNCHANGED <<op, round, first, late>>
  BY DEF WriteFinalize, Others, argVars, runVars
<1>2. CASE SyncOk /\ pc' = "close" /\ UNCHANGED res
  <2>1. UNCHANGED <<kind, fpos, medium, cache, dirty, wbErr>>
    BY <1>2 DEF SyncOk, ioVars
  <2>2. Writing' => Writing
    BY <1>1, <1>2 DEF Writing
  <2>3. op = "write" => dirty = {} /\ ~wbErr
    <3>1. op = "write" => handle = "write"
      BY <1>1 DEF WinBase, InWriteLoop, Book, HandleInv, Mode
    <3> QED
      BY <1>2, <3>1 DEF SyncOk, Flushed, Flushes, WinWriteInv
  <2>4. Synced'
    BY <1>1, <1>2, <2>1, <2>3 DEF Synced
  <2> QED
    BY <1>1, <2>1, <2>2, <2>4, WinWriteCalm
<1>3. CASE SyncFails /\ pc' = "drop" /\ res' = Failed(res)
  <2>1. ~Writing' /\ ~(op' = "write" /\ res' = "ok")
    BY <1>3 DEF Writing, Failed
  <2>2. UNCHANGED <<kind, cache, dirty>>
    BY <1>3 DEF SyncFails
  <2> QED
    BY <2>1, <2>2, WinNotWriting
<1> QED
  BY <1>2, <1>3 DEF WriteFinalize

LEMMA WinWriteEnd ==
  ASSUME WinBase, WinWriteInv, WinFinalize \/ WinDropFile PROVE WinWriteInv'
<1>1. UNCHANGED <<op, round, first, late, rots>>
      /\ pc' \in {"drop", "idle", "dead"} /\ pc \in {"close", "drop"}
  BY DEF WinFinalize, WinDropFile, Others, argVars, runVars
<1>2. TypeOK /\ (pc = "close" /\ op = "write" => handle = "write")
  BY DEF WinBase, InWriteLoop, Book, HandleInv, Mode
<1>3. CASE pc = "drop" /\ handle = "none" /\ UNCHANGED <<ioVars, res>>
  <2>1. UNCHANGED <<kind, fpos, medium, cache, dirty, wbErr, handle>>
    BY <1>3 DEF ioVars
  <2>2. (Writing' => Writing) /\ Synced'
    BY <1>1, <1>3, <2>1 DEF Writing, WinWriteInv, Synced
  <2> QED
    BY <1>1, <2>1, <2>2, WinWriteCalm
<1>4. CASE \E ok \in BOOLEAN :
             /\ WinCloseFile(ok)
             /\ handle # "none" \/ pc = "close"
             /\ res' = (IF pc = "close" /\ ~ok THEN Failed(res) ELSE res)
  <2>1. PICK ok \in BOOLEAN :
             /\ WinCloseFile(ok)
             /\ handle # "none" \/ pc = "close"
             /\ res' = (IF pc = "close" /\ ~ok THEN Failed(res) ELSE res)
    BY <1>4
  <2>2. /\ IoTypeOK' /\ handle' = "none"
        /\ UNCHANGED <<kind, medium, dirty, fpos>>
        /\ \A p \in DOMAIN cache' : cache'[p] = cache[p]
        /\ ok => WinFlushed(handle)
    BY <1>1, <1>2, <2>1, WinCloseFileEffect
  <2>3. \A q \in dirty : cache'[q] = cache[q]
    BY <2>2 DEF IoTypeOK
  <2>4. CASE op = "write" /\ res' = "ok"
    <3>1. pc = "close" /\ ok /\ res = "ok" /\ handle = "write"
      BY <1>1, <1>2, <2>1, <2>4 DEF Failed, WinWriteInv, Synced
    <3>2. dirty = {} /\ ~wbErr
      BY <2>2, <3>1 DEF WinFlushed
    <3>3. ~wbErr'
      BY <2>1, <3>1, <3>2 DEF WinCloseFile, WinDropCachesOk, WinCloseOk, Closed
    <3>4. wbErr' = wbErr
      <4>1. wbErr \in BOOLEAN /\ wbErr' \in BOOLEAN
        BY <1>2, <2>2 DEF TypeOK, IoTypeOK
      <4> QED
        BY <3>2, <3>3, <4>1, Zenon
    <3>5. (Writing' => Writing) /\ Synced'
      BY <1>1, <2>2, <2>4, <3>1, <3>2, <3>3 DEF Writing, Synced
    <3> QED
      BY <1>1, <2>2, <2>3, <3>4, <3>5, WinWriteCalm
  <2>5. CASE ~(op = "write" /\ res' = "ok")
    BY <1>1, <2>2, <2>3, <2>5, WinNotWriting DEF Writing
  <2> QED
    BY <2>4, <2>5
<1> QED
  BY <1>1, <1>3, <1>4 DEF WinFinalize, WinDropFile

LEMMA WinWriteNext == WinBase /\ WinWriteInv /\ [WinNext]_vars => WinWriteInv'
<1> SUFFICES ASSUME WinBase, WinWriteInv, [WinNext]_vars PROVE WinWriteInv'
  OBVIOUS
<1>1. CASE UNCHANGED vars \/ Signal
  <2>1. UNCHANGED <<kind, op, round, first, fpos, medium, late, dirty, wbErr,
                    cache, handle, pc, res>>
    BY <1>1 DEF vars, Signal, ioVars, argVars, runVars
  <2>2. (Writing' => Writing) /\ Synced'
    BY <2>1 DEF Writing, WinWriteInv, Synced
  <2> QED
    BY <2>1, <2>2, WinWriteCalm
<1>2. CASE Kill \/ \E o \in {"write", "verify"}, r \in Rounds, s \in Seeks,
                     m \in Sizes : Call(o, r, s, m)
  <2>1. /\ UNCHANGED <<kind, dirty, cache>>
        /\ res' = "none" /\ pc' \in {"idle", "open"}
    BY <1>2 DEF Kill, Call, ioVars
  <2> QED
    BY <2>1, WinNotWriting DEF Writing
<1>3. CASE WinProgram
  BY <1>3, WinWriteBegin, WinWriteWriteChunk, WinWriteWriteFinalize,
     WinWriteReadChunk, WinWriteEnd DEF WinProgram
<1> QED
  BY <1>1, <1>2, <1>3, WinWriteEnvironment DEF WinNext, Terminated

\* On Windows write() never reports as written what is not on the medium, but for
\* what shares a block with cells behind the whole cylinders of a raw disk.
THEOREM WinWriteOkDurableHolds == WinSpec => []WinWriteOkDurable
<1>1. Init => WinBase /\ WinWriteInv
  BY WinBaseInit, WinWriteInit
<1>2. WinBase /\ WinWriteInv /\ [WinNext]_vars => WinBase' /\ WinWriteInv'
  BY WinBaseNext, WinWriteNext
<1>3. WinWriteInv => WinWriteOkDurable
  <2> SUFFICES ASSUME WinWriteInv, WroteOk, NEW p \in Written
               PROVE  \/ Raw /\ p >= DiskSize
                      \/ Phys(p) \in late
                      \/ medium[Phys(p)] = Pat(round, p)
                      \/ \E q \in Cells \ {p} :
                           /\ Phys(q) = Phys(p)
                           /\ \/ Raw /\ q >= DiskSize
                              \/ \E r \in Rounds : /\ medium[Phys(p)] = Pat(r, q)
                                                  /\ q \in Written => r = round
    BY DEF WinWriteOkDurable
  <2>1. Writing /\ dirty = {} /\ ~wbErr
    BY DEF WroteOk, Writing, WinWriteInv, Synced
  <2>2. CASE Clean(p)
    <3>1. Safe(p)
      BY <2>1, <2>2 DEF WinWriteInv, WinNothingLost
    <3> QED
      BY <2>1, <3>1 DEF Safe, Overwritten
  <2>3. CASE ~Clean(p)
    <3>1. PICK q \in Cells : Phys(q) = Phys(p) /\ Raw /\ ~(q < DiskSize)
      BY <2>3 DEF Clean
    <3>2. q >= DiskSize
      BY <3>1 DEF Cells
    <3> QED
      BY <3>1, <3>2
  <2> QED
    BY <2>2, <2>3
<1> QED
  BY <1>1, <1>2, <1>3, PTL DEF WinSpec

=============================================================================
