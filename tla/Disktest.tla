------------------------------ MODULE Disktest ------------------------------
(***************************************************************************)
(* Disktest::write and Disktest::verify (disktest-lib/src/disktest.rs),    *)
(* with the DisktestFile they own while they run, on top of RawIo.         *)
(*                                                                         *)
(* A caller calls them one after the other, each time with a new Disktest, *)
(* as main() does (main.rs:111, 117), and a new DisktestFile.  pc is the   *)
(* place in the code: "open", "activate" and "seek" are init(), "io" the   *)
(* loop, "sync" and "close" write_finalize() and verify_finalize(), "drop" *)
(* the end of the call, where the DisktestFile is dropped.  Each action is *)
(* one call of RawIo with what the code does until the next one.  Chunk    *)
(* number k of the generator is the pattern from first + k * Chunk on:     *)
(* that is what Pattern says.                                              *)
(***************************************************************************)
EXTENDS RawIo

CONSTANTS Chunk,      \* cells in a chunk
          Unlimited,  \* Disktest::UNLIMITED, u64::MAX
          Seeks,      \* positions the caller asks for
          Sizes,      \* byte counts the caller asks for
          MaxCalls    \* bound: calls

ASSUME DisktestAssumption ==
  /\ Chunk \in Nat \ {0}
  /\ Unlimited \in Nat /\ Unlimited > Capacity
  /\ Seeks \subseteq Nat
  /\ Sizes \subseteq 0 .. Unlimited
  /\ MaxCalls \in Nat

VARIABLES
  pc,
  \* the call
  op,          \* "write" or "verify"
  round,       \* round_id of the Disktest
  seek, max,   \* its arguments
  first,       \* byte_offset of the activation
  chunks,      \* chunks taken from the generator
  left,        \* bytes_left
  done,        \* bytes_written or bytes_read
  buf,         \* buffer[..read_count] of verify()
  readLen,     \* read_len of verify()
  res,         \* what is or will be returned, "none" before that is known
  \* the DisktestFile
  dropOffset, dropCount,
  \* the abort flag
  abort,
  \* history and bounds
  calls,
  cold,        \* when the call began, no cell of its range was cached and no
               \* cell at all was waiting to be stored
  stored       \* the range a call of write() has reported as written

fileVars == <<dropOffset, dropCount>>
argVars  == <<op, round, seek, max, cold>>
runVars  == <<first, chunks, left, done, buf, readLen>>
vars     == <<ioVars, rots, late, pc, argVars, runVars, res, fileVars, abort,
              calls, stored>>

\* What RawIo's operations leave alone.
Others == UNCHANGED <<rots, late, argVars, abort, calls>>

Min2(a, b) == IF a <= b THEN a ELSE b

RoundDown(off) == off - (off % Chunk)

NoRange == [round |-> -1, lo |-> 0, hi |-> 0]

Init ==
  /\ IoInit
  /\ pc = "idle" /\ op = "write" /\ round = 0 /\ seek = 0 /\ max = 0
  /\ first = 0 /\ chunks = 0 /\ left = 0 /\ done = 0 /\ buf = << >>
  /\ readLen = 0 /\ res = "none"
  /\ dropOffset = 0 /\ dropCount = 0
  /\ abort = FALSE /\ calls = 0 /\ cold = FALSE /\ stored = NoRange

-----------------------------------------------------------------------------
(* The caller, and the signal handlers *)

Call(o, r, s, m) ==
  /\ pc = "idle" /\ calls < MaxCalls
  /\ calls' = calls + 1
  /\ pc' = "open"
  /\ op' = o /\ round' = r /\ seek' = s /\ max' = m
  /\ left' = m /\ done' = 0 /\ first' = RoundDown(s) /\ chunks' = 0
  /\ buf' = << >> /\ readLen' = 0 /\ res' = "none"
  /\ dropOffset' = 0 /\ dropCount' = 0
  /\ late' = {}
  /\ cold' = /\ dirty = {}
             /\ \A p \in DOMAIN cache :
                  p < RoundDown(s) \/ p >= RoundDown(s) + m
  /\ stored' = IF o = "write" THEN NoRange ELSE stored
  /\ UNCHANGED <<ioVars, rots, abort>>

Signal ==
  /\ ~abort
  /\ abort' = TRUE
  /\ UNCHANGED <<ioVars, rots, late, pc, argVars, runVars, res, fileVars,
                 calls, stored>>

\* The process is killed; the next call is one of a new process.
Kill ==
  /\ pc \notin {"idle", "dead"}
  /\ pc' = "idle" /\ res' = "none"
  /\ handle' = "none"
  /\ abort' = FALSE
  /\ UNCHANGED <<kind, len, medium, cache, dirty, wbErr, fpos, errs, rots,
                 late, argVars, runVars, fileVars, calls, stored>>

-----------------------------------------------------------------------------
(* init() *)

\* write() gets a file open for writing, verify() one open for reading.
Mode == IF op = "write" THEN "write" ELSE "read"

\* do_open() forgets what is to be dropped.
DoOpen ==
  /\ Open(Mode)
  /\ dropOffset' = 0 /\ dropCount' = 0

\* get_sector_size(): an error counts as a file without sectors.
GetSectorSize ==
  /\ pc = "open"
  /\ pc' = "activate"
  /\ \/ DoOpen
     \/ OpenFails /\ UNCHANGED fileVars
  /\ Others
  /\ UNCHANGED <<runVars, res, stored>>

\* DtStreamAgg::activate() refuses a sector size that does not divide the
\* chunk size; only a block device has one other than the default.  The streams
\* of a fresh Disktest are not active, so no stop() of a worker, which can hang
\* (StopReturns of Stream), is part of it.
Activate ==
  /\ pc = "activate"
  /\ \/ /\ pc' = "seek"
        /\ first' = RoundDown(seek) /\ chunks' = 0
        /\ UNCHANGED <<res, errs>>
     \/ /\ kind = "blk" /\ handle # "none"
        /\ Fault
        /\ pc' = "drop" /\ res' = "err"
        /\ UNCHANGED <<first, chunks>>
  /\ Others
  /\ UNCHANGED <<kind, len, medium, cache, dirty, wbErr, handle, fpos, left,
                 done, buf, readLen, fileVars, stored>>

\* DisktestFile::seek(): nothing is written yet, so it does not close first.
Reopen ==
  /\ pc = "seek" /\ handle = "none"
  /\ \/ /\ DoOpen
        /\ UNCHANGED <<pc, res>>
     \/ /\ OpenFails
        /\ pc' = "drop" /\ res' = "err"
        /\ UNCHANGED fileVars
  /\ Others
  /\ UNCHANGED <<runVars, stored>>

SeekFile ==
  /\ pc = "seek" /\ handle # "none"
  /\ \/ /\ SeekOk(first)
        /\ dropOffset' = first /\ dropCount' = 0
        /\ pc' = "io"
        /\ readLen' = Min2(Chunk, left)
        /\ UNCHANGED res
     \/ /\ SeekFails(first)
        /\ pc' = "drop" /\ res' = "err"
        /\ UNCHANGED <<readLen, fileVars>>
  /\ Others
  /\ UNCHANGED <<first, chunks, left, done, buf, stored>>

-----------------------------------------------------------------------------
(* write() *)

\* The chunk the generator delivers next.
ChunkData == [i \in 0 .. Chunk - 1 |-> Pat(round, first + chunks * Chunk + i)]

\* Mutants: only the chunk written last counts; nothing counts.
CountDrop_Last(n) == dropCount' = n

CountDrop_None(n) == UNCHANGED dropCount

\* DisktestFile::write() counts the whole buffer, unless write() fails.
CountDrop(n) == dropCount' = dropCount + n

\* The loop: one chunk, then the accounting, the end and the abort flag.
WriteChunk ==
  LET n == Min2(Chunk, left)
  IN
  /\ pc = "io" /\ op = "write"
  /\ chunks' = chunks + 1
  /\ \/ /\ WriteOk(ChunkData, n)
        /\ CountDrop(n)
        /\ done' = done + n /\ left' = left - n
        /\ \/ left = n /\ pc' = "sync" /\ res' = "ok"
           \/ left # n /\ abort /\ pc' = "sync" /\ res' = "aborted"
           \/ left # n /\ ~abort /\ UNCHANGED <<pc, res>>
     \/ /\ WriteEnospc(ChunkData, n)
        /\ CountDrop(n)
        /\ pc' = "sync"
        /\ res' = IF max = Unlimited THEN "ok" ELSE "enospc"
        /\ UNCHANGED <<done, left>>
     \/ /\ WriteFails(ChunkData, n)
        /\ pc' = "sync" /\ res' = "err"
        /\ UNCHANGED <<dropCount, done, left>>
  /\ Others
  /\ UNCHANGED <<first, buf, readLen, dropOffset, stored>>

\* Mutant: the error is ignored on all paths.
Failed_Ignored(r) == r

\* What a call that was to return r returns after an error in finalize; on
\* the error paths that error is ignored.
Failed(r) == IF r = "ok" THEN "err" ELSE r

\* write_finalize() until it closes the file.  A failed sync() ends it.
WriteFinalize ==
  /\ pc = "sync"
  /\ \/ SyncOk /\ pc' = "close" /\ UNCHANGED res
     \/ SyncFails /\ pc' = "drop" /\ res' = Failed(res)
  /\ Others
  /\ UNCHANGED <<runVars, fileVars, stored>>

-----------------------------------------------------------------------------
(* verify() *)

\* Mutant: the buffer is offered from its start after a short read.
Want_All == readLen

\* The rest of the buffer, which read() is to fill.
Want == readLen - Len(buf)

\* Mutant: only the start of the chunk is compared.
Mismatch_First(b) == b # << >> /\ b[1] # ChunkData[0]

\* buffer[..read_count] != chunk[..read_count]
Mismatch(b) == \E i \in 1 .. Len(b) : b[i] # ChunkData[i - 1]

\* Mutants: a short read is compared at once; the end of the file is ignored.
Compares_Always(b, n) == b # << >>

Compares_Full(b, n) == Len(b) = readLen

\* The buffer is compared when it is full, and at the end of the file when
\* there is something in it.
Compares(b, n) == Len(b) = readLen \/ (b # << >> /\ n = 0)

\* Mutant: verify() does not stop at the end of the file.
AtEnd_Left(l, n) == l = 0

\* verify() is through when all is read that was asked for, or a read()
\* returned nothing.
AtEnd(l, n) == l = 0 \/ n = 0

\* After a read(): the end, the abort flag, or the next read().
Continue(end) ==
  \/ end /\ pc' = "close" /\ res' = "ok"
  \/ ~end /\ abort /\ pc' = "close" /\ res' = "aborted"
  \/ ~end /\ ~abort /\ UNCHANGED <<pc, res>>

\* A read() of n cells leaves b in the buffer.
ReadSome(n, b) ==
  /\ ReadOk(n)
  /\ \/ /\ ~Compares(b, n)
        /\ buf' = b
        /\ Continue(AtEnd(left, n))
        /\ UNCHANGED <<chunks, left, done, readLen>>
     \/ /\ Compares(b, n) /\ ~Mismatch(b)
        /\ chunks' = chunks + 1
        /\ done' = done + Len(b) /\ left' = left - Len(b)
        /\ buf' = << >> /\ readLen' = Min2(Chunk, left - Len(b))
        /\ Continue(AtEnd(left - Len(b), n))
     \/ /\ Compares(b, n) /\ Mismatch(b)
        /\ chunks' = chunks + 1
        /\ buf' = b
        /\ pc' = "close" /\ res' = "mismatch"
        /\ UNCHANGED <<left, done, readLen>>

\* The loop: one read(), the comparison, the accounting, the end and the
\* abort flag.
ReadChunk ==
  /\ pc = "io" /\ op = "verify"
  /\ \/ \E n \in Readable(Want) :
          ReadSome(n, buf \o [i \in 1 .. n |-> Content(fpos + i - 1)])
     \/ /\ ReadFails
        /\ pc' = "close" /\ res' = "err"
        /\ UNCHANGED <<chunks, left, done, buf, readLen>>
  /\ Others
  /\ UNCHANGED <<first, fileVars, stored>>

-----------------------------------------------------------------------------
(* DisktestFile::close(), and the end of the call *)

CloseFile(ok) ==
  /\ dropOffset' = dropOffset + dropCount
  /\ dropCount' = 0
  /\ IF dropCount > 0
     THEN IF ok THEN DropCachesOk(dropOffset, dropCount) ELSE DropCachesFails
     ELSE IF ok THEN CloseOk ELSE CloseFails

Finalize ==
  /\ pc = "close"
  /\ pc' = "drop"
  /\ \/ CloseFile(TRUE) /\ UNCHANGED res
     \/ CloseFile(FALSE) /\ res' = Failed(res)
  /\ stored' = IF op = "write" /\ res' = "ok"
               THEN [round |-> round, lo |-> first, hi |-> fpos]
               ELSE stored
  /\ Others
  /\ UNCHANGED runVars

\* Drop for DisktestFile closes what is still open; if that fails, it panics,
\* which aborts the process.
DropFile ==
  /\ pc = "drop"
  /\ \/ /\ handle = "none"
        /\ pc' = "idle"
        /\ UNCHANGED <<ioVars, fileVars>>
     \/ /\ handle # "none"
        /\ CloseFile(TRUE)
        /\ pc' = "idle"
     \/ /\ handle # "none"
        /\ CloseFile(FALSE)
        /\ pc' = "dead"
  /\ Others
  /\ UNCHANGED <<runVars, res, stored>>

-----------------------------------------------------------------------------

Program ==
  \/ GetSectorSize \/ Activate \/ Reopen \/ SeekFile
  \/ WriteChunk \/ WriteFinalize \/ ReadChunk
  \/ Finalize \/ DropFile

Environment ==
  /\ Kernel
  /\ UNCHANGED <<pc, argVars, runVars, res, fileVars, abort, calls, stored>>

Terminated ==
  /\ pc = "dead" \/ (pc = "idle" /\ calls = MaxCalls)
  /\ UNCHANGED vars

Next ==
  \/ \E o \in {"write", "verify"}, r \in Rounds, s \in Seeks, m \in Sizes :
       Call(o, r, s, m)
  \/ Signal
  \/ Kill
  \/ Program
  \/ Environment
  \/ Terminated

\* The program goes on, and the kernel writes back what is dirty.
Fairness ==
  /\ WF_vars(Program)
  /\ \A p \in Cells : WF_vars(Writeback(p) /\ Environment)

Spec == Init /\ [][Next]_vars

FairSpec == Spec /\ Fairness

-----------------------------------------------------------------------------
(* Properties *)

TypeOK ==
  /\ IoTypeOK
  /\ pc \in {"idle", "open", "activate", "seek", "io", "sync", "close",
             "drop", "dead"}
  /\ op \in {"write", "verify"}
  /\ round \in Rounds \cup {0}
  /\ seek \in Nat /\ max \in 0 .. Unlimited
  /\ first \in Nat /\ chunks \in Nat
  /\ left \in 0 .. Unlimited /\ done \in 0 .. Unlimited
  /\ buf \in Seq(Contents) /\ Len(buf) <= Chunk
  /\ readLen \in 0 .. Chunk
  /\ res \in {"none", "ok", "err", "enospc", "aborted", "mismatch"}
  /\ dropOffset \in Nat /\ dropCount \in Nat
  /\ abort \in BOOLEAN
  /\ calls \in 0 .. MaxCalls
  /\ cold \in BOOLEAN

WroteOk    == pc = "idle" /\ op = "write"  /\ res = "ok"
VerifiedOk == pc = "idle" /\ op = "verify" /\ res = "ok"

\* The cells the last call of write() has put data into.
Written == first .. fpos - 1

\* When write() returns Ok, all it has written is on the medium, but for what
\* a fake medium has overwritten with the data of another cell: a store that
\* failed is never overlooked, though the kernel reports it only once.
WriteOkDurable ==
  WroteOk =>
    \A p \in Written :
      \/ Phys(p) \in late
      \/ medium[Phys(p)] = Pat(round, p)
      \/ \E q \in Cells \ {p}, r \in Rounds :
           /\ Phys(q) = Phys(p) /\ medium[Phys(p)] = Pat(r, q)
           /\ q \in Written => r = round

\* When write() returns Ok, nothing it has written is in RAM: "subsequent
\* reads are not read from RAM cache" (disktest-rawio/src/lib.rs:40).
ColdAfterWrite == WroteOk => DOMAIN cache \cap Written = {}

\* When verify() returns Ok(n) and the cache was cold, the medium did hold the
\* pattern in all the n cells.
VerifySound ==
  VerifiedOk /\ cold =>
    \A p \in first .. first + done - 1 :
      Phys(p) \in late \/ medium[Phys(p)] = Pat(round, p)

\* The range of the last verify() lies in the range written before.
VerifiesStored ==
  op = "verify" /\ stored.round = round /\ stored.lo <= first

\* Written and verified, a medium that pretends to be larger than it is never
\* passes (README.md:17).
FakeDetected ==
  VerifiedOk /\ VerifiesStored /\ first + done <= stored.hi => done <= Real

\* On a medium that keeps what it stores, data that write() has reported as
\* written is never reported as a mismatch.
NoFalseMismatch ==
  pc = "idle" /\ VerifiesStored /\ fpos <= stored.hi /\ rots = 0 /\ Real = Capacity
    => res # "mismatch"

\* Ok means all of the request: write() has filled exactly the range, or the
\* disk if there was no limit; verify() has compared all that was asked for,
\* or up to the end.
OkMeansComplete ==
  /\ WroteOk => IF max = Unlimited THEN fpos >= Capacity
                                   ELSE fpos - first = max /\ done = max
  /\ VerifiedOk => done = max \/ first + done >= len

\* Every call of write() and verify() of a fresh Disktest returns, or the process
\* ends, whatever errors, short reads and ends of the disk it meets.  A Disktest
\* that is used again stops its workers in activate() (stream.rs:267), and one
\* that is dropped after the call does, too (stream.rs:330): both can hang by the
\* lost wake-up of StopReturns, and neither is part of this call.
CallReturns == pc # "idle" ~> pc \in {"idle", "dead"}

=============================================================================
