-------------------------- MODULE DisktestWindows --------------------------
(***************************************************************************)
(* Disktest::write and Disktest::verify on Windows: the program of         *)
(* Disktest with the operations of RawIoWindows.  The caller, signals,     *)
(* activate(), sync() and the comparison are the same actions.             *)
(***************************************************************************)
EXTENDS Disktest, RawIoWindows

WinGetSectorSize ==
  /\ pc = "open"
  /\ pc' = "activate"
  /\ \/ DoOpen
     \/ WinOpenFails(Mode) /\ UNCHANGED fileVars
  /\ Others
  /\ UNCHANGED <<runVars, res, stored>>

WinReopen ==
  /\ pc = "seek" /\ handle = "none"
  /\ \/ /\ DoOpen
        /\ UNCHANGED <<pc, res>>
     \/ /\ WinOpenFails(Mode)
        /\ pc' = "drop" /\ res' = "err"
        /\ UNCHANGED fileVars
  /\ Others
  /\ UNCHANGED <<runVars, stored>>

WinSeekFile ==
  /\ pc = "seek" /\ handle # "none"
  /\ \/ /\ WinSeekOk(first)
        /\ dropOffset' = first /\ dropCount' = 0
        /\ pc' = "io"
        /\ readLen' = Min2(Chunk, left)
        /\ UNCHANGED res
     \/ /\ WinSeekFails(first)
        /\ pc' = "drop" /\ res' = "err"
        /\ UNCHANGED <<readLen, fileVars>>
  /\ Others
  /\ UNCHANGED <<first, chunks, left, done, buf, stored>>

\* The loop of write() does not look at the number of bytes written.
WinWriteChunk ==
  LET n == Min2(Chunk, left)
  IN
  /\ pc = "io" /\ op = "write"
  /\ chunks' = chunks + 1
  /\ \/ /\ WriteOk(ChunkData, n) \/ WinWriteShort(ChunkData, n)
        /\ CountDrop(n)
        /\ done' = done + n /\ left' = left - n
        /\ \/ left = n /\ pc' = "sync" /\ res' = "ok"
           \/ left # n /\ abort /\ pc' = "sync" /\ res' = "aborted"
           \/ left # n /\ ~abort /\ UNCHANGED <<pc, res>>
     \/ /\ WinWriteEnospc(ChunkData, n)
        /\ CountDrop(n)
        /\ pc' = "sync"
        /\ res' = IF max = Unlimited THEN "ok" ELSE "enospc"
        /\ UNCHANGED <<done, left>>
     \/ /\ WinWriteFails(ChunkData, n)
        /\ pc' = "sync" /\ res' = "err"
        /\ UNCHANGED <<dropCount, done, left>>
  /\ Others
  /\ UNCHANGED <<first, buf, readLen, dropOffset, stored>>

WinReadChunk ==
  /\ pc = "io" /\ op = "verify"
  /\ \/ \E n \in WinReadable(Want) :
          ReadSome(n, buf \o [i \in 1 .. n |-> Content(fpos + i - 1)])
     \/ /\ WinReadFails
        /\ pc' = "close" /\ res' = "err"
        /\ UNCHANGED <<chunks, left, done, buf, readLen>>
  /\ Others
  /\ UNCHANGED <<first, fileVars, stored>>

WinCloseFile(ok) ==
  /\ dropOffset' = dropOffset + dropCount
  /\ dropCount' = 0
  /\ IF dropCount > 0
     THEN IF ok THEN WinDropCachesOk ELSE WinDropCachesFails
     ELSE IF ok THEN WinCloseOk ELSE WinCloseFails

WinFinalize ==
  /\ pc = "close"
  /\ pc' = "drop"
  /\ \/ WinCloseFile(TRUE) /\ UNCHANGED res
     \/ WinCloseFile(FALSE) /\ res' = Failed(res)
  /\ stored' = IF op = "write" /\ res' = "ok"
               THEN [round |-> round, lo |-> first, hi |-> fpos]
               ELSE stored
  /\ Others
  /\ UNCHANGED runVars

WinDropFile ==
  /\ pc = "drop"
  /\ \/ /\ handle = "none"
        /\ pc' = "idle"
        /\ UNCHANGED <<ioVars, fileVars>>
     \/ handle # "none" /\ WinCloseFile(TRUE)  /\ pc' = "idle"
     \/ handle # "none" /\ WinCloseFile(FALSE) /\ pc' = "dead"
  /\ Others
  /\ UNCHANGED <<runVars, res, stored>>

WinProgram ==
  \/ WinGetSectorSize \/ Activate \/ WinReopen \/ WinSeekFile
  \/ WinWriteChunk \/ WriteFinalize \/ WinReadChunk
  \/ WinFinalize \/ WinDropFile

WinNext ==
  \/ \E o \in {"write", "verify"}, r \in Rounds, s \in Seeks, m \in Sizes :
       Call(o, r, s, m)
  \/ Signal
  \/ Kill
  \/ WinProgram
  \/ Environment
  \/ Terminated

WinSpec == Init /\ [][WinNext]_vars

WinFairSpec == WinSpec /\ WF_vars(WinProgram)
                       /\ \A p \in Cells : WF_vars(Writeback(p) /\ Environment)

-----------------------------------------------------------------------------
(* Properties, next to those of Disktest *)

\* What is left of WriteOkDurable: of a raw disk it is only the whole cylinders
\* that hold what was written.  A failure behind them is taken for the end of the
\* disk though there may be more of it, and what is written after that lies at a
\* wrong place.
WinWriteOkDurable ==
  WroteOk =>
    \A p \in Written :
      \/ Raw /\ p >= DiskSize
      \/ Phys(p) \in late
      \/ medium[Phys(p)] = Pat(round, p)
      \/ \E q \in Cells \ {p} :
           /\ Phys(q) = Phys(p)
           /\ \/ Raw /\ q >= DiskSize
              \/ \E r \in Rounds : /\ medium[Phys(p)] = Pat(r, q)
                                  /\ q \in Written => r = round

\* When write() returns Ok, all of the request is written, or the disk is full;
\* when verify() does, all of it is read or the disk ends.  This is less than
\* OkMeansComplete says, which does not hold here: a short write is taken for a
\* whole one, and a failure behind the last whole cylinder for the end.
OkFillsDisk ==
  LET End == IF Raw THEN DiskSize ELSE Capacity - Chunk + 1
  IN
  /\ WroteOk => fpos - first = max \/ fpos >= End
  /\ VerifiedOk => done = max \/ first + done >= (IF Raw THEN DiskSize ELSE len)

\* Every call of write() and verify() of a fresh Disktest returns on Windows,
\* too: at the end of a disk that was reached by a short write there is ENOSPC.
\* As for CallReturns, a Disktest that is used again can hang in activate().
WinCallReturns == pc # "idle" ~> pc \in {"idle", "dead"}

=============================================================================
