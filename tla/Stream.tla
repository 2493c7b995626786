------------------------------- MODULE Stream -------------------------------
(***************************************************************************)
(* One DtStream (disktest-lib/src/stream.rs): the main thread's side, the  *)
(* worker thread it spawns, and what they share -- the mpsc channel, the   *)
(* atomics abort, error and level, and the flag `sleeping` with its        *)
(* mutex and condition variable.                                           *)
(*                                                                         *)
(* A step is one access to shared state, so every interleaving of the two  *)
(* threads at that grain is a behaviour.  `sleeping` is only read or       *)
(* written under its mutex and the critical sections touch nothing else,   *)
(* so each of them is one step and the mutex itself is not a variable.     *)
(* A poisoned mutex cannot be seen: the crate is built with panic=abort.   *)
(*                                                                         *)
(* The user of the stream is the loop DtStreamAgg::wait_chunk around       *)
(* get_chunk: it calls again until it has a chunk or an error.             *)
(***************************************************************************)
EXTENDS Integers, Sequences

CONSTANTS MaxThres,        \* DtStream::MAX_THRES
          LoThres,         \* DtStream::LO_THRES
          BaseSize,        \* bytes in one base block of the generator
          ChunkFactor,     \* base blocks in one chunk
          Offsets,         \* byte offsets activate() is called with
          MaxActivations,  \* bound: calls of activate()
          MaxTaken         \* bound: chunks the user asks for per activation

ASSUME StreamAssumption ==
  /\ MaxThres \in Nat \ {0}
  /\ LoThres \in Nat /\ LoThres < MaxThres
  /\ BaseSize \in Nat \ {0}
  /\ ChunkFactor \in Nat \ {0}
  /\ Offsets \subseteq Nat
  /\ MaxActivations \in Nat
  /\ MaxTaken \in Nat

VARIABLES
  \* the main thread
  mpc,          \* where it is: see MainPC
  dropping,     \* stop() was called by drop(), not by activate()
  isActive,     \* DtStream.is_active
  rx,           \* the receiving end of the channel exists
  chunk,        \* position of the chunk received last
  result,       \* how the last wait for a chunk ended
  \* the worker thread
  wpc,          \* where it is: see WorkerPC
  curLevel,     \* its local cur_level
  pos,          \* the generator: position of the next chunk it computes
  \* shared by both
  abort, error, level, sleeping,
  queue,        \* the channel, as the positions of the chunks in it
  \* history and bounds
  start,        \* offset of the current activation
  taken,        \* chunks received in the current activation
  activations   \* calls of activate()

mainVars   == <<mpc, dropping, isActive, rx, chunk, result>>
workerVars == <<wpc, curLevel, pos>>
sharedVars == <<abort, error, level, sleeping, queue>>
histVars   == <<start, taken, activations>>
vars       == <<mainVars, workerVars, sharedVars, histVars>>

-----------------------------------------------------------------------------

ChunkSize == BaseSize * ChunkFactor

\* NextRandom::seek of both generators refuses any other offset.
Seekable(off) == off % BaseSize = 0

ChunkPos(off, k) == off + k * ChunkSize

MainPC == {"idle", "stopWake", "stopJoin", "start", "check", "recv", "sub",
           "wake", "dropped"}

\* "none": no thread exists; "waiting": in Condvar::wait; "woken": the wait
\* returned and `sleeping` is read again; "done": the thread has returned.
WorkerPC == {"none", "seek", "load", "loop", "send", "count", "lock",
             "waiting", "woken", "done"}

Init ==
  /\ mpc = "idle" /\ dropping = FALSE /\ isActive = FALSE /\ rx = FALSE
  /\ chunk = 0 /\ result = "none"
  /\ wpc = "none" /\ curLevel = 0 /\ pos = 0
  /\ abort = FALSE /\ error = FALSE /\ level = 0 /\ sleeping = FALSE
  /\ queue = <<>>
  /\ start = 0 /\ taken = 0 /\ activations = 0

-----------------------------------------------------------------------------
(* The main thread *)

\* wake_thread(): under the mutex, clear the flag and notify the worker.
WakeThread ==
  \/ /\ sleeping
     /\ sleeping' = FALSE
     /\ wpc' = IF wpc = "waiting" THEN "woken" ELSE wpc
  \/ /\ ~sleeping
     /\ UNCHANGED <<sleeping, wpc>>

\* stop(), up to the store to abort.
StopBegin ==
  /\ isActive' = FALSE
  /\ abort' = TRUE
  /\ mpc' = "stopWake"
  /\ UNCHANGED <<rx, chunk, result, workerVars, error, level, sleeping, queue,
                 start, taken>>

\* activate(): stop(), then start().
Activate ==
  /\ mpc = "idle"
  /\ activations < MaxActivations
  /\ activations' = activations + 1
  /\ dropping' = FALSE
  /\ StopBegin

\* Drop for DtStream: stop().
Drop ==
  /\ mpc = "idle"
  /\ dropping' = TRUE
  /\ UNCHANGED activations
  /\ StopBegin

StopWake ==
  /\ mpc = "stopWake"
  /\ WakeThread
  /\ mpc' = "stopJoin"
  /\ UNCHANGED <<dropping, isActive, rx, chunk, result, curLevel, pos, abort,
                 error, level, queue, histVars>>

\* Mutant: stop() does not wait for the thread.
StopJoin_NoWait ==
  /\ mpc = "stopJoin"
  /\ abort' = FALSE
  /\ mpc' = IF dropping THEN "dropped" ELSE "start"
  /\ rx' = (rx /\ ~dropping)
  /\ UNCHANGED <<dropping, isActive, chunk, result, workerVars, error, level,
                 sleeping, queue, histVars>>

\* The end of stop(): join the thread, if there is one, and reset abort.
\* A dropped stream drops its receiver afterwards.
StopJoin ==
  /\ mpc = "stopJoin"
  /\ wpc \in {"none", "done"}
  /\ wpc' = "none"
  /\ abort' = FALSE
  /\ mpc' = IF dropping THEN "dropped" ELSE "start"
  /\ rx' = (rx /\ ~dropping)
  /\ UNCHANGED <<dropping, isActive, chunk, result, curLevel, pos, error,
                 level, sleeping, queue, histVars>>

\* Mutant: start() keeps the level of the activation before.
Start_KeepLevel(off) ==
  /\ mpc = "start"
  /\ mpc' = "idle"
  /\ isActive' = TRUE
  /\ rx' = TRUE
  /\ abort' = FALSE /\ error' = FALSE /\ queue' = <<>>
  /\ wpc' = "seek" /\ pos' = off
  /\ start' = off /\ taken' = 0
  /\ UNCHANGED <<dropping, chunk, result, curLevel, sleeping, level,
                 activations>>

\* start(): reset the shared state, make a new channel, spawn the worker.
\* No other thread of the stream exists here, so this is one step.
Start(off) ==
  /\ mpc = "start"
  /\ mpc' = "idle"
  /\ isActive' = TRUE
  /\ rx' = TRUE
  /\ abort' = FALSE /\ error' = FALSE /\ level' = 0 /\ queue' = <<>>
  /\ wpc' = "seek" /\ pos' = off
  /\ start' = off /\ taken' = 0
  /\ UNCHANGED <<dropping, chunk, result, curLevel, sleeping, activations>>

\* DtStreamAgg::wait_chunk is only called on an active stream.
WaitChunk ==
  /\ mpc = "idle"
  /\ isActive
  /\ taken < MaxTaken
  /\ mpc' = "check"
  /\ result' = "none"
  /\ UNCHANGED <<dropping, isActive, rx, chunk, workerVars, sharedVars,
                 histVars>>

\* get_chunk(): has the thread failed?
CheckError ==
  /\ mpc = "check"
  /\ \/ /\ error
        /\ mpc' = "idle"
        /\ result' = "error"
     \/ /\ ~error
        /\ mpc' = "recv"
        /\ UNCHANGED result
  /\ UNCHANGED <<dropping, isActive, rx, chunk, workerVars, sharedVars,
                 histVars>>

\* Mutants: an empty queue does not wake the worker; the newest chunk is
\* taken instead of the oldest.
TryRecv_NoWake ==
  /\ mpc = "recv"
  /\ \/ /\ queue = <<>>
        /\ mpc' = "check"
        /\ UNCHANGED <<queue, chunk, taken, wpc, sleeping>>
     \/ /\ queue # <<>>
        /\ mpc' = "sub"
        /\ chunk' = Head(queue)
        /\ queue' = Tail(queue)
        /\ taken' = taken + 1
        /\ UNCHANGED <<wpc, sleeping>>
  /\ UNCHANGED <<dropping, isActive, rx, result, curLevel, pos, abort, error,
                 level, start, activations>>

TryRecv_Newest ==
  /\ mpc = "recv"
  /\ \/ /\ queue = <<>>
        /\ mpc' = "wake"
        /\ UNCHANGED <<queue, chunk, taken>>
     \/ /\ queue # <<>>
        /\ mpc' = "sub"
        /\ chunk' = queue[Len(queue)]
        /\ queue' = SubSeq(queue, 1, Len(queue) - 1)
        /\ taken' = taken + 1
  /\ UNCHANGED <<dropping, isActive, rx, result, workerVars, abort, error,
                 level, sleeping, start, activations>>

\* get_chunk(): rx.try_recv().
TryRecv ==
  /\ mpc = "recv"
  /\ \/ /\ queue = <<>>
        /\ mpc' = "wake"
        /\ UNCHANGED <<queue, chunk, taken>>
     \/ /\ queue # <<>>
        /\ mpc' = "sub"
        /\ chunk' = Head(queue)
        /\ queue' = Tail(queue)
        /\ taken' = taken + 1
  /\ UNCHANGED <<dropping, isActive, rx, result, workerVars, abort, error,
                 level, sleeping, start, activations>>

\* get_chunk(): level.fetch_sub(1), and a wake-up at the low watermark.
FetchSub ==
  /\ mpc = "sub"
  /\ level' = level - 1
  /\ mpc' = IF level - 1 <= LoThres THEN "wake" ELSE "idle"
  /\ result' = "chunk"
  /\ UNCHANGED <<dropping, isActive, rx, chunk, workerVars, abort, error,
                 sleeping, queue, histVars>>

\* get_chunk(): wake_thread() and return.  Without a chunk wait_chunk() sleeps
\* for a millisecond and calls get_chunk() again.
WakeInGet ==
  /\ mpc = "wake"
  /\ WakeThread
  /\ mpc' = IF result = "chunk" THEN "idle" ELSE "check"
  /\ UNCHANGED <<dropping, isActive, rx, chunk, result, curLevel, pos, abort,
                 error, level, queue, histVars>>

-----------------------------------------------------------------------------
(* The worker thread: thread_worker() *)

\* Mutant: the error of the seek is dropped.
WorkerSeek_Ignore ==
  /\ wpc = "seek"
  /\ wpc' = "load"
  /\ UNCHANGED <<mainVars, curLevel, pos, sharedVars, histVars>>

\* Make the generator and seek it; a failed seek raises `error` and ends.
WorkerSeek ==
  /\ wpc = "seek"
  /\ \/ /\ Seekable(pos)
        /\ wpc' = "load"
        /\ UNCHANGED error
     \/ /\ ~Seekable(pos)
        /\ wpc' = "done"
        /\ error' = TRUE
  /\ UNCHANGED <<mainVars, curLevel, pos, abort, level, sleeping, queue,
                 histVars>>

\* cur_level = level.load(), before the loop and after a sleep.
LoadLevel ==
  /\ wpc = "load"
  /\ curLevel' = level
  /\ wpc' = "loop"
  /\ UNCHANGED <<mainVars, pos, sharedVars, histVars>>

\* Mutant: the worker also computes a chunk when the buffer is just full.
LoopHead_OffByOne ==
  /\ wpc = "loop"
  /\ wpc' = IF abort THEN "done"
            ELSE IF curLevel <= MaxThres THEN "send" ELSE "lock"
  /\ UNCHANGED <<mainVars, curLevel, pos, sharedVars, histVars>>

\* The loop condition, then the test of the local level.
LoopHead ==
  /\ wpc = "loop"
  /\ wpc' = IF abort THEN "done"
            ELSE IF curLevel < MaxThres THEN "send" ELSE "lock"
  /\ UNCHANGED <<mainVars, curLevel, pos, sharedVars, histVars>>

\* Compute a chunk and send it; the generator moves on by one chunk.
SendChunk ==
  /\ wpc = "send"
  /\ queue' = Append(queue, pos)
  /\ pos' = pos + ChunkSize
  /\ wpc' = "count"
  /\ UNCHANGED <<mainVars, curLevel, abort, error, level, sleeping, histVars>>

\* cur_level = level.fetch_add(1) + 1.
CountChunk ==
  /\ wpc = "count"
  /\ level' = level + 1
  /\ curLevel' = level + 1
  /\ wpc' = "loop"
  /\ UNCHANGED <<mainVars, pos, abort, error, sleeping, queue, histVars>>

\* The buffer is full: set the flag and wait, which releases the mutex.
Sleep ==
  /\ wpc = "lock"
  /\ sleeping' = TRUE
  /\ wpc' = "waiting"
  /\ UNCHANGED <<mainVars, curLevel, pos, abort, error, level, queue, histVars>>

\* Condvar::wait may return without a notification.
Spurious ==
  /\ wpc = "waiting"
  /\ wpc' = "woken"
  /\ UNCHANGED <<mainVars, curLevel, pos, sharedVars, histVars>>

\* Back from the wait, with the mutex: `while *sleeping`.
Woken ==
  /\ wpc = "woken"
  /\ wpc' = IF sleeping THEN "waiting" ELSE "load"
  /\ UNCHANGED <<mainVars, curLevel, pos, sharedVars, histVars>>

\* A dropped stream stays as it is.
Terminated ==
  /\ mpc = "dropped"
  /\ UNCHANGED vars

-----------------------------------------------------------------------------

MainStep ==
  \/ StopWake \/ StopJoin
  \/ \E off \in Offsets : Start(off)
  \/ CheckError \/ TryRecv \/ FetchSub \/ WakeInGet

WorkerStep ==
  \/ WorkerSeek \/ LoadLevel \/ LoopHead \/ SendChunk \/ CountChunk
  \/ Sleep \/ Woken

Next ==
  \/ Activate \/ Drop \/ WaitChunk
  \/ MainStep
  \/ WorkerStep
  \/ Spurious
  \/ Terminated

Spec == Init /\ [][Next]_vars

\* Both threads are scheduled.  Nothing obliges the user to make a call, and
\* no wait is obliged to return without a notification.
FairSpec == Spec /\ WF_vars(MainStep) /\ WF_vars(WorkerStep)

-----------------------------------------------------------------------------
(* Properties *)

\* The variables stay in their types; the level may be -1 for a moment, when
\* the main thread takes a chunk off before the worker has counted it.
TypeOK ==
  /\ mpc \in MainPC /\ wpc \in WorkerPC
  /\ dropping \in BOOLEAN /\ isActive \in BOOLEAN /\ rx \in BOOLEAN
  /\ abort \in BOOLEAN /\ error \in BOOLEAN /\ sleeping \in BOOLEAN
  /\ chunk \in Nat /\ pos \in Nat /\ start \in Nat
  /\ result \in {"none", "chunk", "error"}
  /\ curLevel \in -1 .. MaxThres /\ level \in -1 .. MaxThres
  /\ queue \in Seq(Nat)
  /\ taken \in Nat
  /\ activations \in 0 .. MaxActivations

One(b) == IF b THEN 1 ELSE 0

\* The atomic `level`, updated by both threads after the channel operation it
\* counts, is off from the length of the channel by exactly the updates that
\* are still to be made.  It has no meaning between an activation's stop()
\* and its start(), or after a drop.
LevelAccounting ==
  wpc # "none" =>
    level = Len(queue) + One(mpc = "sub") - One(wpc = "count")

\* MAX_THRES is "Maximum number of chunks that the thread will compute in
\* advance" (stream.rs:158), though the worker decides on a stale copy of the
\* level: the chunk it is about to send is counted here.
QueueBounded == Len(queue) + One(wpc = "send") <= MaxThres

\* Whatever the interleaving, and however often the stream was activated
\* before, the user gets the chunks of the current activation, all of them
\* and in their order, and the queue holds the ones that come next.
DeliveredInOrder ==
  wpc # "none" =>
    /\ taken > 0 => chunk = ChunkPos(start, taken - 1)
    /\ \A i \in 1 .. Len(queue) : queue[i] = ChunkPos(start, taken + i - 1)
    /\ pos = ChunkPos(start, taken + Len(queue))

\* tx.send(..).expect("Worker thread: Send failed.") does not panic (and, with
\* panic=abort, does not end the process): the receiver outlives the worker.
SendNeverFails == wpc = "send" => rx

\* A call of wait_chunk() ends, with a chunk or with the error of the worker.
\* Wake-ups are lost when the worker is between its test of the level and the
\* mutex; the polling of an empty queue is what makes up for them.
WaitReturns == mpc = "check" ~> mpc = "idle"

\* stop() ends: "Stop the worker thread." (stream.rs:201).
StopReturns == mpc = "stopJoin" ~> mpc # "stopJoin"

\* The stream, its worker and the channel together are a ChunkSource.
Phase == IF wpc = "none" THEN "off" ELSE IF error THEN "failed" ELSE "on"

Src == INSTANCE ChunkSource
  WITH phase <- Phase, first <- start, ahead <- Len(queue), taken <- taken,
       last <- chunk

\* Every behaviour of the two threads is one of the abstract source.
ImplementsSource == Src!Spec

=============================================================================
