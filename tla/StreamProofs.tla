---------------------------- MODULE StreamProofs ----------------------------
(***************************************************************************)
(* Proofs about Stream, for every buffer size, chunk size, set of offsets  *)
(* and number of activations.                                              *)
(***************************************************************************)
EXTENDS Stream, SequenceTheorems, TLAPS

\* The worker's pcs between a seek that succeeded and its return.
Running == {"load", "loop", "send", "count", "lock", "waiting", "woken"}

\* Which thread is where: get_chunk() is only executed while there is a worker,
\* start() only while there is none.
Control ==
  /\ mpc \in {"check", "recv", "sub", "wake"} => isActive
  /\ mpc \in {"stopWake", "stopJoin", "start", "dropped"} => ~isActive
  /\ mpc \in {"start", "dropped"} => wpc = "none"
  /\ isActive => wpc # "none"
  /\ wpc # "none" => rx

\* A chunk that was taken off but still counts is part of the bound, and the
\* copy of the level the worker decides on is never too small.
Room ==
  /\ wpc # "none" =>
       Len(queue) + One(mpc = "sub") + One(wpc = "send") <= MaxThres
  /\ wpc = "loop" => level <= curLevel

\* Until it has sought the generator the worker has sent nothing, and it sends
\* nothing at all if that fails.
SeekOutcome ==
  /\ wpc = "seek" => ~error /\ taken = 0 /\ queue = <<>>
  /\ wpc \in Running => ~error /\ Seekable(start)
  /\ wpc # "none" /\ error => queue = <<>>

IInv ==
  /\ TypeOK
  /\ LevelAccounting
  /\ QueueBounded
  /\ DeliveredInOrder
  /\ Control
  /\ Room
  /\ SeekOutcome

-----------------------------------------------------------------------------

LEMMA ChunkSizeType == ChunkSize \in Nat
  BY StreamAssumption DEF ChunkSize

LEMMA ChunkPosStep ==
  ASSUME NEW off \in Nat, NEW k \in Nat
  PROVE  /\ ChunkPos(off, k) \in Nat
         /\ ChunkPos(off, 0) = off
         /\ ChunkPos(off, k + 1) = ChunkPos(off, k) + ChunkSize
<1> DEFINE c == ChunkSize
<1>1. c \in Nat
  BY ChunkSizeType
<1> HIDE DEF c
<1>2. k * c \in Nat /\ 0 * c = 0 /\ (k + 1) * c = k * c + c
  BY <1>1
<1> QED
  BY <1>1, <1>2 DEF ChunkPos, c

\* A wake-up only moves a worker from its wait to the test after the wait.
LEMMA WakeEffect ==
  ASSUME TypeOK, WakeThread
  PROVE  /\ sleeping' \in BOOLEAN
         /\ wpc' \in WorkerPC
         /\ wpc' = wpc \/ (wpc = "waiting" /\ wpc' = "woken")
  BY DEF TypeOK, WakeThread, WorkerPC

LEMMA InitIInv == Init => IInv
<1> SUFFICES ASSUME Init PROVE IInv
  OBVIOUS
<1> USE DEF Init, One
<1>1. TypeOK
  <2>1. queue \in Seq(Nat)
    BY EmptySeq
  <2>2. activations \in 0 .. MaxActivations
    BY StreamAssumption
  <2>3. curLevel \in -1 .. MaxThres /\ level \in -1 .. MaxThres
    BY StreamAssumption
  <2> QED
    BY <2>1, <2>2, <2>3 DEF TypeOK, MainPC, WorkerPC
<1>2. LevelAccounting /\ QueueBounded /\ DeliveredInOrder
  BY StreamAssumption DEF LevelAccounting, QueueBounded, DeliveredInOrder
<1>3. Control /\ Room /\ SeekOutcome
  BY DEF Control, Room, SeekOutcome, Running
<1> QED
  BY <1>1, <1>2, <1>3 DEF IInv

-----------------------------------------------------------------------------
(* The steps that leave the channel and the generator alone *)

\* Everything about the positions of the chunks is as before.
Positions == <<queue, chunk, pos, start, taken>>

LEMMA OrderKept ==
  ASSUME DeliveredInOrder, UNCHANGED Positions, wpc' # "none" => wpc # "none"
  PROVE  DeliveredInOrder'
  BY DEF DeliveredInOrder, Positions, ChunkPos

LEMMA MainSteps ==
  ASSUME IInv,
         Activate \/ Drop \/ StopWake \/ StopJoin \/ WaitChunk \/ CheckError
           \/ FetchSub \/ WakeInGet
  PROVE  IInv'
<1> USE StreamAssumption DEF IInv, One
<1>1. CASE Activate
  <2> USE <1>1 DEF Activate, StopBegin
  <2>1. TypeOK'
    <3>1. activations' \in 0 .. MaxActivations
      BY DEF TypeOK
    <3> QED
      BY <3>1 DEF TypeOK, MainPC, workerVars
  <2>2. DeliveredInOrder'
    BY OrderKept DEF Positions, workerVars
  <2>3. LevelAccounting' /\ QueueBounded' /\ Room'
    BY DEF TypeOK, LevelAccounting, QueueBounded, Room, workerVars
  <2>4. Control' /\ SeekOutcome'
    BY DEF Control, SeekOutcome, Running, Seekable, workerVars
  <2> QED
    BY <2>1, <2>2, <2>3, <2>4
<1>2. CASE Drop
  <2> USE <1>2 DEF Drop, StopBegin
  <2>1. TypeOK'
    BY DEF TypeOK, MainPC, workerVars
  <2>2. DeliveredInOrder'
    BY OrderKept DEF Positions, workerVars
  <2>3. LevelAccounting' /\ QueueBounded' /\ Room'
    BY DEF TypeOK, LevelAccounting, QueueBounded, Room, workerVars
  <2>4. Control' /\ SeekOutcome'
    BY DEF Control, SeekOutcome, Running, Seekable, workerVars
  <2> QED
    BY <2>1, <2>2, <2>3, <2>4
<1>3. CASE StopWake
  <2> USE <1>3 DEF StopWake, histVars
  <2>0. sleeping' \in BOOLEAN /\ wpc' \in WorkerPC
        /\ (wpc' = wpc \/ (wpc = "waiting" /\ wpc' = "woken"))
    BY WakeEffect
  <2>1. TypeOK'
    BY <2>0 DEF TypeOK, MainPC
  <2>2. DeliveredInOrder'
    BY <2>0, OrderKept DEF Positions
  <2>3. LevelAccounting' /\ QueueBounded' /\ Room'
    BY <2>0 DEF TypeOK, LevelAccounting, QueueBounded, Room
  <2>4. Control' /\ SeekOutcome'
    BY <2>0 DEF Control, SeekOutcome, Running, Seekable
  <2> QED
    BY <2>1, <2>2, <2>3, <2>4
<1>4. CASE StopJoin
  <2> USE <1>4 DEF StopJoin, histVars
  <2>1. TypeOK'
    BY DEF TypeOK, MainPC, WorkerPC
  <2>2. DeliveredInOrder'
    BY DEF DeliveredInOrder
  <2>3. LevelAccounting' /\ QueueBounded' /\ Room'
    BY DEF TypeOK, LevelAccounting, QueueBounded, Room
  <2>4. Control' /\ SeekOutcome'
    BY DEF Control, SeekOutcome, Running, Seekable
  <2> QED
    BY <2>1, <2>2, <2>3, <2>4
<1>5. CASE WaitChunk
  <2> USE <1>5 DEF WaitChunk, workerVars, sharedVars, histVars
  <2>1. TypeOK'
    BY DEF TypeOK, MainPC
  <2>2. DeliveredInOrder'
    BY OrderKept DEF Positions
  <2>3. LevelAccounting' /\ QueueBounded' /\ Room'
    BY DEF TypeOK, LevelAccounting, QueueBounded, Room
  <2>4. Control' /\ SeekOutcome'
    BY DEF Control, SeekOutcome, Running, Seekable
  <2> QED
    BY <2>1, <2>2, <2>3, <2>4
<1>6. CASE CheckError
  <2> USE <1>6 DEF CheckError, workerVars, sharedVars, histVars
  <2>1. TypeOK'
    BY DEF TypeOK, MainPC
  <2>2. DeliveredInOrder'
    BY OrderKept DEF Positions
  <2>3. LevelAccounting' /\ QueueBounded' /\ Room'
    BY DEF TypeOK, LevelAccounting, QueueBounded, Room
  <2>4. Control' /\ SeekOutcome'
    BY DEF Control, SeekOutcome, Running, Seekable
  <2> QED
    BY <2>1, <2>2, <2>3, <2>4
<1>7. CASE FetchSub
  <2> USE <1>7 DEF FetchSub, workerVars, histVars
  <2>1. level' \in -1 .. MaxThres
    BY LenProperties DEF TypeOK, LevelAccounting, Control
  <2>2. TypeOK'
    BY <2>1 DEF TypeOK, MainPC
  <2>3. DeliveredInOrder'
    BY OrderKept DEF Positions
  <2>4. LevelAccounting' /\ QueueBounded' /\ Room'
    BY DEF TypeOK, LevelAccounting, QueueBounded, Room
  <2>5. Control' /\ SeekOutcome'
    BY DEF Control, SeekOutcome, Running, Seekable
  <2> QED
    BY <2>2, <2>3, <2>4, <2>5
<1>8. CASE WakeInGet
  <2> USE <1>8 DEF WakeInGet, histVars
  <2>0. sleeping' \in BOOLEAN /\ wpc' \in WorkerPC
        /\ (wpc' = wpc \/ (wpc = "waiting" /\ wpc' = "woken"))
    BY WakeEffect
  <2>1. TypeOK'
    BY <2>0 DEF TypeOK, MainPC
  <2>2. DeliveredInOrder'
    BY <2>0, OrderKept DEF Positions
  <2>3. LevelAccounting' /\ QueueBounded' /\ Room'
    BY <2>0 DEF TypeOK, LevelAccounting, QueueBounded, Room
  <2>4. Control' /\ SeekOutcome'
    BY <2>0 DEF Control, SeekOutcome, Running, Seekable
  <2> QED
    BY <2>1, <2>2, <2>3, <2>4
<1> QED
  BY <1>1, <1>2, <1>3, <1>4, <1>5, <1>6, <1>7, <1>8

-----------------------------------------------------------------------------
(* The steps that reset, empty or fill the channel *)

LEMMA StartStep ==
  ASSUME IInv, NEW off \in Offsets, Start(off)
  PROVE  IInv'
<1> USE StreamAssumption DEF IInv, One, Start
<1>1. off \in Nat
  OBVIOUS
<1>2. queue' \in Seq(Nat) /\ Len(queue') = 0
  BY EmptySeq
<1>3. TypeOK'
  <2>1. 0 \in -1 .. MaxThres
    OBVIOUS
  <2>2. level' \in -1 .. MaxThres
    BY <2>1
  <2> QED
    BY <1>1, <1>2, <2>2 DEF TypeOK, MainPC, WorkerPC
<1>4. DeliveredInOrder'
  <2>1. ChunkPos(off, 0) = off
    BY <1>1, ChunkPosStep
  <2> QED
    BY <1>2, <2>1 DEF DeliveredInOrder, ChunkPos
<1>5. LevelAccounting' /\ QueueBounded' /\ Room'
  BY <1>2 DEF LevelAccounting, QueueBounded, Room
<1>6. Control' /\ SeekOutcome'
  BY DEF Control, SeekOutcome, Running
<1> QED
  BY <1>3, <1>4, <1>5, <1>6

LEMMA TryRecvStep ==
  ASSUME IInv, TryRecv
  PROVE  IInv'
<1> USE StreamAssumption DEF IInv, One, TryRecv, workerVars
<1>1. CASE queue = <<>>
  <2> USE <1>1
  <2>1. TypeOK'
    BY DEF TypeOK, MainPC
  <2>2. DeliveredInOrder'
    BY OrderKept DEF Positions
  <2>3. LevelAccounting' /\ QueueBounded' /\ Room'
    BY DEF TypeOK, LevelAccounting, QueueBounded, Room
  <2>4. Control' /\ SeekOutcome'
    BY DEF Control, SeekOutcome, Running, Seekable
  <2> QED
    BY <2>1, <2>2, <2>3, <2>4
<1>2. CASE queue # <<>>
  <2> USE <1>2
  <2>1. /\ queue \in Seq(Nat)
        /\ Len(queue) \in Nat /\ Len(queue) > 0
        /\ Head(queue) = queue[1] /\ Head(queue) \in Nat
        /\ Tail(queue) \in Seq(Nat)
        /\ Len(Tail(queue)) = Len(queue) - 1
        /\ \A i \in 1 .. Len(Tail(queue)) : Tail(queue)[i] = queue[i + 1]
    BY HeadTailProperties, EmptySeq, LenProperties, ElementOfSeq DEF TypeOK
  <2>2. wpc # "none" /\ isActive
    BY DEF Control
  <2>3. TypeOK'
    <3>1. mpc' \in MainPC
      BY DEF MainPC
    <3>2. chunk' \in Nat /\ queue' \in Seq(Nat)
      BY <2>1
    <3>3. taken' \in Nat
      <4>1. taken \in Nat /\ taken' = taken + 1
        BY DEF TypeOK
      <4> QED
        BY <4>1
    <3>4. UNCHANGED <<wpc, dropping, isActive, rx, abort, error, sleeping, pos,
                      start, result, curLevel, level, activations>>
      OBVIOUS
    <3> HIDE <1>2 DEF TryRecv
    <3> QED
      BY <3>1, <3>2, <3>3, <3>4 DEF TypeOK
  <2>4. DeliveredInOrder'
    <3>1. queue[1] = ChunkPos(start, taken)
      BY <2>1, <2>2 DEF DeliveredInOrder, TypeOK
    <3>2. chunk' = ChunkPos(start, taken' - 1)
      BY <2>1, <3>1 DEF TypeOK
    <3>3. ASSUME NEW i \in 1 .. Len(queue')
          PROVE  queue'[i] = ChunkPos(start, taken' + i - 1)
      <4>1. i + 1 \in 1 .. Len(queue)
        BY <2>1
      <4>2. queue[i + 1] = ChunkPos(start, taken + (i + 1) - 1)
        BY <2>2, <4>1 DEF DeliveredInOrder
      <4>3. taken + (i + 1) - 1 = taken' + i - 1
        BY DEF TypeOK
      <4> QED
        BY <2>1, <4>2, <4>3
    <3>4. taken' + Len(queue') = taken + Len(queue)
      BY <2>1 DEF TypeOK
    <3>5. pos = ChunkPos(start, taken' + Len(queue'))
      BY <2>2, <3>4 DEF DeliveredInOrder
    <3> QED
      BY <3>2, <3>3, <3>5 DEF DeliveredInOrder, ChunkPos
  <2>5. LevelAccounting' /\ QueueBounded' /\ Room'
    <3>1. /\ mpc = "recv" /\ mpc' = "sub"
          /\ Len(queue) \in Nat
          /\ Len(queue') = Len(queue) - 1
          /\ wpc' = wpc /\ level' = level /\ curLevel' = curLevel
      BY <2>1
    <3> HIDE <1>2 DEF TryRecv
    <3>2. LevelAccounting'
      BY <2>2, <3>1 DEF TypeOK, LevelAccounting
    <3>3. QueueBounded' /\ Room'
      BY <2>2, <3>1 DEF TypeOK, QueueBounded, Room
    <3> QED
      BY <3>2, <3>3
  <2>6. Control' /\ SeekOutcome'
    BY <2>2 DEF Control, SeekOutcome, Running, Seekable
  <2> QED
    BY <2>3, <2>4, <2>5, <2>6
<1> QED
  BY <1>1, <1>2

LEMMA SendChunkStep ==
  ASSUME IInv, SendChunk
  PROVE  IInv'
<1> USE StreamAssumption DEF IInv, One, SendChunk, mainVars, histVars
<1>1. /\ queue' \in Seq(Nat)
      /\ Len(queue) \in Nat
      /\ Len(queue') = Len(queue) + 1
      /\ \A i \in 1 .. Len(queue) : queue'[i] = queue[i]
      /\ queue'[Len(queue) + 1] = pos
  BY AppendProperties, LenProperties DEF TypeOK
<1>2. pos = ChunkPos(start, taken + Len(queue)) /\ taken + Len(queue) \in Nat
  BY <1>1 DEF DeliveredInOrder, TypeOK
<1>3. /\ pos' \in Nat
      /\ pos' = ChunkPos(start, taken + Len(queue) + 1)
  BY <1>2, ChunkPosStep, ChunkSizeType DEF TypeOK
<1>4. TypeOK'
  BY <1>1, <1>3 DEF TypeOK, WorkerPC
<1>5. DeliveredInOrder'
  <2>1. taken' > 0 => chunk' = ChunkPos(start', taken' - 1)
    BY DEF DeliveredInOrder
  <2>2. ASSUME NEW i \in 1 .. Len(queue')
        PROVE  queue'[i] = ChunkPos(start, taken + i - 1)
    <3>1. CASE i \in 1 .. Len(queue)
      BY <1>1, <3>1 DEF DeliveredInOrder
    <3>2. CASE i = Len(queue) + 1
      <4>1. taken + i - 1 = taken + Len(queue)
        BY <1>1, <3>2 DEF TypeOK
      <4> QED
        BY <1>1, <1>2, <3>2, <4>1
    <3> QED
      BY <1>1, <3>1, <3>2
  <2>3. taken + Len(queue') = taken + Len(queue) + 1
    BY <1>1 DEF TypeOK
  <2>4. pos' = ChunkPos(start, taken + Len(queue'))
    BY <1>3, <2>3
  <2> QED
    BY <2>1, <2>2, <2>4 DEF DeliveredInOrder, ChunkPos
<1>6. LevelAccounting' /\ QueueBounded' /\ Room'
  BY <1>1 DEF TypeOK, LevelAccounting, QueueBounded, Room
<1>7. Control' /\ SeekOutcome'
  BY DEF Control, SeekOutcome, Running, Seekable
<1> QED
  BY <1>4, <1>5, <1>6, <1>7

-----------------------------------------------------------------------------
(* The other steps of the worker *)

LEMMA WorkerSteps ==
  ASSUME IInv,
         WorkerSeek \/ LoadLevel \/ LoopHead \/ CountChunk \/ Sleep
           \/ Spurious \/ Woken
  PROVE  IInv'
<1> USE StreamAssumption DEF IInv, One
<1>1. CASE WorkerSeek
  <2> USE <1>1 DEF WorkerSeek, mainVars, sharedVars, histVars
  <2>1. TypeOK'
    BY DEF TypeOK, WorkerPC
  <2>2. DeliveredInOrder'
    BY OrderKept DEF Positions
  <2>3. LevelAccounting' /\ QueueBounded' /\ Room'
    BY DEF TypeOK, LevelAccounting, QueueBounded, Room
  <2>4. pos = start
    <3>1. pos = ChunkPos(start, 0)
      BY EmptySeq DEF SeekOutcome, DeliveredInOrder, TypeOK
    <3> QED
      BY <3>1, ChunkPosStep DEF TypeOK
  <2>5. Control' /\ SeekOutcome'
    BY <2>4 DEF TypeOK, Control, SeekOutcome, Running, Seekable
  <2> QED
    BY <2>1, <2>2, <2>3, <2>5
<1>2. CASE LoadLevel
  <2> USE <1>2 DEF LoadLevel, mainVars, sharedVars, histVars
  <2>1. TypeOK'
    BY DEF TypeOK, WorkerPC
  <2>2. DeliveredInOrder'
    BY OrderKept DEF Positions
  <2>3. LevelAccounting' /\ QueueBounded' /\ Room'
    <3>1. LevelAccounting' /\ QueueBounded'
      BY DEF LevelAccounting, QueueBounded
    <3>2. level <= level
      BY DEF TypeOK
    <3>3. Room'
      BY <3>2 DEF Room
    <3> QED
      BY <3>1, <3>3
  <2>4. Control' /\ SeekOutcome'
    BY DEF Control, SeekOutcome, Running, Seekable
  <2> QED
    BY <2>1, <2>2, <2>3, <2>4
<1>3. CASE LoopHead
  <2> USE <1>3 DEF LoopHead, mainVars, sharedVars, histVars
  <2>1. TypeOK'
    BY DEF TypeOK, WorkerPC
  <2>2. DeliveredInOrder'
    BY OrderKept DEF Positions
  <2>3. LevelAccounting' /\ QueueBounded' /\ Room'
    <3>1. /\ wpc = "loop" /\ level <= curLevel
          /\ level = Len(queue) + One(mpc = "sub")
          /\ Len(queue) \in Nat
      BY LenProperties DEF TypeOK, LevelAccounting, Room
    <3>2. CASE wpc' = "send"
      <4>1. /\ curLevel < MaxThres
            /\ level \in Int /\ curLevel \in Int
            /\ mpc' = mpc /\ level' = level /\ queue' = queue
        BY <3>2 DEF TypeOK
      <4> HIDE <1>3 DEF LoopHead
      <4>2. LevelAccounting'
        BY <3>1, <3>2, <4>1 DEF LevelAccounting
      <4>3. Len(queue) + One(mpc = "sub") + 1 <= MaxThres
        BY <3>1, <4>1
      <4>4. QueueBounded' /\ Room'
        BY <3>1, <3>2, <4>1, <4>3 DEF QueueBounded, Room
      <4> QED
        BY <4>2, <4>4
    <3>3. CASE wpc' \in {"done", "lock"}
      BY <3>1, <3>3 DEF LevelAccounting, QueueBounded, Room
    <3> QED
      BY <3>2, <3>3
  <2>4. Control' /\ SeekOutcome'
    BY DEF Control, SeekOutcome, Running, Seekable
  <2> QED
    BY <2>1, <2>2, <2>3, <2>4
<1>4. CASE CountChunk
  <2> USE <1>4 DEF CountChunk, mainVars, sharedVars, histVars
  <2>0. level + 1 \in -1 .. MaxThres
    BY LenProperties DEF TypeOK, LevelAccounting, Room
  <2>1. TypeOK'
    BY <2>0 DEF TypeOK, WorkerPC
  <2>2. DeliveredInOrder'
    BY OrderKept DEF Positions
  <2>3. LevelAccounting' /\ QueueBounded' /\ Room'
    BY DEF TypeOK, LevelAccounting, QueueBounded, Room
  <2>4. Control' /\ SeekOutcome'
    BY DEF Control, SeekOutcome, Running, Seekable
  <2> QED
    BY <2>1, <2>2, <2>3, <2>4
<1>5. CASE Sleep
  <2> USE <1>5 DEF Sleep, mainVars, sharedVars, histVars
  <2>1. TypeOK'
    BY DEF TypeOK, WorkerPC
  <2>2. DeliveredInOrder'
    BY OrderKept DEF Positions
  <2>3. LevelAccounting' /\ QueueBounded' /\ Room'
    BY DEF TypeOK, LevelAccounting, QueueBounded, Room
  <2>4. Control' /\ SeekOutcome'
    BY DEF Control, SeekOutcome, Running, Seekable
  <2> QED
    BY <2>1, <2>2, <2>3, <2>4
<1>6. CASE Spurious
  <2> USE <1>6 DEF Spurious, mainVars, sharedVars, histVars
  <2>1. TypeOK'
    BY DEF TypeOK, WorkerPC
  <2>2. DeliveredInOrder'
    BY OrderKept DEF Positions
  <2>3. LevelAccounting' /\ QueueBounded' /\ Room'
    BY DEF TypeOK, LevelAccounting, QueueBounded, Room
  <2>4. Control' /\ SeekOutcome'
    BY DEF Control, SeekOutcome, Running, Seekable
  <2> QED
    BY <2>1, <2>2, <2>3, <2>4
<1>7. CASE Woken
  <2> USE <1>7 DEF Woken, mainVars, sharedVars, histVars
  <2>1. TypeOK'
    BY DEF TypeOK, WorkerPC
  <2>2. DeliveredInOrder'
    BY OrderKept DEF Positions
  <2>3. LevelAccounting' /\ QueueBounded' /\ Room'
    BY DEF TypeOK, LevelAccounting, QueueBounded, Room
  <2>4. Control' /\ SeekOutcome'
    BY DEF Control, SeekOutcome, Running, Seekable
  <2> QED
    BY <2>1, <2>2, <2>3, <2>4
<1> QED
  BY <1>1, <1>2, <1>3, <1>4, <1>5, <1>6, <1>7

LEMMA NextIInv == IInv /\ [Next]_vars => IInv'
<1> SUFFICES ASSUME IInv, [Next]_vars PROVE IInv'
  OBVIOUS
<1>1. CASE \E off \in Offsets : Start(off)
  BY <1>1, StartStep
<1>2. CASE TryRecv
  BY <1>2, TryRecvStep
<1>3. CASE SendChunk
  BY <1>3, SendChunkStep
<1>4. CASE Activate \/ Drop \/ StopWake \/ StopJoin \/ WaitChunk \/ CheckError
             \/ FetchSub \/ WakeInGet
  BY <1>4, MainSteps
<1>5. CASE WorkerSeek \/ LoadLevel \/ LoopHead \/ CountChunk \/ Sleep
             \/ Spurious \/ Woken
  BY <1>5, WorkerSteps
<1>6. CASE UNCHANGED vars
  BY <1>6 DEF vars, mainVars, workerVars, sharedVars, histVars, IInv, TypeOK,
              LevelAccounting, QueueBounded, DeliveredInOrder, Control, Room,
              SeekOutcome, One, Running, Seekable, ChunkPos
<1> QED
  BY <1>1, <1>2, <1>3, <1>4, <1>5, <1>6
     DEF Next, MainStep, WorkerStep, Terminated

LEMMA Invariance == Spec => []IInv
  BY InitIInv, NextIInv, PTL DEF Spec

-----------------------------------------------------------------------------
(* The results *)

\* Every variable of the stream keeps its type, in particular the level its
\* worker and its user count together stays between -1 and MAX_THRES.
THEOREM Typing == Spec => []TypeOK
  BY Invariance, PTL DEF IInv

\* The level is the length of the channel but for the updates under way.
THEOREM LevelAccountingHolds == Spec => []LevelAccounting
  BY Invariance, PTL DEF IInv

\* No more than MAX_THRES chunks are computed in advance, stale level or not.
THEOREM QueueBoundedHolds == Spec => []QueueBounded
  BY Invariance, PTL DEF IInv

\* The user gets the chunks of its activation, all and in order.
THEOREM DeliveredInOrderHolds == Spec => []DeliveredInOrder
  BY Invariance, PTL DEF IInv

\* The worker never sends into a channel without a receiver.
THEOREM SendNeverFailsHolds == Spec => []SendNeverFails
<1>1. IInv => SendNeverFails
  BY DEF IInv, Control, SendNeverFails
<1> QED
  BY Invariance, <1>1, PTL

-----------------------------------------------------------------------------
(* Stream implements ChunkSource *)

LEMMA SourceInit == Init => Src!Init
  BY EmptySeq DEF Init, Src!Init, Phase

\* Only these steps change what the source sees; each is a step of its own.
LEMMA OpenStep ==
  ASSUME NEW off \in Offsets, Start(off), Control
  PROVE  Src!Open(off)
  BY EmptySeq DEF Start, Control, Src!Open, Phase

LEMMA CloseStep ==
  ASSUME StopJoin
  PROVE  Src!Close \/ UNCHANGED Src!vars
<1>1. CASE wpc = "none"
  BY <1>1 DEF StopJoin, histVars, Src!vars, Phase
<1>2. CASE wpc = "done"
  BY <1>2 DEF StopJoin, histVars, Src!Close, Phase
<1> QED
  BY <1>1, <1>2 DEF StopJoin

LEMMA ComputeStep ==
  ASSUME IInv, SendChunk
  PROVE  Src!Compute
<1>1. Len(queue') = Len(queue) + 1 /\ Len(queue) \in Nat
  BY AppendProperties, LenProperties DEF IInv, TypeOK, SendChunk
<1>2. Len(queue) < MaxThres
  BY <1>1, StreamAssumption DEF SendChunk, IInv, QueueBounded, One
<1>3. Phase = "on" /\ Phase' = "on" /\ Src!Seekable(start)
  BY DEF SendChunk, Phase, IInv, SeekOutcome, Running, Seekable, Src!Seekable
<1> QED
  BY <1>1, <1>2, <1>3 DEF SendChunk, mainVars, histVars, Src!Compute

LEMMA DeliverStep ==
  ASSUME IInv, TryRecv
  PROVE  Src!Deliver \/ UNCHANGED Src!vars
<1>1. CASE queue = <<>>
  BY <1>1 DEF TryRecv, workerVars, Src!vars, Phase
<1>2. CASE queue # <<>>
  <2>1. /\ Len(queue) \in Nat /\ Len(queue) > 0
        /\ Len(queue') = Len(queue) - 1
        /\ Head(queue) = queue[1]
    BY <1>2, HeadTailProperties, EmptySeq, LenProperties
       DEF IInv, TypeOK, TryRecv
  <2>2. wpc # "none"
    BY DEF TryRecv, IInv, Control
  <2>3. chunk' = ChunkPos(start, taken)
    <3>1. queue[1] = ChunkPos(start, taken + 1 - 1)
      BY <2>1, <2>2 DEF IInv, DeliveredInOrder
    <3> QED
      BY <1>2, <2>1, <3>1 DEF IInv, TypeOK, TryRecv
  <2>4. Phase = "on" /\ Phase' = "on"
    BY <1>2, <2>2 DEF Phase, IInv, SeekOutcome, TryRecv, workerVars
  <2> QED
    BY <1>2, <2>1, <2>3, <2>4
       DEF TryRecv, Src!Deliver, Src!ChunkPos, ChunkPos, Src!ChunkSize,
           ChunkSize
<1> QED
  BY <1>1, <1>2

LEMMA FailStep ==
  ASSUME IInv, WorkerSeek
  PROVE  Src!Fail \/ UNCHANGED Src!vars
<1>1. CASE Seekable(pos)
  BY <1>1 DEF WorkerSeek, mainVars, histVars, Src!vars, Phase
<1>2. CASE ~Seekable(pos)
  <2>1. pos = start
    <3>1. pos = ChunkPos(start, 0)
      BY EmptySeq DEF WorkerSeek, IInv, SeekOutcome, DeliveredInOrder, TypeOK
    <3> QED
      BY <3>1, ChunkPosStep DEF IInv, TypeOK
  <2> QED
    BY <1>2, <2>1 DEF WorkerSeek, mainVars, histVars, Src!Fail, Phase, IInv,
       SeekOutcome, Seekable, Src!Seekable
<1> QED
  BY <1>1, <1>2

LEMMA OtherSteps ==
  ASSUME IInv,
         \/ Activate \/ Drop \/ StopWake \/ WaitChunk \/ CheckError
         \/ FetchSub \/ WakeInGet
         \/ LoadLevel \/ LoopHead \/ CountChunk \/ Sleep \/ Spurious \/ Woken
         \/ UNCHANGED vars
  PROVE  UNCHANGED Src!vars
<1> USE DEF Src!vars, Phase, mainVars, workerVars, sharedVars, histVars
<1>1. CASE Activate \/ Drop
  BY <1>1 DEF Activate, Drop, StopBegin
<1>2. CASE StopWake \/ WakeInGet
  <2>1. (wpc' = "none") <=> (wpc = "none")
    BY <1>2, WakeEffect DEF IInv, StopWake, WakeInGet
  <2> QED
    BY <1>2, <2>1 DEF StopWake, WakeInGet
<1>3. CASE WaitChunk \/ CheckError \/ FetchSub
  BY <1>3 DEF WaitChunk, CheckError, FetchSub
<1>4. CASE LoadLevel \/ LoopHead \/ CountChunk
  BY <1>4 DEF LoadLevel, LoopHead, CountChunk
<1>5. CASE Sleep \/ Spurious \/ Woken
  BY <1>5 DEF Sleep, Spurious, Woken
<1>6. CASE UNCHANGED vars
  BY <1>6 DEF vars
<1> QED
  BY <1>1, <1>2, <1>3, <1>4, <1>5, <1>6

LEMMA SourceNext == IInv /\ [Next]_vars => [Src!Next]_Src!vars
<1> SUFFICES ASSUME IInv, [Next]_vars PROVE [Src!Next]_Src!vars
  OBVIOUS
<1>1. CASE \E off \in Offsets : Start(off)
  BY <1>1, OpenStep DEF IInv, Src!Next
<1>2. CASE StopJoin
  BY <1>2, CloseStep DEF Src!Next
<1>3. CASE SendChunk
  BY <1>3, ComputeStep DEF Src!Next
<1>4. CASE TryRecv
  BY <1>4, DeliverStep DEF Src!Next
<1>5. CASE WorkerSeek
  BY <1>5, FailStep DEF Src!Next
<1>6. CASE \/ Activate \/ Drop \/ StopWake \/ WaitChunk \/ CheckError
           \/ FetchSub \/ WakeInGet
           \/ LoadLevel \/ LoopHead \/ CountChunk \/ Sleep \/ Spurious
           \/ Woken \/ UNCHANGED vars
  BY <1>6, OtherSteps
<1> QED
  BY <1>1, <1>2, <1>3, <1>4, <1>5, <1>6
     DEF Next, MainStep, WorkerStep, Terminated

\* The two threads, whatever their interleaving, behave as one sequential
\* source of chunks: every property of ChunkSource is one of Stream.
THEOREM Refinement == Spec => ImplementsSource
  BY SourceInit, SourceNext, Invariance, PTL DEF Spec, ImplementsSource, Src!Spec

=============================================================================
