-------------------------- MODULE StreamAggProofs --------------------------
(***************************************************************************)
(* Proofs about StreamAgg, for every number of threads, every chunk size,  *)
(* buffer size and set of offsets and sector sizes.                        *)
(***************************************************************************)
EXTENDS StreamAgg, NumberFacts, TLAPS

One(b) == IF b THEN 1 ELSE 0

\* The chunk the activation started with, and the one that comes next.
Base == byteOffset \div ChunkSize
At   == Base + got

\* How many of the first g chunks of the pattern are computed by worker i.
StreamIndex(g, i) == (g \div NumThreads) + One(i < g % NumThreads)

\* The streams that are at the current activation.
Live == {i \in Threads : \/ apc = "idle" /\ isActive
                         \/ apc = "activating" /\ i < nextStream}

\* The aggregator knows where it is.
Indexing ==
  /\ byteOffset = Base * ChunkSize
  /\ cur = At % NumThreads
  /\ apc = "activating" => got = 0 /\ \E off \in Offsets : byteOffset <= off
  /\ held => apc = "idle" /\ isActive /\ giveTo = cur
  /\ ChunkSize % sector = 0

\* Every stream is where the chunks delivered so far have brought it.
Positions ==
  \A i \in Live :
    /\ phase[i] = "on"
    /\ first[i] = StreamIndex(Base, i) * ChunkSize
    /\ ChunkPos(first[i], taken[i]) = StreamIndex(At, i) * ChunkSize

Stopped ==
  /\ apc = "idle" /\ ~isActive => \A i \in Threads : phase[i] = "off"
  /\ \A i \in Threads : phase[i] = "off" => spare[i] = 0

\* The chunk of the current stream is not on its way back yet.
Due(i) == IF i = cur /\ ~held THEN 1 ELSE 0

\* The buffers a worker has allocated are in its channel and its cache, but
\* for the streams the activation began with and goes on with.
Balance ==
  \A i \in Live :
    alloc[i] = (spare[i] + ahead[i] + One(i = Base % NumThreads))
                 - Due(i)

\* What remains of this when a worker is about to be stopped.
Slack == \A i \in Threads : phase[i] = "on" => alloc[i] <= spare[i] + ahead[i] + 1

IInv ==
  /\ TypeOK
  /\ Indexing
  /\ Positions
  /\ Stopped
  /\ SeekNeverFails
  /\ Balance
  /\ Slack
  /\ AllocBounded

-----------------------------------------------------------------------------
(* Arithmetic *)

LEMMA ChunkSizeType == ChunkSize \in Nat /\ ChunkSize > 0
  BY AggAssumption DEF ChunkSize

LEMMA ThreadsType ==
  /\ NumThreads \in Nat /\ NumThreads > 0
  /\ \A g \in Nat : g \div NumThreads \in Nat /\ g % NumThreads \in Threads
<1>1. NumThreads \in Nat /\ NumThreads > 0
  BY AggAssumption
<1> QED
  BY <1>1, DivMod DEF Threads

LEMMA RoundDownFact ==
  ASSUME NEW off \in Nat
  PROVE  /\ RoundDown(off) \in Nat
         /\ RoundDown(off) = (off \div ChunkSize) * ChunkSize
         /\ RoundDown(off) \div ChunkSize = off \div ChunkSize
         /\ off \div ChunkSize \in Nat
         /\ RoundDown(off) <= off
<1>1. /\ off \div ChunkSize \in Nat /\ off % ChunkSize \in 0 .. ChunkSize - 1
      /\ off = (off \div ChunkSize) * ChunkSize + (off % ChunkSize)
  BY ChunkSizeType, DivMod
<1> DEFINE q == off \div ChunkSize
           c == ChunkSize
<1>2. q \in Nat /\ c \in Nat /\ c > 0 /\ q * c \in Nat
  BY <1>1, ChunkSizeType
<1>3. RoundDown(off) = q * c
  <2>1. off - (off % ChunkSize) = q * c
    BY <1>1, <1>2
  <2> QED
    BY <2>1 DEF RoundDown
<1>4. (q * c) \div c = q
  BY <1>2, DivModMultiple
<1>5. q * c <= off
  BY <1>1, <1>2
<1> QED
  BY <1>2, <1>3, <1>4, <1>5

LEMMA StreamIndexType ==
  ASSUME NEW g \in Nat, NEW i \in Threads
  PROVE  StreamIndex(g, i) \in Nat
  BY ThreadsType DEF StreamIndex, One

\* A chunk belongs to one stream, the others stay where they are.
LEMMA StreamIndexStep ==
  ASSUME NEW g \in Nat, NEW i \in Threads
  PROVE  StreamIndex(g + 1, i) = StreamIndex(g, i) + One(i = g % NumThreads)
<1> DEFINE n == NumThreads
           q == g \div n
           r == g % n
<1>1. n \in Nat /\ n > 0 /\ q \in Nat /\ r \in 0 .. n - 1 /\ i \in 0 .. n - 1
  BY ThreadsType DEF Threads
<1>2. CASE r + 1 < n
  <2>1. (g + 1) \div n = q /\ (g + 1) % n = r + 1
    BY <1>1, <1>2, DivModSucc
  <2> HIDE DEF n, q, r
  <2>2. One(i < r + 1) = One(i < r) + One(i = r)
    BY <1>1 DEF One
  <2>3. StreamIndex(g + 1, i) = q + One(i < r + 1)
    BY <2>1 DEF StreamIndex, n
  <2>4. StreamIndex(g, i) = q + One(i < r)
    BY DEF StreamIndex, n, q, r
  <2> QED
    BY <1>1, <2>2, <2>3, <2>4 DEF One, r, n
<1>3. CASE r + 1 = n
  <2>1. (g + 1) \div n = q + 1 /\ (g + 1) % n = 0
    BY <1>1, <1>3, DivModSucc
  <2> HIDE DEF n, q, r
  <2>2. One(i < 0) = 0 /\ One(i < r) + One(i = r) = 1
    BY <1>1, <1>3 DEF One
  <2>3. StreamIndex(g + 1, i) = q + 1 + One(i < 0)
    BY <2>1 DEF StreamIndex, n
  <2>4. StreamIndex(g, i) = q + One(i < r)
    BY DEF StreamIndex, n, q, r
  <2> QED
    BY <1>1, <2>2, <2>3, <2>4 DEF One, r, n
<1> QED
  BY <1>1, <1>2, <1>3

\* No worker is ahead of the disk.
LEMMA StreamIndexBound ==
  ASSUME NEW g \in Nat, NEW i \in Threads
  PROVE  StreamIndex(g, i) * ChunkSize <= g * ChunkSize
<1> DEFINE n == NumThreads
           q == g \div n
           r == g % n
           c == ChunkSize
           s == StreamIndex(g, i)
<1>0. n \in Nat /\ n > 0 /\ i \in 0 .. n - 1
  BY ThreadsType DEF Threads
<1>1. q \in Nat /\ r \in 0 .. n - 1 /\ g = q * n + r
  BY <1>0, DivMod
<1>2. c \in Nat
  BY ChunkSizeType
<1>3. s = q + One(i < r)
  BY DEF StreamIndex
<1> HIDE DEF n, q, r, c, s
<1>4. PICK m \in Nat : n = m + 1
  <2>1. n - 1 \in Nat /\ n = (n - 1) + 1
    BY <1>0
  <2> QED
    BY <2>1
<1>5. q * n = q * m + q /\ q * m >= 0
  BY <1>1, <1>4
<1>6. s \in Nat /\ s <= g
  BY <1>0, <1>1, <1>3, <1>5 DEF One
<1>7. PICK d \in Nat : g = s + d
  <2>1. g - s \in Nat /\ g = s + (g - s)
    BY <1>6
  <2> QED
    BY <2>1
<1>8. g * c = s * c + d * c /\ d * c \in Nat /\ s * c \in Nat
  BY <1>2, <1>6, <1>7
<1>9. s * c <= g * c
  BY <1>8
<1> QED
  BY <1>9 DEF s, c

\* A generator can seek to any whole number of chunks.
LEMMA ChunksSeekable ==
  ASSUME NEW k \in Nat
  PROVE  Seekable(k * ChunkSize)
<1> DEFINE b == BaseSize
           f == ChunkFactor
<1>1. b \in Nat /\ b > 0 /\ f \in Nat
  BY AggAssumption
<1> HIDE DEF b, f
<1>2. k * f \in Nat /\ k * (b * f) = (k * f) * b
  BY <1>1
<1>3. ((k * f) * b) % b = 0
  BY <1>1, <1>2, DivModMultiple
<1> QED
  BY <1>2, <1>3 DEF Seekable, ChunkSize, b, f

LEMMA ChunkPosStep ==
  ASSUME NEW off \in Nat, NEW k \in Nat
  PROVE  /\ ChunkPos(off, k) \in Nat
         /\ ChunkPos(off, 0) = off
         /\ ChunkPos(off, k + 1) = ChunkPos(off, k) + ChunkSize
<1> DEFINE c == ChunkSize
<1>1. c \in Nat
  BY ChunkSizeType
<1> HIDE DEF c
<1>2. k * c \in Nat /\ 0 * c = 0 /\ (k + 1) * c = k * c + c
  BY <1>1
<1> QED
  BY <1>1, <1>2 DEF ChunkPos, c

LEMMA MultipleStep ==
  ASSUME NEW k \in Nat
  PROVE  /\ k * ChunkSize \in Nat
         /\ (k + 1) * ChunkSize = k * ChunkSize + ChunkSize
  BY ChunkSizeType

LEMMA BaseType == TypeOK => Base \in Nat /\ At \in Nat
<1> SUFFICES ASSUME TypeOK PROVE Base \in Nat /\ At \in Nat
  OBVIOUS
<1>1. byteOffset \in Nat /\ got \in Nat
  BY DEF TypeOK
<1>2. Base \in Nat
  BY <1>1, ChunkSizeType, DivMod DEF Base
<1> QED
  BY <1>1, <1>2 DEF At

LEMMA InitIInv == Init => IInv
<1> SUFFICES ASSUME Init PROVE IInv
  OBVIOUS
<1> USE DEF Init
<1>1. TypeOK
  <2>1. /\ 0 \in 0 .. NumThreads /\ 0 \in Threads /\ 0 \in 0 .. MaxThres
        /\ 0 \in 0 .. MaxActivations /\ 0 \in Nat /\ 1 \in Nat \ {0}
    BY AggAssumption DEF Threads
  <2>2. /\ phase \in [Threads -> {"off", "on"}]
        /\ first \in [Threads -> Nat] /\ ahead \in [Threads -> 0 .. MaxThres]
        /\ taken \in [Threads -> Nat] /\ last \in [Threads -> Nat]
        /\ spare \in [Threads -> Nat] /\ alloc \in [Threads -> Nat]
    BY <2>1
  <2> QED
    BY <2>1, <2>2 DEF TypeOK
<1>2. Base = 0 /\ At = 0 /\ 0 * ChunkSize = 0 /\ 0 % NumThreads = 0
  <2>1. /\ 0 * ChunkSize = 0 /\ (0 * ChunkSize) \div ChunkSize = 0
        /\ 0 * NumThreads = 0 /\ (0 * NumThreads) % NumThreads = 0
    BY ChunkSizeType, ThreadsType, DivModMultiple
  <2> QED
    BY <2>1 DEF Base, At
<1>3. ChunkSize % 1 = 0
  BY ChunkSizeType
<1>4. Indexing
  BY <1>2, <1>3 DEF Indexing
<1>5. Live = {}
  BY DEF Live
<1>6. Positions /\ Balance
  BY <1>5 DEF Positions, Balance
<1>7. Stopped /\ SeekNeverFails /\ Slack /\ AllocBounded
  BY AggAssumption DEF Stopped, SeekNeverFails, Slack, AllocBounded
<1> QED
  BY <1>1, <1>4, <1>6, <1>7 DEF IInv

-----------------------------------------------------------------------------
(* activate() *)

LEMMA ActivateBeginStep ==
  ASSUME IInv, NEW off \in Offsets, NEW sec \in SectorSizes,
         ActivateBegin(off, sec)
  PROVE  IInv'
<1> USE DEF ActivateBegin, streamVars, bufVars, IInv
<1>0. off \in Nat /\ sec \in Nat \ {0}
  BY AggAssumption
<1>1. activations' \in 0 .. MaxActivations
  BY AggAssumption DEF TypeOK
<1>2. CASE ~SectorFits(sec)
  <2> USE <1>2
  <2>1. TypeOK'
    BY <1>1 DEF TypeOK
  <2>2. Base' = Base /\ At' = At /\ Live' = Live
    BY DEF Base, At, Live
  <2>3. Indexing'
    BY <2>2 DEF Indexing
  <2>4. Positions' /\ Balance'
    BY <2>2 DEF Positions, Balance, Due, ChunkPos
  <2>5. Stopped' /\ SeekNeverFails' /\ Slack' /\ AllocBounded'
    BY DEF Stopped, SeekNeverFails, Seekable, Slack, AllocBounded
  <2> QED
    BY <2>1, <2>3, <2>4, <2>5
<1>3. CASE SectorFits(sec)
  <2> USE <1>3
  <2>1. /\ byteOffset' \in Nat
        /\ byteOffset' = (off \div ChunkSize) * ChunkSize
        /\ byteOffset' \div ChunkSize = off \div ChunkSize
        /\ off \div ChunkSize \in Nat
        /\ byteOffset' <= off
    BY <1>0, RoundDownFact
  <2>2. cur' \in Threads
    BY <2>1, ThreadsType
  <2>3. TypeOK'
    BY <1>0, <1>1, <2>1, <2>2, ThreadsType DEF TypeOK
  <2>4. Base' = off \div ChunkSize /\ At' = Base'
    BY <2>1 DEF Base, At
  <2>5. Indexing'
    <3>1. byteOffset' = Base' * ChunkSize /\ cur' = At' % NumThreads
      BY <2>1, <2>4
    <3>2. ChunkSize % sector' = 0
      BY DEF SectorFits
    <3> QED
      BY <2>1, <3>1, <3>2 DEF Indexing
  <2>6. Live' = {}
    BY DEF Live, Threads
  <2>7. Positions' /\ Balance'
    BY <2>6 DEF Positions, Balance
  <2>8. Stopped' /\ SeekNeverFails' /\ Slack' /\ AllocBounded'
    BY DEF Stopped, SeekNeverFails, Seekable, Slack, AllocBounded
  <2> QED
    BY <2>3, <2>5, <2>7, <2>8
<1> QED
  BY <1>2, <1>3

LEMMA StopStreamStep ==
  ASSUME IInv, StopStream
  PROVE  IInv'
<1> USE DEF StopStream, aggVars, histVars, IInv
<1>1. nextStream \in Threads
  BY ThreadsType DEF TypeOK, Threads
<1>2. TypeOK'
  BY <1>1 DEF TypeOK
<1>3. Base' = Base /\ At' = At /\ Live' = Live
  BY DEF Base, At, Live
<1>4. \A i \in Live : i # nextStream
  BY ThreadsType DEF Live, TypeOK, Threads
<1>5. Indexing'
  BY <1>3 DEF Indexing
<1>6. \A i \in Live : phase'[i] = phase[i] /\ spare'[i] = spare[i]
  BY <1>4 DEF TypeOK, Live
<1>7. Positions'
  BY <1>3, <1>6 DEF Positions, ChunkPos
<1>8. Balance'
  BY <1>3, <1>6 DEF Balance, Due
<1>9. Stopped' /\ SeekNeverFails' /\ Slack' /\ AllocBounded'
  BY <1>1 DEF TypeOK, Stopped, SeekNeverFails, Seekable, Slack, AllocBounded
<1> QED
  BY <1>2, <1>5, <1>7, <1>8, <1>9

LEMMA StartStreamStep ==
  ASSUME IInv, StartStream
  PROVE  IInv'
<1> USE DEF StartStream, histVars, IInv
<1>1. nextStream \in Threads /\ nextStream \in Nat
  BY ThreadsType DEF TypeOK, Threads
<1>2. Base \in Nat /\ At = Base /\ Base' = Base /\ At' = At
  BY BaseType DEF Base, At, Indexing
<1> DEFINE idx == StreamIndex(Base, nextStream)
<1>3. idx \in Nat /\ idx * ChunkSize \in Nat
  BY <1>1, <1>2, StreamIndexType, MultipleStep
<1>4. ThreadOffset(nextStream) = idx * ChunkSize
  <2>1. cur = Base % NumThreads
    BY <1>2 DEF Indexing
  <2>2. CASE nextStream < cur
    BY <2>1, <2>2 DEF ThreadOffset, StreamIndex, One, Base
  <2>3. CASE ~(nextStream < cur)
    <3>1. Base \div NumThreads \in Nat
      BY <1>2, ThreadsType
    <3>2. (Base \div NumThreads) + 0 = Base \div NumThreads
      BY <3>1
    <3> QED
      BY <2>1, <2>3, <3>2 DEF ThreadOffset, StreamIndex, One, Base
  <2> QED
    BY <2>2, <2>3
<1> HIDE DEF idx
<1>5. /\ first'[nextStream] = idx * ChunkSize
      /\ taken'[nextStream] = 0
      /\ ahead'[nextStream] = 0
      /\ alloc'[nextStream] = 0
      /\ phase'[nextStream] = "on"
      /\ spare'[nextStream] = 0
  BY <1>1, <1>4 DEF TypeOK, Stopped
<1>6. \A i \in Threads : i # nextStream =>
        /\ first'[i] = first[i] /\ taken'[i] = taken[i] /\ ahead'[i] = ahead[i]
        /\ alloc'[i] = alloc[i] /\ phase'[i] = phase[i] /\ spare'[i] = spare[i]
  BY <1>1 DEF TypeOK
<1>7. TypeOK'
  <2>1. first' \in [Threads -> Nat]
    BY <1>1, <1>3, <1>4 DEF TypeOK
  <2>2. ahead' \in [Threads -> 0 .. MaxThres]
    <3>1. 0 \in 0 .. MaxThres
      BY AggAssumption
    <3> QED
      BY <3>1 DEF TypeOK
  <2>3. nextStream' \in 0 .. NumThreads
    BY <1>1, ThreadsType
  <2> QED
    BY <2>1, <2>2, <2>3 DEF TypeOK
<1>8. Live' = Live \cup {nextStream} /\ nextStream \notin Live
  BY <1>1, ThreadsType DEF Live, Threads
<1>9. Indexing'
  BY <1>2 DEF Indexing
<1>10. Positions'
  <2>1. ASSUME NEW i \in Live'
        PROVE  /\ phase'[i] = "on"
               /\ first'[i] = StreamIndex(Base, i) * ChunkSize
               /\ ChunkPos(first'[i], taken'[i]) = StreamIndex(Base, i) * ChunkSize
    <3>1. CASE i = nextStream
      BY <1>3, <1>5, <3>1, ChunkPosStep DEF idx
    <3>2. CASE i \in Live /\ i # nextStream
      BY <1>2, <1>6, <3>2 DEF Positions, Live
    <3> QED
      BY <1>8, <3>1, <3>2
  <2> QED
    BY <1>2, <2>1 DEF Positions, StreamIndex, ChunkPos
<1>11. Balance'
  <2>0. ~held /\ held' = held /\ cur' = cur /\ cur = Base % NumThreads
    BY <1>2 DEF Indexing
  <2>1. ASSUME NEW i \in Live'
        PROVE  alloc'[i] = (spare'[i] + ahead'[i] + One(i = Base % NumThreads))
                             - Due(i)
    <3>1. CASE i = nextStream
      BY <1>5, <2>0, <3>1 DEF One, Due
    <3>2. CASE i \in Live /\ i # nextStream
      BY <1>6, <3>2 DEF Balance, Live
    <3> QED
      BY <1>8, <3>1, <3>2
  <2> QED
    BY <1>2, <2>0, <2>1 DEF Balance, Due
<1>12. SeekNeverFails'
  <2>1. Seekable(first'[nextStream])
    BY <1>3, <1>5, ChunksSeekable
  <2> QED
    BY <1>6, <2>1 DEF SeekNeverFails, Seekable
<1>13. Stopped' /\ Slack' /\ AllocBounded'
  BY <1>5, <1>6, AggAssumption DEF Stopped, Slack, AllocBounded
<1> QED
  BY <1>7, <1>9, <1>10, <1>11, <1>12, <1>13

LEMMA ActivateEndStep ==
  ASSUME IInv, ActivateEnd
  PROVE  IInv'
<1> USE DEF ActivateEnd, streamVars, bufVars, histVars, IInv
<1>1. TypeOK'
  BY DEF TypeOK
<1>2. Base' = Base /\ At' = At
  BY DEF Base, At
<1>3. Live' = Live
  BY ThreadsType DEF Live, Threads
<1>4. Indexing'
  BY <1>2 DEF Indexing
<1>5. Positions' /\ Balance'
  BY <1>2, <1>3 DEF Positions, Balance, Due, ChunkPos
<1>6. Stopped' /\ SeekNeverFails' /\ Slack' /\ AllocBounded'
  BY DEF Stopped, SeekNeverFails, Seekable, Slack, AllocBounded
<1> QED
  BY <1>1, <1>4, <1>5, <1>6

-----------------------------------------------------------------------------
(* Chunks *)

LEMMA ComputeStep ==
  ASSUME IInv, NEW i \in Threads, Compute(i)
  PROVE  IInv'
<1> USE DEF Compute, aggVars, histVars, IInv
<1>1. /\ ahead[i] \in Nat /\ ahead[i] < MaxThres
      /\ spare[i] \in Nat /\ alloc[i] \in Nat
      /\ ahead'[i] = ahead[i] + 1
      /\ \/ spare[i] > 0 /\ spare'[i] = spare[i] - 1 /\ alloc'[i] = alloc[i]
         \/ spare[i] = 0 /\ spare'[i] = 0 /\ alloc'[i] = alloc[i] + 1
  BY DEF TypeOK
<1>2. \A j \in Threads : j # i =>
        ahead'[j] = ahead[j] /\ spare'[j] = spare[j] /\ alloc'[j] = alloc[j]
  BY DEF TypeOK
<1>3. TypeOK'
  <2>1. ahead[i] + 1 \in 0 .. MaxThres
    BY <1>1, AggAssumption
  <2>2. ahead' \in [Threads -> 0 .. MaxThres]
    BY <2>1 DEF TypeOK
  <2>3. spare' \in [Threads -> Nat] /\ alloc' \in [Threads -> Nat]
    BY DEF TypeOK
  <2> QED
    BY <2>2, <2>3 DEF TypeOK
<1>4. Base' = Base /\ At' = At /\ Live' = Live
  BY DEF Base, At, Live
<1>5. Indexing'
  BY <1>4 DEF Indexing
<1>6. Positions'
  BY <1>4 DEF Positions, ChunkPos
<1>7. Balance'
  <2>1. ASSUME NEW j \in Live
        PROVE  alloc'[j] = (spare'[j] + ahead'[j] + One(j = Base % NumThreads))
                             - Due(j)
    <3>0. alloc[j] = (spare[j] + ahead[j] + One(j = Base % NumThreads))
                       - Due(j)
      BY DEF Balance, Due
    <3>1. CASE j = i
      BY <1>1, <3>0, <3>1 DEF One, Due
    <3>2. CASE j # i
      BY <1>2, <3>0, <3>2 DEF Live
    <3> QED
      BY <3>1, <3>2
  <2> QED
    BY <1>4, <2>1 DEF Balance, Due
<1>8. Slack'
  <2>1. alloc[i] <= spare[i] + ahead[i] + 1
    BY DEF Slack
  <2>2. alloc'[i] <= spare'[i] + ahead'[i] + 1
    BY <1>1, <2>1
  <2> QED
    BY <1>2, <2>2 DEF Slack
<1>9. AllocBounded'
  <2>1. CASE spare[i] = 0
    <3>1. alloc[i] <= ahead[i] + 1
      BY <1>1, <2>1 DEF Slack
    <3>2. alloc'[i] <= MaxThres + 1
      BY <1>1, <3>1, AggAssumption
    <3> QED
      BY <1>2, <3>2 DEF AllocBounded
  <2>2. CASE spare[i] > 0
    BY <1>1, <1>2, <2>2 DEF AllocBounded
  <2> QED
    BY <1>1, <2>1, <2>2
<1>10. Stopped' /\ SeekNeverFails'
  BY <1>1, <1>2 DEF Stopped, SeekNeverFails, Seekable
<1> QED
  BY <1>3, <1>5, <1>6, <1>7, <1>8, <1>9, <1>10

\* A delivery: the chunk is the canonical one, and every stream stays in step.
LEMMA WaitChunkStep ==
  ASSUME IInv, WaitChunk
  PROVE  IInv' /\ out' = Pat!Canonical(At) /\ At' = At + 1 /\ Base' = Base
<1> USE DEF WaitChunk, IInv
<1>0. cur \in Threads /\ Live = Threads /\ Live' = Threads
  BY DEF TypeOK, Live
<1>1. /\ ahead[cur] \in Nat /\ taken[cur] \in Nat /\ first[cur] \in Nat
      /\ ahead'[cur] = ahead[cur] - 1
      /\ taken'[cur] = taken[cur] + 1
  BY <1>0 DEF TypeOK
<1>2. \A j \in Threads : j # cur => ahead'[j] = ahead[j] /\ taken'[j] = taken[j]
  BY DEF TypeOK
<1>3. Base \in Nat /\ At \in Nat /\ Base' = Base /\ At' = At + 1
  BY BaseType DEF Base, At, TypeOK
<1>4. cur = At % NumThreads /\ cur' = At' % NumThreads
  <2>1. cur = At % NumThreads
    BY DEF Indexing
  <2>2. ((At % NumThreads) + 1) % NumThreads = (At + 1) % NumThreads
    <3>1. NumThreads \in Int /\ NumThreads > 0
      BY ThreadsType
    <3> QED
      BY <1>3, <3>1, DivModSucc
  <2> QED
    BY <1>3, <2>1, <2>2 DEF NextIndex
<1>5. cur' \in Threads
  BY <1>3, <1>4, ThreadsType
<1>6. out' = Pat!Canonical(At)
  <2>1. StreamIndex(At, cur) = At \div NumThreads
    <3>1. At \div NumThreads \in Nat /\ cur \in Nat
      BY <1>0, <1>3, ThreadsType DEF Threads
    <3>2. One(cur < At % NumThreads) = 0
      BY <1>4, <3>1 DEF One, Due
    <3> QED
      BY <3>1, <3>2 DEF StreamIndex
  <2>2. ChunkPos(first[cur], taken[cur]) = (At \div NumThreads) * ChunkSize
    BY <1>0, <2>1 DEF Positions
  <2> QED
    BY <1>4, <2>2 DEF Pat!Canonical
<1>7. TypeOK'
  <2>1. ahead[cur] - 1 \in 0 .. MaxThres
    BY <1>0, AggAssumption DEF TypeOK
  <2>2. ahead' \in [Threads -> 0 .. MaxThres] /\ taken' \in [Threads -> Nat]
    BY <1>1, <2>1 DEF TypeOK
  <2>3. last' \in [Threads -> Nat]
    BY <1>1, ChunkPosStep DEF TypeOK
  <2>4. got' \in Nat
    BY DEF TypeOK
  <2>5. giveTo' \in Threads
    BY <1>5 DEF RecycleTo
  <2> QED
    BY <1>5, <2>2, <2>3, <2>4, <2>5 DEF TypeOK
<1>8. Indexing'
  BY <1>3, <1>4 DEF Indexing, RecycleTo
<1>9. Positions'
  <2>1. ASSUME NEW j \in Threads
        PROVE  ChunkPos(first[j], taken'[j]) = StreamIndex(At + 1, j) * ChunkSize
    <3>1. /\ StreamIndex(At + 1, j) = StreamIndex(At, j) + One(j = At % NumThreads)
          /\ StreamIndex(At, j) \in Nat
      BY <1>3, StreamIndexStep, StreamIndexType
    <3>2. ChunkPos(first[j], taken[j]) = StreamIndex(At, j) * ChunkSize
      BY <1>0 DEF Positions
    <3>3. CASE j = cur
      <4>0. One(j = At % NumThreads) = 1
        BY <1>4, <3>3 DEF One, Due
      <4>1. StreamIndex(At + 1, j) = StreamIndex(At, j) + 1
        BY <3>1, <4>0
      <4>2. ChunkPos(first[j], taken'[j]) = ChunkPos(first[j], taken[j]) + ChunkSize
        <5>1. first[j] \in Nat /\ taken[j] \in Nat /\ taken'[j] = taken[j] + 1
          BY <1>1, <3>3
        <5> HIDE DEF WaitChunk, IInv
        <5> QED
          BY <5>1, ChunkPosStep
      <4>3. (StreamIndex(At, j) + 1) * ChunkSize
              = StreamIndex(At, j) * ChunkSize + ChunkSize
        BY <3>1, MultipleStep
      <4> QED
        BY <3>2, <4>1, <4>2, <4>3
    <3>4. CASE j # cur
      <4>0. One(j = At % NumThreads) = 0
        BY <1>4, <3>4 DEF One, Due
      <4>1. StreamIndex(At + 1, j) = StreamIndex(At, j)
        BY <3>1, <4>0
      <4> QED
        BY <1>2, <3>2, <3>4, <4>1
    <3> QED
      BY <3>3, <3>4
  <2> QED
    BY <1>0, <1>3, <2>1 DEF Positions, ChunkPos, StreamIndex
<1>10. Balance'
  <2>1. ASSUME NEW j \in Threads
        PROVE  alloc[j] = spare[j] + ahead'[j] + One(j = Base % NumThreads)
    <3>1. alloc[j] = (spare[j] + ahead[j] + One(j = Base % NumThreads))
                       - Due(j)
      BY <1>0 DEF Balance, Due
    <3>2. spare[j] \in Nat /\ ahead[j] \in Nat
      BY DEF TypeOK
    <3>3. CASE j = cur
      BY <1>1, <3>1, <3>2, <3>3 DEF One, Due
    <3>4. CASE j # cur
      BY <1>2, <3>1, <3>2, <3>4 DEF One, Due
    <3> QED
      BY <3>3, <3>4
  <2>2. ASSUME NEW j \in Threads
        PROVE  alloc[j] = (spare[j] + ahead'[j] + One(j = Base % NumThreads))
                            - Due(j)'
    <3>1. alloc[j] \in Int
      BY DEF TypeOK
    <3>2. Due(j)' = 0
      BY DEF Due
    <3>3. alloc[j] = alloc[j] - Due(j)'
      BY <3>1, <3>2
    <3> HIDE DEF WaitChunk, IInv, One
    <3> QED
      BY <2>1, <3>3
  <2> QED
    BY <1>0, <1>3, <2>2 DEF Balance, One, Due
<1>11. Stopped' /\ SeekNeverFails' /\ AllocBounded'
  BY DEF Stopped, SeekNeverFails, Seekable, AllocBounded
<1>12. Slack'
  <2>1. ASSUME NEW j \in Threads
        PROVE  alloc[j] <= spare[j] + ahead'[j] + 1
    <3>1. alloc[j] = (spare[j] + ahead'[j] + One(j = Base % NumThreads))
                       - Due(j)'
      BY <1>0, <1>3, <1>10 DEF Balance, One, Due
    <3>2. spare[j] \in Nat /\ ahead'[j] \in Nat
      BY <1>7 DEF TypeOK
    <3> QED
      BY <3>1, <3>2 DEF One, Due
  <2> QED
    BY <2>1 DEF Slack
<1> QED
  BY <1>3, <1>6, <1>7, <1>8, <1>9, <1>10, <1>11, <1>12

LEMMA DropChunkStep ==
  ASSUME IInv, DropChunk
  PROVE  IInv'
<1> USE DEF DropChunk, aggVars, streamVars, histVars, IInv
<1>1. giveTo = cur /\ cur \in Threads /\ Live = Threads
  BY DEF Indexing, TypeOK, Live
<1>2. /\ spare[cur] \in Nat /\ spare'[cur] = spare[cur] + 1
      /\ \A j \in Threads : j # cur => spare'[j] = spare[j]
  BY <1>1 DEF TypeOK
<1>3. TypeOK'
  <2>1. spare' \in [Threads -> Nat]
    BY <1>1 DEF TypeOK
  <2> QED
    BY <2>1 DEF TypeOK
<1>4. Base' = Base /\ At' = At /\ Live' = Live
  BY DEF Base, At, Live
<1>5. Indexing'
  BY <1>4 DEF Indexing
<1>6. Positions'
  BY <1>4 DEF Positions, ChunkPos
<1>7. Balance'
  <2>1. ASSUME NEW j \in Threads
        PROVE  alloc[j] = (spare'[j] + ahead[j] + One(j = Base % NumThreads))
                            - Due(j)'
    <3>1. alloc[j] = (spare[j] + ahead[j] + One(j = Base % NumThreads))
                       - Due(j)
      BY <1>1 DEF Balance, Due
    <3>2. spare[j] \in Nat /\ ahead[j] \in Nat
      BY DEF TypeOK
    <3>3. CASE j = cur
      BY <1>2, <3>1, <3>2, <3>3 DEF One, Due
    <3>4. CASE j # cur
      BY <1>2, <3>1, <3>2, <3>4 DEF One, Due
    <3> QED
      BY <3>3, <3>4
  <2> QED
    BY <1>1, <1>4, <2>1 DEF Balance, Due
<1>8. Slack'
  BY <1>2 DEF Slack, TypeOK
<1>9. Stopped' /\ SeekNeverFails' /\ AllocBounded'
  <2>1. phase[cur] = "on"
    BY <1>1 DEF Positions
  <2> QED
    BY <1>2, <2>1 DEF Stopped, SeekNeverFails, Seekable, AllocBounded
<1> QED
  BY <1>3, <1>5, <1>6, <1>7, <1>8, <1>9

LEMMA DropSteps ==
  ASSUME IInv, Drop \/ DropNext
  PROVE  IInv'
<1> USE DEF Drop, DropNext, streamVars, bufVars, histVars, IInv
<1>1. TypeOK'
  <2>1. nextStream' \in 0 .. NumThreads
    BY ThreadsType DEF TypeOK
  <2> QED
    BY <2>1 DEF TypeOK
<1>2. Base' = Base /\ At' = At /\ Live' = {}
  BY DEF Base, At, Live
<1>3. Indexing'
  BY <1>2 DEF Indexing
<1>4. Positions' /\ Balance'
  BY <1>2 DEF Positions, Balance
<1>5. Stopped' /\ SeekNeverFails' /\ Slack' /\ AllocBounded'
  BY DEF Stopped, SeekNeverFails, Seekable, Slack, AllocBounded
<1> QED
  BY <1>1, <1>3, <1>4, <1>5

LEMMA NextIInv == IInv /\ [Next]_vars => IInv'
<1> SUFFICES ASSUME IInv, [Next]_vars PROVE IInv'
  OBVIOUS
<1>1. CASE \E off \in Offsets, sec \in SectorSizes : ActivateBegin(off, sec)
  BY <1>1, ActivateBeginStep
<1>2. CASE StopStream \/ StartStream \/ ActivateEnd
  BY <1>2, StopStreamStep, StartStreamStep, ActivateEndStep
<1>3. CASE \E i \in Threads : Compute(i)
  BY <1>3, ComputeStep
<1>4. CASE WaitChunk \/ DropChunk
  BY <1>4, WaitChunkStep, DropChunkStep
<1>5. CASE Drop \/ DropNext
  BY <1>5, DropSteps
<1>6. CASE UNCHANGED vars
  <2> USE <1>6 DEF vars, aggVars, streamVars, bufVars, histVars, IInv
  <2>1. Base' = Base /\ At' = At /\ Live' = Live
    BY DEF Base, At, Live
  <2>2. TypeOK' /\ Indexing'
    BY <2>1 DEF TypeOK, Indexing
  <2>3. Positions' /\ Balance'
    BY <2>1 DEF Positions, Balance, Due, ChunkPos
  <2>4. Stopped' /\ SeekNeverFails' /\ Slack' /\ AllocBounded'
    BY DEF Stopped, SeekNeverFails, Seekable, Slack, AllocBounded
  <2> QED
    BY <2>2, <2>3, <2>4
<1> QED
  BY <1>1, <1>2, <1>3, <1>4, <1>5, <1>6 DEF Next, Terminated

LEMMA Invariance == Spec => []IInv
  BY InitIInv, NextIInv, PTL DEF Spec

-----------------------------------------------------------------------------
(* The results *)

\* Every variable of the aggregator and its streams keeps its type.
THEOREM Typing == Spec => []TypeOK
  BY Invariance, PTL DEF IInv

\* Whatever offset the user seeks to, every generator can seek to its own.
THEOREM SeekNeverFailsHolds == Spec => []SeekNeverFails
  BY Invariance, PTL DEF IInv

\* Recycling keeps what a worker allocates below a constant, for any number of
\* chunks and of threads, though a buffer never returns to where it came from.
THEOREM AllocBoundedHolds == Spec => []AllocBounded
  BY Invariance, PTL DEF IInv

\* The offset computed for a worker fits wherever the seek offset fits.
THEOREM OffsetsFitHolds == Spec => []OffsetsFit
<1>1. ASSUME IInv PROVE OffsetsFit
  <2> SUFFICES ASSUME apc # "dropping", NEW i \in Activated, phase[i] = "on"
               PROVE  first[i] <= byteOffset
    BY DEF OffsetsFit
  <2>1. i \in Threads /\ i \in Live
    BY <1>1 DEF IInv, TypeOK, Activated, Live, Stopped
  <2>2. first[i] = StreamIndex(Base, i) * ChunkSize /\ byteOffset = Base * ChunkSize
    BY <1>1, <2>1 DEF IInv, Positions, Indexing
  <2> QED
    BY <1>1, <2>1, <2>2, BaseType, StreamIndexBound DEF IInv
<1> QED
  BY Invariance, <1>1, PTL

\* All accesses of the disk are whole sectors at whole sectors.
THEOREM SectorAlignedHolds == Spec => []SectorAligned
<1>1. ASSUME IInv PROVE SectorAligned
  <2> DEFINE c == ChunkSize
             m == c \div sector
  <2>1. c \in Nat /\ sector \in Nat /\ sector > 0 /\ At \in Nat /\ Base \in Nat
    BY <1>1, ChunkSizeType, BaseType DEF IInv, TypeOK
  <2>2. m \in Nat /\ c = m * sector + (c % sector) /\ c % sector = 0
    BY <1>1, <2>1, DivMod DEF IInv, Indexing
  <2>3. byteOffset + got * ChunkSize = At * c
    <3>1. byteOffset = Base * c /\ At = Base + got /\ got \in Nat
      BY <1>1 DEF IInv, Indexing, TypeOK, At
    <3> HIDE DEF c
    <3>2. (Base + got) * c = Base * c + got * c
      BY <2>1, <3>1
    <3> QED
      BY <3>1, <3>2 DEF c
  <2> HIDE DEF c, m
  <2>4. c = m * sector
    BY <2>1, <2>2
  <2>5. At * c = (At * m) * sector /\ At * m \in Nat
    BY <2>1, <2>2, <2>4
  <2>6. ((At * m) * sector) % sector = 0
    <3> DEFINE k == At * m
    <3>1. k \in Nat
      BY <2>5
    <3> HIDE DEF k
    <3>2. (k * sector) % sector = 0
      BY <2>1, <3>1, DivModMultiple
    <3> QED
      BY <3>2 DEF k
  <2> QED
    BY <2>3, <2>5, <2>6 DEF SectorAligned
<1> QED
  BY Invariance, <1>1, PTL

-----------------------------------------------------------------------------
(* StreamAgg implements Pattern *)

LEMMA PatternInit == Init => Pat!Init
<1> SUFFICES ASSUME Init PROVE Pat!Init
  OBVIOUS
<1>1. (0 * ChunkSize) \div ChunkSize = 0 /\ 0 * ChunkSize = 0
  BY ChunkSizeType, DivModMultiple
<1> QED
  BY <1>1 DEF Init, Pat!Init, Pat!NoChunk

LEMMA PatternNext == IInv /\ [Next]_vars => [Pat!Next]_<<At, out>>
<1> SUFFICES ASSUME IInv, [Next]_vars PROVE [Pat!Next]_<<At, out>>
  OBVIOUS
<1>1. ASSUME NEW off \in Offsets, NEW sec \in SectorSizes,
             ActivateBegin(off, sec)
      PROVE  Pat!Seek(off) \/ UNCHANGED <<At, out>>
  <2>1. CASE SectorFits(sec)
    <3>1. off \in Nat
      BY AggAssumption
    <3>2. byteOffset' \div ChunkSize = off \div ChunkSize
          /\ off \div ChunkSize \in Nat
      BY <1>1, <2>1, <3>1, RoundDownFact DEF ActivateBegin
    <3>3. (byteOffset' \div ChunkSize) + got' = off \div ChunkSize
      BY <1>1, <2>1, <3>2 DEF ActivateBegin
    <3> QED
      BY <1>1, <3>3 DEF ActivateBegin, Pat!Seek
  <2>2. CASE ~SectorFits(sec)
    BY <1>1, <2>2 DEF ActivateBegin, At, Base
  <2> QED
    BY <2>1, <2>2
<1>2. CASE WaitChunk
  BY <1>2, WaitChunkStep DEF Pat!Next, Pat!Deliver, At, Base
<1>3. CASE \/ StopStream \/ StartStream \/ ActivateEnd
           \/ DropChunk \/ Drop \/ DropNext
  BY <1>3 DEF StopStream, StartStream, ActivateEnd, DropChunk, Drop, DropNext,
              aggVars, histVars, At, Base
<1>4. CASE \E i \in Threads : Compute(i)
  BY <1>4 DEF Compute, aggVars, histVars, At, Base
<1>5. CASE UNCHANGED vars
  BY <1>5 DEF vars, aggVars, histVars, At, Base
<1> QED
  BY <1>1, <1>2, <1>3, <1>4, <1>5 DEF Next, Terminated, Pat!Next

\* Workers, channels, caches and the index arithmetic together deliver the
\* pattern: the chunk with the number of its place on the disk, whatever the
\* seek offset, the number of threads and their interleaving.
THEOREM Refinement == Spec => ImplementsPattern
  BY PatternInit, PatternNext, Invariance, PTL
     DEF Spec, ImplementsPattern, Pat!Spec, At, Base

-----------------------------------------------------------------------------
(* The streams are used as ChunkSource allows *)

LEMMA SourceNext ==
  ASSUME IInv, [Next]_vars, NEW i \in Threads
  PROVE  Src(i)!Next \/ UNCHANGED Src(i)!vars
<1> USE DEF Src!vars, IInv
<1>1. CASE StopStream
  <2>1. CASE i = nextStream
    BY <1>1, <2>1 DEF StopStream, aggVars, histVars, TypeOK, Src!Next, Src!Close
  <2>2. CASE i # nextStream
    BY <1>1, <2>2 DEF StopStream, TypeOK
  <2> QED
    BY <2>1, <2>2
<1>2. CASE StartStream
  <2>1. CASE i = nextStream
    <3>1. /\ phase[i] = "off" /\ phase'[i] = "on"
          /\ ahead'[i] = 0 /\ taken'[i] = 0 /\ last'[i] = last[i]
      BY <1>2, <2>1 DEF StartStream, TypeOK
    <3>2. first'[i] \in Nat /\ first'[i] <= byteOffset
      <4>1. IInv' /\ i \in Live' /\ byteOffset' = byteOffset /\ Base' = Base
        BY <1>2, <2>1, StartStreamStep DEF StartStream, Live, Base, TypeOK, Threads
      <4>2. first'[i] = StreamIndex(Base, i) * ChunkSize
        BY <4>1 DEF Positions, StreamIndex
      <4>3. StreamIndex(Base, i) * ChunkSize <= Base * ChunkSize
        BY BaseType, StreamIndexBound
      <4> QED
        BY <4>1, <4>2, <4>3 DEF Indexing, TypeOK
    <3>3. PICK off \in Offsets : byteOffset <= off
      BY <1>2 DEF Indexing, StartStream
    <3>4. first'[i] \in 0 .. off
      <4>1. off \in Nat
        BY AggAssumption
      <4> QED
        BY <3>2, <3>3, <4>1 DEF TypeOK
    <3>5. Src(i)!Open(first'[i])
      BY <3>1 DEF Src!Open
    <3> QED
      BY <3>4, <3>5 DEF Src!Next
  <2>2. CASE i # nextStream
    BY <1>2, <2>2 DEF StartStream, TypeOK
  <2> QED
    BY <2>1, <2>2
<1>3. ASSUME NEW j \in Threads, Compute(j)
      PROVE  Src(i)!Next \/ UNCHANGED Src(i)!vars
  <2>1. CASE i = j
    BY <1>3, <2>1 DEF Compute, TypeOK, Src!Next, Src!Compute, Src!Seekable,
                      Seekable
  <2>2. CASE i # j
    BY <1>3, <2>2 DEF Compute, TypeOK
  <2> QED
    BY <2>1, <2>2
<1>4. CASE WaitChunk
  <2>1. CASE i = cur
    BY <1>4, <2>1 DEF WaitChunk, TypeOK, Src!Next, Src!Deliver, Src!ChunkPos,
                      ChunkPos, Src!ChunkSize, ChunkSize
  <2>2. CASE i # cur
    BY <1>4, <2>2 DEF WaitChunk, TypeOK
  <2> QED
    BY <2>1, <2>2
<1>5. CASE \/ \E off \in Offsets, sec \in SectorSizes : ActivateBegin(off, sec)
           \/ ActivateEnd \/ DropChunk \/ Drop \/ DropNext \/ UNCHANGED vars
  BY <1>5 DEF ActivateBegin, ActivateEnd, DropChunk, Drop, DropNext, vars,
              streamVars
<1> QED
  BY <1>1, <1>2, <1>3, <1>4, <1>5 DEF Next, Terminated

\* The aggregator composes with Stream: it only relies on what ChunkSource
\* promises, which Stream implements, and keeps to what ChunkSource allows.
THEOREM Composition == Spec => UsesSources
<1>1. Init => \A i \in Threads : Src(i)!Init
  BY DEF Init, Src!Init
<1>2. IInv /\ [Next]_vars
        => [\A i \in Threads : Src(i)!Next \/ UNCHANGED Src(i)!vars]_vars
  BY SourceNext
<1> QED
  BY <1>1, <1>2, Invariance, PTL DEF Spec, UsesSources

=============================================================================
