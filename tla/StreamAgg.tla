----------------------------- MODULE StreamAgg -----------------------------
(***************************************************************************)
(* DtStreamAgg (disktest-lib/src/stream_aggregator.rs) over its DtStreams, *)
(* and the cache of chunk buffers they share (bufcache.rs).                *)
(*                                                                         *)
(* Of a stream this module keeps what ChunkSource promises: phase, first,  *)
(* ahead, taken and last are functions from the threads to the variables   *)
(* of that module, which module Stream implements.  A worker computes      *)
(* whenever its buffer has room; that it sleeps in between until it is     *)
(* woken only removes behaviours.                                          *)
(*                                                                         *)
(* A buffer is a unit that moves from a worker through its channel to the  *)
(* user and back into the cache of a worker.  The user is the loop of      *)
(* Disktest::write or verify, which drops a chunk before it asks for the   *)
(* next one or starts the generator again.                                 *)
(***************************************************************************)
EXTENDS Integers

CONSTANTS NumThreads,      \* worker threads
          MaxThres,        \* DtStream::MAX_THRES
          BaseSize,        \* bytes in one base block of the generator
          ChunkFactor,     \* base blocks in one chunk
          Offsets,         \* byte offsets activate() is called with
          SectorSizes,     \* sector sizes activate() is called with
          MaxActivations,  \* bound: calls of activate()
          MaxGot           \* bound: chunks the user takes per activation

ASSUME AggAssumption ==
  /\ NumThreads \in Nat \ {0}
  /\ MaxThres \in Nat \ {0}
  /\ BaseSize \in Nat \ {0}
  /\ ChunkFactor \in Nat \ {0}
  /\ Offsets \subseteq Nat
  /\ SectorSizes \subseteq Nat \ {0}
  /\ MaxActivations \in Nat
  /\ MaxGot \in Nat

VARIABLES
  \* the aggregator
  apc,          \* "idle", "activating" or "dropped"
  nextStream,   \* the loop of activate(): stream to activate next
  cur,          \* DtStreamAgg.current_index
  isActive,     \* DtStreamAgg.is_active
  byteOffset,   \* byte_offset of the activation, rounded down
  sector,       \* sector_size of the activation
  result,       \* what activate() returned last
  \* the streams, see ChunkSource
  phase, first, ahead, taken, last,
  \* the buffers
  spare,        \* buffers in the cache of each worker
  alloc,        \* buffers each worker has allocated since it was started
  held,         \* the chunk the user holds has a buffer to give back
  giveTo,       \* DtStreamAggChunk.thread_id of the chunk taken last
  \* history and bounds
  out,          \* the chunk taken last
  got,          \* chunks taken since the activation
  activations

aggVars    == <<apc, nextStream, cur, isActive, byteOffset, sector, result>>
streamVars == <<phase, first, ahead, taken, last>>
bufVars    == <<spare, alloc, held, giveTo>>
histVars   == <<out, got, activations>>
vars       == <<aggVars, streamVars, bufVars, histVars>>

-----------------------------------------------------------------------------

Threads == 0 .. NumThreads - 1

\* calc_chunk_size(), without the test of the sector size.
ChunkSize == BaseSize * ChunkFactor

Seekable(off) == off % BaseSize = 0

ChunkPos(off, k) == off + k * ChunkSize

\* Mutant: the sector size is not looked at.
SectorFits_Any(sec) == TRUE

\* calc_chunk_size() refuses any other sector size.
SectorFits(sec) == ChunkSize % sec = 0

\* activate() starts at a whole chunk.
RoundDown(off) == off - (off % ChunkSize)

\* Mutants: the index does not wrap; it stays.
NextIndex_NoWrap == cur + 1

NextIndex_Stay == cur

\* get_chunk(): the stream after the current one.
NextIndex == (cur + 1) % NumThreads

\* Mutant: all buffers go to the first worker.
RecycleTo_First == 0

\* get_chunk() reads current_index again, already advanced, for the thread_id
\* of the chunk: its buffer will go to the worker of the next stream.
RecycleTo == NextIndex

\* Mutants: the comparison is off by one; the disk is split between the streams.
ThreadOffset_OffByOne(i) ==
  LET iteration == (byteOffset \div ChunkSize) \div NumThreads
  IN  IF i <= cur THEN (iteration + 1) * ChunkSize ELSE iteration * ChunkSize

ThreadOffset_Split(i) == byteOffset \div NumThreads

\* The thread_offset of stream i; the streams before the current one have
\* delivered a chunk more.
ThreadOffset(i) ==
  LET iteration == (byteOffset \div ChunkSize) \div NumThreads
  IN  IF i < cur THEN (iteration + 1) * ChunkSize ELSE iteration * ChunkSize

Init ==
  /\ apc = "idle" /\ nextStream = 0 /\ cur = 0 /\ isActive = FALSE
  /\ byteOffset = 0 /\ sector = 1 /\ result = "none"
  /\ phase = [i \in Threads |-> "off"]
  /\ first = [i \in Threads |-> 0]
  /\ ahead = [i \in Threads |-> 0]
  /\ taken = [i \in Threads |-> 0]
  /\ last  = [i \in Threads |-> 0]
  /\ spare = [i \in Threads |-> 0]
  /\ alloc = [i \in Threads |-> 0]
  /\ held = FALSE /\ giveTo = 0
  /\ out = [thread |-> 0, pos |-> -1] /\ got = 0 /\ activations = 0

-----------------------------------------------------------------------------
(* activate() *)

\* The chunk size must be whole sectors; round the offset down to whole
\* chunks; find the stream its first chunk comes from.
ActivateBegin(off, sec) ==
  /\ apc = "idle" /\ ~held
  /\ activations < MaxActivations
  /\ activations' = activations + 1
  /\ \/ /\ ~SectorFits(sec)
        /\ result' = "error"
        /\ UNCHANGED <<apc, nextStream, cur, byteOffset, sector, got>>
     \/ /\ SectorFits(sec)
        /\ result' = "none"
        /\ apc' = "activating" /\ nextStream' = 0
        /\ sector' = sec
        /\ byteOffset' = RoundDown(off)
        /\ cur' = (byteOffset' \div ChunkSize) % NumThreads
        /\ got' = 0
  /\ UNCHANGED <<isActive, streamVars, bufVars, out>>

\* The first half of DtStream::activate(): stop the worker, if there is one.
\* Its cache goes with it.
StopStream ==
  /\ apc \in {"activating", "dropping"}
  /\ nextStream < NumThreads
  /\ phase[nextStream] # "off"
  /\ phase' = [phase EXCEPT ![nextStream] = "off"]
  /\ spare' = [spare EXCEPT ![nextStream] = 0]
  /\ UNCHANGED <<aggVars, first, ahead, taken, last, alloc, held, giveTo,
                 histVars>>

\* Mutant: the chunks of the activation before stay in the channel.
StartStream_KeepChannel ==
  /\ apc = "activating"
  /\ nextStream < NumThreads
  /\ phase[nextStream] = "off"
  /\ phase' = [phase EXCEPT ![nextStream] = "on"]
  /\ first' = [first EXCEPT ![nextStream] = ThreadOffset(nextStream)]
  /\ taken' = [taken EXCEPT ![nextStream] = 0]
  /\ alloc' = [alloc EXCEPT ![nextStream] = 0]
  /\ nextStream' = nextStream + 1
  /\ UNCHANGED <<apc, cur, isActive, byteOffset, sector, result, ahead, last,
                 spare, held, giveTo, histVars>>

\* The second half: a worker with a channel and a cache of its own, sought to
\* the offset of the stream.
StartStream ==
  /\ apc = "activating"
  /\ nextStream < NumThreads
  /\ phase[nextStream] = "off"
  /\ phase' = [phase EXCEPT ![nextStream] = "on"]
  /\ first' = [first EXCEPT ![nextStream] = ThreadOffset(nextStream)]
  /\ ahead' = [ahead EXCEPT ![nextStream] = 0]
  /\ taken' = [taken EXCEPT ![nextStream] = 0]
  /\ alloc' = [alloc EXCEPT ![nextStream] = 0]
  /\ nextStream' = nextStream + 1
  /\ UNCHANGED <<apc, cur, isActive, byteOffset, sector, result, last, spare,
                 held, giveTo, histVars>>

\* All streams are activated.
ActivateEnd ==
  /\ apc = "activating"
  /\ nextStream = NumThreads
  /\ apc' = "idle"
  /\ isActive' = TRUE
  /\ result' = "ok"
  /\ UNCHANGED <<nextStream, cur, byteOffset, sector, streamVars, bufVars,
                 histVars>>

-----------------------------------------------------------------------------
(* Chunks *)

\* Worker i computes a chunk, into a buffer of its cache if there is one
\* (BufCacheCons::pull) and else into a new one.
Compute(i) ==
  /\ phase[i] = "on"
  /\ Seekable(first[i])
  /\ ahead[i] < MaxThres
  /\ ahead' = [ahead EXCEPT ![i] = @ + 1]
  /\ \/ /\ spare[i] > 0
        /\ spare' = [spare EXCEPT ![i] = @ - 1]
        /\ UNCHANGED alloc
     \/ /\ spare[i] = 0
        /\ alloc' = [alloc EXCEPT ![i] = @ + 1]
        /\ UNCHANGED spare
  /\ UNCHANGED <<aggVars, phase, first, taken, last, held, giveTo, histVars>>

\* wait_chunk(): the next chunk of the current stream, then on to the next
\* stream.
WaitChunk ==
  /\ apc = "idle" /\ isActive /\ ~held
  /\ got < MaxGot
  /\ phase[cur] = "on" /\ ahead[cur] > 0
  /\ ahead' = [ahead EXCEPT ![cur] = @ - 1]
  /\ taken' = [taken EXCEPT ![cur] = @ + 1]
  /\ last'  = [last  EXCEPT ![cur] = ChunkPos(first[cur], taken[cur])]
  /\ out' = [thread |-> cur, pos |-> ChunkPos(first[cur], taken[cur])]
  /\ cur' = NextIndex
  /\ held' = TRUE /\ giveTo' = RecycleTo
  /\ got' = got + 1
  /\ UNCHANGED <<apc, nextStream, isActive, byteOffset, sector, result, phase,
                 first, spare, alloc, activations>>

\* Drop for DtStreamAggChunk: BufCache::push().
DropChunk ==
  /\ held
  /\ held' = FALSE
  /\ spare' = [spare EXCEPT ![giveTo] = @ + 1]
  /\ UNCHANGED <<aggVars, streamVars, alloc, giveTo, histVars>>

-----------------------------------------------------------------------------

\* The aggregator is dropped, and its streams one after the other.
Drop ==
  /\ apc = "idle" /\ ~held
  /\ apc' = "dropping"
  /\ nextStream' = 0
  /\ UNCHANGED <<cur, isActive, byteOffset, sector, result, streamVars,
                 bufVars, histVars>>

DropNext ==
  /\ apc = "dropping"
  /\ nextStream < NumThreads
  /\ phase[nextStream] = "off"
  /\ nextStream' = nextStream + 1
  /\ UNCHANGED <<apc, cur, isActive, byteOffset, sector, result, streamVars,
                 bufVars, histVars>>

Terminated ==
  /\ apc = "dropping"
  /\ nextStream = NumThreads
  /\ UNCHANGED vars

Next ==
  \/ \E off \in Offsets, sec \in SectorSizes : ActivateBegin(off, sec)
  \/ StopStream \/ StartStream \/ ActivateEnd
  \/ \E i \in Threads : Compute(i)
  \/ WaitChunk \/ DropChunk
  \/ Drop \/ DropNext \/ Terminated

Spec == Init /\ [][Next]_vars

-----------------------------------------------------------------------------
(* Properties *)

TypeOK ==
  /\ apc \in {"idle", "activating", "dropping"}
  /\ nextStream \in 0 .. NumThreads
  /\ cur \in Threads /\ giveTo \in Threads
  /\ isActive \in BOOLEAN /\ held \in BOOLEAN
  /\ byteOffset \in Nat /\ sector \in Nat \ {0}
  /\ result \in {"none", "ok", "error"}
  /\ phase \in [Threads -> {"off", "on"}]
  /\ first \in [Threads -> Nat]
  /\ ahead \in [Threads -> 0 .. MaxThres]
  /\ taken \in [Threads -> Nat]
  /\ last  \in [Threads -> Nat]
  /\ spare \in [Threads -> Nat]
  /\ alloc \in [Threads -> Nat]
  /\ got \in Nat /\ activations \in 0 .. MaxActivations

\* Streams that activate() has been through, since it was called last.
Activated == {i \in Threads : apc = "idle" \/ i < nextStream}

\* No worker ends with "the byte offset is not a multiple of the base size":
\* whatever the seek offset, the offsets of the streams are whole chunks.
SeekNeverFails == \A i \in Threads : phase[i] = "on" => Seekable(first[i])

\* (iteration + 1) * chunk_size fits into the u64 the seek offset is in.
OffsetsFit ==
  apc # "dropping" =>
    \A i \in Activated : phase[i] = "on" => first[i] <= byteOffset

\* Every access of the disk is at a whole sector: the chunks of an activation
\* lie at byte_offset, one after the other.
SectorAligned == (byteOffset + got * ChunkSize) % sector = 0

\* The cache works: what the workers allocate does not grow with the number
\* of chunks, although a buffer does not return to the worker it came from.
AllocBounded == \A i \in Threads : alloc[i] <= MaxThres + 1

\* The user gets the pattern from the seek offset on, each chunk the one that
\* belongs to its place on the disk.
Pat == INSTANCE Pattern
  WITH ChunkBytes <- ChunkSize, at <- (byteOffset \div ChunkSize) + got

ImplementsPattern == Pat!Spec

\* Every stream is used the way ChunkSource allows, and never opened beyond
\* the offset of the activation.
Src(i) == INSTANCE ChunkSource
  WITH Offsets <- UNION {0 .. off : off \in Offsets}, phase <- phase[i], first <- first[i],
       ahead <- ahead[i], taken <- taken[i], last <- last[i]

UsesSources ==
  /\ \A i \in Threads : Src(i)!Init
  /\ [][\A i \in Threads : Src(i)!Next \/ UNCHANGED Src(i)!vars]_vars

=============================================================================
