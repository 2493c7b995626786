------------------------------- MODULE RawIo -------------------------------
(***************************************************************************)
(* RawIoLinux (disktest-rawio/src/linux.rs) over the kernel's page cache   *)
(* and a storage medium that may be broken or fake.                        *)
(*                                                                         *)
(* The unit of data is a cell.  A cell holds the pattern of some round for *)
(* some position, or Junk.  The medium has Real blocks and claims to have  *)
(* Capacity; beyond Real it wraps around.                                  *)
(*                                                                         *)
(* The operations are conjuncts for the actions of the caller, one for     *)
(* each outcome; they say what becomes of ioVars.  The kernel's own steps  *)
(* are at the end.  A write dirties cells of the cache, which the kernel   *)
(* stores on the medium whenever it likes; a store that fails is reported  *)
(* once, by the fsync() that comes next, and the cell stays in the cache   *)
(* as if it had been stored.  fsync() returns once nothing is dirty.       *)
(***************************************************************************)
EXTENDS Integers, Sequences

CONSTANTS Capacity,   \* cells the device claims to have
          Real,       \* blocks the medium has
          OffMax,     \* largest offset of a file, i64::MAX
          PageCells,  \* cells in a page of the cache
          Kinds,      \* kinds of files: "regular", "blk", "chr"
          Lens,       \* lengths a regular file may have at the start
          Rounds,     \* rounds there are patterns of
          MaxErrs,    \* bound: system calls and stores that fail
          MaxRots     \* bound: blocks that lose their content

ASSUME IoAssumption ==
  /\ Capacity \in Nat \ {0}
  /\ Real \in 1 .. Capacity
  /\ PageCells \in Nat \ {0}
  /\ Kinds \subseteq {"regular", "blk", "chr"}
  /\ Lens \subseteq 0 .. Capacity
  /\ Rounds \subseteq Nat
  /\ MaxErrs \in Nat
  /\ MaxRots \in Nat

\* A device has an offset for each of its cells.
ASSUME OffsetAssumption == OffMax \in Nat /\ Capacity <= OffMax

VARIABLES
  kind,    \* kind of the file
  len,     \* cells up to the end of the file
  medium,  \* content of the blocks
  cache,   \* content of the cached cells
  dirty,   \* cached cells that are not stored yet
  wbErr,   \* a store failed and no fsync() has reported it
  handle,  \* the open file: "none", "read" or "write"
  fpos,    \* its file position
  errs,    \* failures so far
  rots,    \* losses so far
  late     \* history: blocks lost since the caller's last call began

ioVars == <<kind, len, medium, cache, dirty, wbErr, handle, fpos, errs>>

Cells  == 0 .. Capacity - 1
Blocks == 0 .. Real - 1

\* The block a cell is stored in.
Phys(p) == p % Real

\* What the generators compute for position p in round r, and anything else.
Pat(r, p) == <<r, p>>
Junk == <<-1, -1>>
Contents == {Junk} \cup (Rounds \X Nat)

Fault == errs < MaxErrs /\ errs' = errs + 1

IoInit ==
  /\ kind \in Kinds
  /\ len \in (IF kind = "regular" THEN Lens ELSE {Capacity})
  /\ medium = [b \in Blocks |-> Junk]
  /\ cache = [p \in {} |-> Junk] /\ dirty = {} /\ wbErr = FALSE
  /\ handle = "none" /\ fpos = 0
  /\ errs = 0 /\ rots = 0 /\ late = {}

-----------------------------------------------------------------------------
(* new() and seek() *)

Open(mode) ==
  /\ handle' = mode /\ fpos' = 0
  /\ UNCHANGED <<kind, len, medium, cache, dirty, wbErr, errs>>

\* open() fails, or the sector size of a device cannot be read.
OpenFails ==
  /\ Fault
  /\ UNCHANGED <<kind, len, medium, cache, dirty, wbErr, handle, fpos>>

\* The offsets there are: a block device ends where it claims to.
Offset(off) == off <= OffMax /\ (kind = "blk" => off <= Capacity)

SeekOk(off) ==
  /\ Offset(off)
  /\ fpos' = off
  /\ UNCHANGED <<kind, len, medium, cache, dirty, wbErr, handle, errs>>

\* lseek() fails for any other offset, and may fail for these.
SeekFails(off) ==
  /\ \/ ~Offset(off) /\ UNCHANGED errs
     \/ Fault
  /\ UNCHANGED <<kind, len, medium, cache, dirty, wbErr, handle, fpos>>

-----------------------------------------------------------------------------
(* write(): write_all() puts as much as it can before it fails *)

Room == IF fpos <= Capacity THEN Capacity - fpos ELSE 0

\* n cells of data are written at the file position.  A character device has
\* no cache; Last(b) is the last cell written so far that lies in block b.
Put(data, n) ==
  LET S == fpos .. fpos + n - 1
      Last(b) == (fpos + n - 1) - ((fpos + n - 1 - b) % Real)
  IN
  /\ fpos' = fpos + n
  /\ len' = IF n > 0 /\ fpos + n > len THEN fpos + n ELSE len
  /\ IF kind = "chr"
     THEN /\ medium' = [b \in Blocks |-> IF Last(b) >= fpos
                                         THEN data[Last(b) - fpos]
                                         ELSE medium[b]]
          /\ UNCHANGED <<cache, dirty>>
     ELSE /\ cache' = [p \in DOMAIN cache \cup S |->
                         IF p \in S THEN data[p - fpos] ELSE cache[p]]
          /\ dirty' = dirty \cup S
          /\ UNCHANGED medium
  /\ UNCHANGED <<kind, wbErr, handle>>

WriteOk(data, n) ==
  /\ handle = "write"
  /\ n <= Room
  /\ Put(data, n)
  /\ UNCHANGED errs

WriteEnospc(data, n) ==
  /\ handle = "write"
  /\ n > Room
  /\ Put(data, Room)
  /\ UNCHANGED errs

WriteFails(data, n) ==
  /\ handle = "write"
  /\ Fault
  /\ \E k \in 0 .. n : k <= Room /\ Put(data, k)

-----------------------------------------------------------------------------
(* read() *)

Content(p) == IF p \in DOMAIN cache THEN cache[p] ELSE medium[Phys(p)]

\* The numbers of cells a read of n cells may return.
Readable(n) ==
  IF n = 0 \/ fpos >= len THEN {0} ELSE {k \in 1 .. n : fpos + k <= len}

ReadOk(n) ==
  LET S == fpos .. fpos + n - 1
  IN
  /\ handle = "read"
  /\ fpos' = fpos + n
  /\ cache' = IF kind = "chr" THEN cache
              ELSE [p \in DOMAIN cache \cup S |-> Content(p)]
  /\ UNCHANGED <<kind, len, medium, dirty, wbErr, handle, errs>>

ReadFails ==
  /\ handle = "read"
  /\ Fault
  /\ UNCHANGED <<kind, len, medium, cache, dirty, wbErr, handle, fpos>>

-----------------------------------------------------------------------------
(* sync(), close() and drop_file_caches() *)

\* sync_all() is called for files that were opened for writing.
Flushes == handle = "write" /\ kind # "chr"

Flushed     == Flushes => dirty = {} /\ ~wbErr
FlushFailed == Flushes /\ dirty = {} /\ wbErr

SyncOk ==
  /\ Flushed
  /\ UNCHANGED ioVars

SyncFails ==
  /\ FlushFailed
  /\ wbErr' = FALSE
  /\ UNCHANGED <<kind, len, medium, cache, dirty, handle, fpos, errs>>

CloseOk ==
  /\ Flushed
  /\ handle' = "none"
  /\ UNCHANGED <<kind, len, medium, cache, dirty, wbErr, fpos, errs>>

CloseFails ==
  /\ FlushFailed
  /\ handle' = "none" /\ wbErr' = FALSE
  /\ UNCHANGED <<kind, len, medium, cache, dirty, fpos, errs>>

\* The cells of the pages that lie in the range; the end of the file ends a
\* page.
Covered(off, count) ==
  {p \in Cells : \A q \in Cells :
     (q \div PageCells = p \div PageCells /\ q < len)
       => (off <= q /\ q < off + count)}

Evicted(S) == cache' = [p \in DOMAIN cache \ S |-> cache[p]]

\* posix_fadvise(), or if that fails /proc/sys/vm/drop_caches.
DropCachesOk(off, count) ==
  /\ handle' = "none"
  /\ UNCHANGED <<kind, len, medium, dirty, wbErr, fpos>>
  /\ \/ /\ kind = "chr"
        /\ UNCHANGED <<cache, errs>>
     \/ /\ kind # "chr" /\ Flushed
        /\ Evicted(Covered(off, count))
        /\ UNCHANGED errs
     \/ /\ kind # "chr" /\ Flushed
        /\ Fault
        /\ Evicted(DOMAIN cache \ dirty)

DropCachesFails ==
  /\ handle' = "none"
  /\ UNCHANGED <<kind, len, medium, cache, dirty, fpos>>
  /\ \/ /\ FlushFailed
        /\ wbErr' = FALSE
        /\ UNCHANGED errs
     \/ /\ kind # "chr" /\ Flushed
        /\ errs + 2 <= MaxErrs /\ errs' = errs + 2
        /\ UNCHANGED wbErr

-----------------------------------------------------------------------------
(* The kernel and the medium *)

Writeback(p) ==
  /\ p \in dirty
  /\ dirty' = dirty \ {p}
  /\ medium' = [medium EXCEPT ![Phys(p)] = cache[p]]
  /\ UNCHANGED <<kind, len, cache, wbErr, handle, fpos, errs, rots, late>>

WritebackFails(p) ==
  /\ p \in dirty
  /\ Fault
  /\ dirty' = dirty \ {p}
  /\ wbErr' = TRUE
  /\ UNCHANGED <<kind, len, medium, cache, handle, fpos, rots, late>>

Evict(p) ==
  /\ p \in DOMAIN cache \ dirty
  /\ Evicted({p})
  /\ UNCHANGED <<kind, len, medium, dirty, wbErr, handle, fpos, errs, rots,
                 late>>

Rot(b) ==
  /\ rots < MaxRots
  /\ rots' = rots + 1
  /\ medium' = [medium EXCEPT ![b] = Junk]
  /\ late' = late \cup {b}
  /\ UNCHANGED <<kind, len, cache, dirty, wbErr, handle, fpos, errs>>

Kernel ==
  \/ \E p \in Cells : Writeback(p) \/ WritebackFails(p) \/ Evict(p)
  \/ \E b \in Blocks : Rot(b)

IoTypeOK ==
  /\ kind \in {"regular", "blk", "chr"}
  /\ len \in 0 .. Capacity
  /\ medium \in [Blocks -> Contents]
  /\ DOMAIN cache \subseteq Cells
  /\ \A p \in DOMAIN cache : cache[p] \in Contents
  /\ dirty \subseteq DOMAIN cache
  /\ wbErr \in BOOLEAN
  /\ handle \in {"none", "read", "write"}
  /\ fpos \in Nat
  /\ errs \in 0 .. MaxErrs
  /\ rots \in 0 .. MaxRots
  /\ late \subseteq Blocks

=============================================================================
