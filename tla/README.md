# A verification project for disktest

disktest fills a disk with a pseudo random stream, reads the disk back and
compares. It finds bad cells, and disks that pretend to be larger than they are.
This directory holds a TLA+ model of it, the configurations under which TLC
checks the model on small instances, and theorems that TLAPS proves for every
value of the constants. Paths below are relative to `src/`.

Contents: [the system](#the-system), [modules](#modules),
[abstractions](#abstractions), [runs](#runs), [fairness](#fairness),
[findings](#findings), [proofs](#proofs), [what is left out](#what-is-left-out),
[plan](#plan).

## The system

```
 signal handlers --abort--> Disktest::write / Disktest::verify <-- main(), per round
                                |                  |
                     next chunk |                  | DisktestFile: open, seek,
                                v                  v   read/write, sync, close
                           DtStreamAgg          RawIoLinux
                       round robin |               | system calls
                                   v               v
      DtStream 0 .. DtStream n-1 (worker threads)  page cache --> medium
```

| component | state | operations | what is hard | what makes it correct |
|---|---|---|---|---|
| `DtStream` (`disktest-lib/src/stream.rs`): the generator of one thread, in a worker | channel; atomics `level`, `error`, `abort`; the sleeping flag with mutex and condition variable; the worker's copy of the level | `activate`, `stop`/drop, `get_chunk`, the worker loop | two threads, two objects (channel, level) updated one after the other, wake-ups that can be lost, a worker that ends itself on an error | chunks in order and of the current activation only; bounded lookahead; a wait ends; `stop()` returns |
| `DtStreamAgg` (`stream_aggregator.rs`), `BufCache` (`bufcache.rs`) | the streams, `current_index`, free buffers per stream | `activate(offset)`, `wait_chunk`, drop of a chunk | offsets within a round of the streams, sector sizes, rounding, reactivation with workers running | the pattern depends on the position only, not on where a run started; no valid offset fails; bounded memory |
| generators (`generator/*.rs`), `kdf.rs`, `seed.rs` | key, counter of the CRC or word position of the cipher | `new`, `seek`, `next`, the key of a thread and round | two counters in different units, a CRC that is no cipher, keys put together from parts of different length | the bytes depend on key and position alone; blocks and keys differ |
| `RawIoLinux` (`disktest-rawio/src/linux.rs`) | descriptor, path, kind of file, position; behind it page cache and medium | `new`, `seek`, `read`, `write`, `sync`, `close`, `drop_file_caches` | short reads, partial writes, errors reported once, a cache that is dropped by two mechanisms | written data reaches the medium or an error is returned; reads come from the medium |
| `DisktestFile` (`disktest-lib/src/disktest.rs`) | `drop_offset`, `drop_count`, the open file | `open`, `seek`, `read`, `write`, `sync`, `close`, drop | what is to be dropped from the cache after errors | the range dropped covers what is written |
| `Disktest::write`, `Disktest::verify` | buffer, counters, abort flag | init, loop, finalize | end of the disk within a chunk, ENOSPC, errors in finalize, abort | Ok means the whole request; no false alarm; no overlooked error |
| `main.rs`, `args.rs` | options, round | `into_args`, the loop over rounds | `rounds = 0`, start beyond the end, different round for verify-only | success means that every round was tested |
| `RawIoWindows` (`windows.rs`) | handle, volume lock, geometry of the disk, position | as `RawIoLinux` | a write that stops at the end and is Ok, a failure at the end that is taken for the end, a cache that is dropped by opening the file once more | as `RawIoLinux` |
| `util.rs` | none | `parsebytes`, `prettybytes`, `hhmmss`, `fold` | overflow of 64 bits, floating point, rounding | exact or refused; what is printed is close |

The interactions: a worker puts chunks into its channel, the aggregator takes
them round robin, `write()` puts them into the file and `verify()` compares the
file with them; `DisktestFile` counts what it wrote and asks `RawIo` to drop that
from the cache when it is closed; signal handlers set one abort flag that
`write()` and `verify()` read in their loops; `main()` calls the two once per
round.

Which of the two raw I/O modules there is depends on the platform; everything
above it is the same code.

`PROJECT.json` lists every component with its status, and under "hazards" the
places where this code can go wrong in ways a test hardly reaches, each with the
properties that watch it.

## Modules

Two towers stand next to each other. What one promises at its top is what the
other takes for granted:

```
 Generators
     | (a chunk is its position)
 Stream ---implements---> ChunkSource <---uses--- StreamAgg ---implements---> Pattern
                                                                                |
 RawIo <---extends--- Disktest <---extends--- DisktestMain    (ChunkData) <-----+
   ^                      ^
   +--- RawIoWindows <----+--- DisktestWindows                 ByteCount (options)
```

**`ChunkSource`** is the contract of one stream, without threads: it is activated
at an offset, delivers the chunks from there in order, or an error if the
generator cannot be sought to the offset, and is dropped. At most `MAX_THRES`
chunks are ready in advance.

**`Stream`** is `stream.rs`. A step is one access to what the two threads share:
one load, store or add of an atomic, one operation of the channel, one critical
section of the mutex. The main thread's places in the code are in `mpc`, the
worker's in `wpc`; `level` is the atomic, `curLevel` the copy the worker
decides with. `ImplementsSource` is the refinement of `ChunkSource`, under a
mapping that counts what is in the channel.

**`Pattern`** is the contract of the aggregator: after activation at an offset,
chunk *k* is the one at the rounded offset plus *k* chunks of one canonical
pattern, in which the chunk at place *i* is chunk *i / n* of stream *i mod n*.

**`StreamAgg`** is `DtStreamAgg` with `BufCache`. Each stream is kept as a
`ChunkSource` (`UsesSources` says that it is used as one, for each thread), so the
detail of `Stream` does not have to be repeated. The loop of `activate` is one
step per stream; buffers are counted, per stream, where they are: in the cache,
in the channel or with the user.

**`RawIo`** is `linux.rs` over an environment. The state is the medium (a value
per cell), the page cache (a function of the cached cells), which of them are
dirty, whether the kernel has an unreported write error, the descriptor and its
position. Each operation of `RawIoLinux` is an operator for success and one for
each way to fail. The kernel may write back and evict at any time; the medium
may be smaller than it claims (`Real < Capacity`, blocks wrap around), may lose
data (`Rot`) and may fail to store.

**`Disktest`** is `write()` and `verify()` with the `DisktestFile` they own. `pc`
is the place in the code: "open", "activate" and "seek" are `init()`, "io" the
loop, "sync" and "close" `write_finalize()` and `verify_finalize()`, "drop" the
`Drop` of `DisktestFile`. Each action is one call of `RawIo` with all that the code
does until the next one. A caller calls with all arguments from small sets, a
signal sets the abort flag, and the process may be killed between any two calls
of `RawIo` and be followed by a new one.

**`DisktestMain`** is `into_args()` and the loop of `main()` over `Disktest`, with a
disk that is empty or holds the pattern of an earlier run.

**`RawIoWindows`** is `windows.rs` over the same kernel and medium as `RawIo`. A raw
disk knows its size from its geometry, in whole cylinders (`DiskSize`), which may
be less than there is; a `WriteFile` or `ReadFile` that fails behind that size is the end
of the disk, not an error, and such a write is Ok with the number of bytes
written. The cache is dropped by closing the file and opening it without
buffering. Operations that do to the state what those of `RawIo` do are taken from
there.

**`DisktestWindows`** is the program of `Disktest` with these operations: the caller,
the signals, `activate`, `sync` and the comparison are the actions of `Disktest`
itself, the others have `Win` in front.

**`Generators`** is what a worker computes: the key of its thread and round
(`kdf.rs`), folded to the length of the generator (`util.rs`), the CRC as in
`generator/crc.rs` (table, counter, complement) and the position of the ciphers of
`generator/chacha.rs`. A stream is started at an offset, produces chunks, is stopped and
started elsewhere. `WordAt` says, without a generator and with the CRC bit after
bit, which word belongs to a position. That is what lets `Stream`, `StreamAgg` and
`Disktest` take a chunk for its position. That a cell can be taken for its round and
position needs in addition that no two streams have the same pattern, of which
`Generators` has the inputs of the key derivation and no more.

**`ByteCount`** is `parsebytes()` and `prettybytes()`: the byte counts of `--seek` and
`--bytes`, and the sizes that are printed.

**`Numbers`** has the powers and the exclusive or of two words, digit by digit, as
recursive functions. The two modules above use these in place of `^` and of the
community module `Bitwise`, which the provers know nothing about.

**`StreamProofs`**, **`StreamAggProofs`**, **`DisktestProofs`**, **`DisktestMainProofs`**,
**`DisktestWindowsProofs`**, **`GeneratorsProofs`** and **`ByteCountProofs`** hold the
theorems, **`NumberFacts`** the facts they share: on `%` and `\div`, on induction and
recursive functions, on `Pow` and `Xor`. **`MCStream`**, **`MCStreamAgg`**, **`MCDisktest`**, **`MCDisktestMain`**,
**`MCDisktestWindows`**, **`MCGenerators`** and **`MCByteCount`** give TLC the constants.

Operators named `X_Y` (for example `Want_All`) are variants of the operator `X`
with a plausible mistake. No action uses them; `PROJECT.json` pairs each with the
property that notices the mistake.

## Abstractions

- *Atomics are sequentially consistent.* The code uses `Relaxed` for most of them.
  A reordering of the accesses of one thread is not explored; the order
  `send`, `fetch_add` is the one in the source.
- *A poisoned mutex does not exist*: the release profile has `panic = "abort"`.
- *Spurious wake-ups* of the condition variable are modelled, since the standard
  library allows them. A sleeping worker is therefore never a deadlock in TLC's
  sense, and the runs with fairness are the ones that find it.
- *A chunk is its position* in `Stream` and `StreamAgg`. That a generator can be sought
  to some offsets only (`Seekable`) and continues from there is kept. `Generators` is
  about the words themselves.
- *Small words.* `Generators` computes the CRC with bytes of `ByteBits` bits and words
  of `CrcBytes` bytes. PBKDF2 (`Derive`) and the key stream of the cipher (`KeyStream`)
  come from libraries and are parameters.
- *Scaled numbers.* `ByteCount` has `Kib` for 1024, `Kilo` for 1000, `U64Max` for
  2^64 - 1 and `Mantissa` for the 53 bits of an f64, in the order they have in the
  code. A fraction is a number of quarters, and one that an f64 can be: what it loses
  when it is read is lost before. How far a sum of two logarithms may
  be off its bound is `Slack`, and within it both outcomes are possible. A
  negative number and a NaN have no logarithm and become 0, as in the code.
- *A raw disk of Windows* ends with `DiskSize`, its whole cylinders, and the medium
  with `Capacity`. That a volume is locked changes nothing else, and is left out.
- *A cell is the unit of a disk*, and its content is "the pattern of round r for
  position p" or blank. A chunk is two cells, a page of the cache one or two.
  A cell of another round or position differs from the expected one. This is an
  assumption: it is what the key derivation is for, and `Generators` shows it of the
  inputs of PBKDF2 (`KeysDiffer`) and of the blocks of one CRC stream (`BlocksDiffer`)
  only.
- *The cache works on cells*, and may evict any clean cell at any time; the real
  one evicts pages, which are among the behaviours allowed. `posix_fadvise`
  leaves partial pages alone, but for the one at the end of the file.
- *`fsync` waits* until nothing is dirty, then reports a failed store once.
- *An offset* can be sought to up to `OffMax`, which stands for `i64::MAX`; a block device
  refuses one beyond its end as well, and any seek may fail as other calls do.
- *A raw disk of Windows is never full before its end*: `ERROR_DISK_FULL` is what file
  systems report. The code would take it for the end of the disk at any place
  (`disktest-rawio/src/windows.rs:569`); the model has it for files only.
- *A fake medium wraps*: block *p* is stored at *p mod Real*.
- *A character device* has no cache.
- *A sector size the chunk is not a multiple of* counts as one of the failures a
  block device may show.
- *`DisktestFile::seek` closes the file first when something was written.* Neither
  `write()` nor `verify()` seeks after writing, so that branch cannot be reached
  and is not an action.
- *Messages, rates and the position of a mismatch* are left out.
- The process can be killed in `Disktest`, but not in `DisktestMain`, which is about
  what the exit status of a run says.

## Runs

| run | question | instance |
|---|---|---|
| `stream_safety` | Do the two threads keep the level, the bound and the order, and implement `ChunkSource`? Does a wait for a chunk end, although wake-ups are lost? | `MAX_THRES` 3, `LO_THRES` 1, chunks of 4 bytes, offsets 0, 4 (can be sought to) and 3 (cannot), 2 activations, 5 chunks taken, with fairness |
| `stream_stop` | Does `stop()` always return? *No*, see below. | same |
| `agg_safety` | Does the user get the pattern that belongs to the offset, with which memory, for which offsets? | 3 threads, `MAX_THRES` 2, offsets 0, 6 and 16, sectors of 4 and 3 bytes, 2 activations, 7 chunks |
| `disk_healthy` | On a disk that works, is there no false alarm, does Ok mean all, and does every call return? | capacity 3, pages of 2 cells, all kinds of file, files of 0 and 3 cells, 2 failures, seek 0, 3, 5 and 6 (`OffMax` is 5), sizes 0, 2, 4 and unlimited, 2 calls, with fairness |
| `disk_fake` | What does Ok say on a disk that is fake, loses data and fails? | claims 3 cells and has 2, a loss, 2 failures (so that both ways to drop a cache may fail in one close), 2 rounds, sizes 2 and unlimited, 2 calls |
| `disk_partial` | Is the cache cold for every byte count? *No*, see below. | capacity 4, pages of 2 cells, size 3 |
| `main_good` | Is success of the program earned, can a fake disk have it with `--write --verify`, and is there no false alarm? | claims 3 cells and has 2, 3 failures, sizes 2 (within the real part) and unlimited, all options, rounds up to 3 (`U64Max` is 3) |
| `main_abort` | Does the abort flag stop the rounds? *No*, see below. | capacity 2, size 2, rounds up to 3 |
| `win_disk` | What does Ok say on Windows, with short writes and an end of the disk that is not where the geometry says, and does every call return? | claims 4 cells, has 3, and the geometry names 3, so that the last whole cylinder ends within a chunk and there is room behind it; file and raw disk, a failure, no losses, seek 0, 5 and 6 (`OffMax` is 5), sizes 3 and unlimited, 2 calls, with fairness |
| `win_short` | Does Ok mean all of the request on Windows? *No*, see below. | a raw disk of 3 cells, size 4 |
| `gen_pattern` | Do the bytes depend on key and position alone, and do blocks and keys differ? | bytes of 2 bits, CRC words of 4, streams of 16 blocks; 3 threads, 3 rounds, offsets at blocks and between them, chunks of 1 and 2 blocks, inverted or not, 2 starts |
| `byte_count` | Is a byte count exact or refused, does a whole number mean the same as a fraction and as an integer, and is what is printed close? | powers of 8 and 7, 22 bits for 64 and 14 for 53; integers from 0 and fractions from a negative one, and those around 2^9, 2^12, 2^16, 2^21 and 2^22 |

Why the bounds are enough to be of interest:

- `MAX_THRES` 3 with `LO_THRES` 1 has a level at, above and below each threshold;
  with 5 chunks the worker fills the buffer, sleeps, is woken and fills it again.
  Two activations, one of them after an error, are what it takes for something
  of the first to leak into the second.
- Three threads and 7 chunks go twice around and a chunk further; the offset 16
  lies within the second round of the streams, and 6 within a chunk.
- A capacity of 3 cells with chunks of 2 puts the end of the disk within a chunk;
  the sizes are nothing, one chunk, more than the disk, and no limit; the seeks
  are the start, the end (rounded down to the middle), a place beyond it, and one
  that is no offset of a file. Two calls are a write and its verify, a retry after
  an error, or a write that meets what a killed one has left behind. Two failures
  are an error and another one in the handling of it.
- `U64Max` 3 makes `rounds = 0` a loop with an end, and lets `start_round` lie
  below, at and beyond `rounds`; `start_round` is at most `U64Max - 1`, as the
  parser requires.

- Bytes of two bits give the counter of the CRC two bytes, so that 16 blocks cross
  the carry between them; the offsets 16, 24 and 104 lie in the first, the second and
  a late block, and 3 in none. Threads 0, 1 and 3 and rounds 0, 1 and 5 have the same
  bytes in different places.
- With `Kib` 8 the six suffixes reach from 2^3 to 2^18, and twice the last is 1/8 of
  2^22 and more than the 14 bits of a float: an integer that overflows, one that is
  only a float, a product that is rounded and one near the bound all occur.

No symmetry is used: cells, streams and rounds are numbers with an order.

## Fairness

`Stream!FairSpec` has weak fairness of the main thread's steps and of the worker's
steps: the operating system runs both. Nothing is assumed of spurious wake-ups.
The user of the stream is under no obligation either: to take, activate and drop
are its choice, and only an operation that has begun goes on.

`Disktest!FairSpec` has weak fairness of the program's steps, and of the write-back
of every dirty cell, on which `fsync` waits. No fairness says that a system call
succeeds, that a read is full, or that the abort flag is ever set.
`DisktestWindows!WinFairSpec` is the same for the program on Windows, where closing a
file waits for the write-back as well.

`CallReturns` and `WinCallReturns` are about a new `Disktest` for each call, as `main()`
makes one (`disktest/src/main.rs:111`, `:117`): its streams have no worker yet, and `Activate` is a
step that ends. A caller of the library that calls `write()` or `verify()` of one `Disktest`
again stops the workers of the call before (`stream.rs:267`), and dropping a
`Disktest` stops them, too (`stream.rs:330`). Both can hang in `stop()`, which is the
first finding below, and both are outside of these two properties.

`DisktestMain`, `Generators` and `ByteCount` have no fairness: nothing of what is asked of
them is about progress.

## Findings

- **`stop()` can hang** (`stream_stop`, `disktest-lib/src/stream.rs:206`). The worker
  has read `abort = false` with a full buffer and has not yet taken the mutex.
  `stop()` sets the flag, finds the worker not sleeping and does not notify. The
  worker then goes to sleep, and `join()` waits for it forever. The same window
  in `get_chunk()` is harmless, because an empty channel is polled
  (`WaitReturns` of `stream_safety`).
- **A partial page stays in RAM** (`disk_partial`,
  `disktest-rawio/src/linux.rs:160`). With a byte count that is not a multiple of
  the page size, `posix_fadvise(DONTNEED)` leaves the last page of a block device
  alone, succeeds, and the second mechanism is not tried. `drop_file_caches`
  promises that "subsequent reads are not read from RAM cache"
  (`disktest-rawio/src/lib.rs:40`).
- **The abort flag is ignored between rounds** (`main_abort`,
  `disktest-lib/src/disktest.rs:455`). The loops look at the flag after a chunk only
  if there is more to do. With a byte count of at most one chunk no round ever
  looks at it, and the program goes on with the next round, though the process
  "will abort as soon as possible" (`disktest-lib/src/disktest.rs:210`).

- **A short write counts as a whole one** (`win_short`,
  `disktest-lib/src/disktest.rs:437`). On Windows a write that stops at the end of a
  raw disk is Ok, with the number of bytes written. `Disktest::write` discards the
  number and adds the whole chunk. When the byte count ends with that chunk,
  `write()` returns Ok for a request larger than the disk, where it is to return
  "Write error: Out of disk space."
  The same line shifts the pattern: when a write fails within a chunk, behind the
  last whole cylinder and with more of the disk behind it, `write()` goes on, and
  what follows lies at wrong places. `WriteOkDurable` therefore does not hold on
  Windows. `WinWriteOkDurable` says what does: the whole cylinders hold the pattern.
  `ColdAfterWrite`, `VerifySound`, `FakeDetected` and `OkFillsDisk` hold in
  `win_disk`, so a fake disk is still found.

Everything else the runs ask of the code holds. Facts that are worth knowing and
are no disagreement with any text:

- `--seek` is rounded down to a whole chunk of all threads (`stream_aggregator.rs`), so
  that a byte or more in front of it is written.
- In a verify-only run with several rounds nothing drops the cache after
  `verify()`. From the second round on the disk may be read from RAM;
  `SuccessMeansTested` therefore speaks of the start round only in that mode.
- On Windows a failure behind the last whole cylinder ends a test with Ok
  (`disktest-rawio/src/windows.rs:167`), so up to a cylinder at the end of a disk is
  not tested.
- A byte count below zero or of NaN with a suffix ("-1 KiB") is accepted as 0, and a
  whole number of 2 EiB and more is refused as a fraction ("2.0 EiB") though it is accepted as
  an integer ("2 EiB") (`disktest-lib/src/util.rs:102`, `:105`). `FractionIsInteger` is the
  other direction, which holds.
- When a raw volume cannot be locked, `RawIoWindows::new` leaves its handle open
  (`disktest-rawio/src/windows.rs:252`).

## Proofs

TLAPS proves the following for every value of the constants that meets the named
assumptions of the modules (`StreamAssumption`, `AggAssumption`, `IoAssumption`,
`OffsetAssumption`, `DisktestAssumption`, `MainAssumption`, `WindowsAssumption`: sizes are
positive, thresholds are ordered, a disk ends with an offset that a file can have,
"unlimited" is beyond the end of the disk; `GeneratorsAssumption` and
`ByteCountAssumption`: below). Further assumptions stand in the theorems.

**Stream** (`StreamProofs`): the type invariant, `LevelAccounting`, `QueueBounded`,
`DeliveredInOrder`, `SendNeverFails`, and the refinement of `ChunkSource`. The
inductive invariant adds to these three facts. `Control` ties the places of the
two threads to each other: an active stream has a worker, a stream that is
started anew has none left, and a worker never outlives the receiver. `Room` says that the worker's copy of
the level may be stale, but only too large: the main thread only takes chunks.
Without it the bound is not inductive. `SeekOutcome` says that a worker past
its seek has a seekable offset, and that a worker that has set the error flag
has sent nothing.

**Aggregator** (`StreamAggProofs`): the type invariant, `SeekNeverFails`,
`AllocBounded`, `OffsetsFit`, `SectorAligned`, the refinement of `Pattern`, and
`Composition`: each stream is used as `ChunkSource` allows. The invariant adds
`Indexing` and `Positions` (how many chunks each stream has delivered, given the
current index), `Stopped` (streams that are off have no buffers), and `Balance` and
`Slack`, which count buffers: the buffer of a chunk goes to the cache of the
*next* stream, so each stream loses one when it is taken from and gains one when
the stream before it is. As they are taken from in turn, what a worker has
allocated is what is in its channel and its cache, but for one.

**Disktest** (`DisktestProofs`), in three parts.

- One call: the type invariant, and `OkMeansComplete`. The strengthening
  (`Book`, `HandleInv`, `Complete`) says that the position of the file is the start
  plus what is accounted plus what is in the buffer, at every place of the code,
  and under which condition each result is chosen.
- What Ok of `write()` says: `WriteOkDurable`. The core is `NothingLost`: at each point
  every cell written by the call is dirty, or on the medium, or an error is
  waiting to be reported by `fsync`. `Synced` says that past the `sync` of
  `write_finalize` nothing is dirty and no error is waiting, so that only the medium
  is left. Earlier processes that were killed leave
  dirty cells and errors behind; `DirtyPat` and `DirtyNew` say that these cannot be
  mistaken for the current call's. The second theorem is `ColdAfterWrite`, under
  the assumption that chunks and byte counts are whole pages. This is the condition
  whose absence the run `disk_partial` is about: the theorem says that nothing
  else is needed.
- What `verify()` says: `VerifySound`. If no cell of the range was cached and
  none was dirty when the call began, each cell read so far was on the medium as
  it was read (`ReadFromMedium`), since a cell not read yet is not cached
  (`UnreadCold`).

Together the last two say what the program is for: what `write()` has reported as
written is cold, and what `verify()` then reports as read was on the medium.

**Two calls of Disktest** (`DisktestProofs`, at the end). `stored` remembers the range
and the round of the last write with Ok.

- `NoFalseMismatch`, without further assumption: on a medium that keeps what it
  stores, a verify of what was stored never reports a mismatch. `StoredInv` says that
  each cell of the range is on the medium or dirty with the right content, whatever
  has happened since: a call that fails, a process that is killed, cells that are
  evicted. The cache may be warm here; it holds the same.
- `FakeDetected`, under `Aligned`: chunks and byte counts are whole pages. Two cells
  that a fake medium stores in one block cannot both have been seen there. `OneSeen`
  says that at most one of them is confirmed by the medium since the last write,
  and `ColdInv` that it is the medium that confirms it.

**The program** (`DisktestMainProofs`). A step of `DisktestMain` is a step of `Disktest`, or
another run writes the disk before this one begins; so all invariants of
`Disktest` are invariants of `DisktestMain` (`Below`, and `Whole` under `Aligned`). `MainBase`
adds the place in `main()`: there is always a round to run (`Options`, from
`RoundsBeyondStart`: no combination of `--rounds` and `--start-round` gives an empty
loop), and each call has the arguments its place says (`Control`). On that stand

- `MainTypeOK`: the round never leaves 64 bits;
- `SuccessMeansTested`, under `Aligned`, from `Tests`: each round before the
  current one has been tested, and the write of the current one has left the
  cache cold for its verify;
- `FakeNeverSucceeds`, under `Aligned`, from `Wrote` (the range of the verify is the one
  that was written in this round) and `FakeTested`;
- `NoMismatchOnGoodDisk`, from `Intact`: as long as only the real part of the medium is
  written, cells of this run or of the run before are on the medium or dirty.
  It needs no assumption on pages: a cache that is not dropped is no cause for
  a false alarm.

**Windows** (`DisktestWindowsProofs`), for `WinSpec` and with one more assumption: there
are files and raw disks, and `DiskSize` is at least one cell and at most what
the disk claims. The lemmas of the modules above are about
`Base`, and `Base` is false in the loop of `write()`: a short write is accounted for
as a whole chunk, so the file position is no longer the start plus what is accounted.
`WinBase` has `WriteBook` instead of `Book` there, which says that the position is
where the counters say or behind the whole cylinders (`Ends(0)`), and that is
what the theorems rest on:

- `WinTyping` and `OkFillsDisk`, which replaces `OkMeansComplete`;
- `WinWriteOkDurable`: once the position is not where the counters say, all that is written lies
  behind the whole cylinders, so `NothingLost` stays true of the blocks that hold
  nothing from there (`Clean`);
- `ColdAfterWrite`, `VerifySound` and `FakeDetected`, without `Aligned`: the whole cache of the
  file is dropped, not a range of pages. What a `write()` has put to wrong
  places does not help a fake disk: two cells of one block still hold one pattern.

**Generators** (`GeneratorsProofs`), for every width of a byte, of the CRC and of a word of the
cipher, every hash and every cipher. `GeneratorsAssumption` says that the widths are
positive, that thread and round fit into their bytes, that the polynomial has its
highest bit and that no stream is longer than the counter can count. In the code these
are 8, 64, 32 and 64 bits, `CRC64_ECMA_POLY` and the `u64` of the counter.

- `BitwiseIsTable`: the CRC of the code is the division by the polynomial. A step of the
  division is linear in its state (`BitStepLinear`), so that the bits of a byte can
  be taken into the state at once and the steps that follow can be looked up. The proof
  compares the two states after each byte (`ByteDivision`).
- `ChunkIsPatternHolds`: `GeneratorsInv` says that a generator that goes on has the key of
  its stream and that its counter stands for the bytes up to `at`, base blocks for the
  CRC and words for a cipher (`Unit`). `BlockWord`, by `BitwiseIsTable`, gives
  the words of a block; `CrcPosition` and `CipherOutput` give the position of each.
- `BlocksDifferHolds`: a step of the division can be undone (`BitStepInjective`; this
  is where the highest bit of the polynomial is needed), so each byte can be, too. Two
  blocks begin with different counters, all of whose bytes go into the CRC
  (`CrcOfNumber`), and the states never meet again (`CrcBlocksDiffer`). Nothing is
  assumed of the key.
- `KeysDifferHolds`: thread and round have a fixed number of bytes, and only a
  round other than 0 has the mark, so length and bytes of the input of PBKDF2 give
  both back (`KeyInjective`). That two inputs have two hashes is not part of it.

**Byte counts** (`ByteCountProofs`). `ByteCountAssumption` says that 1 < `Kilo` < `Kib`, that
twice two exbibytes and `Slack` fit into a u64, and that the factors that are left
for the digits after the point are twice the number of these digits: 2 * 100 <= 1000 and
2 * 10000 <= 1000000 in the code. `ByteCountInv` says that what is stored is a
result for the text.

- `AcceptedAsWrittenHolds`: an f64 is off by at most one part in 2^`Mantissa`
  (`F64Close`), the final `round()` by a half. What passes the test of the
  logarithms is so small that the cast to u64 loses nothing. An integer that is no u64
  never passes it (`LargeIntegerRefused`), whatever its suffix.
- `FractionIsIntegerHolds`: `AsInteger` says that with `Slack` the bound of the
  logarithms still fits into a u64, so that the product of the integer does not overflow;
  `WholeFraction` says what rounding makes of a whole number. Negative numbers and
  NaN are part of `AcceptedAsWrittenHolds`, which says that they count as 0.
- `ShownIsCloseHolds`: rounding to the last digit is off by half a unit, and what
  the division before it drops is less than the other half (`RoundedClose`).

*Induction and recursion.* The library's induction theorems take a predicate as an operator,
which the provers cannot instantiate. `NumberFacts` states induction for a set of numbers
instead, from the theorem that a set with a well-founded order has a minimal element, and
each proof by induction names its set (`T`). A recursive function is a `CHOOSE`, and says
something only if there is such a function: `Recursion` shows that there is one for any
start and step, and a lemma per function (`PowDef`, `XorDef`, `BitStepsDef`, `Crc64Run`,
`CrcBlockRun`) unfolds it. `Fold` goes through `Recursion` too: that it gives bytes
(`FoldType`) is all the properties need of it.

TLC has checked each of these strengthenings as an invariant of a small instance.

Only model-checked: the liveness properties `WaitReturns`, `CallReturns` and
`WinCallReturns` (and `StopReturns`, which fails), since the prover handles neither fairness
nor `ENABLED`. Every other property of the passing runs is a theorem.

## What is left out

- PBKDF2 and the key streams of ChaCha: libraries. The random seed
  (`gen_seed_string`) is one of the seeds.
- `hhmmss` of `util.rs`: the output of a clock.
- The parsing of the command line by clap, but for byte counts and the numbers of
  rounds, and `--quiet`.
- `set_len` of both raw I/O modules: only unit tests call it.
- Weak memory, see the abstractions.
- Logging, rates, build scripts.

## Plan

Done, in this order, the most important behaviour first:

1. `ChunkSource`, `Stream`, `StreamProofs`: the threads.
2. `Pattern`, `StreamAgg`, `StreamAggProofs`: the pattern does not depend on the start.
3. `RawIo`, `Disktest` and its proofs: what Ok says of the medium.
4. `DisktestMain`: what success of the program says.

5. `RawIoWindows`, `DisktestWindows`: the program over the second implementation of raw
   I/O.
6. `Generators`: the words of a stream and the input of its key derivation. It shows
   what `ChunkSource` assumes, that a chunk depends on key and position alone.
   What `Disktest` assumes besides, that the patterns of different streams and rounds
   differ, is shown only as far as the inputs of PBKDF2: that different inputs give
   different patterns stays an assumption.
7. `ByteCount`: the numbers of the command line.
8. `DisktestProofs` (second half), `DisktestMainProofs`: what a write and its verify
   say together, and what success of the program says, for every value of the constants.
9. `DisktestWindowsProofs`: what Ok says on Windows.
10. `Numbers`, `NumberFacts`, `GeneratorsProofs`, `ByteCountProofs`: what the words of a
   stream, its key and the byte counts are, for every width.

Possible next steps:

- Weak memory in `Stream`.
