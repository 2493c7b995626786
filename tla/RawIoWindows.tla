---------------------------- MODULE RawIoWindows ----------------------------
(***************************************************************************)
(* RawIoWindows (disktest-rawio/src/windows.rs) over the same kernel and   *)
(* medium as RawIo.  A raw disk ("blk") knows its size from its geometry;  *)
(* a file ("regular") ends where the file system is full.                  *)
(*                                                                         *)
(* The operations have the names of RawIo with Win in front.  Those that   *)
(* do to ioVars what RawIo's do are taken from there.  A RawIoWindows that *)
(* cannot be closed is dropped by its owner, which tries once more: after  *)
(* any close() there is no handle.                                         *)
(***************************************************************************)
EXTENDS RawIo

CONSTANT DiskSize  \* disk_size: the whole cylinders of the disk

\* There are files and raw disks.
ASSUME WindowsAssumption == DiskSize \in 1 .. Capacity /\ "chr" \notin Kinds

Raw == kind = "blk"

\* Mutant: the last cell of the disk is taken for its end.
Ends_Early(k) == Raw /\ fpos + k >= DiskSize - 1

\* cur_offset >= disk_size after k more cells: a failure counts as the end of
\* the disk.
Ends(k) == Raw /\ fpos + k >= DiskSize

\* close() flushes what was opened for writing.
WinFlushed(mode)     == mode = "write" => dirty = {} /\ ~wbErr
WinFlushFailed(mode) == mode = "write" /\ dirty = {} /\ wbErr

-----------------------------------------------------------------------------
(* new() and seek() *)

\* CreateFileA() or the lock of the volume fails; or the geometry of the disk
\* cannot be read, and the handle is closed, which flushes.
WinOpenFails(mode) ==
  /\ Fault
  /\ \/ UNCHANGED wbErr
     \/ /\ Raw
        /\ WinFlushed(mode) \/ WinFlushFailed(mode)
        /\ wbErr' = (wbErr /\ mode # "write")
  /\ UNCHANGED <<kind, len, medium, cache, dirty, handle, fpos>>

\* SetFilePointerEx() takes an offset beyond the end of a disk, too.
WinSeekOk(off) ==
  /\ off <= OffMax
  /\ fpos' = off
  /\ UNCHANGED <<kind, len, medium, cache, dirty, wbErr, handle, errs>>

\* The offset is none of an i64, or SetFilePointerEx() fails.
WinSeekFails(off) ==
  /\ \/ off > OffMax /\ UNCHANGED errs
     \/ Fault
  /\ UNCHANGED <<kind, len, medium, cache, dirty, wbErr, handle, fpos>>

-----------------------------------------------------------------------------
(* write() and read() *)

\* WriteFile() fails after k of n cells: at the end, or before.
WriteStops(data, n, k) ==
  /\ handle = "write"
  /\ k <= n /\ k <= Room
  /\ Put(data, k)
  /\ \/ n > Room /\ (Raw => k = Room) /\ UNCHANGED errs
     \/ Fault

\* This is Ok at the end of a disk, with the number of bytes written.
WinWriteShort(data, n) == \E k \in 1 .. n : Ends(k) /\ WriteStops(data, n, k)

\* Nothing is written there, or the file system is full.  ERROR_DISK_FULL is
\* taken for an error of file systems, which a raw disk does not report.
WinWriteEnospc(data, n) ==
  \/ Ends(0) /\ WriteStops(data, n, 0)
  \/ /\ ~Raw /\ n > Room
     /\ UNCHANGED errs
     /\ \E k \in 0 .. Room : WriteStops(data, n, k)

\* It is an error anywhere else.
WinWriteFails(data, n) ==
  \E k \in 0 .. n : ~Ends(k) /\ Fault /\ WriteStops(data, n, k)

\* The numbers of cells a read of n cells may return.  At the end of the disk a
\* failure of ReadFile() returns nothing.
WinReadable(n) ==
  Readable(n) \cup (IF Ends(0) /\ errs < MaxErrs THEN {0} ELSE {})

WinReadFails == ~Ends(0) /\ ReadFails

-----------------------------------------------------------------------------
(* close() and drop_file_caches() *)

Closed ==
  /\ handle' = "none"
  /\ wbErr' = (wbErr /\ handle # "write")
  /\ UNCHANGED <<kind, len, medium, dirty, fpos>>

WinCloseOk ==
  /\ WinFlushed(handle)
  /\ Closed
  /\ UNCHANGED <<cache, errs>>

\* sync() or CloseHandle() fails.
WinCloseFails ==
  /\ Closed
  /\ \/ WinFlushFailed(handle) /\ UNCHANGED errs
     \/ WinFlushed(handle) /\ Fault
  /\ UNCHANGED cache

\* Mutant: the file is not opened once more.
WinDropCachesOk_Close == WinCloseOk

\* The file is closed and opened without buffering, which drops its cache.
WinDropCachesOk ==
  /\ WinFlushed(handle)
  /\ Closed
  /\ Evicted(DOMAIN cache \ dirty)
  /\ UNCHANGED errs

\* It cannot be closed or opened again, or the new handle cannot be closed.
WinDropCachesFails ==
  \/ WinCloseFails
  \/ /\ WinFlushed(handle)
     /\ Closed
     /\ Fault
     /\ Evicted(DOMAIN cache \ dirty)

=============================================================================
