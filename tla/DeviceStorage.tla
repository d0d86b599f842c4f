--------------------------- MODULE DeviceStorage ---------------------------
(***************************************************************************)
(* The files on the LittleFS partition (device_storage.cpp).  A write goes *)
(* through a temporary file: open it, write it, remove the old file,       *)
(* rename.  Each call of LittleFS is a step of its own, so that the power  *)
(* can fail between any two.  LittleFS itself is external: one call of it  *)
(* happens or does not happen.  The temporary file is not kept in the      *)
(* state: what it holds matters only within the call that opened it, which *)
(* truncates whatever an earlier one left behind.                          *)
(***************************************************************************)
EXTENDS CatalogCodec

VARIABLES
    disk,       \* for each store its file
    mounted,    \* g_mounted
    writing     \* the call of write() that is under way

storageVars == <<disk, mounted, writing>>

NoWrite == [step |-> "none"]

Idle == writing = NoWrite

StorageInit ==
    /\ disk = [s \in Store |-> Blank]
    /\ mounted = FALSE
    /\ writing = NoWrite

----------------------------------------------------------------------------
\* read() returns false for a file that is not there, is empty, does not fit
\* the buffer of build b, or gives fewer bytes than its size says.
Readable(b, s) ==
    /\ mounted /\ disk[s] \notin {Blank, Unread}
    /\ Whole(disk[s]) => Length(disk[s]) <= HeaderBytes + b.capacity[s] * b.size[s]

----------------------------------------------------------------------------
(* write(), call by call *)

StartWrite(s, f) ==
    /\ writing' = [step |-> IF mounted THEN "open" ELSE "failed", store |-> s, file |-> f]
    /\ UNCHANGED <<disk, mounted>>

Go(from, to) == writing.step = from /\ writing' = [writing EXCEPT !.step = to]

SetDisk(f) == disk' = [disk EXCEPT ![writing.store] = f]

\* The temporary file is opened and written.
OpenTemp == Go("open", "write") /\ UNCHANGED <<disk, mounted>>

OpenFails == Go("open", "failed") /\ UNCHANGED <<disk, mounted>>

WriteTemp == Go("write", "remove") /\ UNCHANGED <<disk, mounted>>

\* A short write: the temporary file is removed.
WriteShort == Go("write", "failed") /\ UNCHANGED <<disk, mounted>>

\* rename() does not replace a file on LittleFS: the old one goes first.
RemoveOld == Go("remove", "rename") /\ SetDisk(Blank) /\ UNCHANGED mounted

\* The old file stays, so that the rename after it fails as well.
RemoveFails == Go("remove", "failed") /\ UNCHANGED <<disk, mounted>>

Rename == Go("rename", "written") /\ SetDisk(writing.file) /\ UNCHANGED mounted

RenameFails == Go("rename", "failed") /\ UNCHANGED <<disk, mounted>>

WriteReturns(ok) ==
    /\ writing.step = IF ok THEN "written" ELSE "failed"
    /\ writing' = NoWrite
    /\ UNCHANGED <<disk, mounted>>

\* Between remove and rename the store has no file.
BetweenFiles(s) == writing.step = "rename" /\ writing.store = s

----------------------------------------------------------------------------
\* begin(): a partition that cannot be mounted is formatted, which may fail too.
Mount == mounted' = TRUE /\ UNCHANGED <<disk, writing>>

MountFails ==
    /\ disk' = [s \in Store |-> Blank]
    /\ mounted' \in BOOLEAN
    /\ UNCHANGED writing

\* The power fails: what a write under way has done to the partition stays.
StorageCut == writing' = NoWrite /\ mounted' = FALSE /\ UNCHANGED disk

=============================================================================
