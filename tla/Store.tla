------------------------------- MODULE Store -------------------------------
(***************************************************************************)
(* The durable key-value store of transpile/c/store_c0/store_c0.c.         *)
(*                                                                         *)
(* A store directory holds a write-ahead log (store.wal), a checkpoint     *)
(* (store.chk) and a lock file.  Several processes may try to open it; the *)
(* one that holds the exclusive flock owns a handle (struct Store): a      *)
(* memtable, a queue of staged operations and two cursors into the WAL.    *)
(*                                                                         *)
(* The WAL is a sequence of slots, one per frame; its offsets count slots  *)
(* after the header.  A slot holds a frame whose checksum verifies, or     *)
(* Torn: bytes that recover_and_replay_wal refuses for any of its reasons. *)
(* A frame is the pair it carries: a PUT of a value, or a DEL, written as  *)
(* the value Absent.  A Merkle root is represented by the table it commits *)
(* to.  The page cache ("file", "hdr", "chk") and the medium ("disk",      *)
(* "hdrDisk", "chkDisk") are kept apart, so that a process crash and a     *)
(* power loss differ.                                                      *)
(***************************************************************************)
EXTENDS Naturals, Sequences

CONSTANTS
    Procs,      \* processes that may open the directory
    Keys,       \* keys clients use
    Vals,       \* values clients store
    Absent,     \* "no value": an absent key, and the payload of a DEL
    Torn,       \* a slot whose bytes do not verify
    NoProc,     \* the lock is free
    NoChk,      \* there is no checkpoint file that verifies
    MaxWal,     \* STORE_MAX_WAL_SIZE, in slots
    MaxStaged,  \* bound on the operations a client stages before a commit
    Faults,     \* what the environment may do, see FaultKinds
    Client      \* what clients may do, see ClientKinds

(***************************************************************************)
(* crash: a process dies, the page cache survives.  power: the machine     *)
(* stops, unsynced slots are lost.  short: a write is short or fails, or   *)
(* memory runs out mid-commit.                                             *)
(* sync: an fdatasync/fsync pair fails.  drop: a failed sync leaves its    *)
(* dirty pages marked clean (Linux), so that the next sync has nothing to  *)
(* write.  flip: stored bytes decay while the directory is closed.  read:  *)
(* a pread of the replay loop, or the read of the checkpoint, fails or is  *)
(* short.  name: the fsync of a new file does not make its name durable,   *)
(* so that the name waits for a sync of the directory.                     *)
(***************************************************************************)
FaultKinds == {"crash", "power", "short", "sync", "drop", "flip", "read", "name"}

(***************************************************************************)
(* dirtyCheckpoint: a client calls store_checkpoint with operations        *)
(* staged.  retrySync: a client calls store_commit again after one that    *)
(* failed in its fsync.                                                    *)
(***************************************************************************)
ClientKinds == {"dirtyCheckpoint", "retrySync"}

Frame == [key : Keys, val : Vals \cup {Absent}]
Slot == Frame \cup {Torn}
Table == [Keys -> Vals \cup {Absent}]
Checkpoint == [frames : Nat, root : Table]
Header == {"none", "partial", "ok"}

ASSUME ConstantsAssumption ==
    /\ MaxWal \in Nat
    /\ MaxStaged \in Nat
    /\ Faults \subseteq FaultKinds
    /\ Client \subseteq ClientKinds
    /\ Absent \notin Vals
    /\ Torn \notin Frame
    /\ NoProc \notin Procs
    /\ NoChk \notin Checkpoint

VARIABLES
    lock,     \* holder of the flock on store.lock
    pc,       \* pc[p]: where process p is in the call it is making
    mem,      \* mem[p]: s->memtable
    staged,   \* staged[p]: s->staged_ops, oldest first
    freed,    \* freed[p]: how many staged ops have had their buffers freed
    frames,   \* frames[p]: s->frame_count
    walSize,  \* walSize[p]: s->wal_size
    cursor,   \* cursor[p]: replay offset, or frames written by this commit
    file,     \* store.wal as the page cache has it
    disk,     \* store.wal as the medium has it
    dirty,    \* slots (0: the header) written and not yet flushed or dropped
    hdr,      \* WAL header as the page cache has it
    hdrDisk,  \* WAL header as the medium has it
    walName,  \* whether the name store.wal outlives a power loss
    chk,      \* store.chk as the directory names it
    chkDisk,  \* store.chk as the medium's directory names it
    acked     \* history: the log the last successful commit left behind

handle == <<mem, staged, freed, frames, walSize, cursor>>
wal == <<file, disk, dirty, hdr, hdrDisk, walName>>
vars == <<lock, pc, handle, wal, chk, chkDisk, acked>>

EmptyTable == [k \in Keys |-> Absent]

\* Values of pc between calls; every other one is inside a call.
Resting == {"idle", "open"}
Opening == {"locked", "header", "replay", "verify"}
Committing == {"commit", "sync"}
Checkpointing == {"chkWrite", "chkDir"}
\* The handle has been handed to the client.
Live == {"open"} \cup Committing \cup Checkpointing

\* Mutant: a DEL leaves the key in the memtable.
ApplyIgnoresDel(m, f) == IF f.val = Absent THEN m ELSE [m EXCEPT ![f.key] = f.val]

\* memtable_put and memtable_del
Apply(m, f) == [m EXCEPT ![f.key] = f.val]

\* The slots of the WAL that process p accounts for.
Log(p) == SubSeq(file, 1, walSize[p])

\* Staged operations whose buffers are still owned by the queue.
Pending(p) == SubSeq(staged[p], freed[p] + 1, Len(staged[p]))

-----------------------------------------------------------------------------
Init ==
    /\ lock = NoProc
    /\ pc = [p \in Procs |-> "idle"]
    /\ mem = [p \in Procs |-> EmptyTable]
    /\ staged = [p \in Procs |-> <<>>]
    /\ freed = [p \in Procs |-> 0]
    /\ frames = [p \in Procs |-> 0]
    /\ walSize = [p \in Procs |-> 0]
    /\ cursor = [p \in Procs |-> 0]
    /\ file = <<>> /\ disk = <<>> /\ dirty = {}
    /\ hdr = "none" /\ hdrDisk = "none"
    /\ walName = IF "name" \in Faults THEN "volatile" ELSE "durable"
    /\ chk = NoChk /\ chkDisk = NoChk
    /\ acked = <<>>

Goto(p, label) == pc' = [pc EXCEPT ![p] = label]

\* The handle is gone: closed, freed on a failed open, or dead with p.
DropHandle(p) ==
    /\ Goto(p, "idle")
    /\ lock' = NoProc
    /\ mem' = [mem EXCEPT ![p] = EmptyTable]
    /\ staged' = [staged EXCEPT ![p] = <<>>]
    /\ freed' = [freed EXCEPT ![p] = 0]
    /\ frames' = [frames EXCEPT ![p] = 0]
    /\ walSize' = [walSize EXCEPT ![p] = 0]
    /\ cursor' = [cursor EXCEPT ![p] = 0]

-----------------------------------------------------------------------------
(***************************************************************************)
(* The file system, as store_c0.c uses it.                                 *)
(***************************************************************************)

\* The sync of the WAL writes the slots of S back; the file size always is.
Flush(S) ==
    /\ disk' = [i \in 1..Len(file) |->
                  CASE i \in S -> file[i]
                    [] i \notin S /\ i <= Len(disk) -> disk[i]
                    [] OTHER -> Torn]
    /\ hdrDisk' = CASE 0 \in S -> hdr
                    [] 0 \notin S /\ hdrDisk = "none" /\ hdr # "none" -> "partial"
                    [] OTHER -> hdrDisk
    /\ dirty' = {}
    /\ UNCHANGED <<file, hdr, walName>>

\* "fdatasync(fd) != 0 && fsync(fd) != 0" is false: the first call worked,
\* or it failed, dropped its pages, and the second found nothing to write.
SyncOk ==
    \/ Flush(dirty)
    \/ "drop" \in Faults /\ Flush({})

\* Both calls fail.
SyncFails ==
    /\ "sync" \in Faults
    /\ dirty' = IF "drop" \in Faults THEN {} ELSE dirty
    /\ UNCHANGED <<file, disk, hdr, hdrDisk, walName>>

PutSlot(s, i, x) == IF i <= Len(s) THEN [s EXCEPT ![i] = x] ELSE Append(s, x)

\* A pwrite of slot i.  A file cut by ftruncate reaches the medium cut before
\* anything written later does.
WriteSlot(i, x) ==
    /\ file' = PutSlot(file, i, x)
    /\ dirty' = dirty \cup {i}
    /\ disk' = IF Len(disk) > Len(file) THEN SubSeq(disk, 1, Len(file)) ELSE disk
    /\ UNCHANGED <<hdr, hdrDisk, walName>>

Truncate(n) ==
    /\ file' = SubSeq(file, 1, n)
    /\ dirty' = {i \in dirty : i <= n}
    /\ UNCHANGED <<disk, hdr, hdrDisk, walName>>

-----------------------------------------------------------------------------
(***************************************************************************)
(* store_open                                                              *)
(***************************************************************************)

\* Mutant: the result of flock is not looked at.
OpenWithoutLock(p) ==
    /\ pc[p] = "idle"
    /\ lock' = p
    /\ Goto(p, "locked")
    /\ UNCHANGED <<handle, wal, chk, chkDisk, acked>>

\* flock(LOCK_EX | LOCK_NB); a process that finds it held returns at once.
OpenLock(p) ==
    /\ pc[p] = "idle"
    /\ lock = NoProc
    /\ lock' = p
    /\ Goto(p, "locked")
    /\ UNCHANGED <<handle, wal, chk, chkDisk, acked>>

\* The error paths of store_open after the lock: a system call or an allocation
\* fails, everything acquired is released.  The reads of the replay loop and of
\* the checkpoint have no such path, see ReplayTruncate and VerifyCheckpoint.
OpenFails(p) ==
    /\ pc[p] \in Opening
    /\ DropHandle(p)
    /\ UNCHANGED <<wal, chk, chkDisk, acked>>

\* A WAL shorter than its header, or with a wrong one: STORE_ERR_CORRUPT.
OpenCorrupt(p) ==
    /\ pc[p] = "locked"
    /\ hdr = "partial"
    /\ DropHandle(p)
    /\ UNCHANGED <<wal, chk, chkDisk, acked>>

\* An empty WAL gets its header ...
WriteHeader(p) ==
    /\ pc[p] = "locked"
    /\ hdr = "none"
    /\ hdr' = "ok"
    /\ dirty' = dirty \cup {0}
    /\ Goto(p, "header")
    /\ UNCHANGED <<lock, handle, file, disk, hdrDisk, walName, chk, chkDisk, acked>>

\* ... or part of it, and the open fails.
WriteHeaderShort(p) ==
    /\ "short" \in Faults
    /\ pc[p] = "locked"
    /\ hdr = "none"
    /\ hdr' = "partial"
    /\ dirty' = dirty \cup {0}
    /\ DropHandle(p)
    /\ UNCHANGED <<file, disk, hdrDisk, walName, chk, chkDisk, acked>>

SyncHeader(p) ==
    /\ pc[p] = "header"
    /\ \/ SyncOk /\ Goto(p, "verify") /\ UNCHANGED <<lock, handle>>
       \/ SyncFails /\ DropHandle(p)
    /\ UNCHANGED <<chk, chkDisk, acked>>

\* A WAL of at least 12 bytes with the right header is replayed.
ReadHeader(p) ==
    /\ pc[p] = "locked"
    /\ hdr = "ok"
    /\ Goto(p, "replay")
    /\ UNCHANGED <<lock, handle, wal, chk, chkDisk, acked>>

\* One turn of the replay loop on a frame that verifies.
ReplayFrame(p) ==
    LET i == cursor[p] + 1 IN
    /\ pc[p] = "replay"
    /\ i <= Len(file)
    /\ file[i] # Torn
    /\ mem' = [mem EXCEPT ![p] = Apply(@, file[i])]
    /\ cursor' = [cursor EXCEPT ![p] = i]
    /\ UNCHANGED <<lock, pc, staged, freed, frames, walSize, wal, chk, chkDisk, acked>>

\* Mutant: the loop goes round again on a slot that does not verify.
ReplayForever(p) ==
    /\ pc[p] = "replay"
    /\ cursor[p] < Len(file)
    /\ file[cursor[p] + 1] = Torn
    /\ UNCHANGED vars

\* Mutant: the last frame that verified is cut off too.
ReplayTruncateTooFar(p) ==
    /\ pc[p] = "replay"
    /\ cursor[p] < Len(file)
    /\ file[cursor[p] + 1] = Torn
    /\ Truncate(cursor[p] - 1)
    /\ UNCHANGED <<lock, pc, handle, chk, chkDisk, acked>>

\* Mutant: a slot whose read fails is stepped over, not cut off.
ReplaySkipsUnread(p) ==
    /\ pc[p] = "replay"
    /\ cursor[p] < Len(file)
    /\ \/ file[cursor[p] + 1] = Torn /\ Truncate(cursor[p]) /\ UNCHANGED cursor
       \/ /\ "read" \in Faults /\ file[cursor[p] + 1] # Torn
          /\ cursor' = [cursor EXCEPT ![p] = @ + 1]
          /\ UNCHANGED wal
    /\ UNCHANGED <<lock, pc, mem, staged, freed, frames, walSize, chk, chkDisk, acked>>

\* The tail from the first slot that does not verify is cut off.  A read that fails
\* answers -1, which is less than was asked for: the tail is cut then too, frames
\* that would have verified included, and the open goes on.
ReplayTruncate(p) ==
    /\ pc[p] = "replay"
    /\ cursor[p] < Len(file)
    /\ file[cursor[p] + 1] = Torn \/ "read" \in Faults
    /\ Truncate(cursor[p])
    /\ UNCHANGED <<lock, pc, handle, chk, chkDisk, acked>>

\* Mutant: the cursors are not published, and the first commit starts over.
ReplayForgetsCursors(p) ==
    /\ pc[p] = "replay"
    /\ cursor[p] >= Len(file)
    /\ cursor' = [cursor EXCEPT ![p] = 0]
    /\ SyncOk \/ SyncFails
    /\ Goto(p, "verify")
    /\ UNCHANGED <<lock, mem, staged, freed, frames, walSize, chk, chkDisk, acked>>

\* The loop is over: publish the cursors; the result of fsync is ignored.
ReplayDone(p) ==
    /\ pc[p] = "replay"
    /\ cursor[p] >= Len(file)
    /\ walSize' = [walSize EXCEPT ![p] = cursor[p]]
    /\ frames' = [frames EXCEPT ![p] = cursor[p]]
    /\ cursor' = [cursor EXCEPT ![p] = 0]
    /\ SyncOk \/ SyncFails
    /\ Goto(p, "verify")
    /\ UNCHANGED <<lock, mem, staged, freed, chk, chkDisk, acked>>

\* verify_checkpoint_on_open compares roots only at equal frame counts.
ChkMatches(p) ==
    (chk # NoChk /\ chk.frames = frames[p]) => chk.root = mem[p]

\* A checkpoint that cannot be read is ignored.
VerifyCheckpoint(p) ==
    /\ pc[p] = "verify"
    /\ \/ /\ ChkMatches(p) \/ "read" \in Faults
          /\ Goto(p, "open")
          /\ UNCHANGED <<lock, handle>>
       \/ ~ChkMatches(p) /\ DropHandle(p)
    /\ UNCHANGED <<wal, chk, chkDisk, acked>>

-----------------------------------------------------------------------------
(***************************************************************************)
(* store_put, store_del, store_commit                                      *)
(***************************************************************************)

\* Both layers change together; on STORE_ERR_NOMEM neither does.
Stage(p, f) ==
    /\ mem' = [mem EXCEPT ![p] = Apply(@, f)]
    /\ staged' = [staged EXCEPT ![p] = Append(@, f)]
    /\ UNCHANGED <<lock, pc, freed, frames, walSize, cursor, wal, chk, chkDisk, acked>>

StorePut(p, k, v) ==
    /\ pc[p] = "open"
    /\ Len(staged[p]) < MaxStaged
    /\ Stage(p, [key |-> k, val |-> v])

\* A DEL of an absent key returns STORE_ERR_NOT_FOUND and stages nothing.
StoreDel(p, k) ==
    /\ pc[p] = "open"
    /\ Len(staged[p]) < MaxStaged
    /\ mem[p][k] # Absent
    /\ Stage(p, [key |-> k, val |-> Absent])

\* Mutant: no check against STORE_MAX_WAL_SIZE.
CommitWithoutLimit(p) ==
    /\ pc[p] = "open"
    /\ staged[p] # <<>>
    /\ Len(file) < 2 * MaxWal
    /\ freed[p] > 0 => "retrySync" \in Client
    /\ cursor' = [cursor EXCEPT ![p] = 0]
    /\ Goto(p, "commit")
    /\ UNCHANGED <<lock, mem, staged, freed, frames, walSize, wal, chk, chkDisk, acked>>

\* Nothing staged, or a batch past STORE_MAX_WAL_SIZE: nothing happens.
CommitBegin(p) ==
    /\ pc[p] = "open"
    /\ staged[p] # <<>>
    /\ walSize[p] + Len(staged[p]) <= MaxWal
    /\ freed[p] > 0 => "retrySync" \in Client
    /\ cursor' = [cursor EXCEPT ![p] = 0]
    /\ Goto(p, "commit")
    /\ UNCHANGED <<lock, mem, staged, freed, frames, walSize, wal, chk, chkDisk, acked>>

\* What the memcpys of store_commit can find in the buffers of staged op i:
\* its key and value, or anything once they have been freed.
StagedBytes(p, i) ==
    IF i > freed[p] THEN {staged[p][i]}
    ELSE {f \in Frame : (f.val = Absent) <=> (staged[p][i].val = Absent)}

CommitWrite(p) ==
    LET i == cursor[p] + 1 IN
    /\ pc[p] = "commit"
    /\ i <= Len(staged[p])
    /\ \E f \in StagedBytes(p, i) : WriteSlot(walSize[p] + i, f)
    /\ cursor' = [cursor EXCEPT ![p] = i]
    /\ UNCHANGED <<lock, pc, mem, staged, freed, frames, walSize, chk, chkDisk, acked>>

\* A short pwrite, a failed one, or STORE_ERR_NOMEM: return mid-batch.  The
\* bytes that did land are the frame's own, so an equal frame stays whole.
CommitFails(p) ==
    LET at == walSize[p] + cursor[p] + 1 IN
    /\ "short" \in Faults
    /\ pc[p] = "commit"
    /\ cursor[p] < Len(staged[p])
    /\ \/ /\ ~(at <= Len(file) /\ file[at] \in StagedBytes(p, cursor[p] + 1))
          /\ WriteSlot(at, Torn)
       \/ UNCHANGED wal
    /\ cursor' = [cursor EXCEPT ![p] = 0]
    /\ Goto(p, "open")
    /\ UNCHANGED <<lock, mem, staged, freed, frames, walSize, chk, chkDisk, acked>>

\* Mutant: frame_count is left behind.
CommitForgetsCount(p) ==
    /\ pc[p] = "commit"
    /\ cursor[p] = Len(staged[p])
    /\ walSize' = [walSize EXCEPT ![p] = @ + Len(staged[p])]
    /\ freed' = [freed EXCEPT ![p] = Len(staged[p])]
    /\ cursor' = [cursor EXCEPT ![p] = 0]
    /\ Goto(p, "sync")
    /\ UNCHANGED <<lock, mem, staged, frames, wal, chk, chkDisk, acked>>

\* Every frame is in the file: publish the cursors and free the buffers.
CommitPublish(p) ==
    /\ pc[p] = "commit"
    /\ cursor[p] = Len(staged[p])
    /\ walSize' = [walSize EXCEPT ![p] = @ + Len(staged[p])]
    /\ frames' = [frames EXCEPT ![p] = @ + Len(staged[p])]
    /\ freed' = [freed EXCEPT ![p] = Len(staged[p])]
    /\ cursor' = [cursor EXCEPT ![p] = 0]
    /\ Goto(p, "sync")
    /\ UNCHANGED <<lock, mem, staged, wal, chk, chkDisk, acked>>

\* Mutant: STORE_OK without a sync.
CommitWithoutSync(p) ==
    /\ pc[p] = "sync"
    /\ staged' = [staged EXCEPT ![p] = <<>>]
    /\ freed' = [freed EXCEPT ![p] = 0]
    /\ acked' = Log(p)
    /\ Goto(p, "open")
    /\ UNCHANGED <<lock, mem, frames, walSize, cursor, wal, chk, chkDisk>>

\* STORE_OK only after a sync; a failed one returns before the queue is reset.
CommitSync(p) ==
    /\ pc[p] = "sync"
    /\ \/ /\ SyncOk
          /\ staged' = [staged EXCEPT ![p] = <<>>]
          /\ freed' = [freed EXCEPT ![p] = 0]
          /\ acked' = Log(p)
       \/ /\ SyncFails
          /\ UNCHANGED <<staged, freed, acked>>
    /\ Goto(p, "open")
    /\ UNCHANGED <<lock, mem, frames, walSize, cursor, chk, chkDisk>>

-----------------------------------------------------------------------------
(***************************************************************************)
(* store_checkpoint, store_close                                           *)
(***************************************************************************)

\* Mutant: the checkpoint does not wait for the WAL.
CheckpointWithoutSync(p) ==
    /\ pc[p] = "open"
    /\ staged[p] # <<>> => "dirtyCheckpoint" \in Client
    /\ Goto(p, "chkWrite")
    /\ UNCHANGED <<lock, handle, wal, chk, chkDisk, acked>>

\* store_checkpoint begins by syncing the WAL, so that it never gets ahead of it.
CheckpointSync(p) ==
    /\ pc[p] = "open"
    /\ staged[p] # <<>> => "dirtyCheckpoint" \in Client
    /\ \/ SyncOk /\ Goto(p, "chkWrite")
       \/ SyncFails /\ UNCHANGED pc
    /\ UNCHANGED <<lock, handle, chk, chkDisk, acked>>

\* Mutant: the last frame's index is stored for the number of frames.
CheckpointOffByOne(p) ==
    /\ pc[p] = "chkWrite"
    /\ chk' = [frames |-> frames[p] - 1, root |-> mem[p]]
    /\ Goto(p, "chkDir")
    /\ UNCHANGED <<lock, handle, wal, chkDisk, acked>>

\* store.chk.tmp is written, synced and renamed; a failure unlinks it.
CheckpointRename(p) ==
    /\ pc[p] = "chkWrite"
    /\ \/ /\ chk' = [frames |-> frames[p], root |-> mem[p]]
          /\ Goto(p, "chkDir")
       \/ /\ "short" \in Faults
          /\ Goto(p, "open")
          /\ UNCHANGED chk
    /\ UNCHANGED <<lock, handle, wal, chkDisk, acked>>

\* The directory is synced, and with it the name of the WAL; a failure goes
\* unnoticed.
CheckpointDirSync(p) ==
    /\ pc[p] = "chkDir"
    /\ \/ chkDisk' = chk /\ walName' = "durable"
       \/ "sync" \in Faults /\ UNCHANGED <<chkDisk, walName>>
    /\ Goto(p, "open")
    /\ UNCHANGED <<lock, handle, file, disk, dirty, hdr, hdrDisk, chk, acked>>

\* A failed fsync is ignored.  With freed buffers in the queue the frees that
\* follow are double frees: an abort there leaves the state of a clean close,
\* the sync, the unlock and the descriptors being behind it.
StoreClose(p) ==
    /\ pc[p] = "open"
    /\ SyncOk \/ SyncFails
    /\ DropHandle(p)
    /\ UNCHANGED <<chk, chkDisk, acked>>

-----------------------------------------------------------------------------
(***************************************************************************)
(* Failures                                                                *)
(***************************************************************************)

\* The kernel closes the descriptors of a dead process and drops its flock.
Crash(p) ==
    /\ "crash" \in Faults
    /\ pc[p] # "idle"
    /\ DropHandle(p)
    /\ UNCHANGED <<wal, chk, chkDisk, acked>>

\* The n slots on the medium after the slots of kept were written back, those of
\* torn in part.
Survivors(n, kept, torn) ==
    [i \in 1..n |->
       CASE i \in kept \ torn -> file[i]
         [] i \notin kept /\ i <= Len(disk) -> disk[i]
         [] OTHER -> Torn]

\* Any subset of the dirty slots had been written back, some of them in part,
\* and any part of the file's growth or of its truncation.
WrittenBack ==
    /\ \E n \in Len(disk)..Len(file) \cup Len(file)..Len(disk),
          kept \in SUBSET (dirty \ {0}),
          h \in IF 0 \in dirty THEN {hdr, hdrDisk, "partial"} ELSE {hdrDisk} :
         /\ h = "none" => n = 0
         /\ \E torn \in SUBSET kept : file' = Survivors(n, kept, torn)
         /\ hdr' = h
    /\ walName' = IF hdr # "none" THEN "durable" ELSE walName

\* The name of the WAL is not on the medium: the next open makes an empty one.
NameLost ==
    /\ "name" \in Faults
    /\ walName = "volatile"
    /\ file' = <<>> /\ hdr' = "none"
    /\ UNCHANGED walName

PowerLoss ==
    /\ "power" \in Faults
    /\ WrittenBack \/ NameLost
    /\ \E c \in {chk, chkDisk} : chk' = c /\ chkDisk' = c
    /\ disk' = file' /\ hdrDisk' = hdr' /\ dirty' = {}
    /\ lock' = NoProc
    /\ pc' = [p \in Procs |-> "idle"]
    /\ mem' = [p \in Procs |-> EmptyTable]
    /\ staged' = [p \in Procs |-> <<>>]
    /\ freed' = [p \in Procs |-> 0]
    /\ frames' = [p \in Procs |-> 0]
    /\ walSize' = [p \in Procs |-> 0]
    /\ cursor' = [p \in Procs |-> 0]
    /\ UNCHANGED acked

\* Stored bytes decay: a frame, the header or the checkpoint.
Flip ==
    /\ "flip" \in Faults
    /\ lock = NoProc
    /\ \/ /\ \E i \in DOMAIN file :
               /\ file' = [file EXCEPT ![i] = Torn]
               /\ disk' = IF i <= Len(disk) THEN [disk EXCEPT ![i] = Torn] ELSE disk
          /\ UNCHANGED <<hdr, hdrDisk, chk, chkDisk>>
       \/ /\ hdr = "ok"
          /\ hdr' = "partial" /\ hdrDisk' = "partial"
          /\ UNCHANGED <<file, disk, chk, chkDisk>>
       \/ /\ chk # NoChk
          /\ chk' = NoChk /\ chkDisk' = NoChk
          /\ UNCHANGED <<file, disk, hdr, hdrDisk>>
    /\ UNCHANGED <<lock, pc, handle, dirty, walName, acked>>

-----------------------------------------------------------------------------
\* Steps of a call that is under way.
CallStep(p) ==
    \/ OpenCorrupt(p)
    \/ WriteHeader(p) \/ WriteHeaderShort(p) \/ SyncHeader(p)
    \/ ReadHeader(p) \/ ReplayFrame(p) \/ ReplayTruncate(p) \/ ReplayDone(p)
    \/ VerifyCheckpoint(p)
    \/ CommitWrite(p) \/ CommitFails(p) \/ CommitPublish(p) \/ CommitSync(p)
    \/ CheckpointRename(p) \/ CheckpointDirSync(p)

\* Calls a client makes.
ClientStep(p) ==
    \/ OpenLock(p)
    \/ \E k \in Keys, v \in Vals : StorePut(p, k, v)
    \/ \E k \in Keys : StoreDel(p, k)
    \/ CommitBegin(p)
    \/ CheckpointSync(p)
    \/ StoreClose(p)

Next ==
    \/ \E p \in Procs : CallStep(p) \/ ClientStep(p) \/ OpenFails(p) \/ Crash(p)
    \/ PowerLoss
    \/ Flip

Spec == Init /\ [][Next]_vars

\* A call that has been entered runs to its return unless its process dies.
Fairness == \A p \in Procs : WF_vars(CallStep(p))

FairSpec == Spec /\ Fairness
-----------------------------------------------------------------------------
(***************************************************************************)
(* Properties                                                              *)
(***************************************************************************)

\* Every variable stays in its type; in particular a checkpoint's frame count is
\* a count and every slot of the WAL is a frame or unreadable bytes.
TypeOK ==
    /\ lock \in Procs \cup {NoProc}
    /\ pc \in [Procs -> Resting \cup Opening \cup Committing \cup Checkpointing]
    /\ mem \in [Procs -> Table]
    /\ staged \in [Procs -> Seq(Frame)]
    /\ freed \in [Procs -> Nat]
    /\ frames \in [Procs -> Nat]
    /\ walSize \in [Procs -> Nat]
    /\ cursor \in [Procs -> Nat]
    /\ file \in Seq(Slot)
    /\ disk \in Seq(Slot)
    /\ dirty \in SUBSET Nat
    /\ hdr \in Header
    /\ hdrDisk \in Header
    /\ walName \in {"volatile", "durable"}
    /\ chk \in Checkpoint \cup {NoChk}
    /\ chkDisk \in Checkpoint \cup {NoChk}
    /\ acked \in Seq(Slot)

\* The flock admits one process: whoever is inside a call, or between calls
\* with a handle, is the lock's holder, so no other process touches the WAL.
LockExclusion ==
    \A p \in Procs : pc[p] # "idle" => lock = p

\* m is what the operations of s, applied in order, leave: every key has the
\* value of the last operation on it.
Reflects(m, s) ==
    \A k \in Keys :
        \/ m[k] = Absent /\ \A i \in DOMAIN s : s[i].key # k
        \/ \E i \in DOMAIN s :
              /\ s[i] = [key |-> k, val |-> m[k]]
              /\ \A j \in DOMAIN s : j > i => s[j].key # k

\* store_get and the Merkle root answer for exactly the frames the handle
\* accounts for plus what it still has to write: across every interleaving of
\* crashes, half-written batches, failed syncs and reopenings, as long as no
\* client commits again after a failed fsync.
MemtableIsLog ==
    "retrySync" \notin Client =>
        \A p \in Procs :
            pc[p] \in Live \cup {"verify"} => Reflects(mem[p], Log(p) \o Pending(p))

\* frame_count, which a checkpoint is compared by, and wal_size, which frames
\* are written at, move together and never point past the end of the file.
CursorsAgree ==
    \A p \in Procs :
        pc[p] \in Live \cup {"verify"} =>
            /\ frames[p] = walSize[p]
            /\ walSize[p] <= Len(file)
            /\ walSize[p] <= MaxWal

\* A failed sync keeps its pages dirty, stored bytes do not decay, they can be read
\* when the log is replayed, and a file that is synced keeps its name.  Each of
\* the four is needed: without it the code loses frames it answered for.
ReliableMedium == Faults \cap {"drop", "flip", "read", "name"} = {}

\* A log the medium will give back to the next open, whatever happens first.
OnMedium(log) ==
    \/ log = <<>>
    \/ /\ walName = "durable" /\ hdrDisk = "ok"
       /\ Len(log) <= Len(disk)
       /\ \A i \in DOMAIN log : disk[i] = log[i]

\* What store_commit answered STORE_OK for is on the medium from then on,
\* through crashes, power loss, torn writes and failed syncs, on a medium that
\* is reliable in the sense above: that excludes read errors, which the replay
\* loop takes for a torn tail, and a name that was never synced.
AckedDurable ==
    ReliableMedium => OnMedium(acked)

\* A later commit only ever extends an acknowledged log: on a reliable medium no
\* retry, recovery or reopening rewrites a frame of it.
AckedOnlyGrows ==
    [][ReliableMedium =>
         /\ Len(acked) <= Len(acked')
         /\ \A i \in DOMAIN acked : acked'[i] = acked[i]]_vars

\* On a reliable medium a checkpoint never locks its own store out: with checkpoints
\* taken only when nothing is staged, the root found at open matches whenever the frame
\* counts do, whichever of two checkpoints a power loss leaves in the directory.
CheckpointAgrees ==
    (Client = {} /\ ReliableMedium) =>
        \A p \in Procs : pc[p] = "verify" => ChkMatches(p)

\* Every call returns: replay reaches the end of the file however often it
\* truncates, and a commit ends in a sync or an error.
CallsReturn ==
    \A p \in Procs : pc[p] \notin Resting ~> pc[p] \in Resting

-----------------------------------------------------------------------------
(***************************************************************************)
(* What the comments and the specification file say, and the code does not *)
(* do.                                                                     *)
(***************************************************************************)

\* store_c0.h: "Uncommitted operations are discarded on crash or close."  Then a
\* checkpoint would agree with the store that is opened later.
OpenNeverRejects ==
    \A p \in Procs : pc[p] = "verify" => ChkMatches(p)

\* store_c0.c, store_commit: a failed commit "leaves the staging queue intact
\* for a retry at the same offsets (never dangling pointers, ...)".
RetryReadsLiveBuffers ==
    \A p \in Procs : pc[p] = "commit" => freed[p] = 0
=============================================================================
