----------------------------- MODULE StoreInv -----------------------------
(***************************************************************************)
(* The inductive invariant behind the safety properties of Store, in the   *)
(* parts its proof takes one at a time.                                    *)
(***************************************************************************)
EXTENDS Store

\* The handle's cursors are the ones its call needs: nothing is accounted for
\* before replay ends, and nothing that is accounted for lies past the file.
CursorInv ==
    \A p \in Procs :
        /\ pc[p] \in {"idle", "locked", "header", "replay"} => walSize[p] = 0
        /\ pc[p] \in {"idle", "locked", "header"} => cursor[p] = 0
        /\ frames[p] = walSize[p]
        /\ walSize[p] <= Len(file)
        /\ walSize[p] <= MaxWal
        /\ pc[p] = "replay" => cursor[p] <= Len(file)
        /\ pc[p] = "commit" => /\ cursor[p] <= Len(staged[p])
                               /\ walSize[p] + cursor[p] <= Len(file)
                               /\ walSize[p] + Len(staged[p]) <= MaxWal
        /\ freed[p] <= Len(staged[p])
        /\ pc[p] \notin Live => staged[p] = <<>>

\* Only what the file holds can be dirty, neither image outgrows the WAL, and the
\* WAL is without a name on the medium only where names wait for a sync.
FileInv ==
    /\ \A i \in dirty : i <= Len(file)
    /\ Len(file) <= MaxWal
    /\ Len(disk) <= MaxWal
    /\ "name" \notin Faults => walName = "durable"

StructInv == TypeOK /\ LockExclusion /\ CursorInv /\ FileInv

\* How many slots, from the first, process p relies on: those it accounts for,
\* has replayed, or has written for the batch under way.
Relied(p) ==
    CASE pc[p] = "replay" -> cursor[p]
      [] pc[p] = "commit" -> walSize[p] + cursor[p]
      [] OTHER -> walSize[p]

\* Everything a process relies on verifies.
ValidInv ==
    \A p \in Procs :
        /\ \A i \in 1..Relied(p) : file[i] \in Frame
        /\ pc[p] \notin {"idle", "locked"} => hdr = "ok"

\* What is not dirty is on the medium.
SyncedInv ==
    /\ \A i \in 1..Len(file) : i \notin dirty => i <= Len(disk) /\ disk[i] = file[i]
    /\ 0 \notin dirty => hdrDisk = hdr

\* An acknowledged log is whole, clean and below everything a process may
\* still write or cut.
AckedInv ==
    /\ acked # <<>> => hdr = "ok" /\ 0 \notin dirty
    /\ Len(acked) <= Len(file)
    /\ \A i \in 1..Len(acked) : acked[i] \in Frame /\ file[i] = acked[i] /\ i \notin dirty
    /\ \A p \in Procs :
        /\ pc[p] = "header" => acked = <<>>
        /\ pc[p] \in Live \cup {"verify"} => Len(acked) <= walSize[p]

DurableInv == ReliableMedium => SyncedInv /\ AckedInv

\* The memtable is what the relied-on slots and the pending operations leave; a
\* commit that has come to its sync has nothing pending.
MemtableOf(p) ==
    /\ pc[p] \in {"idle", "locked", "header"} => mem[p] = EmptyTable
    /\ pc[p] = "replay" => Reflects(mem[p], SubSeq(file, 1, cursor[p]))
    /\ pc[p] \in Live \cup {"verify"} => Reflects(mem[p], Log(p) \o Pending(p))
    /\ pc[p] = "commit" =>
         /\ freed[p] = 0
         /\ \A i \in 1..cursor[p] : file[walSize[p] + i] = staged[p][i]
    /\ pc[p] = "sync" => freed[p] = Len(staged[p])

MemtableHolds == \A p \in Procs : MemtableOf(p)

MemtableInv == "retrySync" \notin Client => MemtableHolds

\* The first n slots are frames that nothing will write, cut or lose any more.
Protected(n) ==
    /\ hdr = "ok" /\ 0 \notin dirty
    /\ n <= Len(file)
    /\ \A i \in 1..n : file[i] \in Frame /\ i \notin dirty
    /\ \A p \in Procs : /\ pc[p] # "header"
                        /\ pc[p] \in Live \cup {"verify"} => n <= walSize[p]

\* A checkpoint, under either name, is the root of protected frames; for the one
\* about to be written they are clean.
CheckpointHolds ==
    /\ \A c \in {chk, chkDisk} \ {NoChk} :
          Protected(c.frames) /\ Reflects(c.root, SubSeq(file, 1, c.frames))
    /\ \A p \in Procs : pc[p] = "chkWrite" =>
          staged[p] = <<>> /\ \A i \in 0..walSize[p] : i \notin dirty

CheckpointInv == (Client = {} /\ ReliableMedium) => CheckpointHolds

\* What the medium has of a slot that is not there yet does not verify, so that
\* no old frame shows again behind a log that was cut.
ImageHolds ==
    /\ hdr = "none" => file = <<>>
    /\ \A p \in Procs : pc[p] = "header" => file = <<>>
    /\ hdrDisk = "ok" => hdr = "ok"
    /\ \A i \in 1..Len(disk) : i <= Len(file) => disk[i] \in {file[i], Torn}
    /\ Len(file) < Len(disk) => disk[Len(file) + 1] = Torn

\* What lies behind the slots a handle accounts for is the beginning of its queue,
\* the last slot of it perhaps torn: a retry writes the same frames again.
TailOf(p) ==
    /\ freed[p] > 0 \/ pc[p] = "verify" => Len(file) = walSize[p]
    /\ Len(file) <= walSize[p] + Len(staged[p])
    /\ \A i \in walSize[p] + 1..Len(file) :
          file[i] = staged[p][i - walSize[p]] \/ (file[i] = Torn /\ i = Len(file))

TailHolds == \A p \in Procs : pc[p] \in Live \cup {"verify"} => TailOf(p)

RefinementInv ==
    (ReliableMedium /\ "retrySync" \notin Client) => ImageHolds /\ TailHolds

\* The conjunction is inductive: the proofs take its parts in this order.
Inductive ==
    /\ StructInv /\ ValidInv /\ DurableInv
    /\ MemtableInv /\ CheckpointInv /\ RefinementInv

-----------------------------------------------------------------------------
(***************************************************************************)
(* The log that Store implements                                           *)
(***************************************************************************)

\* The slots from the first that a replay would accept.
Valid(n) == \A i \in 1..n : file[i] # Torn

\* The longest part of the WAL that a replay would accept.
Recoverable ==
    IF hdr # "ok" THEN <<>>
    ELSE SubSeq(file, 1, CHOOSE n \in 0..Len(file) :
                           Valid(n) /\ \A m \in 0..Len(file) : Valid(m) => m <= n)

Abstract == INSTANCE DurableLog WITH log <- Recoverable, durable <- acked

\* The store implements the log it promises: every write adds one frame to
\* what a reopening would replay, a successful commit answers for exactly that,
\* and a crash, a power loss or a truncation cuts at most what no commit
\* answered for.
ImplementsDurableLog == Abstract!Spec
=============================================================================
