---------------------------- MODULE StoreProofs ----------------------------
(***************************************************************************)
(* Proofs about Store, for every set of processes, keys and values, every  *)
(* bound and every combination of faults.                                  *)
(***************************************************************************)
EXTENDS StoreInv, SequenceTheorems, WellFoundedInduction, TLAPS

\* The numbers that the cursors are compared by.
LEMMA Numbers ==
    ASSUME TypeOK
    PROVE  /\ Len(file) \in Nat /\ Len(disk) \in Nat
           /\ \A q \in Procs : /\ staged[q] \in Seq(Frame) /\ Len(staged[q]) \in Nat
                               /\ freed[q] \in Nat /\ frames[q] \in Nat
                               /\ walSize[q] \in Nat /\ cursor[q] \in Nat
  <1>1. Len(file) \in Nat /\ Len(disk) \in Nat
    BY DEF TypeOK
  <1>2. ASSUME NEW q \in Procs
        PROVE  /\ staged[q] \in Seq(Frame)
               /\ freed[q] \in Nat /\ frames[q] \in Nat
               /\ walSize[q] \in Nat /\ cursor[q] \in Nat
    <2>1. /\ staged \in [Procs -> Seq(Frame)] /\ freed \in [Procs -> Nat]
          /\ frames \in [Procs -> Nat] /\ walSize \in [Procs -> Nat]
          /\ cursor \in [Procs -> Nat]
      BY DEF TypeOK
    <2>. QED BY <2>1
  <1>3. \A q \in Procs : Len(staged[q]) \in Nat
    <2>. SUFFICES ASSUME NEW q \in Procs PROVE Len(staged[q]) \in Nat
      OBVIOUS
    <2>1. staged[q] \in Seq(Frame)
      BY <1>2
    <2>. QED BY <2>1
  <1>. QED BY <1>1, <1>2, <1>3

\* What a sync does to the types and bounds of the two images of the WAL.
LEMMA FlushTypes ==
    ASSUME TypeOK, FileInv, NEW S, Flush(S)
    PROVE  /\ disk' \in Seq(Slot) /\ hdrDisk' \in Header /\ dirty' \in SUBSET Nat
           /\ file' = file /\ hdr' = hdr /\ walName' = walName /\ Len(disk') = Len(file) /\ dirty' = {}
  <1>1. \A i \in 1..Len(file) : file[i] \in Slot
    BY DEF TypeOK
  <1>2. \A i \in 1..Len(disk) : disk[i] \in Slot
    BY DEF TypeOK
  <1>3. Len(file) \in Nat /\ Len(disk) \in Nat
    BY DEF TypeOK
  <1>4. \A i \in 1..Len(file) : disk'[i] \in Slot
    BY <1>1, <1>2, <1>3 DEF Flush, Slot
  <1>5. DOMAIN disk' = 1..Len(file) /\ disk' = [i \in 1..Len(file) |-> disk'[i]]
    BY <1>3 DEF Flush
  <1>6. disk' \in Seq(Slot) /\ Len(disk') = Len(file)
    BY <1>3, <1>4, <1>5
  <1>7. hdrDisk' \in Header
    BY DEF Flush, TypeOK, Header
  <1>. QED BY <1>6, <1>7 DEF Flush

\* The outcome of an fdatasync/fsync pair, whichever it is.
LEMMA SyncTypes ==
    ASSUME TypeOK, FileInv, SyncOk \/ SyncFails
    PROVE  /\ disk' \in Seq(Slot) /\ hdrDisk' \in Header /\ dirty' \in SUBSET Nat
           /\ file' = file /\ hdr' = hdr /\ walName' = walName /\ dirty' \subseteq dirty
           /\ Len(disk') <= MaxWal
  <1>1. CASE SyncOk
    BY <1>1, FlushTypes DEF SyncOk, FileInv
  <1>2. CASE SyncFails
    BY <1>2 DEF SyncFails, TypeOK, FileInv
  <1>. QED BY <1>1, <1>2

\* A pwrite of a slot that is at most one past the end of the file.
LEMMA WriteSlotTypes ==
    ASSUME TypeOK, FileInv, NEW i \in Nat, i >= 1, i <= Len(file) + 1, i <= MaxWal,
           NEW x \in Slot, WriteSlot(i, x)
    PROVE  /\ file' \in Seq(Slot) /\ disk' \in Seq(Slot) /\ dirty' \in SUBSET Nat
           /\ hdr' = hdr /\ walName' = walName /\ hdrDisk' = hdrDisk
           /\ i <= Len(file') /\ Len(file) <= Len(file')
           /\ file'[i] = x
           /\ \A j \in 1..Len(file) : j # i => file'[j] = file[j]
           /\ FileInv'
  <1>. MaxWal \in Nat
    BY ConstantsAssumption
  <1>1. /\ file' \in Seq(Slot)
        /\ Len(file') = IF i <= Len(file) THEN Len(file) ELSE Len(file) + 1
        /\ file'[i] = x
        /\ \A j \in 1..Len(file) : j # i => file'[j] = file[j]
    <2>1. CASE i <= Len(file)
      BY <2>1 DEF WriteSlot, PutSlot, TypeOK
    <2>2. CASE ~(i <= Len(file))
      <3>1. file' = Append(file, x) /\ i = Len(file) + 1
        BY <2>2 DEF WriteSlot, PutSlot, TypeOK
      <3>. QED BY <3>1, <2>2 DEF TypeOK
    <2>. QED BY <2>1, <2>2
  <1>2. disk' \in Seq(Slot) /\ Len(disk') <= MaxWal
    BY DEF WriteSlot, TypeOK, FileInv
  <1>3. dirty' \in SUBSET Nat /\ \A j \in dirty' : j <= Len(file')
    BY <1>1 DEF WriteSlot, TypeOK, FileInv
  <1>4. Len(file') <= MaxWal
    BY <1>1 DEF FileInv
  <1>5. i <= Len(file') /\ Len(file) <= Len(file')
    BY <1>1 DEF TypeOK
  <1>. QED BY <1>1, <1>2, <1>3, <1>4, <1>5 DEF WriteSlot, FileInv

\* Giving the handle up resets it, and leaves nobody inside a call.
LEMMA DropHandleInv ==
    ASSUME StructInv, NEW p \in Procs, pc[p] # "idle", DropHandle(p),
           FileInv', Len(file') \in Nat,
           file' \in Seq(Slot), disk' \in Seq(Slot), dirty' \in SUBSET Nat,
           hdr' \in Header, hdrDisk' \in Header, walName' \in {"volatile", "durable"},
           UNCHANGED <<chk, chkDisk, acked>>
    PROVE  StructInv'
  <1>. USE ConstantsAssumption DEF StructInv
  <1>1. TypeOK'
    <2>1. mem' \in [Procs -> Table]
      BY DEF TypeOK, DropHandle, EmptyTable, Table
    <2>2. pc' \in [Procs -> Resting \cup Opening \cup Committing \cup Checkpointing]
      BY DEF TypeOK, DropHandle, Goto, Resting
    <2>3. /\ staged' \in [Procs -> Seq(Frame)]
          /\ freed' \in [Procs -> Nat] /\ frames' \in [Procs -> Nat]
          /\ walSize' \in [Procs -> Nat] /\ cursor' \in [Procs -> Nat]
      BY SMTT(30) DEF TypeOK, DropHandle
    <2>. QED BY <2>1, <2>2, <2>3 DEF TypeOK, DropHandle
  <1>2. \A q \in Procs : pc'[q] = "idle"
    BY DEF LockExclusion, DropHandle, Goto, TypeOK
  <1>3. LockExclusion'
    BY <1>2 DEF LockExclusion
  <1>4. CursorInv'
    <2>. SUFFICES ASSUME NEW q \in Procs
                  PROVE  /\ walSize'[q] = 0 /\ cursor'[q] = 0 /\ frames'[q] = 0
                         /\ freed'[q] = 0 /\ staged'[q] = <<>>
      BY <1>2 DEF CursorInv
    <2>1. CASE q = p
      BY <2>1 DEF DropHandle, TypeOK
    <2>2. CASE q # p
      <3>1. pc[q] = "idle"
        BY <2>2 DEF LockExclusion
      <3>2. /\ walSize[q] = 0 /\ cursor[q] = 0 /\ frames[q] = 0
            /\ staged[q] = <<>> /\ freed[q] \in Nat /\ freed[q] <= Len(staged[q])
        BY <3>1 DEF CursorInv, Live, Committing, Checkpointing, TypeOK
      <3>3. freed[q] = 0
        BY <3>2
      <3>. QED BY <2>2, <3>2, <3>3 DEF DropHandle, TypeOK
    <2>. QED BY <2>1, <2>2
  <1>. QED BY <1>1, <1>3, <1>4

LEMMA StructInit == Init => StructInv
  <1>. SUFFICES ASSUME Init PROVE StructInv
    OBVIOUS
  <1>. USE ConstantsAssumption DEF Init
  <1>1. TypeOK
    BY DEF TypeOK, Resting, Table, EmptyTable, Header
  <1>2. LockExclusion /\ FileInv
    BY DEF LockExclusion, FileInv
  <1>3. CursorInv
    <2>1. \A q \in Procs : /\ pc[q] = "idle" /\ staged[q] = <<>> /\ freed[q] = 0
                           /\ frames[q] = 0 /\ walSize[q] = 0 /\ cursor[q] = 0
                           /\ Len(staged[q]) = 0
      OBVIOUS
    <2>2. Len(file) = 0 /\ MaxWal \in Nat
      OBVIOUS
    <2>3. ASSUME NEW q \in Procs
          PROVE  /\ frames[q] = walSize[q] /\ walSize[q] <= Len(file) /\ walSize[q] <= MaxWal
                 /\ freed[q] <= Len(staged[q])
                 /\ pc[q] # "replay" /\ pc[q] # "commit"
                 /\ walSize[q] = 0 /\ cursor[q] = 0 /\ staged[q] = <<>>
      BY <2>1, <2>2
    <2>. HIDE DEF Init
    <2>. QED BY <2>3 DEF CursorInv
  <1>. QED BY <1>1, <1>2, <1>3 DEF StructInv

\* The calls of an opening.
LEMMA StructOpening ==
    ASSUME StructInv, NEW p \in Procs,
           \/ OpenLock(p) \/ OpenFails(p)
           \/ WriteHeader(p) \/ WriteHeaderShort(p) \/ SyncHeader(p) \/ ReadHeader(p)
           \/ ReplayFrame(p) \/ ReplayTruncate(p) \/ ReplayDone(p)
           \/ VerifyCheckpoint(p)
    PROVE  StructInv'
  <1>. USE ConstantsAssumption DEF handle, wal
  <1>0. TypeOK /\ LockExclusion /\ CursorInv /\ FileInv
    BY DEF StructInv
  <1>1. CASE OpenLock(p)
    <2>1. TypeOK'
      BY <1>0, <1>1 DEF OpenLock, Goto, TypeOK, Opening
    <2>2. LockExclusion'
      BY <1>0, <1>1 DEF OpenLock, Goto, TypeOK, LockExclusion
    <2>3. CursorInv'
      BY <1>0, <1>1 DEF OpenLock, Goto, TypeOK, CursorInv, Live, Committing, Checkpointing
    <2>. QED BY <1>0, <1>1, <2>1, <2>2, <2>3 DEF StructInv, OpenLock, FileInv
  <1>2. CASE OpenFails(p)
    <2>1. FileInv' /\ pc[p] # "idle" /\ DropHandle(p)
      BY <1>0, <1>2 DEF OpenFails, FileInv, Opening
    <2>2. /\ Len(file') \in Nat /\ file' \in Seq(Slot) /\ disk' \in Seq(Slot)
          /\ dirty' \in SUBSET Nat /\ hdr' \in Header /\ hdrDisk' \in Header
            /\ walName' \in {"volatile", "durable"}
          /\ UNCHANGED <<chk, chkDisk, acked>>
      BY <1>0, <1>2 DEF OpenFails, TypeOK
    <2>. QED BY <2>1, <2>2, DropHandleInv
  <1>3. CASE WriteHeader(p)
    <2>0. hdr' \in Header /\ dirty' \in SUBSET Nat
      BY <1>0, <1>3 DEF WriteHeader, TypeOK, Header
    <2>1. TypeOK'
      BY <1>0, <1>3, <2>0 DEF WriteHeader, Goto, TypeOK, Opening
    <2>2. LockExclusion'
      BY <1>0, <1>3 DEF WriteHeader, Goto, TypeOK, LockExclusion
    <2>3. CursorInv'
      BY <1>0, <1>3 DEF WriteHeader, Goto, TypeOK, CursorInv, Live, Committing, Checkpointing
    <2>4. FileInv'
      BY <1>0, <1>3 DEF WriteHeader, FileInv, TypeOK
    <2>. QED BY <2>1, <2>2, <2>3, <2>4 DEF StructInv
  <1>4. CASE WriteHeaderShort(p)
    <2>1. FileInv' /\ dirty' \in SUBSET Nat
      BY <1>0, <1>4 DEF WriteHeaderShort, FileInv, TypeOK
    <2>2. pc[p] # "idle" /\ DropHandle(p) /\ hdr' \in Header
      BY <1>4 DEF WriteHeaderShort, Header
    <2>3. /\ Len(file') \in Nat /\ file' \in Seq(Slot) /\ disk' \in Seq(Slot)
          /\ hdrDisk' \in Header /\ walName' \in {"volatile", "durable"}
          /\ UNCHANGED <<chk, chkDisk, acked>>
      BY <1>0, <1>4 DEF WriteHeaderShort, TypeOK
    <2>. QED BY <2>1, <2>2, <2>3, DropHandleInv
  <1>5. CASE SyncHeader(p)
    <2>0. SyncOk \/ SyncFails
      BY <1>0, <1>5 DEF SyncHeader
    <2>1. /\ disk' \in Seq(Slot) /\ hdrDisk' \in Header /\ dirty' \in SUBSET Nat
          /\ file' = file /\ hdr' = hdr /\ walName' = walName /\ FileInv'
      BY <1>0, <2>0, SyncTypes DEF FileInv
    <2>2. CASE DropHandle(p)
      <3>1. pc[p] # "idle" /\ UNCHANGED <<chk, chkDisk, acked>>
        BY <1>5 DEF SyncHeader
      <3>2. /\ Len(file') \in Nat /\ file' \in Seq(Slot) /\ disk' \in Seq(Slot)
            /\ walName' \in {"volatile", "durable"}
            /\ dirty' \in SUBSET Nat /\ hdr' \in Header /\ hdrDisk' \in Header
        BY <1>0, <1>5, <2>1 DEF SyncHeader, TypeOK
      <3>. QED BY <2>1, <2>2, <3>1, <3>2, DropHandleInv
    <2>3. CASE Goto(p, "verify") /\ UNCHANGED <<lock, handle>>
      <3>1. TypeOK'
        BY <1>0, <1>5, <2>1, <2>3 DEF SyncHeader, Goto, TypeOK, Opening
      <3>2. LockExclusion'
        BY <1>0, <1>5, <2>3 DEF SyncHeader, Goto, TypeOK, LockExclusion
      <3>3. CursorInv'
        BY <1>0, <1>5, <2>1, <2>3 DEF SyncHeader, Goto, TypeOK, CursorInv, Live, Committing, Checkpointing
      <3>. QED BY <2>1, <3>1, <3>2, <3>3 DEF StructInv
    <2>. QED BY <1>0, <1>5, <2>2, <2>3 DEF SyncHeader
  <1>6. CASE ReadHeader(p)
    <2>1. TypeOK'
      BY <1>0, <1>6 DEF ReadHeader, Goto, TypeOK, Opening
    <2>2. LockExclusion'
      BY <1>0, <1>6 DEF ReadHeader, Goto, TypeOK, LockExclusion
    <2>3. CursorInv'
      BY <1>0, <1>6 DEF ReadHeader, Goto, TypeOK, CursorInv, Live, Committing, Checkpointing
    <2>. QED BY <1>0, <1>6, <2>1, <2>2, <2>3 DEF StructInv, ReadHeader, FileInv
  <1>7. CASE ReplayFrame(p)
    <2>1. mem' \in [Procs -> Table]
      <3>1. cursor[p] + 1 \in 1..Len(file) /\ file[cursor[p] + 1] \in Frame
        BY <1>0, <1>7 DEF ReplayFrame, TypeOK, Slot
      <3>2. Apply(mem[p], file[cursor[p] + 1]) \in Table
        BY <1>0, <3>1 DEF Apply, Table, Frame, TypeOK
      <3>. QED BY <1>0, <1>7, <3>2 DEF ReplayFrame, TypeOK
    <2>2. TypeOK'
      <3>1. cursor' \in [Procs -> Nat]
        BY <1>0, <1>7, SMTT(30) DEF ReplayFrame, TypeOK
      <3>2. UNCHANGED <<lock, pc, staged, freed, frames, walSize, file, disk, dirty,
                        hdr, hdrDisk, walName, chk, chkDisk, acked>>
        BY <1>7 DEF ReplayFrame
      <3>. QED BY <1>0, <2>1, <3>1, <3>2 DEF TypeOK
    <2>3. LockExclusion'
      BY <1>0, <1>7 DEF ReplayFrame, LockExclusion
    <2>4. CursorInv'
      BY <1>0, <1>7 DEF ReplayFrame, TypeOK, CursorInv, Live, Committing, Checkpointing
    <2>. QED BY <1>0, <1>7, <2>2, <2>3, <2>4 DEF StructInv, ReplayFrame, FileInv
  <1>8. CASE ReplayTruncate(p)
    <2>0. file' \in Seq(Slot) /\ Len(file') = cursor[p] /\ cursor[p] \in Nat /\ cursor[p] < Len(file)
      <3>1. cursor[p] \in Nat /\ cursor[p] < Len(file) /\ file \in Seq(Slot)
        BY <1>0, <1>8 DEF ReplayTruncate, TypeOK
      <3>2. file' = SubSeq(file, 1, cursor[p])
        BY <1>8 DEF ReplayTruncate, Truncate
      <3>. QED BY <3>1, <3>2
    <2>1. TypeOK'
      BY <1>0, <1>8, <2>0 DEF ReplayTruncate, Truncate, TypeOK
    <2>2. LockExclusion'
      BY <1>0, <1>8 DEF ReplayTruncate, LockExclusion
    <2>3. CursorInv'
      <3>1. UNCHANGED <<pc, staged, freed, frames, walSize, cursor>>
        BY <1>8 DEF ReplayTruncate
      <3>2. \A q \in Procs : walSize[q] = 0 /\ pc[q] # "commit" /\ (pc[q] = "replay" => q = p)
        BY <1>0, <1>8 DEF ReplayTruncate, LockExclusion, CursorInv
      <3>. QED BY <1>0, <2>0, <3>1, <3>2 DEF CursorInv
    <2>4. FileInv'
      <3>1. \A i \in dirty' : i <= Len(file')
        BY <1>8, <2>0 DEF ReplayTruncate, Truncate
      <3>2. disk' = disk /\ walName' = walName /\ Len(file) \in Nat
        BY <1>0, <1>8 DEF ReplayTruncate, Truncate, TypeOK
      <3>. QED BY <1>0, <2>0, <3>1, <3>2 DEF FileInv
    <2>. QED BY <2>1, <2>2, <2>3, <2>4 DEF StructInv
  <1>9. CASE ReplayDone(p)
    <2>1. /\ disk' \in Seq(Slot) /\ hdrDisk' \in Header /\ dirty' \in SUBSET Nat
          /\ file' = file /\ hdr' = hdr /\ walName' = walName /\ FileInv'
      BY <1>0, <1>9, SyncTypes DEF ReplayDone, FileInv
    <2>2. TypeOK'
      BY <1>0, <1>9, <2>1 DEF ReplayDone, Goto, TypeOK, Opening
    <2>3. LockExclusion'
      BY <1>0, <1>9 DEF ReplayDone, Goto, TypeOK, LockExclusion
    <2>4. CursorInv'
      BY <1>0, <1>9, <2>1 DEF ReplayDone, Goto, TypeOK, CursorInv, FileInv, Live, Committing, Checkpointing
    <2>. QED BY <2>1, <2>2, <2>3, <2>4 DEF StructInv
  <1>10. CASE VerifyCheckpoint(p)
    <2>1. FileInv'
      BY <1>0, <1>10 DEF VerifyCheckpoint, FileInv
    <2>2. CASE DropHandle(p)
      <3>1. pc[p] # "idle" /\ UNCHANGED <<chk, chkDisk, acked>>
        BY <1>10 DEF VerifyCheckpoint
      <3>2. /\ Len(file') \in Nat /\ file' \in Seq(Slot) /\ disk' \in Seq(Slot)
            /\ dirty' \in SUBSET Nat /\ hdr' \in Header /\ hdrDisk' \in Header
            /\ walName' \in {"volatile", "durable"}
        BY <1>0, <1>10, <2>1 DEF VerifyCheckpoint, TypeOK
      <3>. QED BY <2>1, <2>2, <3>1, <3>2, DropHandleInv
    <2>3. CASE Goto(p, "open") /\ UNCHANGED <<lock, handle>>
      <3>1. TypeOK'
        BY <1>0, <1>10, <2>3 DEF VerifyCheckpoint, Goto, TypeOK, Resting
      <3>2. LockExclusion'
        BY <1>0, <1>10, <2>3 DEF VerifyCheckpoint, Goto, TypeOK, LockExclusion
      <3>3. CursorInv'
        BY <1>0, <1>10, <2>3 DEF VerifyCheckpoint, Goto, TypeOK, CursorInv, Live, Committing, Checkpointing
      <3>. QED BY <2>1, <3>1, <3>2, <3>3 DEF StructInv
    <2>. QED BY <1>0, <1>10, <2>2, <2>3 DEF VerifyCheckpoint
  <1>. QED BY <1>1, <1>2, <1>3, <1>4, <1>5, <1>6, <1>7, <1>8, <1>9, <1>10

\* Staging keeps the types of both layers and moves no cursor.
LEMMA StructStage ==
    ASSUME StructInv, NEW p \in Procs, NEW f \in Frame, pc[p] = "open", Stage(p, f)
    PROVE  StructInv'
  <1>. USE ConstantsAssumption DEF handle, wal
  <1>0. TypeOK /\ LockExclusion /\ CursorInv /\ FileInv
    BY DEF StructInv
  <1>1. Apply(mem[p], f) \in Table
    BY <1>0 DEF Apply, Table, Frame, TypeOK
  <1>2. mem' \in [Procs -> Table]
    BY <1>0, <1>1 DEF Stage, TypeOK
  <1>3. /\ staged' \in [Procs -> Seq(Frame)]
        /\ \A q \in Procs : Len(staged[q]) <= Len(staged'[q])
        /\ \A q \in Procs : q # p => staged'[q] = staged[q]
    BY <1>0, SMTT(30) DEF Stage, TypeOK
  <1>4. TypeOK'
    BY <1>0, <1>2, <1>3 DEF Stage, TypeOK
  <1>5. LockExclusion' /\ FileInv'
    BY <1>0 DEF Stage, LockExclusion, FileInv
  <1>6. CursorInv'
    <2>1. UNCHANGED <<pc, frames, walSize, cursor, file, freed>>
      BY DEF Stage
    <2>2. ASSUME NEW q \in Procs
          PROVE  freed[q] <= Len(staged'[q])
      <3>1. freed[q] \in Nat /\ Len(staged[q]) \in Nat /\ Len(staged'[q]) \in Nat
        BY <1>0, <1>3, Numbers
      <3>. QED BY <1>0, <1>3, <3>1 DEF CursorInv
    <2>. QED BY <1>0, <1>3, <2>1, <2>2 DEF CursorInv, Live
  <1>. QED BY <1>4, <1>5, <1>6 DEF StructInv

\* store_commit: frames go to consecutive slots after the accounted ones, and
\* the cursors move over exactly the slots that were written.
LEMMA StructCommit ==
    ASSUME StructInv, NEW p \in Procs,
           \/ CommitBegin(p) \/ CommitWrite(p) \/ CommitFails(p)
           \/ CommitPublish(p) \/ CommitSync(p)
    PROVE  StructInv'
  <1>. USE ConstantsAssumption DEF handle, wal
  <1>0. TypeOK /\ LockExclusion /\ CursorInv /\ FileInv
    BY DEF StructInv
  <1>1. CASE CommitBegin(p)
    <2>1. TypeOK'
      BY <1>0, <1>1 DEF CommitBegin, Goto, TypeOK, Committing
    <2>2. LockExclusion'
      BY <1>0, <1>1 DEF CommitBegin, Goto, TypeOK, LockExclusion
    <2>3. CursorInv'
      BY <1>0, <1>1 DEF CommitBegin, Goto, TypeOK, CursorInv, Live, Committing, Checkpointing
    <2>. QED BY <1>0, <1>1, <2>1, <2>2, <2>3 DEF StructInv, CommitBegin, FileInv
  <1>2. CASE CommitWrite(p)
    <2>. DEFINE i == cursor[p] + 1
                at == walSize[p] + i
    <2>1. /\ pc[p] = "commit" /\ i \in 1..Len(staged[p]) /\ at \in Nat /\ at >= 1
          /\ at <= Len(file) + 1 /\ at <= MaxWal
          /\ Len(file) \in Nat /\ Len(staged[p]) \in Nat
          /\ cursor[p] \in Nat /\ walSize[p] \in Nat
      <3>1. /\ pc[p] = "commit" /\ i <= Len(staged[p]) /\ walSize[p] + cursor[p] <= Len(file)
            /\ walSize[p] + Len(staged[p]) <= MaxWal
        BY <1>0, <1>2 DEF CommitWrite, CursorInv
      <3>. QED BY <1>0, <3>1, Numbers, SMTT(30)
    <2>2. PICK f \in StagedBytes(p, i) : WriteSlot(at, f)
      BY <1>2 DEF CommitWrite
    <2>3. f \in Frame
      BY <1>0, <2>1, <2>2, SMTT(30) DEF StagedBytes, TypeOK
    <2>4. f \in Slot
      BY <2>3 DEF Slot
    <2>. HIDE DEF at
    <2>5. /\ file' \in Seq(Slot) /\ disk' \in Seq(Slot) /\ dirty' \in SUBSET Nat
          /\ hdr' = hdr /\ walName' = walName /\ hdrDisk' = hdrDisk
          /\ at <= Len(file') /\ Len(file) <= Len(file') /\ FileInv'
      BY <1>0, <2>1, <2>2, <2>4, WriteSlotTypes
    <2>6. UNCHANGED <<lock, pc, mem, staged, freed, frames, walSize, chk, chkDisk, acked>>
      BY <1>2 DEF CommitWrite
    <2>7. cursor' = [cursor EXCEPT ![p] = i]
      BY <1>2 DEF CommitWrite
    <2>8. TypeOK'
      <3>1. cursor' \in [Procs -> Nat]
        BY <1>0, <2>1, <2>7, SMTT(30) DEF TypeOK
      <3>. QED BY <1>0, <2>5, <2>6, <3>1 DEF TypeOK
    <2>9. LockExclusion'
      BY <1>0, <2>6 DEF LockExclusion
    <2>10. CursorInv'
      <3>1. Len(file') \in Nat /\ \A q \in Procs : walSize[q] \in Nat
        BY <1>0, <2>5, SMTT(30) DEF TypeOK
      <3>2. \A q \in Procs : q # p => pc[q] = "idle" /\ cursor'[q] = cursor[q]
        BY <1>0, <2>1, <2>7 DEF LockExclusion, TypeOK
      <3>3. cursor'[p] = i
        BY <1>0, <2>7 DEF TypeOK
      <3>4. CursorInv!(p)'
        <4>1. /\ frames'[p] = walSize'[p] /\ walSize'[p] <= Len(file') /\ walSize'[p] <= MaxWal
              /\ freed'[p] <= Len(staged'[p]) /\ walSize'[p] + Len(staged'[p]) <= MaxWal
          BY <1>0, <2>1, <2>5, <2>6, <3>1 DEF CursorInv
        <4>2. cursor'[p] <= Len(staged'[p]) /\ walSize'[p] + cursor'[p] <= Len(file')
          BY <2>1, <2>5, <2>6, <3>1, <3>3 DEF at
        <4>3. pc'[p] = "commit" /\ pc'[p] \in Live
          BY <2>1, <2>6 DEF Live, Committing
        <4>. QED BY <4>1, <4>2, <4>3
      <3>5. ASSUME NEW q \in Procs, q # p
            PROVE  CursorInv!(q)'
        BY <1>0, <2>1, <2>5, <2>6, <3>1, <3>2, <3>5, SMTT(30) DEF CursorInv
      <3>. QED BY <3>4, <3>5 DEF CursorInv
    <2>. QED BY <2>5, <2>8, <2>9, <2>10 DEF StructInv
  <1>3. CASE CommitFails(p)
    <2>. DEFINE at == walSize[p] + cursor[p] + 1
    <2>1. /\ pc[p] = "commit" /\ at \in Nat /\ at >= 1
          /\ at <= Len(file) + 1 /\ at <= MaxWal /\ Len(file) \in Nat
      BY <1>0, <1>3, SMTT(30) DEF CommitFails, TypeOK, CursorInv
    <2>2. WriteSlot(at, Torn) \/ UNCHANGED wal
      BY <1>3 DEF CommitFails
    <2>3. Torn \in Slot
      BY DEF Slot
    <2>. HIDE DEF at
    <2>4. /\ file' \in Seq(Slot) /\ disk' \in Seq(Slot) /\ dirty' \in SUBSET Nat
          /\ hdr' = hdr /\ walName' = walName /\ hdrDisk' = hdrDisk /\ Len(file) <= Len(file') /\ FileInv'
      <3>1. CASE WriteSlot(at, Torn)
        BY <1>0, <2>1, <2>3, <3>1, WriteSlotTypes
      <3>2. CASE UNCHANGED wal
        BY <1>0, <3>2, <2>1 DEF TypeOK, FileInv
      <3>. QED BY <2>2, <3>1, <3>2
    <2>5. /\ UNCHANGED <<lock, mem, staged, freed, frames, walSize, chk, chkDisk, acked>>
          /\ cursor' = [cursor EXCEPT ![p] = 0] /\ pc' = [pc EXCEPT ![p] = "open"]
      BY <1>3 DEF CommitFails, Goto
    <2>6. TypeOK'
      BY <1>0, <2>4, <2>5 DEF TypeOK, Resting
    <2>7. LockExclusion'
      BY <1>0, <2>1, <2>5 DEF LockExclusion, TypeOK
    <2>8. CursorInv'
      <3>1. Len(file') \in Nat /\ \A q \in Procs : walSize[q] \in Nat
        BY <1>0, <2>4, SMTT(30) DEF TypeOK
      <3>2. \A q \in Procs : q # p => pc'[q] = "idle" /\ pc[q] = "idle" /\ cursor'[q] = cursor[q]
        BY <1>0, <2>1, <2>5 DEF LockExclusion, TypeOK
      <3>3. pc'[p] = "open"
        BY <1>0, <2>5 DEF TypeOK
      <3>. QED BY <1>0, <2>1, <2>4, <2>5, <3>1, <3>2, <3>3 DEF CursorInv, Live
    <2>. QED BY <2>4, <2>6, <2>7, <2>8 DEF StructInv
  <1>4. CASE CommitPublish(p)
    <2>0. /\ Len(staged[p]) \in Nat /\ walSize[p] + Len(staged[p]) \in Nat
          /\ frames[p] + Len(staged[p]) \in Nat
      BY <1>0, Numbers
    <2>1. TypeOK'
      <3>1. /\ walSize' \in [Procs -> Nat] /\ frames' \in [Procs -> Nat]
            /\ freed' \in [Procs -> Nat] /\ cursor' \in [Procs -> Nat]
        BY <1>0, <1>4, <2>0 DEF CommitPublish, TypeOK
      <3>2. pc' \in [Procs -> Resting \cup Opening \cup Committing \cup Checkpointing]
        BY <1>0, <1>4 DEF CommitPublish, Goto, TypeOK, Committing
      <3>. QED BY <1>0, <1>4, <3>1, <3>2 DEF CommitPublish, TypeOK
    <2>2. LockExclusion'
      BY <1>0, <1>4 DEF CommitPublish, Goto, TypeOK, LockExclusion
    <2>3. CursorInv'
      BY <1>0, <1>4, <2>0 DEF CommitPublish, Goto, TypeOK, CursorInv, Live, Committing, Checkpointing
    <2>. QED BY <1>0, <1>4, <2>1, <2>2, <2>3 DEF StructInv, CommitPublish, FileInv
  <1>5. CASE CommitSync(p)
    <2>1. /\ disk' \in Seq(Slot) /\ hdrDisk' \in Header /\ dirty' \in SUBSET Nat
          /\ file' = file /\ hdr' = hdr /\ walName' = walName /\ FileInv'
      BY <1>0, <1>5, SyncTypes DEF CommitSync, FileInv
    <2>2. Log(p) \in Seq(Slot)
      <3>1. walSize[p] \in Nat /\ walSize[p] <= Len(file) /\ file \in Seq(Slot)
        BY <1>0 DEF TypeOK, CursorInv
      <3>. QED BY <3>1 DEF Log
    <2>3. /\ acked' \in Seq(Slot)
          /\ staged' \in [Procs -> Seq(Frame)] /\ freed' \in [Procs -> Nat]
      <3>1. <<>> \in Seq(Frame)
        OBVIOUS
      <3>2. CASE SyncOk /\ staged' = [staged EXCEPT ![p] = <<>>]
                 /\ freed' = [freed EXCEPT ![p] = 0] /\ acked' = Log(p)
        BY <1>0, <2>2, <3>1, <3>2 DEF TypeOK
      <3>3. CASE UNCHANGED <<staged, freed, acked>>
        BY <1>0, <3>3 DEF TypeOK
      <3>. QED BY <1>5, <3>2, <3>3 DEF CommitSync
    <2>4. TypeOK'
      BY <1>0, <1>5, <2>1, <2>3 DEF CommitSync, Goto, TypeOK, Resting
    <2>5. LockExclusion'
      BY <1>0, <1>5 DEF CommitSync, Goto, TypeOK, LockExclusion
    <2>6. CursorInv'
      <3>1. ASSUME NEW q \in Procs
            PROVE  freed'[q] <= Len(staged'[q])
        <4>1. Len(<<>>) = 0
          OBVIOUS
        <4>2. \/ freed'[q] = freed[q] /\ staged'[q] = staged[q]
              \/ freed'[q] = 0 /\ staged'[q] = <<>>
          BY <1>0, <1>5 DEF CommitSync, TypeOK
        <4>. QED BY <1>0, <4>1, <4>2 DEF CursorInv
      <3>2. \A q \in Procs : pc'[q] \notin Live => staged'[q] = <<>>
        BY <1>0, <1>5 DEF CommitSync, Goto, TypeOK, CursorInv, Live
      <3>3. pc'[p] = "open" /\ \A q \in Procs : q # p => pc'[q] = "idle" /\ pc[q] = "idle"
        BY <1>0, <1>5 DEF CommitSync, Goto, TypeOK, LockExclusion
      <3>4. UNCHANGED <<frames, walSize, cursor>>
        BY <1>5 DEF CommitSync
      <3>. QED BY <1>0, <2>1, <3>1, <3>2, <3>3, <3>4 DEF CursorInv
    <2>. QED BY <2>1, <2>4, <2>5, <2>6 DEF StructInv
  <1>. QED BY <1>1, <1>2, <1>3, <1>4, <1>5

\* store_checkpoint leaves the log and the handle alone.
LEMMA StructCheckpoint ==
    ASSUME StructInv, NEW p \in Procs,
           CheckpointSync(p) \/ CheckpointRename(p) \/ CheckpointDirSync(p)
    PROVE  StructInv'
  <1>. USE ConstantsAssumption DEF handle, wal
  <1>0. TypeOK /\ LockExclusion /\ CursorInv /\ FileInv
    BY DEF StructInv
  <1>1. CASE CheckpointSync(p)
    <2>1. /\ disk' \in Seq(Slot) /\ hdrDisk' \in Header /\ dirty' \in SUBSET Nat
          /\ file' = file /\ hdr' = hdr /\ walName' = walName /\ FileInv'
      BY <1>0, <1>1, SyncTypes DEF CheckpointSync, FileInv
    <2>2. TypeOK'
      BY <1>0, <1>1, <2>1 DEF CheckpointSync, Goto, TypeOK, Checkpointing
    <2>3. LockExclusion'
      BY <1>0, <1>1 DEF CheckpointSync, Goto, TypeOK, LockExclusion
    <2>4. CursorInv'
      BY <1>0, <1>1, <2>1, SMTT(30) DEF CheckpointSync, Goto, TypeOK, CursorInv, Live, Committing, Checkpointing
    <2>. QED BY <2>1, <2>2, <2>3, <2>4 DEF StructInv
  <1>2. CASE CheckpointRename(p)
    <2>1. chk' \in Checkpoint \cup {NoChk}
      <3>1. frames[p] \in Nat /\ mem[p] \in Table
        BY <1>0 DEF TypeOK
      <3>. QED BY <1>0, <1>2, <3>1 DEF CheckpointRename, TypeOK, Checkpoint
    <2>2. TypeOK'
      BY <1>0, <1>2, <2>1 DEF CheckpointRename, Goto, TypeOK, Checkpointing, Resting
    <2>3. LockExclusion' /\ FileInv'
      BY <1>0, <1>2 DEF CheckpointRename, Goto, TypeOK, LockExclusion, FileInv
    <2>4. CursorInv'
      <3>1. UNCHANGED <<staged, freed, frames, walSize, cursor, file>> /\ pc[p] = "chkWrite"
        BY <1>2 DEF CheckpointRename
      <3>2. pc' = [pc EXCEPT ![p] = "chkDir"] \/ pc' = [pc EXCEPT ![p] = "open"]
        BY <1>2 DEF CheckpointRename, Goto
      <3>3. pc'[p] \in {"chkDir", "open"} /\ \A q \in Procs : q # p => pc'[q] = pc[q]
        BY <1>0, <3>2 DEF TypeOK
      <3>4. pc[p] \in Live /\ pc'[p] \in Live
        BY <3>1, <3>3 DEF Live, Committing, Checkpointing
      <3>5. CursorInv!(p)'
        BY <1>0, <3>1, <3>3, <3>4 DEF CursorInv
      <3>6. \A q \in Procs : q # p => CursorInv!(q)'
        BY <1>0, <3>1, <3>3 DEF CursorInv
      <3>. QED BY <3>5, <3>6 DEF CursorInv
    <2>. QED BY <2>2, <2>3, <2>4 DEF StructInv
  <1>3. CASE CheckpointDirSync(p)
    <2>1. TypeOK'
      BY <1>0, <1>3 DEF CheckpointDirSync, Goto, TypeOK, Resting
    <2>2. LockExclusion' /\ FileInv'
      BY <1>0, <1>3 DEF CheckpointDirSync, Goto, TypeOK, LockExclusion, FileInv
    <2>3. CursorInv'
      BY <1>0, <1>3 DEF CheckpointDirSync, Goto, TypeOK, CursorInv, Live, Committing, Checkpointing
    <2>. QED BY <2>1, <2>2, <2>3 DEF StructInv
  <1>. QED BY <1>1, <1>2, <1>3

\* Closing, dying, losing power and decay.
LEMMA StructStop ==
    ASSUME StructInv,
           \/ \E p \in Procs : StoreClose(p) \/ Crash(p)
           \/ PowerLoss \/ Flip
    PROVE  StructInv'
  <1>. USE ConstantsAssumption DEF handle, wal
  <1>0. TypeOK /\ LockExclusion /\ CursorInv /\ FileInv
    BY DEF StructInv
  <1>1. ASSUME NEW p \in Procs, StoreClose(p)
        PROVE  StructInv'
    <2>1. /\ disk' \in Seq(Slot) /\ hdrDisk' \in Header /\ dirty' \in SUBSET Nat
          /\ file' = file /\ hdr' = hdr /\ walName' = walName /\ FileInv'
      BY <1>0, <1>1, SyncTypes DEF StoreClose, FileInv
    <2>2. pc[p] # "idle" /\ DropHandle(p) /\ UNCHANGED <<chk, chkDisk, acked>>
      BY <1>1 DEF StoreClose
    <2>3. /\ Len(file') \in Nat /\ file' \in Seq(Slot) /\ hdr' \in Header
          /\ walName' \in {"volatile", "durable"}
      BY <1>0, <2>1 DEF TypeOK
    <2>. QED BY <2>1, <2>2, <2>3, DropHandleInv
  <1>2. ASSUME NEW p \in Procs, Crash(p)
        PROVE  StructInv'
    <2>1. FileInv' /\ pc[p] # "idle" /\ DropHandle(p) /\ UNCHANGED <<chk, chkDisk, acked>>
      BY <1>0, <1>2 DEF Crash, FileInv
    <2>2. /\ Len(file') \in Nat /\ file' \in Seq(Slot) /\ disk' \in Seq(Slot)
          /\ dirty' \in SUBSET Nat /\ hdr' \in Header /\ hdrDisk' \in Header
          /\ walName' \in {"volatile", "durable"}
      BY <1>0, <1>2, SMTT(30) DEF Crash, TypeOK
    <2>. QED BY <2>1, <2>2, DropHandleInv
  <1>3. CASE PowerLoss
    <2>1. file' \in Seq(Slot) /\ hdr' \in Header /\ Len(file') <= MaxWal /\ Len(file') \in Nat
      <3>1. CASE NameLost
        <4>1. file' = <<>> /\ hdr' = "none"
          BY <3>1 DEF NameLost
        <4>2. <<>> \in Seq(Slot) /\ Len(<<>>) = 0
          OBVIOUS
        <4>. QED BY <4>1, <4>2 DEF Header
      <3>2. CASE WrittenBack
        <4>1. PICK n \in Len(disk)..Len(file) \cup Len(file)..Len(disk),
                   kept \in SUBSET (dirty \ {0}),
                   h \in IF 0 \in dirty THEN {hdr, hdrDisk, "partial"} ELSE {hdrDisk} :
                /\ \E torn \in SUBSET kept : file' = Survivors(n, kept, torn)
                /\ hdr' = h
          BY <3>2 DEF WrittenBack
        <4>2. n \in Nat /\ n <= MaxWal
          BY <1>0, Numbers DEF FileInv
        <4>3. \A i \in 1..n : file'[i] \in Slot
          <5>1. \A i \in kept : i <= Len(file)
            BY <1>0 DEF FileInv
          <5>2. \A i \in 1..Len(file) : file[i] \in Slot
            BY <1>0 DEF TypeOK
          <5>3. \A i \in 1..Len(disk) : disk[i] \in Slot
            BY <1>0 DEF TypeOK
          <5>4. Torn \in Slot
            BY DEF Slot
          <5>. QED BY <1>0, <4>1, <4>2, <5>1, <5>2, <5>3, <5>4, Numbers DEF Survivors
        <4>4. file' = [i \in 1..n |-> file'[i]]
          BY <4>1 DEF Survivors
        <4>5. file' \in Seq(Slot) /\ Len(file') = n
          BY <4>2, <4>3, <4>4
        <4>6. hdr' \in Header
          BY <1>0, <4>1 DEF TypeOK, Header
        <4>. QED BY <4>2, <4>5, <4>6
      <3>. QED BY <1>3, <3>1, <3>2 DEF PowerLoss
    <2>2. /\ disk' = file' /\ hdrDisk' = hdr' /\ dirty' = {} /\ lock' = NoProc /\ acked' = acked
          /\ chk' \in {chk, chkDisk} /\ chkDisk' \in {chk, chkDisk}
          /\ walName' \in {walName, "durable"}
      BY <1>3 DEF PowerLoss, WrittenBack, NameLost
    <2>3. /\ pc' = [q \in Procs |-> "idle"] /\ mem' = [q \in Procs |-> EmptyTable]
          /\ staged' = [q \in Procs |-> <<>>] /\ freed' = [q \in Procs |-> 0]
          /\ frames' = [q \in Procs |-> 0] /\ walSize' = [q \in Procs |-> 0]
          /\ cursor' = [q \in Procs |-> 0]
      BY <1>3 DEF PowerLoss
    <2>4. FileInv'
      BY <1>0, <2>1, <2>2 DEF FileInv
    <2>5. TypeOK'
      <3>1. mem' \in [Procs -> Table]
        BY <2>3 DEF Table, EmptyTable
      <3>2. pc' \in [Procs -> Resting \cup Opening \cup Committing \cup Checkpointing]
        BY <2>3 DEF Resting
      <3>3. /\ staged' \in [Procs -> Seq(Frame)] /\ freed' \in [Procs -> Nat]
            /\ frames' \in [Procs -> Nat] /\ walSize' \in [Procs -> Nat]
            /\ cursor' \in [Procs -> Nat]
        BY <2>3
      <3>. QED BY <1>0, <2>1, <2>2, <3>1, <3>2, <3>3 DEF TypeOK
    <2>6. LockExclusion'
      BY <2>3 DEF LockExclusion
    <2>7. CursorInv'
      <3>1. ASSUME NEW q \in Procs
            PROVE  /\ frames'[q] = 0 /\ walSize'[q] = 0 /\ freed'[q] = 0 /\ cursor'[q] = 0
                   /\ pc'[q] = "idle" /\ staged'[q] = <<>> /\ Len(staged'[q]) = 0
        BY <2>3
      <3>. QED BY <2>1, <3>1 DEF CursorInv
    <2>. QED BY <2>4, <2>5, <2>6, <2>7 DEF StructInv
  <1>4. CASE Flip
    <2>1. /\ file' \in Seq(Slot) /\ disk' \in Seq(Slot)
          /\ Len(file') = Len(file) /\ Len(disk') = Len(disk)
      <3>1. CASE UNCHANGED <<file, disk>>
        BY <1>0, <3>1 DEF TypeOK
      <3>2. ASSUME NEW i \in DOMAIN file, file' = [file EXCEPT ![i] = Torn],
                   disk' = IF i <= Len(disk) THEN [disk EXCEPT ![i] = Torn] ELSE disk
            PROVE  /\ file' \in Seq(Slot) /\ disk' \in Seq(Slot)
                   /\ Len(file') = Len(file) /\ Len(disk') = Len(disk)
        <4>1. Torn \in Slot /\ file \in Seq(Slot) /\ disk \in Seq(Slot) /\ i \in 1..Len(file)
          BY <1>0, SMTT(30) DEF Slot, TypeOK
        <4>. QED BY <3>2, <4>1
      <3>. QED BY <1>4, <3>1, <3>2 DEF Flip
    <2>2. /\ hdr' \in Header /\ hdrDisk' \in Header
          /\ chk' \in Checkpoint \cup {NoChk} /\ chkDisk' \in Checkpoint \cup {NoChk}
          /\ UNCHANGED <<lock, pc, mem, staged, freed, frames, walSize, cursor, dirty, walName, acked>>
      BY <1>0, <1>4 DEF Flip, TypeOK, Header
    <2>3. TypeOK'
      BY <1>0, <2>1, <2>2 DEF TypeOK
    <2>4. LockExclusion' /\ FileInv'
      BY <1>0, <2>1, <2>2 DEF LockExclusion, FileInv
    <2>5. CursorInv'
      BY <1>0, <2>1, <2>2 DEF CursorInv
    <2>. QED BY <2>3, <2>4, <2>5 DEF StructInv
  <1>. QED BY <1>1, <1>2, <1>3, <1>4

LEMMA StructNext == StructInv /\ [Next]_vars => StructInv'
  <1>. SUFFICES ASSUME StructInv, [Next]_vars PROVE StructInv'
    OBVIOUS
  <1>1. ASSUME NEW p \in Procs, CallStep(p) PROVE StructInv'
    BY <1>1, StructOpening, StructCommit, StructCheckpoint
       DEF CallStep, OpenCorrupt, OpenFails, Opening
  <1>2. ASSUME NEW p \in Procs, ClientStep(p) PROVE StructInv'
    <2>1. ASSUME NEW k \in Keys, NEW v \in Vals, StorePut(p, k, v) PROVE StructInv'
      <3>1. [key |-> k, val |-> v] \in Frame
        BY DEF Frame
      <3>. QED BY <2>1, <3>1, StructStage DEF StorePut
    <2>2. ASSUME NEW k \in Keys, StoreDel(p, k) PROVE StructInv'
      <3>1. [key |-> k, val |-> Absent] \in Frame
        BY DEF Frame
      <3>. QED BY <2>2, <3>1, StructStage DEF StoreDel
    <2>. QED BY <1>2, <2>1, <2>2, StructOpening, StructCommit, StructCheckpoint, StructStop DEF ClientStep
  <1>3. ASSUME NEW p \in Procs, OpenFails(p) \/ Crash(p) PROVE StructInv'
    BY <1>3, StructOpening, StructStop
  <1>4. CASE PowerLoss \/ Flip
    BY <1>4, StructStop
  <1>5. CASE UNCHANGED vars
    <2>1. UNCHANGED <<lock, pc, mem, staged, freed, frames, walSize, cursor, file, disk,
                      dirty, hdr, hdrDisk, walName, chk, chkDisk, acked>>
      BY <1>5 DEF vars, handle, wal
    <2>. QED BY <2>1 DEF StructInv, TypeOK, LockExclusion, CursorInv, FileInv
  <1>. QED BY <1>1, <1>2, <1>3, <1>4, <1>5 DEF Next

LEMMA StructAlways == Spec => []StructInv
  BY StructInit, StructNext, PTL DEF Spec

\* Every variable keeps its type, whatever fails and however often.
THEOREM TypeCorrect == Spec => []TypeOK
  <1>1. StructInv => TypeOK
    BY DEF StructInv
  <1>. QED BY StructAlways, <1>1, PTL

\* flock keeps every process but the holder out of the store's files, through
\* crashes and failed openings.
THEOREM OneHolder == Spec => []LockExclusion
  <1>1. StructInv => LockExclusion
    BY DEF StructInv
  <1>. QED BY StructAlways, <1>1, PTL

\* frame_count and wal_size stay in step, inside the file and under the limit.
THEOREM CursorsStayInStep == Spec => []CursorsAgree
  <1>1. StructInv => CursorsAgree
    BY DEF StructInv, CursorInv, CursorsAgree
  <1>. QED BY StructAlways, <1>1, PTL
-----------------------------------------------------------------------------
(***************************************************************************)
(* What store_commit acknowledged survives: acked frames stay on the       *)
(* medium and are never rewritten, from the structural invariant.          *)
(***************************************************************************)

\* Whoever takes a step is alone: every other process is idle and stays so.
LEMMA OthersIdle ==
    ASSUME StructInv, NEW p \in Procs, CallStep(p) \/ ClientStep(p) \/ OpenFails(p) \/ Crash(p)
    PROVE  \A q \in Procs : q # p => pc[q] = "idle" /\ pc'[q] = "idle"
  <1>. USE ConstantsAssumption DEF handle, wal
  <1>0. pc \in [Procs -> Resting \cup Opening \cup Committing \cup Checkpointing] /\ LockExclusion
    BY DEF StructInv, TypeOK
  <1>1. \A q \in Procs : q # p => pc[q] = "idle"
    <2>1. CASE pc[p] # "idle"
      BY <1>0, <2>1 DEF LockExclusion
    <2>2. CASE pc[p] = "idle"
      <3>1. lock = NoProc
        BY <2>2 DEF CallStep, ClientStep, Crash, OpenLock, OpenFails, OpenCorrupt, WriteHeader, WriteHeaderShort,
               SyncHeader, ReadHeader, ReplayFrame, ReplayTruncate, ReplayDone, VerifyCheckpoint,
               CommitBegin, CommitWrite, CommitFails, CommitPublish, CommitSync, CheckpointSync,
               CheckpointRename, CheckpointDirSync, StoreClose, StorePut, StoreDel, Opening
      <3>. QED BY <1>0, <3>1 DEF LockExclusion
    <2>. QED BY <2>1, <2>2
  <1>2. (\E l : pc' = [pc EXCEPT ![p] = l]) \/ pc' = pc
    <2>1. CASE CallStep(p)
      BY <2>1 DEF CallStep, OpenCorrupt, WriteHeader, WriteHeaderShort, SyncHeader, ReadHeader,
             ReplayFrame, ReplayTruncate, ReplayDone, VerifyCheckpoint, CommitWrite, CommitFails,
             CommitPublish, CommitSync, CheckpointRename, CheckpointDirSync, DropHandle, Goto
    <2>2. CASE ClientStep(p)
      BY <2>2 DEF ClientStep, OpenLock, CommitBegin, CheckpointSync, StoreClose, StorePut, StoreDel,
             Stage, DropHandle, Goto
    <2>3. CASE OpenFails(p) \/ Crash(p)
      BY <2>3 DEF OpenFails, Crash, DropHandle, Goto
    <2>. QED BY <2>1, <2>2, <2>3
  <1>3. \A q \in Procs : q # p => pc'[q] = pc[q]
    BY <1>0, <1>2
  <1>. QED BY <1>1, <1>3

\* It is enough to look at the process that holds the store after the step.
LEMMA ValidHolder ==
    ASSUME StructInv', NEW p \in Procs,
           \A q \in Procs : q # p => pc'[q] = "idle",
           pc'[p] # "idle" => \A i \in 1..Relied(p)' : file'[i] \in Frame,
           pc'[p] \notin {"idle", "locked"} => hdr' = "ok"
    PROVE  ValidInv'
  <1>1. ASSUME NEW q \in Procs, pc'[q] = "idle"
        PROVE  Relied(q)' = 0
    <2>1. walSize'[q] = 0
      BY <1>1 DEF StructInv, CursorInv
    <2>. QED BY <1>1, <2>1 DEF Relied
  <1>2. ASSUME NEW q \in Procs
        PROVE  \A i \in 1..Relied(q)' : file'[i] \in Frame
    <2>1. CASE pc'[q] = "idle"
      BY <1>1, <2>1
    <2>2. CASE pc'[q] # "idle"
      BY <2>2
    <2>. QED BY <2>1, <2>2
  <1>. QED BY <1>2 DEF ValidInv

LEMMA ValidOpening ==
    ASSUME StructInv, StructInv', ValidInv, NEW p \in Procs,
           \/ OpenLock(p) \/ OpenFails(p)
           \/ WriteHeader(p) \/ WriteHeaderShort(p) \/ SyncHeader(p) \/ ReadHeader(p)
           \/ ReplayFrame(p) \/ ReplayTruncate(p) \/ ReplayDone(p)
           \/ VerifyCheckpoint(p),
           \A q \in Procs : q # p => pc[q] = "idle" /\ pc'[q] = "idle"
    PROVE  ValidInv'
  <1>. USE DEF handle, wal
  <1>0. /\ TypeOK /\ CursorInv /\ FileInv /\ TypeOK' /\ CursorInv'
        /\ \A i \in 1..Relied(p) : file[i] \in Frame
        /\ pc[p] \notin {"idle", "locked"} => hdr = "ok"
    BY DEF StructInv, ValidInv
  <1>1. CASE DropHandle(p)
    <2>1. pc'[p] = "idle"
      BY <1>0, <1>1 DEF DropHandle, Goto, TypeOK
    <2>. QED BY <2>1, ValidHolder
  <1>2. CASE OpenLock(p) \/ WriteHeader(p)
    <2>1. pc'[p] \in {"locked", "header"} /\ walSize'[p] = 0 /\ (pc'[p] = "header" => hdr' = "ok")
      BY <1>0, <1>2 DEF OpenLock, WriteHeader, Goto, TypeOK, CursorInv
    <2>2. Relied(p)' = 0
      BY <2>1 DEF Relied
    <2>. QED BY <2>1, <2>2, ValidHolder
  <1>3. CASE SyncHeader(p) /\ ~DropHandle(p)
    <2>1. pc'[p] = "verify" /\ pc[p] = "header" /\ walSize'[p] = walSize[p] /\ walSize[p] = 0
      BY <1>0, <1>3 DEF SyncHeader, Goto, TypeOK, CursorInv
    <2>2. hdr' = "ok"
      BY <1>0, <1>3, <2>1, SyncTypes DEF SyncHeader
    <2>3. Relied(p)' = 0
      BY <2>1 DEF Relied
    <2>. QED BY <2>1, <2>2, <2>3, ValidHolder
  <1>4. CASE ReadHeader(p)
    <2>1. pc'[p] = "replay" /\ cursor'[p] = 0 /\ hdr' = "ok"
      BY <1>0, <1>4 DEF ReadHeader, Goto, TypeOK, CursorInv
    <2>2. Relied(p)' = 0
      BY <2>1 DEF Relied
    <2>. QED BY <2>1, <2>2, ValidHolder
  <1>5. CASE ReplayFrame(p)
    <2>1. /\ pc[p] = "replay" /\ pc'[p] = "replay" /\ file' = file /\ hdr' = hdr
          /\ cursor'[p] = cursor[p] + 1 /\ cursor[p] \in Nat
          /\ cursor[p] + 1 \in 1..Len(file) /\ file[cursor[p] + 1] \in Frame
      BY <1>0, <1>5 DEF ReplayFrame, TypeOK, Slot
    <2>2. Relied(p) = cursor[p] /\ Relied(p)' = cursor[p] + 1
      BY <2>1 DEF Relied
    <2>3. \A i \in 1..Relied(p)' : file'[i] \in Frame
      BY <1>0, <2>1, <2>2
    <2>. QED BY <1>0, <2>1, <2>3, ValidHolder
  <1>6. CASE ReplayTruncate(p)
    <2>1. /\ pc[p] = "replay" /\ pc'[p] = "replay" /\ hdr' = hdr /\ cursor'[p] = cursor[p]
          /\ cursor[p] \in Nat /\ cursor[p] < Len(file)
          /\ file' = SubSeq(file, 1, cursor[p]) /\ file \in Seq(Slot)
      BY <1>0, <1>6 DEF ReplayTruncate, Truncate, TypeOK
    <2>2. Relied(p) = cursor[p] /\ Relied(p)' = cursor[p]
      BY <2>1 DEF Relied
    <2>3. \A i \in 1..cursor[p] : file'[i] = file[i]
      BY <2>1
    <2>. QED BY <1>0, <2>1, <2>2, <2>3, ValidHolder
  <1>7. CASE ReplayDone(p)
    <2>1. /\ pc[p] = "replay" /\ pc'[p] = "verify" /\ walSize'[p] = cursor[p]
      BY <1>0, <1>7 DEF ReplayDone, Goto, TypeOK
    <2>2. file' = file /\ hdr' = hdr
      BY <1>0, <1>7, SyncTypes DEF ReplayDone
    <2>3. Relied(p) = cursor[p] /\ Relied(p)' = cursor[p]
      BY <2>1 DEF Relied
    <2>. QED BY <1>0, <2>1, <2>2, <2>3, ValidHolder
  <1>8. CASE VerifyCheckpoint(p) /\ ~DropHandle(p)
    <2>1. /\ pc[p] = "verify" /\ pc'[p] = "open" /\ walSize'[p] = walSize[p]
          /\ file' = file /\ hdr' = hdr
      BY <1>0, <1>8 DEF VerifyCheckpoint, Goto, TypeOK
    <2>2. Relied(p) = walSize[p] /\ Relied(p)' = walSize[p]
      BY <2>1 DEF Relied
    <2>. QED BY <1>0, <2>1, <2>2, ValidHolder
  <1>. QED BY <1>1, <1>2, <1>3, <1>4, <1>5, <1>6, <1>7, <1>8
           DEF OpenFails, WriteHeaderShort

\* What the two outcomes of a slot write have in common.
LEMMA CommitSlot ==
    ASSUME StructInv, NEW p \in Procs, CommitWrite(p)
    PROVE  LET at == walSize[p] + cursor[p] + 1 IN
           /\ pc[p] = "commit" /\ pc'[p] = "commit"
           /\ walSize' = walSize /\ cursor'[p] = cursor[p] + 1 /\ hdr' = hdr /\ hdrDisk' = hdrDisk
           /\ at \in 1..(Len(file) + 1) /\ at <= Len(file') /\ Len(file) <= Len(file')
           /\ cursor[p] + 1 \in 1..Len(staged[p])
           /\ \E f \in StagedBytes(p, cursor[p] + 1) :
                f \in Frame /\ WriteSlot(at, f) /\ file'[at] = f
           /\ \A j \in 1..Len(file) : j # at => file'[j] = file[j]
  <1>. USE ConstantsAssumption
  <1>. DEFINE at == walSize[p] + cursor[p] + 1
  <1>0. TypeOK /\ CursorInv /\ FileInv
    BY DEF StructInv
  <1>1. /\ pc[p] = "commit" /\ pc' = pc /\ walSize' = walSize
        /\ cursor' = [cursor EXCEPT ![p] = cursor[p] + 1]
        /\ cursor[p] + 1 <= Len(staged[p])
        /\ walSize[p] + cursor[p] <= Len(file) /\ walSize[p] + Len(staged[p]) <= MaxWal
    BY <1>0 DEF CommitWrite, CursorInv
  <1>2. /\ walSize[p] \in Nat /\ cursor[p] \in Nat /\ Len(file) \in Nat /\ Len(staged[p]) \in Nat
        /\ staged[p] \in Seq(Frame)
    BY <1>0, Numbers
  <1>3. at \in 1..(Len(file) + 1) /\ at <= MaxWal /\ at \in Nat /\ cursor[p] + 1 \in 1..Len(staged[p])
    BY <1>1, <1>2, SMTT(30)
  <1>4. PICK f \in StagedBytes(p, cursor[p] + 1) : WriteSlot(walSize[p] + (cursor[p] + 1), f)
    BY DEF CommitWrite
  <1>5. f \in Frame
    BY <1>2, <1>3 DEF StagedBytes
  <1>6. f \in Slot
    BY <1>5 DEF Slot
  <1>7. walSize[p] + (cursor[p] + 1) = at
    BY <1>2
  <1>8. WriteSlot(at, f)
    BY <1>4, <1>7
  <1>9. cursor'[p] = cursor[p] + 1
    BY <1>0, <1>1 DEF TypeOK
  <1>. HIDE DEF at
  <1>10. /\ at <= Len(file') /\ Len(file) <= Len(file') /\ file'[at] = f
         /\ hdr' = hdr /\ hdrDisk' = hdrDisk
         /\ \A j \in 1..Len(file) : j # at => file'[j] = file[j]
    BY <1>0, <1>3, <1>6, <1>8, WriteSlotTypes
  <1>. QED BY <1>1, <1>3, <1>4, <1>5, <1>8, <1>9, <1>10 DEF at

\* A failed write leaves every slot but the one it was aimed at alone.
LEMMA CommitFailSlot ==
    ASSUME StructInv, NEW p \in Procs, CommitFails(p)
    PROVE  LET at == walSize[p] + cursor[p] + 1 IN
           /\ pc[p] = "commit" /\ pc'[p] = "open" /\ walSize' = walSize
           /\ hdr' = hdr /\ hdrDisk' = hdrDisk
           /\ at \in 1..(Len(file) + 1) /\ Len(file) <= Len(file')
           /\ WriteSlot(at, Torn) \/ UNCHANGED wal
           /\ \A j \in 1..Len(file) : j # at => file'[j] = file[j]
  <1>. USE ConstantsAssumption
  <1>. DEFINE at == walSize[p] + cursor[p] + 1
  <1>0. TypeOK /\ CursorInv /\ FileInv
    BY DEF StructInv
  <1>1. /\ pc[p] = "commit" /\ pc' = [pc EXCEPT ![p] = "open"] /\ walSize' = walSize
        /\ cursor[p] < Len(staged[p])
        /\ walSize[p] + cursor[p] <= Len(file) /\ walSize[p] + Len(staged[p]) <= MaxWal
        /\ WriteSlot(at, Torn) \/ UNCHANGED wal
    BY <1>0 DEF CommitFails, CursorInv, Goto
  <1>2. walSize[p] \in Nat /\ cursor[p] \in Nat /\ Len(file) \in Nat /\ Len(staged[p]) \in Nat
    BY <1>0, Numbers
  <1>3. at \in 1..(Len(file) + 1) /\ at <= MaxWal /\ at \in Nat
    BY <1>1, <1>2
  <1>4. Torn \in Slot /\ pc'[p] = "open"
    BY <1>0, <1>1 DEF Slot, TypeOK
  <1>. HIDE DEF at
  <1>5. CASE WriteSlot(at, Torn)
    <2>1. /\ Len(file) <= Len(file') /\ hdr' = hdr /\ hdrDisk' = hdrDisk
          /\ \A j \in 1..Len(file) : j # at => file'[j] = file[j]
      BY <1>0, <1>3, <1>4, <1>5, WriteSlotTypes
    <2>. QED BY <1>1, <1>3, <1>4, <1>5, <2>1 DEF at
  <1>6. CASE UNCHANGED wal
    <2>1. file' = file /\ hdr' = hdr /\ hdrDisk' = hdrDisk
      BY <1>6 DEF wal
    <2>. QED BY <1>1, <1>2, <1>3, <1>4, <1>6, <2>1 DEF at
  <1>. QED BY <1>1, <1>5, <1>6

LEMMA ValidCommit ==
    ASSUME StructInv, StructInv', ValidInv, NEW p \in Procs,
           \/ CommitBegin(p) \/ CommitWrite(p) \/ CommitFails(p)
           \/ CommitPublish(p) \/ CommitSync(p),
           \A q \in Procs : q # p => pc[q] = "idle" /\ pc'[q] = "idle"
    PROVE  ValidInv'
  <1>. USE DEF handle, wal
  <1>0. /\ TypeOK /\ CursorInv /\ FileInv
        /\ \A i \in 1..Relied(p) : file[i] \in Frame
        /\ pc[p] \notin {"idle", "locked"} => hdr = "ok"
    BY DEF StructInv, ValidInv
  <1>n. walSize[p] \in Nat /\ cursor[p] \in Nat /\ Len(file) \in Nat /\ Len(staged[p]) \in Nat
    BY <1>0, Numbers
  <1>1. CASE CommitBegin(p)
    <2>1. /\ pc[p] = "open" /\ pc'[p] = "commit" /\ walSize'[p] = walSize[p] /\ cursor'[p] = 0
          /\ file' = file /\ hdr' = hdr
      BY <1>0, <1>1 DEF CommitBegin, Goto, TypeOK
    <2>2. Relied(p) = walSize[p] /\ Relied(p)' = walSize[p]
      BY <1>n, <2>1 DEF Relied
    <2>. QED BY <1>0, <2>1, <2>2, ValidHolder
  <1>2. CASE CommitWrite(p)
    <2>. DEFINE at == walSize[p] + cursor[p] + 1
    <2>1. /\ pc[p] = "commit" /\ pc'[p] = "commit" /\ walSize' = walSize
          /\ cursor'[p] = cursor[p] + 1 /\ hdr' = hdr /\ at \in 1..(Len(file) + 1)
          /\ file'[at] \in Frame
          /\ \A j \in 1..Len(file) : j # at => file'[j] = file[j]
      BY <1>2, CommitSlot
    <2>2. Relied(p) = walSize[p] + cursor[p] /\ Relied(p)' = walSize[p] + (cursor[p] + 1)
      BY <2>1 DEF Relied
    <2>3. ASSUME NEW i \in 1..Relied(p)' PROVE file'[i] \in Frame
      <3>1. CASE i = at
        BY <2>1, <3>1
      <3>2. CASE i # at
        <4>1. i \in 1..Relied(p) /\ i \in 1..Len(file)
          BY <1>n, <2>1, <2>2, <3>2
        <4>. QED BY <1>0, <2>1, <3>2, <4>1
      <3>. QED BY <3>1, <3>2
    <2>. QED BY <1>0, <2>1, <2>3, ValidHolder
  <1>3. CASE CommitFails(p)
    <2>. DEFINE at == walSize[p] + cursor[p] + 1
    <2>1. /\ pc[p] = "commit" /\ pc'[p] = "open" /\ walSize' = walSize /\ hdr' = hdr
          /\ at \in 1..(Len(file) + 1)
          /\ \A j \in 1..Len(file) : j # at => file'[j] = file[j]
      BY <1>3, CommitFailSlot
    <2>2. Relied(p) = walSize[p] + cursor[p] /\ Relied(p)' = walSize[p]
      BY <2>1 DEF Relied
    <2>3. walSize[p] <= Len(file)
      BY <1>0 DEF CursorInv
    <2>4. \A i \in 1..Relied(p)' : file'[i] \in Frame
      BY <1>0, <1>n, <2>1, <2>2, <2>3, SMTT(30)
    <2>. QED BY <1>0, <2>1, <2>4, ValidHolder
  <1>4. CASE CommitPublish(p)
    <2>1. /\ pc[p] = "commit" /\ pc'[p] = "sync" /\ walSize'[p] = walSize[p] + Len(staged[p])
          /\ cursor[p] = Len(staged[p]) /\ file' = file /\ hdr' = hdr
      BY <1>0, <1>4 DEF CommitPublish, Goto, TypeOK
    <2>2. Relied(p) = walSize[p] + cursor[p] /\ Relied(p)' = walSize[p] + cursor[p]
      BY <2>1 DEF Relied
    <2>. QED BY <1>0, <2>1, <2>2, ValidHolder
  <1>5. CASE CommitSync(p)
    <2>1. /\ pc[p] = "sync" /\ pc'[p] = "open" /\ walSize'[p] = walSize[p]
      BY <1>0, <1>5 DEF CommitSync, Goto, TypeOK
    <2>2. file' = file /\ hdr' = hdr
      BY <1>0, <1>5, SyncTypes DEF CommitSync
    <2>3. Relied(p) = walSize[p] /\ Relied(p)' = walSize[p]
      BY <2>1 DEF Relied
    <2>. QED BY <1>0, <2>1, <2>2, <2>3, ValidHolder
  <1>. QED BY <1>1, <1>2, <1>3, <1>4, <1>5

\* Calls that leave the slots and the cursors alone.
LEMMA ValidQuiet ==
    ASSUME StructInv, StructInv', ValidInv, NEW p \in Procs,
           \/ \E k \in Keys, v \in Vals : StorePut(p, k, v)
           \/ \E k \in Keys : StoreDel(p, k)
           \/ CheckpointSync(p) \/ CheckpointRename(p) \/ CheckpointDirSync(p),
           \A q \in Procs : q # p => pc[q] = "idle" /\ pc'[q] = "idle"
    PROVE  ValidInv'
  <1>. USE DEF handle, wal
  <1>0. /\ TypeOK /\ CursorInv /\ FileInv
        /\ \A i \in 1..Relied(p) : file[i] \in Frame
        /\ pc[p] \notin {"idle", "locked"} => hdr = "ok"
    BY DEF StructInv, ValidInv
  <1>1. /\ pc[p] \in {"open", "chkWrite", "chkDir"} /\ pc'[p] \in {"open", "chkWrite", "chkDir"}
        /\ walSize'[p] = walSize[p]
    BY <1>0 DEF StorePut, StoreDel, Stage, CheckpointSync, CheckpointRename, CheckpointDirSync,
           Goto, TypeOK
  <1>2. file' = file /\ hdr' = hdr
    BY <1>0, SyncTypes DEF StorePut, StoreDel, Stage, CheckpointSync, CheckpointRename,
           CheckpointDirSync
  <1>3. Relied(p) = walSize[p] /\ Relied(p)' = walSize[p]
    BY <1>1 DEF Relied
  <1>. QED BY <1>0, <1>1, <1>2, <1>3, ValidHolder

LEMMA ValidNext == StructInv /\ StructInv' /\ ValidInv /\ [Next]_vars => ValidInv'
  <1>. SUFFICES ASSUME StructInv, StructInv', ValidInv, [Next]_vars PROVE ValidInv'
    OBVIOUS
  <1>0. TypeOK /\ CursorInv
    BY DEF StructInv
  <1>a. ASSUME \A q \in Procs : pc'[q] = "idle" PROVE ValidInv'
    <2>1. \A q \in Procs : walSize'[q] = 0
      BY <1>a DEF StructInv, CursorInv
    <2>. QED BY <1>a, <2>1 DEF ValidInv, Relied
  <1>1. ASSUME NEW p \in Procs, CallStep(p) PROVE ValidInv'
    BY <1>1, OthersIdle, ValidOpening, ValidCommit, ValidQuiet
       DEF CallStep, OpenCorrupt, OpenFails, Opening
  <1>2. ASSUME NEW p \in Procs, ClientStep(p) PROVE ValidInv'
    <2>1. CASE StoreClose(p)
      <3>1. pc'[p] = "idle"
        BY <1>0, <2>1 DEF StoreClose, DropHandle, Goto, TypeOK
      <3>. QED BY <1>2, <1>a, <3>1, OthersIdle
    <2>. QED BY <1>2, <2>1, OthersIdle, ValidOpening, ValidCommit, ValidQuiet DEF ClientStep
  <1>3. ASSUME NEW p \in Procs, OpenFails(p) \/ Crash(p) PROVE ValidInv'
    <2>1. pc'[p] = "idle"
      BY <1>0, <1>3 DEF OpenFails, Crash, DropHandle, Goto, TypeOK
    <2>. QED BY <1>3, <1>a, <2>1, OthersIdle
  <1>4. CASE PowerLoss
    BY <1>4, <1>a DEF PowerLoss
  <1>5. CASE Flip
    <2>1. \A q \in Procs : pc[q] = "idle"
      BY <1>5, ConstantsAssumption DEF Flip, StructInv, LockExclusion
    <2>. QED BY <1>5, <1>a, <2>1 DEF Flip
  <1>6. CASE UNCHANGED vars
    BY <1>6 DEF vars, handle, wal, ValidInv, Relied
  <1>. QED BY <1>1, <1>2, <1>3, <1>4, <1>5, <1>6 DEF Next

-----------------------------------------------------------------------------
\* On a reliable medium the name of the WAL outlives a power loss ...
LEMMA ReliableLoss == ReliableMedium /\ PowerLoss => WrittenBack
  BY DEF ReliableMedium, PowerLoss, NameLost

\* ... and a replay cuts at a slot that does not verify.
LEMMA ReliableCut ==
    ASSUME ReliableMedium, NEW p \in Procs, ReplayTruncate(p)
    PROVE  file[cursor[p] + 1] = Torn
  BY DEF ReliableMedium, ReplayTruncate

\* On a reliable medium the outcome of a sync keeps clean slots on the medium,
\* and a successful one leaves nothing dirty.
LEMMA ReliableSync ==
    ASSUME TypeOK, FileInv, SyncedInv, ReliableMedium, SyncOk \/ SyncFails
    PROVE  SyncedInv' /\ file' = file /\ hdr' = hdr /\ dirty' \subseteq dirty
  <1>0. "drop" \notin Faults
    BY DEF ReliableMedium
  <1>1. CASE SyncOk
    <2>1. Flush(dirty)
      BY <1>0, <1>1 DEF SyncOk
    <2>2. file' = file /\ hdr' = hdr /\ dirty' = {} /\ Len(disk') = Len(file)
      BY <2>1, FlushTypes
    <2>3. \A i \in 1..Len(file) : disk'[i] = file[i]
      BY <2>1, Numbers DEF Flush, SyncedInv
    <2>4. hdrDisk' = hdr
      BY <2>1 DEF Flush, SyncedInv
    <2>. QED BY <2>2, <2>3, <2>4, Numbers DEF SyncedInv
  <1>2. CASE SyncFails
    BY <1>0, <1>2 DEF SyncFails, SyncedInv
  <1>. QED BY <1>1, <1>2

\* A write past the acknowledged log disturbs neither it nor the clean slots.
LEMMA WriteKeepsSynced ==
    ASSUME TypeOK, FileInv, SyncedInv, NEW i \in Nat, i >= 1, i <= Len(file) + 1, i <= MaxWal,
           NEW x \in Slot, WriteSlot(i, x)
    PROVE  SyncedInv'
  <1>1. /\ file' \in Seq(Slot) /\ hdr' = hdr /\ hdrDisk' = hdrDisk
        /\ Len(file) <= Len(file') /\ i <= Len(file')
        /\ \A j \in 1..Len(file) : j # i => file'[j] = file[j]
    BY WriteSlotTypes
  <1>2. dirty' = dirty \cup {i}
    BY DEF WriteSlot
  <1>3. Len(file') \in Nat /\ Len(file) \in Nat /\ Len(disk) \in Nat /\ disk \in Seq(Slot)
    BY <1>1, Numbers DEF TypeOK
  <1>4. Len(file') <= Len(file) + 1 /\ (Len(file') = Len(file) + 1 => i = Len(file) + 1)
    BY <1>3 DEF WriteSlot, PutSlot, TypeOK
  <1>5. \A j \in 1..Len(file) : j <= Len(disk) => j <= Len(disk') /\ disk'[j] = disk[j]
    <2>1. CASE Len(disk) > Len(file)
      <3>1. disk' = SubSeq(disk, 1, Len(file))
        BY <2>1 DEF WriteSlot
      <3>. QED BY <1>3, <2>1, <3>1
    <2>2. CASE ~(Len(disk) > Len(file))
      BY <2>2 DEF WriteSlot
    <2>. QED BY <2>1, <2>2
  <1>6. ASSUME NEW j \in 1..Len(file'), j \notin dirty'
        PROVE  j <= Len(disk') /\ disk'[j] = file'[j]
    <2>1. j # i /\ j \notin dirty /\ j \in 1..Len(file)
      BY <1>2, <1>3, <1>4, <1>6
    <2>2. j <= Len(disk) /\ disk[j] = file[j]
      BY <2>1 DEF SyncedInv
    <2>. QED BY <1>1, <1>5, <2>1, <2>2
  <1>7. 0 \notin dirty' => hdrDisk' = hdr'
    BY <1>1, <1>2 DEF SyncedInv
  <1>. QED BY <1>6, <1>7 DEF SyncedInv

\* A step that leaves the file's slots, its header and acked alone, and cleans
\* slots at most, keeps the acknowledged log safe.
LEMMA AckedKept ==
    ASSUME AckedInv, NEW p \in Procs,
           \A q \in Procs : q # p => pc'[q] = "idle",
           file' = file, hdr' = hdr, dirty' \subseteq dirty, acked' = acked,
           pc'[p] = "header" => acked = <<>>,
           pc'[p] \in Live \cup {"verify"} => Len(acked) <= walSize'[p]
    PROVE  AckedInv'
  <1>1. \A q \in Procs : /\ pc'[q] = "header" => acked' = <<>>
                         /\ pc'[q] \in Live \cup {"verify"} => Len(acked') <= walSize'[q]
    <2>1. ASSUME NEW q \in Procs, q # p
          PROVE  pc'[q] # "header" /\ pc'[q] \notin Live \cup {"verify"}
      BY <2>1 DEF Live, Committing, Checkpointing
    <2>. QED BY <2>1
  <1>2. /\ acked' # <<>> => hdr' = "ok" /\ 0 \notin dirty'
        /\ Len(acked') <= Len(file')
        /\ \A i \in 1..Len(acked') :
             acked'[i] \in Frame /\ file'[i] = acked'[i] /\ i \notin dirty'
    BY DEF AckedInv
  <1>. QED BY <1>1, <1>2 DEF AckedInv

\* Steps that touch no byte of the WAL.
LEMMA DurableQuiet ==
    ASSUME StructInv, SyncedInv, AckedInv, NEW p \in Procs,
           \/ OpenLock(p) \/ OpenFails(p) \/ ReadHeader(p) \/ ReplayFrame(p)
           \/ VerifyCheckpoint(p)
           \/ \E k \in Keys, v \in Vals : StorePut(p, k, v)
           \/ \E k \in Keys : StoreDel(p, k)
           \/ CommitBegin(p) \/ CommitPublish(p)
           \/ CheckpointRename(p) \/ CheckpointDirSync(p)
           \/ Crash(p),
           \A q \in Procs : q # p => pc'[q] = "idle"
    PROVE  SyncedInv' /\ AckedInv'
  <1>. USE DEF handle, wal
  <1>0. TypeOK /\ CursorInv
    BY DEF StructInv
  <1>1. UNCHANGED <<file, disk, dirty, hdr, hdrDisk, acked>>
    BY DEF OpenLock, OpenFails, ReadHeader, ReplayFrame, VerifyCheckpoint, StorePut, StoreDel,
           Stage, CommitBegin, CommitPublish, CheckpointRename, CheckpointDirSync, Crash
  <1>2. \/ pc'[p] \in {"idle", "locked", "replay"}
        \/ /\ pc[p] \in Live \cup {"verify"} /\ pc'[p] # "header"
           /\ walSize'[p] = walSize[p] \/ walSize'[p] = walSize[p] + Len(staged[p])
    BY <1>0 DEF OpenLock, OpenFails, ReadHeader, ReplayFrame, VerifyCheckpoint, StorePut, StoreDel,
           Stage, CommitBegin, CommitPublish, CheckpointRename, CheckpointDirSync, Crash,
           DropHandle, Goto, TypeOK, Live, Committing, Checkpointing
  <1>3. Len(staged[p]) \in Nat /\ walSize[p] \in Nat /\ Len(acked) \in Nat
    BY <1>0, Numbers DEF TypeOK
  <1>4. pc'[p] \in Live \cup {"verify"} => Len(acked) <= walSize'[p]
    BY <1>2, <1>3 DEF AckedInv, Live, Committing, Checkpointing
  <1>5. pc'[p] = "header" => acked = <<>>
    BY <1>2
  <1>6. AckedInv'
    BY <1>1, <1>4, <1>5, AckedKept
  <1>7. SyncedInv'
    BY <1>1 DEF SyncedInv
  <1>. QED BY <1>6, <1>7

\* Steps that sync the WAL.
LEMMA DurableSync ==
    ASSUME StructInv, ValidInv, SyncedInv, AckedInv, ReliableMedium, NEW p \in Procs,
           \/ SyncHeader(p) \/ ReplayDone(p) \/ CommitSync(p)
           \/ CheckpointSync(p) \/ StoreClose(p),
           \A q \in Procs : q # p => pc'[q] = "idle"
    PROVE  SyncedInv' /\ AckedInv'
  <1>. USE DEF handle, wal
  <1>0. TypeOK /\ CursorInv /\ FileInv
    BY DEF StructInv
  <1>1. SyncOk \/ SyncFails
    BY DEF SyncHeader, ReplayDone, CommitSync, CheckpointSync, StoreClose
  <1>2. SyncedInv' /\ file' = file /\ hdr' = hdr /\ dirty' \subseteq dirty
    BY <1>0, <1>1, ReliableSync
  <1>3. Len(acked) \in Nat /\ Len(file) \in Nat /\ cursor[p] \in Nat /\ walSize[p] \in Nat
    BY <1>0, Numbers DEF TypeOK
  <1>4. CASE acked' = acked
    <2>1. /\ pc'[p] # "header"
          /\ \/ pc'[p] = "idle"
             \/ pc[p] = "header"
             \/ pc[p] = "replay" /\ walSize'[p] = cursor[p] /\ cursor[p] >= Len(file)
             \/ pc[p] \in Live /\ walSize'[p] = walSize[p]
      BY <1>0 DEF SyncHeader, ReplayDone, CommitSync, CheckpointSync, StoreClose, DropHandle, Goto,
             TypeOK, Live, Committing
    <2>2. CASE pc[p] = "header" /\ pc'[p] # "idle"
      <3>1. acked = <<>> /\ walSize'[p] \in Nat
        BY <1>0, <1>3, <2>2 DEF AckedInv, SyncHeader, ReplayDone, CommitSync, CheckpointSync,
               StoreClose, DropHandle, Goto, TypeOK
      <3>2. Len(acked) = 0
        BY <3>1
      <3>. QED BY <1>2, <1>4, <2>1, <3>1, <3>2, AckedKept
    <2>3. CASE ~(pc[p] = "header" /\ pc'[p] # "idle")
      <3>1. pc'[p] \in Live \cup {"verify"} => Len(acked) <= walSize'[p]
        BY <1>3, <2>1, <2>3 DEF AckedInv, Live, Committing, Checkpointing
      <3>. QED BY <1>2, <1>4, <2>1, <3>1, AckedKept
    <2>. QED BY <2>2, <2>3
  <1>5. CASE acked' # acked
    <2>1. CommitSync(p) /\ SyncOk /\ acked' = Log(p)
      BY <1>5 DEF SyncHeader, ReplayDone, CommitSync, CheckpointSync, StoreClose
    <2>2. /\ pc[p] = "sync" /\ pc'[p] = "open" /\ walSize' = walSize
      BY <1>0, <2>1 DEF CommitSync, Goto, TypeOK
    <2>3. dirty' = {}
      BY <1>0, <2>1, FlushTypes DEF SyncOk
    <2>4. walSize[p] <= Len(file) /\ hdr = "ok" /\ \A i \in 1..walSize[p] : file[i] \in Frame
      BY <1>0, <2>2 DEF CursorInv, ValidInv, Relied
    <2>5. file \in Seq(Slot)
      BY <1>0 DEF TypeOK
    <2>6. Len(acked') = walSize[p] /\ \A i \in 1..walSize[p] : acked'[i] = file[i]
      BY <1>3, <2>1, <2>4, <2>5 DEF Log
    <2>7. \A q \in Procs : pc'[q] # "header" /\ (pc'[q] \in Live \cup {"verify"} => q = p)
      BY <2>2 DEF Live, Committing, Checkpointing
    <2>8. /\ acked' # <<>> => hdr' = "ok" /\ 0 \notin dirty'
          /\ Len(acked') <= Len(file')
          /\ \A i \in 1..Len(acked') :
               acked'[i] \in Frame /\ file'[i] = acked'[i] /\ i \notin dirty'
      BY <1>2, <2>3, <2>4, <2>6
    <2>9. \A q \in Procs : /\ pc'[q] = "header" => acked' = <<>>
                           /\ pc'[q] \in Live \cup {"verify"} => Len(acked') <= walSize'[q]
      BY <1>3, <2>2, <2>6, <2>7
    <2>10. AckedInv'
      BY <2>8, <2>9 DEF AckedInv
    <2>. QED BY <1>2, <2>10
  <1>. QED BY <1>4, <1>5

\* Steps that write to the WAL or cut it.
LEMMA DurableWrite ==
    ASSUME StructInv, ValidInv, SyncedInv, AckedInv, ReliableMedium, NEW p \in Procs,
           \/ WriteHeader(p) \/ WriteHeaderShort(p) \/ ReplayTruncate(p)
           \/ CommitWrite(p) \/ CommitFails(p),
           \A q \in Procs : q # p => pc'[q] = "idle"
    PROVE  SyncedInv' /\ AckedInv'
  <1>. USE ConstantsAssumption DEF handle
  <1>0. TypeOK /\ CursorInv /\ FileInv
    BY DEF StructInv
  <1>n. /\ Len(acked) \in Nat /\ Len(file) \in Nat /\ cursor[p] \in Nat /\ walSize[p] \in Nat
        /\ file \in Seq(Slot)
    BY <1>0, Numbers DEF TypeOK
  <1>1. CASE WriteHeader(p) \/ WriteHeaderShort(p)
    <2>1. /\ hdr = "none" /\ dirty' = dirty \cup {0} /\ UNCHANGED <<file, disk, hdrDisk, acked>>
          /\ pc'[p] \in {"header", "idle"}
      BY <1>0, <1>1 DEF WriteHeader, WriteHeaderShort, DropHandle, Goto, TypeOK
    <2>2. acked = <<>>
      BY <2>1 DEF AckedInv
    <2>3. SyncedInv'
      BY <2>1 DEF SyncedInv
    <2>4. Len(acked') = 0 /\ acked' = <<>>
      BY <2>1, <2>2
    <2>5. \A q \in Procs : pc'[q] \notin Live \cup {"verify"}
      BY <2>1 DEF Live, Committing, Checkpointing
    <2>6. AckedInv'
      BY <1>n, <2>1, <2>4, <2>5 DEF AckedInv
    <2>. QED BY <2>3, <2>6
  <1>2. CASE ReplayTruncate(p)
    <2>1. /\ pc[p] = "replay" /\ pc' = pc /\ cursor[p] < Len(file) /\ file[cursor[p] + 1] = Torn
          /\ file' = SubSeq(file, 1, cursor[p]) /\ dirty' = {i \in dirty : i <= cursor[p]}
          /\ UNCHANGED <<disk, hdr, hdrDisk, acked, walSize>>
      BY <1>2, ReliableCut DEF ReplayTruncate, Truncate
    <2>2. Len(file') = cursor[p] /\ \A i \in 1..cursor[p] : file'[i] = file[i]
      BY <1>n, <2>1
    <2>3. Len(acked) <= cursor[p]
      <3>1. SUFFICES ASSUME ~(Len(acked) <= cursor[p]) PROVE FALSE
        OBVIOUS
      <3>2. cursor[p] + 1 \in 1..Len(acked)
        BY <1>n, <3>1
      <3>3. file[cursor[p] + 1] \in Frame
        BY <3>2 DEF AckedInv
      <3>. QED BY <2>1, <3>3
    <2>4. SyncedInv'
      <3>1. ASSUME NEW i \in 1..Len(file'), i \notin dirty'
            PROVE  i <= Len(disk') /\ disk'[i] = file'[i]
        <4>1. i \in 1..Len(file) /\ i \in 1..cursor[p] /\ i \notin dirty
          BY <1>n, <2>1, <2>2, <3>1
        <4>. QED BY <2>1, <2>2, <4>1 DEF SyncedInv
      <3>2. 0 \notin dirty' => 0 \notin dirty
        BY <1>n, <2>1
      <3>. QED BY <2>1, <3>1, <3>2 DEF SyncedInv
    <2>5. AckedInv'
      <3>1. \A i \in 1..Len(acked) : acked[i] \in Frame /\ file'[i] = acked[i] /\ i \notin dirty'
        BY <1>n, <2>1, <2>2, <2>3 DEF AckedInv
      <3>2. acked # <<>> => hdr' = "ok" /\ 0 \notin dirty'
        BY <2>1 DEF AckedInv
      <3>. QED BY <2>1, <2>2, <2>3, <3>1, <3>2 DEF AckedInv
    <2>. QED BY <2>4, <2>5
  <1>3. CASE CommitWrite(p) \/ CommitFails(p)
    <2>. DEFINE at == walSize[p] + cursor[p] + 1
    <2>1. /\ pc[p] = "commit" /\ pc'[p] \in {"commit", "open"} /\ walSize' = walSize
          /\ hdr' = hdr /\ hdrDisk' = hdrDisk
          /\ at \in 1..(Len(file) + 1) /\ Len(file) <= Len(file')
          /\ (\E x \in Slot : WriteSlot(at, x)) \/ UNCHANGED wal
          /\ \A j \in 1..Len(file) : j # at => file'[j] = file[j]
      BY <1>3, CommitSlot, CommitFailSlot DEF Slot
    <2>2. acked' = acked
      BY <1>3 DEF CommitWrite, CommitFails
    <2>3. Len(acked) <= walSize[p] /\ at <= MaxWal /\ Len(file') \in Nat
      <3>1. Len(acked) <= walSize[p]
        BY <2>1 DEF AckedInv, Live, Committing
      <3>2. walSize[p] + Len(staged[p]) <= MaxWal /\ cursor[p] + 1 <= Len(staged[p]) /\ Len(staged[p]) \in Nat
        BY <1>0, <1>3, <2>1, <1>n, Numbers, SMTT(30) DEF CursorInv, CommitWrite, CommitFails
      <3>3. ASSUME UNCHANGED wal PROVE Len(file') \in Nat
        BY <1>n, <3>3 DEF wal
      <3>4. ASSUME NEW x \in Slot, WriteSlot(at, x) PROVE Len(file') \in Nat
        BY <1>n, <3>4 DEF WriteSlot, PutSlot
      <3>5. Len(file') \in Nat
        BY <1>n, <2>1, <3>3, <3>4
      <3>6. at <= MaxWal
        BY <1>n, <3>2
      <3>. QED BY <3>1, <3>5, <3>6
    <2>. HIDE DEF at
    <2>4. SyncedInv' /\ (dirty' = dirty \/ dirty' = dirty \cup {at})
      <3>1. ASSUME NEW x \in Slot, WriteSlot(at, x)
            PROVE  SyncedInv' /\ dirty' = dirty \cup {at}
        BY <1>0, <1>n, <2>1, <2>3, <3>1, WriteKeepsSynced DEF WriteSlot
      <3>2. CASE UNCHANGED wal
        BY <3>2 DEF wal, SyncedInv
      <3>. QED BY <2>1, <3>1, <3>2
    <2>5. \A i \in 1..Len(acked) : i # at /\ i \in 1..Len(file)
      BY <1>n, <2>1, <2>3, SMTT(30) DEF at, AckedInv
    <2>6. at # 0
      BY <1>n DEF at
    <2>7. AckedInv'
      <3>1. \A i \in 1..Len(acked) : acked[i] \in Frame /\ file'[i] = acked[i] /\ i \notin dirty'
        BY <2>1, <2>4, <2>5 DEF AckedInv
      <3>2. acked # <<>> => hdr' = "ok" /\ 0 \notin dirty'
        BY <2>1, <2>4, <2>6 DEF AckedInv
      <3>3. \A q \in Procs : /\ pc'[q] # "header"
                             /\ pc'[q] \in Live \cup {"verify"} => Len(acked) <= walSize'[q]
        BY <2>1, <2>3 DEF Live, Committing, Checkpointing
      <3>4. Len(acked) <= Len(file')
        BY <1>n, <2>1, <2>3 DEF AckedInv
      <3>. QED BY <2>2, <3>1, <3>2, <3>3, <3>4 DEF AckedInv
    <2>. QED BY <2>4, <2>7
  <1>. QED BY <1>1, <1>2, <1>3

\* A power loss takes no clean slot, and acknowledged slots are clean.
LEMMA DurablePowerLoss ==
    ASSUME StructInv, SyncedInv, AckedInv, PowerLoss, WrittenBack
    PROVE  SyncedInv' /\ AckedInv'
  <1>0. TypeOK /\ FileInv
    BY DEF StructInv
  <1>n. Len(acked) \in Nat /\ Len(file) \in Nat /\ Len(disk) \in Nat
    BY <1>0, Numbers DEF TypeOK
  <1>1. PICK n \in Len(disk)..Len(file) \cup Len(file)..Len(disk),
             kept \in SUBSET (dirty \ {0}),
             h \in IF 0 \in dirty THEN {hdr, hdrDisk, "partial"} ELSE {hdrDisk} :
          /\ \E torn \in SUBSET kept : file' = Survivors(n, kept, torn)
          /\ hdr' = h
    BY DEF WrittenBack
  <1>2. /\ disk' = file' /\ hdrDisk' = hdr' /\ dirty' = {} /\ acked' = acked
        /\ pc' = [p \in Procs |-> "idle"]
    BY DEF PowerLoss
  <1>3. \A i \in 1..Len(acked) : /\ i <= Len(disk) /\ i <= Len(file) /\ i \notin kept
                                 /\ disk[i] = acked[i] /\ acked[i] \in Frame
    BY <1>n DEF AckedInv, SyncedInv
  <1>4. Len(acked) <= n /\ n \in Nat
    <2>1. Len(acked) <= Len(disk) /\ Len(acked) <= Len(file)
      <3>1. CASE Len(acked) = 0
        BY <1>n, <3>1
      <3>2. CASE Len(acked) # 0
        <4>1. Len(acked) \in 1..Len(acked)
          BY <1>n, <3>2
        <4>. QED BY <1>3, <4>1
      <3>. QED BY <3>1, <3>2
    <2>. QED BY <1>n, <2>1
  <1>5. Len(file') = n /\ \A i \in 1..Len(acked) : file'[i] = acked[i]
    <2>1. \A i \in 1..Len(acked) : i \in 1..n
      BY <1>n, <1>4
    <2>2. Len(file') = n
      BY <1>1, <1>4 DEF Survivors
    <2>. QED BY <1>1, <1>3, <2>1, <2>2 DEF Survivors
  <1>6. acked # <<>> => hdr' = "ok"
    BY <1>1 DEF AckedInv, SyncedInv
  <1>7. \A q \in Procs : pc'[q] = "idle"
    BY <1>2
  <1>8. AckedInv'
    <2>1. \A q \in Procs : pc'[q] # "header" /\ pc'[q] \notin Live \cup {"verify"}
      BY <1>7 DEF Live, Committing, Checkpointing
    <2>. QED BY <1>2, <1>3, <1>4, <1>5, <1>6, <2>1 DEF AckedInv
  <1>9. SyncedInv'
    BY <1>2, <1>4, <1>5 DEF SyncedInv
  <1>. QED BY <1>8, <1>9

LEMMA DurableNext ==
    StructInv /\ StructInv' /\ ValidInv /\ DurableInv /\ [Next]_vars => DurableInv'
  <1>. SUFFICES ASSUME StructInv, ValidInv, SyncedInv, AckedInv, ReliableMedium, [Next]_vars
                PROVE  SyncedInv' /\ AckedInv'
    BY DEF DurableInv, ReliableMedium
  <1>1. ASSUME NEW p \in Procs, CallStep(p) PROVE SyncedInv' /\ AckedInv'
    BY <1>1, OthersIdle, DurableQuiet, DurableSync, DurableWrite
       DEF CallStep, OpenCorrupt, OpenFails, Opening
  <1>2. ASSUME NEW p \in Procs, ClientStep(p) PROVE SyncedInv' /\ AckedInv'
    BY <1>2, OthersIdle, DurableQuiet, DurableSync DEF ClientStep
  <1>3. ASSUME NEW p \in Procs, OpenFails(p) \/ Crash(p) PROVE SyncedInv' /\ AckedInv'
    BY <1>3, OthersIdle, DurableQuiet
  <1>4. CASE PowerLoss
    BY <1>4, DurablePowerLoss, ReliableLoss
  <1>5. CASE Flip
    BY <1>5 DEF Flip, ReliableMedium
  <1>6. CASE UNCHANGED vars
    <2>1. UNCHANGED <<pc, walSize, file, disk, dirty, hdr, hdrDisk, acked>>
      BY <1>6 DEF vars, handle, wal
    <2>2. SyncedInv'
      BY <2>1 DEF SyncedInv
    <2>3. AckedInv'
      BY <2>1 DEF AckedInv
    <2>. QED BY <2>2, <2>3
  <1>. QED BY <1>1, <1>2, <1>3, <1>4, <1>5, <1>6 DEF Next

LEMMA DurableInit == Init => ValidInv /\ DurableInv
  <1>. SUFFICES ASSUME Init PROVE ValidInv /\ DurableInv
    OBVIOUS
  <1>1. /\ \A p \in Procs : pc[p] = "idle" /\ walSize[p] = 0
        /\ file = <<>> /\ disk = <<>> /\ acked = <<>> /\ hdrDisk = hdr
        /\ Len(file) = 0 /\ Len(acked) = 0
    BY DEF Init
  <1>2. ValidInv
    <2>1. \A p \in Procs : Relied(p) = 0
      BY <1>1 DEF Relied
    <2>2. \A i \in 1..0 : file[i] \in Frame
      OBVIOUS
    <2>. QED BY <1>1, <2>1, <2>2 DEF ValidInv
  <1>3. SyncedInv
    BY <1>1 DEF SyncedInv
  <1>4. AckedInv
    <2>1. \A q \in Procs : pc[q] # "header" /\ pc[q] \notin Live \cup {"verify"}
      BY <1>1 DEF Live, Committing, Checkpointing
    <2>. QED BY <1>1, <2>1 DEF AckedInv
  <1>. QED BY <1>2, <1>3, <1>4 DEF DurableInv

LEMMA DurableAlways == Spec => [](StructInv /\ ValidInv /\ DurableInv)
  BY StructInit, StructNext, DurableInit, ValidNext, DurableNext, PTL DEF Spec

\* On a reliable medium (ReliableMedium: no pages dropped by a failed sync, no decay,
\* no failed read while a log is replayed, and a new log's name as durable as its
\* bytes) a commit that answered STORE_OK is on the medium for good: no crash, power
\* loss, torn write, failed sync or recovery takes a frame of it away.
THEOREM Durability == Spec => []AckedDurable
  <1>1. StructInv /\ ValidInv /\ DurableInv => AckedDurable
    <2>. SUFFICES ASSUME StructInv, ReliableMedium, SyncedInv, AckedInv, acked # <<>>
                  PROVE  /\ walName = "durable" /\ hdrDisk = "ok" /\ Len(acked) <= Len(disk)
                         /\ \A i \in DOMAIN acked : disk[i] = acked[i]
      BY DEF DurableInv, AckedDurable, OnMedium
    <2>0. walName = "durable"
      BY DEF StructInv, FileInv, ReliableMedium
    <2>1. Len(acked) \in Nat /\ Len(file) \in Nat /\ Len(disk) \in Nat /\ acked \in Seq(Slot)
      BY Numbers DEF StructInv, TypeOK
    <2>2. hdrDisk = "ok"
      BY DEF SyncedInv, AckedInv
    <2>3. \A i \in 1..Len(acked) : i <= Len(disk) /\ disk[i] = acked[i]
      BY <2>1 DEF SyncedInv, AckedInv
    <2>4. DOMAIN acked = 1..Len(acked)
      BY <2>1
    <2>5. Len(acked) \in 1..Len(acked)
      BY <2>1
    <2>. QED BY <2>0, <2>2, <2>3, <2>4, <2>5
  <1>. QED BY DurableAlways, <1>1, PTL

\* On a reliable medium no step rewrites or shortens what has been acknowledged:
\* every commit answers for a log that continues the one acknowledged before it.
THEOREM AcknowledgedGrows == Spec => AckedOnlyGrows
  <1>. DEFINE Grows == ReliableMedium =>
                         /\ Len(acked) <= Len(acked')
                         /\ \A i \in DOMAIN acked : acked'[i] = acked[i]
  <1>1. StructInv /\ DurableInv /\ [Next]_vars => [Grows]_vars
    <2>. SUFFICES ASSUME StructInv, AckedInv, Next, ReliableMedium
                  PROVE  /\ Len(acked) <= Len(acked')
                         /\ \A i \in DOMAIN acked : acked'[i] = acked[i]
      BY DEF DurableInv
    <2>1. Len(acked) \in Nat /\ acked \in Seq(Slot) /\ file \in Seq(Slot) /\ TypeOK /\ CursorInv
      BY DEF StructInv, TypeOK
    <2>2. CASE acked' = acked
      BY <2>1, <2>2
    <2>3. CASE acked' # acked
      <3>1. PICK p \in Procs : CommitSync(p) /\ acked' = Log(p)
        BY <2>3, ZenonT(40) DEF Next, CallStep, ClientStep, Crash, PowerLoss, Flip, OpenLock, OpenFails, OpenCorrupt,
               WriteHeader, WriteHeaderShort, SyncHeader, ReadHeader, ReplayFrame, ReplayTruncate,
               ReplayDone, VerifyCheckpoint, CommitBegin, CommitWrite, CommitFails, CommitPublish,
               CommitSync, CheckpointSync, CheckpointRename, CheckpointDirSync, StoreClose,
               StorePut, StoreDel, Stage
      <3>2. pc[p] = "sync" /\ walSize[p] \in Nat /\ walSize[p] <= Len(file)
        BY <2>1, <3>1, Numbers DEF CommitSync, CursorInv
      <3>3. Len(acked) <= walSize[p]
        BY <3>2 DEF AckedInv, Live, Committing
      <3>4. Len(acked') = walSize[p] /\ \A i \in 1..walSize[p] : acked'[i] = file[i]
        BY <2>1, <3>1, <3>2 DEF Log
      <3>5. \A i \in 1..Len(acked) : i \in 1..walSize[p] /\ file[i] = acked[i]
        BY <2>1, <3>2, <3>3 DEF AckedInv
      <3>6. DOMAIN acked = 1..Len(acked)
        BY <2>1
      <3>. QED BY <3>3, <3>4, <3>5, <3>6
    <2>. QED BY <2>2, <2>3
  <1>. QED BY <1>1, DurableAlways, PTL DEF Spec, AckedOnlyGrows
-----------------------------------------------------------------------------
(***************************************************************************)
(* Tables and the operations they reflect                                  *)
(***************************************************************************)
LEMMA ReflectsNothing == Reflects(EmptyTable, <<>>)
  BY DEF Reflects, EmptyTable

\* One more operation.
LEMMA ReflectsAppend ==
    ASSUME NEW S, NEW s \in Seq(S), NEW m \in Table, NEW f \in Frame, f \in S, Reflects(m, s)
    PROVE  Reflects(Apply(m, f), Append(s, f))
  <1>. DEFINE t == Append(s, f)  n == Len(s)  a == Apply(m, f)
  <1>1. /\ n \in Nat /\ DOMAIN s = 1..n /\ DOMAIN t = 1..n + 1
        /\ t[n + 1] = f /\ \A i \in 1..n : t[i] = s[i]
    OBVIOUS
  <1>2. f.key \in Keys /\ f = [key |-> f.key, val |-> f.val]
    BY DEF Frame
  <1>3. a[f.key] = f.val /\ \A k \in Keys : k # f.key => a[k] = m[k]
    BY <1>2 DEF Apply, Table
  <1>. HIDE DEF t, n, a
  <1>4. ASSUME NEW k \in Keys
        PROVE  \/ a[k] = Absent /\ \A i \in DOMAIN t : t[i].key # k
               \/ \E i \in DOMAIN t :
                     /\ t[i] = [key |-> k, val |-> a[k]]
                     /\ \A j \in DOMAIN t : j > i => t[j].key # k
    <2>1. CASE k = f.key
      BY <1>1, <1>2, <1>3, <2>1
    <2>2. CASE k # f.key
      <3>1. CASE m[k] = Absent /\ \A i \in DOMAIN s : s[i].key # k
        <4>1. \A i \in DOMAIN t : t[i].key # k
          BY <1>1, <2>2, <3>1
        <4>. QED BY <1>3, <2>2, <3>1, <4>1
      <3>2. ASSUME NEW i \in DOMAIN s, s[i] = [key |-> k, val |-> m[k]],
                   \A j \in DOMAIN s : j > i => s[j].key # k
            PROVE  /\ i \in DOMAIN t /\ t[i] = [key |-> k, val |-> a[k]]
                   /\ \A j \in DOMAIN t : j > i => t[j].key # k
        BY <1>1, <1>3, <2>2, <3>2
      <3>. QED BY <3>1, <3>2 DEF Reflects
    <2>. QED BY <2>1, <2>2
  <1>. QED BY <1>4 DEF Reflects, t, a

\* A log has one table.
LEMMA ReflectsOnce ==
    ASSUME NEW S, NEW s \in Seq(S), NEW m \in Table, NEW n \in Table,
           Reflects(m, s), Reflects(n, s)
    PROVE  m = n
  <1>1. DOMAIN s \subseteq Int
    OBVIOUS
  <1>2. ASSUME NEW k \in Keys PROVE m[k] = n[k]
    <2>1. CASE \A i \in DOMAIN s : s[i].key # k
      BY <2>1 DEF Reflects
    <2>2. CASE ~\A i \in DOMAIN s : s[i].key # k
      <3>1. PICK i \in DOMAIN s : /\ s[i] = [key |-> k, val |-> m[k]]
                                  /\ \A h \in DOMAIN s : h > i => s[h].key # k
        BY <2>2 DEF Reflects
      <3>2. PICK j \in DOMAIN s : /\ s[j] = [key |-> k, val |-> n[k]]
                                  /\ \A h \in DOMAIN s : h > j => s[h].key # k
        BY <2>2 DEF Reflects
      <3>3. s[i].key = k /\ s[j].key = k /\ s[i].val = m[k] /\ s[j].val = n[k]
        BY <3>1, <3>2
      <3>4. i = j
        BY <1>1, <3>1, <3>2, <3>3
      <3>. QED BY <3>3, <3>4
    <2>. QED BY <2>1, <2>2
  <1>. QED BY <1>2 DEF Table

-----------------------------------------------------------------------------
(***************************************************************************)
(* The log of a handle and its queue                                       *)
(***************************************************************************)

\* The first n slots of a file, as far as two files agree on them.
LEMMA SamePrefix ==
    ASSUME NEW S, NEW s \in Seq(S), NEW t \in Seq(S), NEW n \in Nat, n <= Len(s), n <= Len(t),
           \A i \in 1..n : t[i] = s[i]
    PROVE  SubSeq(t, 1, n) = SubSeq(s, 1, n)
  OBVIOUS

LEMMA PrefixOfPrefix ==
    ASSUME NEW S, NEW s \in Seq(S), NEW k \in Nat, NEW m \in Nat, m <= k, k <= Len(s)
    PROVE  SubSeq(SubSeq(s, 1, k), 1, m) = SubSeq(s, 1, m)
  <1>1. SubSeq(s, 1, k) \in Seq(S) /\ Len(SubSeq(s, 1, k)) = k /\ \A i \in 1..k : SubSeq(s, 1, k)[i] = s[i]
    OBVIOUS
  <1>2. m <= Len(s) /\ \A i \in 1..m : SubSeq(s, 1, k)[i] = s[i]
    BY <1>1
  <1>. QED BY <1>1, <1>2, SamePrefix

LEMMA LogIsSeq ==
    ASSUME TypeOK, CursorInv, NEW p \in Procs
    PROVE  /\ Log(p) \in Seq(Slot) /\ Len(Log(p)) = walSize[p]
           /\ \A i \in 1..walSize[p] : Log(p)[i] = file[i]
  <1>1. file \in Seq(Slot) /\ walSize[p] \in Nat /\ walSize[p] <= Len(file)
    BY Numbers DEF TypeOK, CursorInv
  <1>. QED BY <1>1 DEF Log

LEMMA PendingIsSeq ==
    ASSUME TypeOK, CursorInv, NEW p \in Procs
    PROVE  /\ Pending(p) \in Seq(Slot)
           /\ freed[p] = 0 => Pending(p) = staged[p]
           /\ freed[p] = Len(staged[p]) => Pending(p) = <<>>
           /\ Log(p) \o Pending(p) \in Seq(Slot)
           /\ Pending(p) = <<>> => Log(p) \o Pending(p) = Log(p)
  <1>1. /\ staged[p] \in Seq(Frame) /\ Len(staged[p]) \in Nat /\ freed[p] \in Nat
        /\ freed[p] <= Len(staged[p])
    BY Numbers DEF CursorInv
  <1>2. Frame \subseteq Slot
    BY DEF Slot
  <1>3. staged[p] \in Seq(Slot)
    BY <1>1, <1>2, SeqMonotonic
  <1>4. Pending(p) \in Seq(Slot)
    BY <1>1, <1>3 DEF Pending
  <1>5. freed[p] = 0 => Pending(p) = staged[p]
    BY <1>1, <1>3, SubSeqFull DEF Pending
  <1>6. freed[p] = Len(staged[p]) => Pending(p) = <<>>
    BY <1>1, SubSeqEmpty DEF Pending
  <1>7. Log(p) \in Seq(Slot)
    BY LogIsSeq
  <1>. QED BY <1>4, <1>5, <1>6, <1>7, ConcatProperties, ConcatEmptySeq

\* The two of them on either side of a step.
QueueFacts(p) ==
    /\ Log(p) \in Seq(Slot) /\ Pending(p) \in Seq(Slot)
    /\ Log(p) \o Pending(p) \in Seq(Slot)
    /\ freed[p] = 0 => Pending(p) = staged[p]
    /\ freed[p] = Len(staged[p]) => /\ Pending(p) = <<>>
                                    /\ Log(p) \o Pending(p) = Log(p)

LEMMA Queues == StructInv => \A p \in Procs : QueueFacts(p)
  <1>. HAVE StructInv
  <1>1. TypeOK /\ CursorInv
    BY DEF StructInv
  <1>2. ASSUME NEW p \in Procs PROVE QueueFacts(p)
    BY <1>1, LogIsSeq, PendingIsSeq DEF QueueFacts
  <1>. QED BY <1>2

LEMMA QueuesNext == (StructInv => \A p \in Procs : QueueFacts(p))'
  BY Queues, PTL

\* One slot more of a sequence.
LEMMA SubSeqGrows ==
    ASSUME NEW S, NEW s \in Seq(S), NEW n \in Nat, n < Len(s)
    PROVE  SubSeq(s, 1, n + 1) = Append(SubSeq(s, 1, n), s[n + 1])
  <1>. DEFINE u == SubSeq(s, 1, n + 1)  v == SubSeq(s, 1, n)
  <1>1. u \in Seq(S) /\ Len(u) = n + 1 /\ \A i \in 1..n + 1 : u[i] = s[i]
    OBVIOUS
  <1>2. v \in Seq(S) /\ Len(v) = n /\ (\A i \in 1..n : v[i] = s[i]) /\ s[n + 1] \in S
    OBVIOUS
  <1>. HIDE DEF u, v
  <1>3. /\ Append(v, s[n + 1]) \in Seq(S) /\ Len(Append(v, s[n + 1])) = n + 1
        /\ \A i \in 1..n + 1 : Append(v, s[n + 1])[i] = s[i]
    BY <1>2
  <1>4. u = Append(v, s[n + 1])
    BY <1>1, <1>3, SeqEqual
  <1>. QED BY <1>4 DEF u, v

\* A batch that has been written is the end of the log it is published in.
LEMMA PublishedLog ==
    ASSUME NEW S, NEW s \in Seq(S), NEW T, NEW b \in Seq(T), NEW n \in Nat,
           n + Len(b) <= Len(s), \A i \in 1..Len(b) : s[n + i] = b[i]
    PROVE  SubSeq(s, 1, n + Len(b)) = SubSeq(s, 1, n) \o b
  <1>. DEFINE l == Len(b)  u == SubSeq(s, 1, n + l)  v == SubSeq(s, 1, n)
  <1>0. l \in Nat /\ Len(s) \in Nat
    OBVIOUS
  <1>1. u \in Seq(S) /\ Len(u) = n + l /\ \A i \in 1..n + l : u[i] = s[i]
    OBVIOUS
  <1>2. v \in Seq(S) /\ Len(v) = n /\ \A i \in 1..n : v[i] = s[i]
    OBVIOUS
  <1>3. v \in Seq(S \cup T) /\ b \in Seq(S \cup T)
    BY <1>2, SeqMonotonic
  <1>4. /\ v \o b \in Seq(S \cup T) /\ Len(v \o b) = n + l
        /\ \A i \in 1..n + l : (v \o b)[i] = IF i <= n THEN v[i] ELSE b[i - n]
    BY <1>2, <1>3, ConcatProperties
  <1>. HIDE DEF l, u, v
  <1>5. ASSUME NEW i \in 1..n + l PROVE u[i] = (v \o b)[i]
    <2>1. CASE i <= n
      BY <1>0, <1>1, <1>2, <1>4, <2>1
    <2>2. CASE ~(i <= n)
      <3>1. i - n \in 1..l /\ n + (i - n) = i
        BY <1>0, <2>2
      <3>2. s[i] = b[i - n]
        BY <3>1 DEF l
      <3>. QED BY <1>1, <1>4, <2>2, <3>2
    <2>. QED BY <2>1, <2>2
  <1>6. u \in Seq(S \cup T)
    BY <1>1, SeqMonotonic
  <1>7. u = v \o b
    BY <1>1, <1>4, <1>5, <1>6, SeqEqual
  <1>. QED BY <1>7 DEF u, v, l

\* Appending to what remains of a sequence.
LEMMA SubSeqAppend ==
    ASSUME NEW S, NEW s \in Seq(S), NEW x \in S, NEW n \in Nat, n <= Len(s)
    PROVE  SubSeq(Append(s, x), n + 1, Len(s) + 1) = Append(SubSeq(s, n + 1, Len(s)), x)
  <1>1. Append(s, x) \in Seq(S) /\ Len(Append(s, x)) = Len(s) + 1 /\ Append(s, x)[Len(s) + 1] = x
    BY AppendProperties
  <1>. DEFINE a == Append(s, x)  l == Len(s)
  <1>2. \A i \in 1..l : a[i] = s[i]
    BY AppendProperties
  <1>3. l \in Nat /\ a \in Seq(S) /\ Len(a) = l + 1 /\ a[l + 1] = x
    BY <1>1, LenProperties
  <1>. HIDE DEF a, l
  <1>. DEFINE u == SubSeq(a, n + 1, l + 1)  v == SubSeq(s, n + 1, l)
  <1>4. u \in Seq(S) /\ Len(u) = l + 1 - n /\ \A i \in 1..l + 1 - n : u[i] = a[n + i]
    BY <1>3 DEF l
  <1>5. v \in Seq(S) /\ Len(v) = l - n /\ \A i \in 1..l - n : v[i] = s[n + i]
    BY <1>3 DEF l
  <1>. HIDE DEF u, v
  <1>6. /\ Append(v, x) \in Seq(S) /\ Len(Append(v, x)) = l + 1 - n
        /\ Append(v, x)[l + 1 - n] = x /\ \A i \in 1..l - n : Append(v, x)[i] = v[i]
    BY <1>3, <1>5
  <1>7. \A i \in 1..l + 1 - n : u[i] = Append(v, x)[i]
    <2>. TAKE i \in 1..l + 1 - n
    <2>1. CASE i = l + 1 - n
      BY <1>3, <1>4, <1>6, <2>1
    <2>2. CASE i # l + 1 - n
      BY <1>2, <1>3, <1>4, <1>5, <1>6, <2>2
    <2>. QED BY <2>1, <2>2
  <1>8. u = Append(v, x)
    BY <1>4, <1>6, <1>7, SeqEqual
  <1>. QED BY <1>8 DEF u, v, a, l

-----------------------------------------------------------------------------
(***************************************************************************)
(* The memtable                                                            *)
(***************************************************************************)
LEMMA MemtableOpening ==
    ASSUME StructInv, StructInv', ValidInv, NEW p \in Procs, MemtableOf(p),
           \/ OpenLock(p) \/ OpenFails(p)
           \/ WriteHeader(p) \/ WriteHeaderShort(p) \/ SyncHeader(p) \/ ReadHeader(p)
           \/ ReplayFrame(p) \/ ReplayTruncate(p) \/ ReplayDone(p)
           \/ VerifyCheckpoint(p)
    PROVE  MemtableOf(p)'
  <1>. USE DEF handle, wal
  <1>0. TypeOK /\ CursorInv /\ FileInv /\ TypeOK' /\ CursorInv'
    BY DEF StructInv
  <1>n. /\ walSize[p] \in Nat /\ cursor[p] \in Nat /\ Len(file) \in Nat /\ file \in Seq(Slot)
        /\ mem[p] \in Table
    BY <1>0, Numbers DEF TypeOK
  <1>v. /\ pc[p] \notin Live => staged[p] = <<>>
        /\ pc'[p] \notin Live => staged'[p] = <<>> /\ freed'[p] = Len(staged'[p])
    <2>1. /\ pc'[p] \notin Live => staged'[p] = <<>>
          /\ freed'[p] <= Len(staged'[p]) /\ freed'[p] \in Nat
      BY <1>0 DEF CursorInv, TypeOK
    <2>. QED BY <1>0, <2>1 DEF CursorInv
  <1>w. pc'[p] = "verify" => Log(p)' \o Pending(p)' = Log(p)'
    BY <1>v, QueuesNext DEF QueueFacts, Live, Committing, Checkpointing
  <1>1. CASE DropHandle(p) \/ OpenLock(p) \/ WriteHeader(p)
    <2>1. pc'[p] \in {"idle", "locked", "header"} /\ mem'[p] = EmptyTable
      BY <1>0, <1>1 DEF DropHandle, OpenLock, WriteHeader, Goto, TypeOK, MemtableOf
    <2>. QED BY <2>1 DEF MemtableOf, Live, Committing, Checkpointing
  <1>3. CASE SyncHeader(p) /\ ~DropHandle(p)
    <2>1. pc'[p] = "verify" /\ pc[p] = "header" /\ walSize'[p] = 0 /\ mem'[p] = EmptyTable
      BY <1>0, <1>3 DEF SyncHeader, Goto, TypeOK, CursorInv, MemtableOf
    <2>2. Log(p)' = <<>>
      BY <2>1, SubSeqEmpty DEF Log
    <2>. QED BY <1>w, <2>1, <2>2, ReflectsNothing DEF MemtableOf
  <1>4. CASE ReadHeader(p)
    <2>1. pc'[p] = "replay" /\ cursor'[p] = 0 /\ mem'[p] = EmptyTable
      BY <1>0, <1>4 DEF ReadHeader, Goto, TypeOK, CursorInv, MemtableOf
    <2>2. SubSeq(file', 1, cursor'[p]) = <<>>
      BY <2>1, SubSeqEmpty
    <2>. QED BY <2>1, <2>2, ReflectsNothing DEF MemtableOf, Live, Committing, Checkpointing
  <1>5. CASE ReplayFrame(p)
    <2>1. /\ pc[p] = "replay" /\ pc'[p] = "replay" /\ file' = file
          /\ cursor'[p] = cursor[p] + 1 /\ cursor[p] + 1 \in 1..Len(file)
          /\ file[cursor[p] + 1] \in Frame
          /\ mem'[p] = Apply(mem[p], file[cursor[p] + 1])
      BY <1>0, <1>n, <1>5 DEF ReplayFrame, TypeOK, Slot
    <2>2. SubSeq(file, 1, cursor[p] + 1) = Append(SubSeq(file, 1, cursor[p]), file[cursor[p] + 1])
      <3>1. cursor[p] \in Nat /\ cursor[p] < Len(file)
        BY <1>n, <2>1
      <3>. QED BY <1>n, <3>1, SubSeqGrows
    <2>3. SubSeq(file, 1, cursor[p]) \in Seq(Slot) /\ file[cursor[p] + 1] \in Slot
      BY <1>n, <2>1 DEF Slot
    <2>4. Reflects(mem[p], SubSeq(file, 1, cursor[p]))
      BY <2>1 DEF MemtableOf
    <2>5. Reflects(Apply(mem[p], file[cursor[p] + 1]),
                   Append(SubSeq(file, 1, cursor[p]), file[cursor[p] + 1]))
      BY <1>n, <2>1, <2>3, <2>4, ReflectsAppend
    <2>. QED BY <2>1, <2>2, <2>5 DEF MemtableOf, Live, Committing, Checkpointing
  <1>6. CASE ReplayTruncate(p)
    <2>1. /\ pc[p] = "replay" /\ pc'[p] = "replay" /\ cursor'[p] = cursor[p] /\ mem'[p] = mem[p]
          /\ cursor[p] < Len(file) /\ file' = SubSeq(file, 1, cursor[p])
      BY <1>0, <1>6 DEF ReplayTruncate, Truncate, TypeOK
    <2>2. SubSeq(file', 1, cursor[p]) = SubSeq(file, 1, cursor[p])
      BY <1>n, <2>1
    <2>. QED BY <2>1, <2>2 DEF MemtableOf, Live, Committing, Checkpointing
  <1>7. CASE ReplayDone(p)
    <2>1. /\ pc[p] = "replay" /\ pc'[p] = "verify" /\ walSize'[p] = cursor[p] /\ mem'[p] = mem[p]
      BY <1>0, <1>7 DEF ReplayDone, Goto, TypeOK
    <2>2. file' = file
      BY <1>0, <1>7, SyncTypes DEF ReplayDone
    <2>3. Log(p)' = SubSeq(file, 1, cursor[p])
      BY <2>1, <2>2 DEF Log
    <2>. QED BY <1>w, <2>1, <2>3 DEF MemtableOf
  <1>8. CASE VerifyCheckpoint(p) /\ ~DropHandle(p)
    <2>1. /\ pc[p] = "verify" /\ pc'[p] = "open"
          /\ UNCHANGED <<walSize, mem, staged, freed, file>>
      BY <1>0, <1>8 DEF VerifyCheckpoint, Goto, TypeOK
    <2>. QED BY <2>1 DEF MemtableOf, Log, Pending
  <1>. QED BY <1>1, <1>3, <1>4, <1>5, <1>6, <1>7, <1>8 DEF OpenFails, WriteHeaderShort

LEMMA MemtableStage ==
    ASSUME StructInv, StructInv', NEW p \in Procs, MemtableOf(p), NEW f \in Frame,
           pc[p] = "open", Stage(p, f)
    PROVE  MemtableOf(p)'
  <1>. USE DEF handle, wal
  <1>0. TypeOK /\ CursorInv /\ TypeOK' /\ CursorInv'
    BY DEF StructInv
  <1>n. /\ staged[p] \in Seq(Frame) /\ Len(staged[p]) \in Nat /\ freed[p] \in Nat
        /\ freed[p] <= Len(staged[p]) /\ mem[p] \in Table
    BY <1>0, Numbers DEF TypeOK, CursorInv
  <1>1. /\ pc'[p] = "open" /\ staged'[p] = Append(staged[p], f) /\ freed'[p] = freed[p]
        /\ mem'[p] = Apply(mem[p], f) /\ walSize'[p] = walSize[p] /\ file' = file
    BY <1>0 DEF Stage, TypeOK
  <1>2. Pending(p)' = Append(Pending(p), f)
    <2>1. Pending(p)' = SubSeq(Append(staged[p], f), freed[p] + 1, Len(staged[p]) + 1)
      <3>1. Len(staged'[p]) = Len(staged[p]) + 1
        BY <1>n, <1>1, AppendProperties
      <3>. QED BY <1>1, <3>1 DEF Pending
    <2>. QED BY <1>n, <2>1, SubSeqAppend DEF Pending
  <1>3. Log(p)' = Log(p)
    BY <1>1 DEF Log
  <1>4. Log(p) \in Seq(Slot) /\ Pending(p) \in Seq(Slot) /\ f \in Slot
    BY <1>0, LogIsSeq, PendingIsSeq DEF Slot
  <1>5. Log(p) \o Append(Pending(p), f) = Append(Log(p) \o Pending(p), f)
    BY <1>4
  <1>6. Reflects(mem[p], Log(p) \o Pending(p)) /\ Log(p) \o Pending(p) \in Seq(Slot)
    BY <1>0, PendingIsSeq DEF MemtableOf, Live
  <1>7. Reflects(Apply(mem[p], f), Append(Log(p) \o Pending(p), f))
    BY <1>n, <1>4, <1>6, ReflectsAppend
  <1>. QED BY <1>1, <1>2, <1>3, <1>5, <1>7 DEF MemtableOf

\* A log is kept by whatever is written behind it.
LEMMA LogKept ==
    ASSUME StructInv, StructInv', NEW p \in Procs, walSize'[p] = walSize[p],
           \A i \in 1..walSize[p] : file'[i] = file[i]
    PROVE  Log(p)' = Log(p)
  <1>1. /\ file \in Seq(Slot) /\ file' \in Seq(Slot) /\ walSize[p] \in Nat
        /\ walSize[p] <= Len(file) /\ walSize[p] <= Len(file')
    BY DEF StructInv, TypeOK, CursorInv
  <1>2. SubSeq(file', 1, walSize[p]) = SubSeq(file, 1, walSize[p])
    BY <1>1, SamePrefix
  <1>. QED BY <1>2 DEF Log

\* A step of a live handle that changes neither the log nor what is pending.
LEMMA MemtableKept ==
    ASSUME NEW p \in Procs, MemtableOf(p), pc[p] \in Live, pc'[p] \in Live,
           mem'[p] = mem[p], Log(p)' = Log(p), Pending(p)' = Pending(p),
           pc'[p] = "commit" =>
             /\ freed'[p] = 0
             /\ \A i \in 1..cursor'[p] : file'[walSize'[p] + i] = staged'[p][i],
           pc'[p] # "sync"
    PROVE  MemtableOf(p)'
  <1>1. Reflects(mem[p], Log(p) \o Pending(p))
    BY DEF MemtableOf
  <1>2. Reflects(mem[p], Log(p) \o Pending(p))'
    BY <1>1 DEF Reflects
  <1>3. pc'[p] \notin {"idle", "locked", "header", "replay"}
    BY DEF Live, Committing, Checkpointing
  <1>. QED BY <1>2, <1>3 DEF MemtableOf

LEMMA MemtableCommit ==
    ASSUME StructInv, StructInv', NEW p \in Procs, MemtableOf(p),
           \/ CommitBegin(p) \/ CommitWrite(p) \/ CommitFails(p)
           \/ CommitPublish(p) \/ CommitSync(p),
           CommitBegin(p) => freed[p] = 0
    PROVE  MemtableOf(p)'
  <1>. USE DEF handle, wal
  <1>0. TypeOK /\ CursorInv /\ FileInv /\ TypeOK' /\ QueueFacts(p) /\ QueueFacts(p)'
    BY Queues, QueuesNext DEF StructInv
  <1>n. /\ walSize[p] \in Nat /\ cursor[p] \in Nat /\ Len(file) \in Nat /\ file \in Seq(Slot)
        /\ staged[p] \in Seq(Frame) /\ Len(staged[p]) \in Nat /\ freed[p] \in Nat
        /\ walSize[p] <= Len(file)
    BY <1>0, Numbers DEF TypeOK, CursorInv
  <1>l. {"open", "commit", "sync"} \subseteq Live
    BY DEF Live, Committing
  <1>1. CASE CommitBegin(p)
    <2>1. /\ pc[p] = "open" /\ pc'[p] = "commit" /\ walSize'[p] = walSize[p] /\ cursor'[p] = 0
          /\ file' = file /\ freed' = freed /\ staged' = staged /\ mem' = mem
      BY <1>0, <1>1 DEF CommitBegin, Goto, TypeOK
    <2>2. Log(p)' = Log(p) /\ Pending(p)' = Pending(p)
      BY <2>1 DEF Log, Pending
    <2>. QED BY <1>1, <1>l, <2>1, <2>2, MemtableKept
  <1>2. CASE CommitWrite(p)
    <2>. DEFINE at == walSize[p] + cursor[p] + 1
    <2>1. /\ pc[p] = "commit" /\ pc'[p] = "commit" /\ walSize' = walSize
          /\ cursor'[p] = cursor[p] + 1 /\ at \in 1..(Len(file) + 1)
          /\ cursor[p] + 1 \in 1..Len(staged[p])
          /\ \E f \in StagedBytes(p, cursor[p] + 1) : file'[at] = f
          /\ \A j \in 1..Len(file) : j # at => file'[j] = file[j]
      BY <1>2, CommitSlot
    <2>2. freed' = freed /\ staged' = staged /\ mem' = mem
      BY <1>2 DEF CommitWrite
    <2>3. freed[p] = 0 /\ \A i \in 1..cursor[p] : file[walSize[p] + i] = staged[p][i]
      BY <2>1 DEF MemtableOf
    <2>4. file'[at] = staged[p][cursor[p] + 1]
      BY <1>n, <2>1, <2>3 DEF StagedBytes
    <2>5. ASSUME NEW i \in 1..cursor[p] + 1 PROVE file'[walSize[p] + i] = staged[p][i]
      <3>1. CASE i = cursor[p] + 1
        <4>1. walSize[p] + i = at
          BY <1>n, <3>1
        <4>. QED BY <2>4, <3>1, <4>1
      <3>2. CASE i # cursor[p] + 1
        <4>0. walSize[p] + cursor[p] <= Len(file)
          BY <1>0, <2>1 DEF CursorInv
        <4>1. i \in 1..cursor[p] /\ walSize[p] + i \in 1..Len(file) /\ walSize[p] + i # at
          BY <1>n, <3>2, <4>0
        <4>. QED BY <2>1, <2>3, <4>1
      <3>. QED BY <3>1, <3>2
    <2>6. \A i \in 1..walSize[p] : file'[i] = file[i]
      BY <1>n, <2>1
    <2>7. Log(p)' = Log(p)
      BY <2>1, <2>6, LogKept
    <2>8. Pending(p)' = Pending(p)
      BY <2>2 DEF Pending
    <2>. QED BY <1>l, <2>1, <2>2, <2>3, <2>5, <2>7, <2>8, MemtableKept
  <1>3. CASE CommitFails(p)
    <2>. DEFINE at == walSize[p] + cursor[p] + 1
    <2>1. /\ pc[p] = "commit" /\ pc'[p] = "open" /\ walSize' = walSize
          /\ at \in 1..(Len(file) + 1)
          /\ \A j \in 1..Len(file) : j # at => file'[j] = file[j]
      BY <1>3, CommitFailSlot
    <2>2. freed' = freed /\ staged' = staged /\ mem' = mem
      BY <1>3 DEF CommitFails
    <2>3. \A i \in 1..walSize[p] : file'[i] = file[i]
      BY <1>n, <2>1
    <2>4. Log(p)' = Log(p)
      BY <2>1, <2>3, LogKept
    <2>5. Pending(p)' = Pending(p)
      BY <2>2 DEF Pending
    <2>. QED BY <1>l, <2>1, <2>2, <2>4, <2>5, MemtableKept
  <1>4. CASE CommitPublish(p)
    <2>1. /\ pc[p] = "commit" /\ pc'[p] = "sync" /\ walSize'[p] = walSize[p] + Len(staged[p])
          /\ cursor[p] = Len(staged[p]) /\ file' = file /\ mem' = mem
          /\ staged' = staged /\ freed'[p] = Len(staged[p])
      BY <1>0, <1>4 DEF CommitPublish, Goto, TypeOK
    <2>2. /\ freed[p] = 0 /\ \A i \in 1..Len(staged[p]) : file[walSize[p] + i] = staged[p][i]
          /\ Reflects(mem[p], Log(p) \o Pending(p))
      BY <1>l, <2>1 DEF MemtableOf
    <2>3. Pending(p) = staged[p] /\ Log(p)' \o Pending(p)' = Log(p)'
      BY <1>0, <2>1, <2>2 DEF QueueFacts
    <2>4. walSize[p] + Len(staged[p]) <= Len(file)
      BY <1>0, <2>1 DEF CursorInv
    <2>5. Log(p)' = Log(p) \o staged[p]
      <3>1. SubSeq(file, 1, walSize[p] + Len(staged[p])) = SubSeq(file, 1, walSize[p]) \o staged[p]
        BY <1>n, <2>2, <2>4, PublishedLog
      <3>. QED BY <2>1, <3>1 DEF Log
    <2>6. Reflects(mem[p], Log(p) \o staged[p])
      BY <2>2, <2>3
    <2>. QED BY <1>l, <2>1, <2>3, <2>5, <2>6 DEF MemtableOf
  <1>5. CASE CommitSync(p)
    <2>1. /\ pc[p] = "sync" /\ pc'[p] = "open" /\ walSize' = walSize /\ mem' = mem
      BY <1>0, <1>5 DEF CommitSync, Goto, TypeOK
    <2>2. file' = file
      BY <1>0, <1>5, SyncTypes DEF CommitSync
    <2>3. freed[p] = Len(staged[p])
      BY <2>1 DEF MemtableOf
    <2>4. freed'[p] = Len(staged'[p])
      BY <1>0, <1>5, <2>3 DEF CommitSync, TypeOK
    <2>5. Pending(p) = <<>> /\ Pending(p)' = <<>>
      BY <1>0, <2>3, <2>4 DEF QueueFacts
    <2>6. Log(p)' = Log(p)
      BY <2>1, <2>2 DEF Log
    <2>. QED BY <1>l, <2>1, <2>5, <2>6, MemtableKept
  <1>. QED BY <1>1, <1>2, <1>3, <1>4, <1>5

\* A checkpoint reads the memtable, and nothing of it outlives the handle.
LEMMA MemtableRest ==
    ASSUME StructInv, StructInv', NEW p \in Procs, MemtableOf(p),
           \/ CheckpointSync(p) \/ CheckpointRename(p) \/ CheckpointDirSync(p)
           \/ StoreClose(p) \/ Crash(p)
    PROVE  MemtableOf(p)'
  <1>. USE DEF handle, wal
  <1>0. TypeOK /\ FileInv
    BY DEF StructInv
  <1>1. CASE StoreClose(p) \/ Crash(p)
    <2>1. pc'[p] = "idle" /\ mem'[p] = EmptyTable
      BY <1>0, <1>1 DEF StoreClose, Crash, DropHandle, Goto, TypeOK
    <2>. QED BY <2>1 DEF MemtableOf, Live, Committing, Checkpointing
  <1>2. CASE CheckpointSync(p) \/ CheckpointRename(p) \/ CheckpointDirSync(p)
    <2>1. /\ pc[p] \in {"open", "chkWrite", "chkDir"} /\ pc'[p] \in {"open", "chkWrite", "chkDir"}
          /\ UNCHANGED <<mem, staged, freed, walSize>>
      BY <1>0, <1>2 DEF CheckpointSync, CheckpointRename, CheckpointDirSync, Goto, TypeOK
    <2>2. file' = file
      BY <1>0, <1>2, SyncTypes DEF CheckpointSync, CheckpointRename, CheckpointDirSync
    <2>3. Log(p)' = Log(p) /\ Pending(p)' = Pending(p)
      BY <2>1, <2>2 DEF Log, Pending
    <2>4. pc[p] \in Live /\ pc'[p] \in Live /\ pc'[p] # "commit" /\ pc'[p] # "sync"
      BY <2>1 DEF Live, Checkpointing
    <2>. QED BY <2>1, <2>3, <2>4, MemtableKept
  <1>. QED BY <1>1, <1>2

\* A step touches one memtable.
LEMMA OtherMemtables ==
    ASSUME StructInv, NEW p \in Procs, CallStep(p) \/ ClientStep(p) \/ OpenFails(p) \/ Crash(p)
    PROVE  \A q \in Procs : q # p => mem'[q] = mem[q]
  <1>. USE DEF handle
  <1>0. mem \in [Procs -> Table]
    BY DEF StructInv, TypeOK
  <1>1. (\E m : mem' = [mem EXCEPT ![p] = m]) \/ mem' = mem
    <2>1. CASE CallStep(p)
      BY <2>1 DEF CallStep, OpenCorrupt, WriteHeader, WriteHeaderShort, SyncHeader, ReadHeader,
             ReplayFrame, ReplayTruncate, ReplayDone, VerifyCheckpoint, CommitWrite, CommitFails,
             CommitPublish, CommitSync, CheckpointRename, CheckpointDirSync, DropHandle
    <2>2. CASE ClientStep(p)
      BY <2>2 DEF ClientStep, OpenLock, CommitBegin, CheckpointSync, StoreClose, StorePut, StoreDel,
             Stage, DropHandle
    <2>3. CASE OpenFails(p) \/ Crash(p)
      BY <2>3 DEF OpenFails, Crash, DropHandle
    <2>. QED BY <2>1, <2>2, <2>3
  <1>. QED BY <1>0, <1>1

LEMMA MemtableStep ==
    ASSUME StructInv, StructInv', ValidInv, NEW p \in Procs, MemtableHolds,
           CallStep(p) \/ ClientStep(p) \/ OpenFails(p) \/ Crash(p),
           CommitBegin(p) => freed[p] = 0
    PROVE  MemtableHolds'
  <1>1. MemtableOf(p)
    BY DEF MemtableHolds
  <1>2. ASSUME NEW f \in Frame, pc[p] = "open", Stage(p, f) PROVE MemtableOf(p)'
    BY <1>1, <1>2, MemtableStage
  <1>3. (\E k \in Keys, v \in Vals : StorePut(p, k, v)) \/ (\E k \in Keys : StoreDel(p, k))
          => MemtableOf(p)'
    BY <1>2 DEF StorePut, StoreDel, Frame
  <1>4. MemtableOf(p)'
    <2>1. CASE CallStep(p)
      BY <1>1, <2>1, MemtableOpening, MemtableCommit, MemtableRest
         DEF CallStep, OpenCorrupt, OpenFails, Opening
    <2>2. CASE ClientStep(p)
      BY <1>1, <1>3, <2>2, MemtableOpening, MemtableCommit, MemtableRest DEF ClientStep
    <2>3. CASE OpenFails(p) \/ Crash(p)
      BY <1>1, <2>3, MemtableOpening, MemtableRest
    <2>. QED BY <2>1, <2>2, <2>3
  <1>5. ASSUME NEW q \in Procs, q # p PROVE MemtableOf(q)'
    <2>1. pc[q] = "idle" /\ pc'[q] = "idle" /\ mem'[q] = mem[q]
      BY <1>5, OthersIdle, OtherMemtables
    <2>2. mem[q] = EmptyTable
      BY <2>1 DEF MemtableHolds, MemtableOf
    <2>. QED BY <2>1, <2>2 DEF MemtableOf, Live, Committing, Checkpointing
  <1>. QED BY <1>4, <1>5 DEF MemtableHolds

LEMMA MemtableNext ==
    ASSUME StructInv, StructInv', ValidInv, MemtableHolds, [Next]_vars,
           \A p \in Procs : CommitBegin(p) => freed[p] = 0
    PROVE  MemtableHolds'
  <1>1. ASSUME NEW p \in Procs, CallStep(p) \/ ClientStep(p) \/ OpenFails(p) \/ Crash(p)
        PROVE  MemtableHolds'
    BY <1>1, MemtableStep
  <1>2. CASE PowerLoss
    <2>1. \A p \in Procs : pc'[p] = "idle" /\ mem'[p] = EmptyTable
      BY <1>2 DEF PowerLoss
    <2>. QED BY <2>1 DEF MemtableHolds, MemtableOf, Live, Committing, Checkpointing
  <1>3. CASE Flip
    <2>1. pc' = pc /\ mem' = mem /\ \A p \in Procs : pc[p] = "idle"
      BY <1>3, ConstantsAssumption DEF Flip, StructInv, LockExclusion, handle
    <2>. QED BY <2>1 DEF MemtableHolds, MemtableOf, Live, Committing, Checkpointing
  <1>4. CASE UNCHANGED vars
    <2>1. UNCHANGED <<pc, mem, staged, freed, walSize, cursor, file>>
      BY <1>4 DEF vars, handle, wal
    <2>2. ASSUME NEW p \in Procs, MemtableOf(p) PROVE MemtableOf(p)'
      <3>1. Log(p)' = Log(p) /\ Pending(p)' = Pending(p)
        BY <2>1 DEF Log, Pending
      <3>. QED BY <2>1, <2>2, <3>1 DEF MemtableOf
    <2>. QED BY <2>2 DEF MemtableHolds
  <1>. QED BY <1>1, <1>2, <1>3, <1>4 DEF Next

LEMMA MemtableInit == Init => MemtableHolds
  BY DEF Init, MemtableHolds, MemtableOf, Live, Committing, Checkpointing

LEMMA MemtableInvNext ==
    StructInv /\ StructInv' /\ ValidInv /\ MemtableInv /\ [Next]_vars => MemtableInv'
  <1>. SUFFICES ASSUME StructInv, StructInv', ValidInv, MemtableHolds, [Next]_vars,
                       "retrySync" \notin Client
                PROVE  MemtableHolds'
    BY DEF MemtableInv
  <1>1. ASSUME NEW p \in Procs, CommitBegin(p) PROVE freed[p] = 0
    <2>1. freed[p] \in Nat
      BY DEF StructInv, TypeOK
    <2>. QED BY <1>1, <2>1 DEF CommitBegin
  <1>. QED BY <1>1, MemtableNext

LEMMA MemtableAlways == Spec => [](StructInv /\ ValidInv /\ DurableInv /\ MemtableInv)
  <1>1. Init => MemtableInv
    BY MemtableInit DEF MemtableInv
  <1>. QED BY <1>1, DurableAlways, StructNext, MemtableInvNext, PTL DEF Spec

\* The memtable of every handle, and so the Merkle root and the answers of
\* store_get, is what the frames it accounts for and the operations it still has
\* to write leave, however the store was crashed, cut and reopened before.
THEOREM MemtableIsTheLog == Spec => []MemtableIsLog
  <1>1. MemtableInv => MemtableIsLog
    BY DEF MemtableInv, MemtableHolds, MemtableOf, MemtableIsLog
  <1>. QED BY <1>1, MemtableAlways, PTL

-----------------------------------------------------------------------------
(***************************************************************************)
(* Protected slots: what a checkpoint, or a host, may rely on for good     *)
(***************************************************************************)

\* It is enough to look at the process that takes the step.
LEMMA ProtectedKept ==
    ASSUME NEW n \in Nat, Protected(n), NEW p \in Procs,
           \A q \in Procs : q # p => pc'[q] = "idle",
           hdr' = hdr, 0 \notin dirty', n <= Len(file'),
           \A i \in 1..n : file'[i] = file[i] /\ i \notin dirty',
           pc'[p] # "header", pc'[p] \in Live \cup {"verify"} => n <= walSize'[p]
    PROVE  Protected(n)'
  <1>1. \A i \in 1..n : file'[i] \in Frame /\ i \notin dirty'
    BY DEF Protected
  <1>2. \A q \in Procs : /\ pc'[q] # "header"
                         /\ pc'[q] \in Live \cup {"verify"} => n <= walSize'[q]
    BY DEF Live, Committing, Checkpointing
  <1>. QED BY <1>1, <1>2 DEF Protected

\* Steps that leave the file as it is.
LEMMA ProtectedQuiet ==
    ASSUME StructInv, ReliableMedium, SyncedInv, NEW n \in Nat, Protected(n), NEW p \in Procs,
           \/ OpenLock(p) \/ OpenFails(p) \/ ReadHeader(p) \/ ReplayFrame(p)
           \/ SyncHeader(p) \/ ReplayDone(p) \/ VerifyCheckpoint(p)
           \/ \E k \in Keys, v \in Vals : StorePut(p, k, v)
           \/ \E k \in Keys : StoreDel(p, k)
           \/ CommitBegin(p) \/ CommitPublish(p) \/ CommitSync(p)
           \/ CheckpointSync(p) \/ CheckpointRename(p) \/ CheckpointDirSync(p)
           \/ StoreClose(p) \/ Crash(p),
           \A q \in Procs : q # p => pc'[q] = "idle"
    PROVE  Protected(n)' /\ \A i \in 1..n : file'[i] = file[i]
  <1>. USE DEF handle, wal
  <1>0. TypeOK /\ CursorInv /\ FileInv
    BY DEF StructInv
  <1>n. /\ Len(file) \in Nat /\ cursor[p] \in Nat /\ walSize[p] \in Nat /\ Len(staged[p]) \in Nat
        /\ n <= Len(file) /\ pc[p] # "header"
        /\ pc[p] \in Live \cup {"verify"} => n <= walSize[p]
    BY <1>0, Numbers DEF Protected
  <1>1. \/ UNCHANGED <<file, dirty, hdr>>
        \/ SyncOk \/ SyncFails
    BY DEF OpenLock, OpenFails, ReadHeader, ReplayFrame, SyncHeader, ReplayDone, VerifyCheckpoint,
           StorePut, StoreDel, Stage, CommitBegin, CommitPublish, CommitSync, CheckpointSync,
           CheckpointRename, CheckpointDirSync, StoreClose, Crash
  <1>2. file' = file /\ hdr' = hdr /\ dirty' \subseteq dirty
    BY <1>0, <1>1, ReliableSync
  <1>3. /\ pc'[p] # "header"
        /\ \/ pc'[p] \in {"idle", "locked", "replay"}
           \/ pc[p] \in Live \cup {"verify"} /\ walSize'[p] = walSize[p]
           \/ pc[p] = "replay" /\ walSize'[p] = cursor[p] /\ cursor[p] >= Len(file)
           \/ pc[p] = "commit" /\ walSize'[p] = walSize[p] + Len(staged[p])
    <2>1. CASE \/ OpenLock(p) \/ OpenFails(p) \/ ReadHeader(p) \/ ReplayFrame(p)
               \/ SyncHeader(p) \/ ReplayDone(p) \/ VerifyCheckpoint(p)
               \/ StoreClose(p) \/ Crash(p)
      BY <1>0, <1>n, <2>1 DEF OpenLock, OpenFails, ReadHeader, ReplayFrame, SyncHeader, ReplayDone,
             VerifyCheckpoint, StoreClose, Crash, DropHandle, Goto, TypeOK
    <2>2. CASE \/ \E k \in Keys, v \in Vals : StorePut(p, k, v)
               \/ \E k \in Keys : StoreDel(p, k)
               \/ CommitBegin(p) \/ CommitPublish(p) \/ CommitSync(p)
               \/ CheckpointSync(p) \/ CheckpointRename(p) \/ CheckpointDirSync(p)
      BY <1>0, <2>2 DEF StorePut, StoreDel, Stage, CommitBegin, CommitPublish, CommitSync,
             CheckpointSync, CheckpointRename, CheckpointDirSync, Goto, TypeOK, Live, Committing,
             Checkpointing
    <2>. QED BY <2>1, <2>2
  <1>4. pc'[p] \in Live \cup {"verify"} => n <= walSize'[p]
    BY <1>n, <1>3 DEF Live, Committing, Checkpointing
  <1>5. 0 \notin dirty' /\ n <= Len(file') /\ \A i \in 1..n : file'[i] = file[i] /\ i \notin dirty'
    BY <1>n, <1>2 DEF Protected
  <1>. QED BY <1>2, <1>3, <1>4, <1>5, ProtectedKept

\* Steps that write slots or cut them.
LEMMA ProtectedWrite ==
    ASSUME StructInv, ReliableMedium, NEW n \in Nat, Protected(n), NEW p \in Procs,
           \/ WriteHeader(p) \/ WriteHeaderShort(p) \/ ReplayTruncate(p)
           \/ CommitWrite(p) \/ CommitFails(p),
           \A q \in Procs : q # p => pc'[q] = "idle"
    PROVE  Protected(n)' /\ \A i \in 1..n : file'[i] = file[i]
  <1>. USE ConstantsAssumption DEF handle
  <1>0. TypeOK /\ CursorInv /\ FileInv
    BY DEF StructInv
  <1>n. /\ Len(file) \in Nat /\ cursor[p] \in Nat /\ walSize[p] \in Nat /\ file \in Seq(Slot)
        /\ n <= Len(file) /\ 0 \notin dirty
        /\ \A i \in 1..n : file[i] \in Frame /\ i \notin dirty
    BY <1>0, Numbers DEF TypeOK, Protected
  <1>1. CASE WriteHeader(p) \/ WriteHeaderShort(p)
    BY <1>1 DEF WriteHeader, WriteHeaderShort, Protected
  <1>2. CASE ReplayTruncate(p)
    <2>1. /\ pc[p] = "replay" /\ pc' = pc /\ cursor[p] < Len(file) /\ file[cursor[p] + 1] = Torn
          /\ file' = SubSeq(file, 1, cursor[p]) /\ dirty' = {i \in dirty : i <= cursor[p]}
          /\ hdr' = hdr
      BY <1>2, ReliableCut DEF ReplayTruncate, Truncate
    <2>2. Len(file') = cursor[p] /\ \A i \in 1..cursor[p] : file'[i] = file[i]
      BY <1>n, <2>1
    <2>3. n <= cursor[p]
      <3>1. SUFFICES ASSUME ~(n <= cursor[p]) PROVE FALSE
        OBVIOUS
      <3>2. cursor[p] + 1 \in 1..n
        BY <1>n, <3>1
      <3>. QED BY <1>n, <2>1, <3>2
    <2>4. n <= Len(file') /\ \A i \in 1..n : file'[i] = file[i] /\ i \notin dirty'
      BY <1>n, <2>1, <2>2, <2>3
    <2>5. pc'[p] # "header" /\ pc'[p] \notin Live \cup {"verify"} /\ 0 \notin dirty'
      BY <1>n, <2>1 DEF Live, Committing, Checkpointing
    <2>. QED BY <2>1, <2>4, <2>5, ProtectedKept
  <1>3. CASE CommitWrite(p) \/ CommitFails(p)
    <2>. DEFINE at == walSize[p] + cursor[p] + 1
    <2>1. /\ pc[p] = "commit" /\ pc'[p] \in {"commit", "open"} /\ walSize' = walSize
          /\ hdr' = hdr /\ Len(file) <= Len(file')
          /\ (\E x \in Slot : WriteSlot(at, x)) \/ UNCHANGED wal
          /\ \A j \in 1..Len(file) : j # at => file'[j] = file[j]
      BY <1>3, CommitSlot, CommitFailSlot DEF Slot
    <2>2. n <= walSize[p]
      BY <2>1 DEF Protected, Live, Committing
    <2>3. dirty' \subseteq dirty \cup {at}
      BY <2>1 DEF WriteSlot, wal
    <2>4. at # 0 /\ \A i \in 1..n : i \in 1..Len(file) /\ i # at
      BY <1>n, <2>2
    <2>. HIDE DEF at
    <2>5. Len(file') \in Nat
      <3>1. ASSUME NEW x \in Slot, WriteSlot(at, x) PROVE Len(file') \in Nat
        BY <1>n, <3>1 DEF WriteSlot, PutSlot
      <3>. QED BY <1>n, <2>1, <3>1 DEF wal
    <2>6. n <= Len(file') /\ 0 \notin dirty' /\ \A i \in 1..n : file'[i] = file[i] /\ i \notin dirty'
      BY <1>n, <2>1, <2>3, <2>4, <2>5
    <2>. QED BY <2>1, <2>2, <2>6, ProtectedKept
  <1>. QED BY <1>1, <1>2, <1>3

\* A power loss keeps them because they are clean.
LEMMA ProtectedPowerLoss ==
    ASSUME StructInv, SyncedInv, NEW m \in Nat, Protected(m), PowerLoss, WrittenBack
    PROVE  Protected(m)' /\ \A i \in 1..m : file'[i] = file[i]
  <1>0. TypeOK /\ FileInv
    BY DEF StructInv
  <1>n. Len(file) \in Nat /\ Len(disk) \in Nat
    BY <1>0, Numbers
  <1>1. PICK n \in Len(disk)..Len(file) \cup Len(file)..Len(disk),
             kept \in SUBSET (dirty \ {0}),
             h \in IF 0 \in dirty THEN {hdr, hdrDisk, "partial"} ELSE {hdrDisk} :
          /\ \E torn \in SUBSET kept : file' = Survivors(n, kept, torn)
          /\ hdr' = h
    BY DEF WrittenBack
  <1>2. dirty' = {} /\ pc' = [p \in Procs |-> "idle"]
    BY DEF PowerLoss
  <1>3. \A i \in 1..m : /\ i <= Len(disk) /\ i <= Len(file) /\ i \notin kept
                        /\ disk[i] = file[i] /\ file[i] \in Frame
    BY <1>n DEF Protected, SyncedInv
  <1>4. m <= n /\ n \in Nat
    <2>1. m <= Len(disk) /\ m <= Len(file)
      <3>1. CASE m = 0
        BY <1>n, <3>1
      <3>2. CASE m # 0
        <4>1. m \in 1..m
          BY <3>2
        <4>. QED BY <1>3, <4>1
      <3>. QED BY <3>1, <3>2
    <2>. QED BY <1>n, <2>1
  <1>5. Len(file') = n /\ \A i \in 1..m : file'[i] = file[i]
    <2>1. \A i \in 1..m : i \in 1..n
      BY <1>4
    <2>2. Len(file') = n
      BY <1>1, <1>4 DEF Survivors
    <2>. QED BY <1>1, <1>3, <2>1, <2>2 DEF Survivors
  <1>6. hdr' = "ok"
    BY <1>1 DEF Protected, SyncedInv
  <1>7. \A q \in Procs : pc'[q] # "header" /\ pc'[q] \notin Live \cup {"verify"}
    BY <1>2 DEF Live, Committing, Checkpointing
  <1>. QED BY <1>2, <1>3, <1>4, <1>5, <1>6, <1>7 DEF Protected

\* No step writes, cuts or loses a protected slot.
LEMMA ProtectedNext ==
    ASSUME StructInv, SyncedInv, ReliableMedium, NEW n \in Nat, Protected(n), [Next]_vars
    PROVE  Protected(n)' /\ \A i \in 1..n : file'[i] = file[i]
  <1>. DEFINE Kept == Protected(n)' /\ \A i \in 1..n : file'[i] = file[i]
  <1>. HIDE DEF Kept
  <1>1. ASSUME NEW p \in Procs, CallStep(p) \/ ClientStep(p) \/ OpenFails(p) \/ Crash(p) PROVE Kept
    <2>1. \A q \in Procs : q # p => pc'[q] = "idle"
      BY <1>1, OthersIdle
    <2>2. CASE CallStep(p)
      BY <2>1, <2>2, ProtectedQuiet, ProtectedWrite
         DEF CallStep, OpenCorrupt, OpenFails, Opening, Kept
    <2>3. CASE ClientStep(p) \/ OpenFails(p) \/ Crash(p)
      BY <2>1, <2>3, ProtectedQuiet DEF ClientStep, Kept
    <2>. QED BY <1>1, <2>2, <2>3
  <1>2. CASE PowerLoss
    BY <1>2, ProtectedPowerLoss, ReliableLoss DEF Kept
  <1>3. CASE Flip
    BY <1>3 DEF Flip, ReliableMedium
  <1>4. CASE UNCHANGED vars
    <2>1. UNCHANGED <<pc, walSize, file, dirty, hdr>>
      BY <1>4 DEF vars, handle, wal
    <2>. QED BY <2>1 DEF Protected, Kept
  <1>. QED BY <1>1, <1>2, <1>3, <1>4 DEF Next, Kept

-----------------------------------------------------------------------------
(***************************************************************************)
(* Checkpoints                                                             *)
(***************************************************************************)

\* A checkpoint is an old one or the one a handle has just renamed.
LEMMA NewCheckpoint ==
    ASSUME [Next]_vars, NEW c \in {chk', chkDisk'}, c # NoChk
    PROVE  \/ c \in {chk, chkDisk}
           \/ \E p \in Procs : /\ CheckpointRename(p) /\ pc' = [pc EXCEPT ![p] = "chkDir"]
                              /\ c = [frames |-> frames[p], root |-> mem[p]]
  <1>1. ASSUME NEW p \in Procs, CallStep(p)
        PROVE  \/ c \in {chk, chkDisk}
               \/ /\ CheckpointRename(p) /\ pc' = [pc EXCEPT ![p] = "chkDir"]
                  /\ c = [frames |-> frames[p], root |-> mem[p]]
    <2>1. CASE CheckpointRename(p)
      BY <2>1 DEF CheckpointRename, Goto
    <2>2. CASE ~CheckpointRename(p)
      BY <1>1, <2>2 DEF CallStep, OpenCorrupt, WriteHeader, WriteHeaderShort, SyncHeader, ReadHeader,
             ReplayFrame, ReplayTruncate, ReplayDone, VerifyCheckpoint, CommitWrite, CommitFails,
             CommitPublish, CommitSync, CheckpointDirSync
    <2>. QED BY <2>1, <2>2
  <1>2. ASSUME NEW p \in Procs, ClientStep(p) \/ OpenFails(p) \/ Crash(p)
        PROVE  c \in {chk, chkDisk}
    BY <1>2 DEF ClientStep, OpenLock, CommitBegin, CheckpointSync, StoreClose, StorePut, StoreDel,
           Stage, OpenFails, Crash
  <1>3. ASSUME PowerLoss \/ Flip \/ UNCHANGED vars
        PROVE  c \in {chk, chkDisk}
    BY <1>3 DEF PowerLoss, Flip, vars
  <1>. QED BY <1>1, <1>2, <1>3 DEF Next

\* A handle gets to writing a checkpoint only through the sync of its log.
LEMMA CheckpointBegins ==
    ASSUME StructInv, CheckpointHolds, ReliableMedium, Client = {}, [Next]_vars,
           NEW p \in Procs, pc'[p] = "chkWrite"
    PROVE  staged'[p] = <<>> /\ \A i \in 0..walSize'[p] : i \notin dirty'
  <1>0. TypeOK /\ FileInv
    BY DEF StructInv
  <1>1. ASSUME NEW q \in Procs, CallStep(q) \/ ClientStep(q) \/ OpenFails(q) \/ Crash(q)
        PROVE  CheckpointSync(p) /\ SyncOk
    <2>1. q = p
      BY <1>1, OthersIdle
    <2>2. CASE CallStep(p)
      BY <1>0, <2>2 DEF CallStep, OpenCorrupt, WriteHeader, WriteHeaderShort, SyncHeader, ReadHeader,
             ReplayFrame, ReplayTruncate, ReplayDone, VerifyCheckpoint, CommitWrite, CommitFails,
             CommitPublish, CommitSync, CheckpointRename, CheckpointDirSync, DropHandle, Goto, TypeOK
    <2>3. CASE ClientStep(p)
      BY <1>0, <2>3 DEF ClientStep, OpenLock, CommitBegin, CheckpointSync, StoreClose, StorePut,
             StoreDel, Stage, DropHandle, Goto, TypeOK
    <2>4. CASE OpenFails(p) \/ Crash(p)
      BY <1>0, <2>4 DEF OpenFails, Crash, DropHandle, Goto, TypeOK
    <2>. QED BY <1>1, <2>1, <2>2, <2>3, <2>4
  <1>2. CASE CheckpointSync(p) /\ SyncOk
    <2>1. dirty' = {}
      BY <1>0, <1>2, FlushTypes DEF SyncOk, ReliableMedium
    <2>2. staged' = staged /\ staged[p] = <<>>
      BY <1>2 DEF CheckpointSync, handle
    <2>. QED BY <2>1, <2>2
  <1>3. ASSUME UNCHANGED vars
        PROVE  staged'[p] = <<>> /\ \A i \in 0..walSize'[p] : i \notin dirty'
    BY <1>3 DEF CheckpointHolds, vars, handle, wal
  <1>4. ~PowerLoss
    BY DEF PowerLoss
  <1>5. ~Flip
    BY DEF Flip, ReliableMedium
  <1>. QED BY <1>1, <1>2, <1>3, <1>4, <1>5 DEF Next

LEMMA CheckpointNext ==
    StructInv /\ StructInv' /\ ValidInv /\ DurableInv /\ MemtableInv /\ CheckpointInv /\ [Next]_vars
        => CheckpointInv'
  <1>. SUFFICES ASSUME StructInv, StructInv', ValidInv, SyncedInv, MemtableHolds, CheckpointHolds,
                       Client = {}, ReliableMedium, [Next]_vars
                PROVE  CheckpointHolds'
    BY DEF CheckpointInv, DurableInv, MemtableInv
  <1>0. TypeOK /\ CursorInv /\ TypeOK'
    BY DEF StructInv
  <1>1. ASSUME NEW c \in {chk, chkDisk}, c # NoChk
        PROVE  Protected(c.frames)' /\ Reflects(c.root, SubSeq(file', 1, c.frames))
    <2>1. c.frames \in Nat
      BY <1>0, <1>1 DEF TypeOK, Checkpoint
    <2>2. Protected(c.frames) /\ Reflects(c.root, SubSeq(file, 1, c.frames))
      BY <1>1 DEF CheckpointHolds
    <2>. DEFINE n == c.frames
    <2>. HIDE DEF n
    <2>3. n \in Nat /\ Protected(n)
      BY <2>1, <2>2 DEF n
    <2>4. Protected(n)' /\ \A i \in 1..n : file'[i] = file[i]
      BY <2>3, ProtectedNext
    <2>5. /\ file \in Seq(Slot) /\ file' \in Seq(Slot)
          /\ n <= Len(file) /\ n <= Len(file')
      BY <1>0, <2>3, <2>4 DEF TypeOK, Protected
    <2>6. SubSeq(file', 1, n) = SubSeq(file, 1, n)
      BY <2>3, <2>4, <2>5, SamePrefix
    <2>. QED BY <2>2, <2>4, <2>6 DEF n
  <1>2. ASSUME NEW p \in Procs, CheckpointRename(p), pc' = [pc EXCEPT ![p] = "chkDir"],
               NEW n, n = frames[p]
        PROVE  Protected(n)' /\ Reflects(mem[p], SubSeq(file', 1, n))
    <2>1. /\ pc[p] = "chkWrite" /\ pc'[p] = "chkDir"
          /\ UNCHANGED <<mem, staged, freed, frames, walSize, file, dirty, hdr>>
      BY <1>0, <1>2 DEF CheckpointRename, handle, wal, TypeOK
    <2>2. frames[p] = walSize[p] /\ walSize[p] \in Nat /\ walSize[p] <= Len(file) /\ Len(file) \in Nat
      BY <1>0, Numbers DEF CursorInv
    <2>3. staged[p] = <<>> /\ \A i \in 0..walSize[p] : i \notin dirty
      BY <2>1 DEF CheckpointHolds
    <2>4. hdr = "ok" /\ \A i \in 1..walSize[p] : file[i] \in Frame
      BY <2>1 DEF ValidInv, Relied
    <2>5. \A q \in Procs : q # p => pc'[q] = "idle"
      BY <1>2, OthersIdle DEF CallStep
    <2>6. \A q \in Procs : /\ pc'[q] # "header"
                           /\ pc'[q] \in Live \cup {"verify"} => walSize[p] <= walSize'[q]
      BY <2>1, <2>2, <2>5 DEF Live, Committing, Checkpointing
    <2>7. Protected(n)'
      <3>1. /\ n = walSize[p] /\ n \in Nat /\ n <= Len(file) /\ walSize'[p] = n
            /\ \A i \in 0..n : i \notin dirty
        BY <1>2, <2>1, <2>2, <2>3
      <3>2. 0 \notin dirty /\ \A i \in 1..n : i \notin dirty
        BY <3>1
      <3>. QED BY <2>1, <2>4, <2>6, <3>1, <3>2 DEF Protected
    <2>8. Reflects(mem[p], Log(p) \o Pending(p))
      BY <2>1 DEF MemtableHolds, MemtableOf, Live, Checkpointing
    <2>9. Len(staged[p]) = 0 /\ freed[p] = 0
      BY <1>0, <2>3, Numbers DEF CursorInv
    <2>10. Log(p) \o Pending(p) = Log(p)
      BY <2>9, Queues DEF QueueFacts
    <2>. QED BY <1>2, <2>1, <2>2, <2>7, <2>8, <2>10 DEF Log
  <1>3. ASSUME NEW c \in {chk', chkDisk'} \ {NoChk}
        PROVE  Protected(c.frames)' /\ Reflects(c.root, SubSeq(file', 1, c.frames))
    <2>1. CASE c \in {chk, chkDisk}
      BY <1>1, <1>3, <2>1
    <2>2. ASSUME NEW p \in Procs, CheckpointRename(p), pc' = [pc EXCEPT ![p] = "chkDir"],
                 c = [frames |-> frames[p], root |-> mem[p]]
          PROVE  Protected(c.frames)' /\ Reflects(c.root, SubSeq(file', 1, c.frames))
      <3>1. c.frames = frames[p] /\ c.root = mem[p]
        BY <2>2
      <3>. QED BY <1>2, <2>2, <3>1
    <2>. QED BY <1>3, <2>1, <2>2, NewCheckpoint
  <1>4. \A p \in Procs : pc'[p] = "chkWrite" =>
          staged'[p] = <<>> /\ \A i \in 0..walSize'[p] : i \notin dirty'
    BY CheckpointBegins
  <1>. QED BY <1>3, <1>4 DEF CheckpointHolds

LEMMA CheckpointAlways ==
    Spec => [](StructInv /\ ValidInv /\ DurableInv /\ MemtableInv /\ CheckpointInv)
  <1>1. Init => CheckpointInv
    BY DEF Init, CheckpointInv, CheckpointHolds
  <1>. QED BY <1>1, MemtableAlways, StructNext, CheckpointNext, PTL DEF Spec

\* On a reliable medium the root of a checkpoint is the root of the log it is compared
\* with: no client that checkpoints between its commits is ever locked out of its own
\* store.
THEOREM CheckpointsAgree == Spec => []CheckpointAgrees
  <1>1. StructInv /\ MemtableInv /\ CheckpointInv => CheckpointAgrees
    <2>. SUFFICES ASSUME StructInv, MemtableHolds, CheckpointHolds, NEW p \in Procs,
                         pc[p] = "verify", chk # NoChk, chk.frames = frames[p]
                  PROVE  chk.root = mem[p]
      BY DEF MemtableInv, CheckpointInv, CheckpointAgrees, ChkMatches
    <2>0. TypeOK /\ CursorInv
      BY DEF StructInv
    <2>1. Reflects(chk.root, SubSeq(file, 1, frames[p])) /\ chk.root \in Table
      BY <2>0 DEF CheckpointHolds, TypeOK, Checkpoint
    <2>2. staged[p] = <<>> /\ frames[p] = walSize[p]
      BY <2>0 DEF CursorInv, Live, Committing, Checkpointing
    <2>3. Len(staged[p]) = 0 /\ freed[p] = 0
      BY <2>0, <2>2, Numbers DEF CursorInv
    <2>4. Log(p) \o Pending(p) = Log(p) /\ Log(p) \in Seq(Slot)
      BY <2>3, Queues DEF QueueFacts
    <2>5. Reflects(mem[p], Log(p)) /\ mem[p] \in Table
      BY <2>0, <2>4 DEF MemtableHolds, MemtableOf, TypeOK
    <2>. QED BY <2>1, <2>2, <2>4, <2>5, ReflectsOnce DEF Log
  <1>. QED BY <1>1, CheckpointAlways, PTL

-----------------------------------------------------------------------------
(***************************************************************************)
(* The image on the medium and the tail behind the log                     *)
(***************************************************************************)

\* A sync that works brings the image up to the file.
LEMMA ImageSync ==
    ASSUME StructInv, ImageHolds, SyncOk \/ SyncFails,
           ReliableMedium, \A p \in Procs : pc'[p] # "header"
    PROVE  ImageHolds'
  <1>0. TypeOK /\ FileInv
    BY DEF StructInv
  <1>n. Len(file) \in Nat /\ Len(disk) \in Nat /\ file' = file /\ hdr' = hdr
    BY <1>0, Numbers, SyncTypes
  <1>1. CASE SyncFails
    <2>1. disk' = disk /\ hdrDisk' = hdrDisk
      BY <1>1 DEF SyncFails
    <2>. QED BY <1>n, <2>1 DEF ImageHolds
  <1>2. CASE SyncOk
    <2>1. Flush(dirty)
      BY <1>2 DEF SyncOk, ReliableMedium
    <2>2. Len(disk') = Len(file)
      BY <1>0, <2>1, FlushTypes
    <2>3. ASSUME NEW i \in 1..Len(file) PROVE disk'[i] \in {file[i], Torn}
      <3>1. disk'[i] = CASE i \in dirty -> file[i]
                         [] i \notin dirty /\ i <= Len(disk) -> disk[i]
                         [] OTHER -> Torn
        BY <2>1 DEF Flush
      <3>2. i <= Len(disk) => disk[i] \in {file[i], Torn}
        BY <1>n DEF ImageHolds
      <3>. QED BY <3>1, <3>2
    <2>4. hdrDisk' = "ok" => hdr = "ok"
      BY <2>1 DEF Flush, ImageHolds
    <2>5. hdr = "none" => file = <<>>
      BY DEF ImageHolds
    <2>. QED BY <1>n, <2>2, <2>3, <2>4, <2>5 DEF ImageHolds
  <1>. QED BY <1>1, <1>2

\* A slot is written over by itself, or where nothing verified.
LEMMA ImageWrite ==
    ASSUME StructInv, ImageHolds, NEW i \in Nat, i >= 1, i <= Len(file) + 1, i <= MaxWal,
           NEW x \in Slot, WriteSlot(i, x), i <= Len(file) => file[i] \in {x, Torn},
           hdr = "ok", \A p \in Procs : pc'[p] # "header"
    PROVE  ImageHolds'
  <1>0. TypeOK /\ FileInv
    BY DEF StructInv
  <1>n. Len(file) \in Nat /\ Len(disk) \in Nat /\ disk \in Seq(Slot)
    BY <1>0, Numbers DEF TypeOK
  <1>1. /\ hdr' = hdr /\ hdrDisk' = hdrDisk /\ Len(file) <= Len(file') /\ file'[i] = x
        /\ file' \in Seq(Slot)
        /\ \A j \in 1..Len(file) : j # i => file'[j] = file[j]
    BY <1>0, WriteSlotTypes
  <1>2. disk' = IF Len(disk) > Len(file) THEN SubSeq(disk, 1, Len(file)) ELSE disk
    BY DEF WriteSlot
  <1>3. /\ Len(disk') \in Nat /\ Len(disk') <= Len(file) /\ Len(disk') <= Len(disk)
        /\ \A j \in 1..Len(disk') : disk'[j] = disk[j]
    BY <1>n, <1>2
  <1>4. ASSUME NEW j \in 1..Len(disk') PROVE disk'[j] \in {file'[j], Torn}
    <2>1. j \in 1..Len(disk) /\ j \in 1..Len(file) /\ disk'[j] = disk[j]
      BY <1>n, <1>3
    <2>2. disk[j] \in {file[j], Torn}
      BY <2>1 DEF ImageHolds
    <2>3. CASE j = i
      BY <1>1, <2>1, <2>2, <2>3
    <2>4. CASE j # i
      BY <1>1, <2>1, <2>2, <2>4
    <2>. QED BY <2>3, <2>4
  <1>5. Len(file') \in Nat
    BY <1>1
  <1>6. ~(Len(file') < Len(disk'))
    BY <1>n, <1>1, <1>3, <1>5
  <1>. QED BY <1>1, <1>4, <1>6 DEF ImageHolds

\* What a replay cuts off starts with a slot that does not verify.
LEMMA ImageCut ==
    ASSUME StructInv, ValidInv, ImageHolds, ReliableMedium, NEW p \in Procs, ReplayTruncate(p)
    PROVE  ImageHolds'
  <1>0. TypeOK /\ FileInv
    BY DEF StructInv
  <1>1. /\ pc[p] = "replay" /\ pc' = pc /\ cursor[p] < Len(file) /\ file[cursor[p] + 1] = Torn
        /\ file' = SubSeq(file, 1, cursor[p])
        /\ UNCHANGED <<disk, hdr, hdrDisk>>
    BY ReliableCut DEF ReplayTruncate, Truncate
  <1>n. /\ Len(file) \in Nat /\ Len(disk) \in Nat /\ cursor[p] \in Nat /\ file \in Seq(Slot)
        /\ hdr = "ok"
    BY <1>0, <1>1, Numbers DEF TypeOK, ValidInv
  <1>2. Len(file') = cursor[p] /\ \A i \in 1..cursor[p] : file'[i] = file[i]
    BY <1>n, <1>1
  <1>3. ASSUME NEW i \in 1..Len(disk), i <= cursor[p] PROVE disk[i] \in {file'[i], Torn}
    <2>1. i <= Len(file) /\ i \in 1..cursor[p]
      BY <1>n, <1>1, <1>3
    <2>. QED BY <1>2, <2>1 DEF ImageHolds
  <1>4. ASSUME cursor[p] < Len(disk) PROVE disk[cursor[p] + 1] = Torn
    <2>1. cursor[p] + 1 \in 1..Len(disk) /\ cursor[p] + 1 <= Len(file)
      BY <1>n, <1>1, <1>4
    <2>. QED BY <1>1, <2>1 DEF ImageHolds
  <1>5. \A q \in Procs : pc'[q] = "header" => FALSE
    <2>1. LockExclusion
      BY DEF StructInv
    <2>. QED BY <1>1, <2>1 DEF LockExclusion
  <1>. QED BY <1>n, <1>1, <1>2, <1>3, <1>4, <1>5 DEF ImageHolds

\* Where a commit writes there is the very frame it writes, torn bytes, or the end
\* of the file; what is torn is the last slot of the file.
LEMMA CommitTarget ==
    ASSUME StructInv, ValidInv, MemtableHolds, TailHolds, NEW p \in Procs,
           pc[p] = "commit", cursor[p] < Len(staged[p]),
           NEW at, at = walSize[p] + cursor[p] + 1
    PROVE  /\ StagedBytes(p, cursor[p] + 1) = {staged[p][cursor[p] + 1]}
           /\ at <= Len(file) => file[at] = staged[p][cursor[p] + 1] \/ (file[at] = Torn /\ at = Len(file))
           /\ \A i \in 1..at - 1 : i <= Len(file) /\ file[i] \in Frame
           /\ freed[p] = 0 /\ staged[p][cursor[p] + 1] \in Frame
           /\ at \in Nat /\ at >= 1 /\ at <= Len(file) + 1 /\ at <= walSize[p] + Len(staged[p])
           /\ at <= MaxWal
           /\ hdr = "ok"
  <1>0. TypeOK /\ CursorInv
    BY DEF StructInv
  <1>1. /\ walSize[p] \in Nat /\ cursor[p] \in Nat /\ Len(file) \in Nat /\ staged[p] \in Seq(Frame)
        /\ Len(staged[p]) \in Nat /\ walSize[p] + cursor[p] <= Len(file) /\ MaxWal \in Nat
        /\ walSize[p] + Len(staged[p]) <= MaxWal
    BY <1>0, Numbers, ConstantsAssumption DEF CursorInv
  <1>2. freed[p] = 0
    BY DEF MemtableHolds, MemtableOf
  <1>3. StagedBytes(p, cursor[p] + 1) = {staged[p][cursor[p] + 1]}
    BY <1>1, <1>2 DEF StagedBytes
  <1>4. /\ at \in Nat /\ at >= 1 /\ at <= Len(file) + 1 /\ at <= walSize[p] + Len(staged[p])
        /\ at <= MaxWal
    <2>1. cursor[p] + 1 <= Len(staged[p])
      BY <1>1
    <2>. QED BY <1>1, <2>1, SMTT(30)
  <1>5. staged[p][cursor[p] + 1] \in Frame
    BY <1>1
  <1>6. hdr = "ok" /\ \A i \in 1..walSize[p] + cursor[p] : file[i] \in Frame
    BY DEF ValidInv, Relied
  <1>7. at - 1 = walSize[p] + cursor[p]
    BY <1>1
  <1>8. \A i \in 1..at - 1 : i <= Len(file) /\ file[i] \in Frame
    BY <1>1, <1>6, <1>7
  <1>9. ASSUME at <= Len(file)
        PROVE  file[at] = staged[p][cursor[p] + 1] \/ (file[at] = Torn /\ at = Len(file))
    <2>1. at \in walSize[p] + 1..Len(file) /\ at - walSize[p] = cursor[p] + 1
      BY <1>1, <1>9
    <2>2. \A i \in walSize[p] + 1..Len(file) :
              file[i] = staged[p][i - walSize[p]] \/ (file[i] = Torn /\ i = Len(file))
      BY DEF TailHolds, TailOf, Live, Committing
    <2>. QED BY <2>1, <2>2
  <1>. QED BY <1>2, <1>3, <1>4, <1>5, <1>6, <1>8, <1>9

\* What a step of a commit does to the file: nothing, or one more frame, or torn
\* bytes behind the last.
LEMMA CommitEffect ==
    ASSUME StructInv, ValidInv, MemtableHolds, TailHolds, NEW p \in Procs,
           CommitWrite(p) \/ CommitFails(p), NEW at, at = walSize[p] + cursor[p] + 1
    PROVE  /\ pc[p] = "commit" /\ cursor[p] < Len(staged[p]) /\ hdr = "ok" /\ hdr' = hdr
           /\ at \in Nat /\ at >= 1 /\ at <= Len(file) + 1 /\ at <= MaxWal
           /\ at <= walSize[p] + Len(staged[p])
           /\ \A i \in 1..at - 1 : i <= Len(file) /\ file[i] \in Frame /\ file'[i] = file[i]
           /\ \/ UNCHANGED wal
              \/ /\ \E x \in Slot : /\ WriteSlot(at, x) /\ file'[at] = x
                                    /\ at <= Len(file) => file[at] \in {x, Torn}
                                    /\ x \in {staged[p][cursor[p] + 1], Torn}
                                    /\ x = Torn => CommitFails(p)
                 /\ \/ file' = file
                    \/ at = Len(file') /\ (at <= Len(file) => file[at] = Torn /\ at = Len(file))
  <1>0. TypeOK /\ CursorInv /\ FileInv
    BY DEF StructInv
  <1>n. Len(file) \in Nat /\ file \in Seq(Slot) /\ Len(staged[p]) \in Nat /\ cursor[p] \in Nat
    BY <1>0, Numbers DEF TypeOK
  <1>1. pc[p] = "commit" /\ cursor[p] < Len(staged[p])
    BY <1>n DEF CommitWrite, CommitFails
  <1>. DEFINE f == staged[p][cursor[p] + 1]
  <1>2. /\ StagedBytes(p, cursor[p] + 1) = {f}
        /\ at <= Len(file) => file[at] = f \/ (file[at] = Torn /\ at = Len(file))
        /\ \A i \in 1..at - 1 : i <= Len(file) /\ file[i] \in Frame
        /\ f \in Frame
        /\ at \in Nat /\ at >= 1 /\ at <= Len(file) + 1 /\ at <= walSize[p] + Len(staged[p])
        /\ at <= MaxWal /\ hdr = "ok"
    BY <1>1, CommitTarget
  <1>. HIDE DEF f
  <1>3. \/ UNCHANGED wal
        \/ WriteSlot(at, f)
        \/ CommitFails(p) /\ WriteSlot(at, Torn) /\ ~(at <= Len(file) /\ file[at] = f)
    <2>1. CASE CommitWrite(p)
      <3>1. \E g \in StagedBytes(p, cursor[p] + 1) : WriteSlot(walSize[p] + cursor[p] + 1, g)
        BY <2>1, CommitSlot
      <3>. QED BY <1>2, <3>1
    <2>2. CASE CommitFails(p)
      <3>1. \/ /\ ~(at <= Len(file) /\ file[at] \in StagedBytes(p, cursor[p] + 1))
               /\ WriteSlot(at, Torn)
            \/ UNCHANGED wal
        BY <2>2 DEF CommitFails
      <3>. QED BY <1>2, <2>2, <3>1
    <2>. QED BY <2>1, <2>2
  <1>4. ASSUME NEW x \in Slot, WriteSlot(at, x)
        PROVE  /\ hdr' = hdr /\ file'[at] = x
               /\ \A i \in 1..at - 1 : file'[i] = file[i]
               /\ at <= Len(file) /\ file[at] = x => file' = file
               /\ at <= Len(file) /\ at = Len(file) => at = Len(file')
               /\ ~(at <= Len(file)) => at = Len(file')
    <2>1. /\ hdr' = hdr /\ file'[at] = x
          /\ \A j \in 1..Len(file) : j # at => file'[j] = file[j]
      BY <1>0, <1>2, <1>4, WriteSlotTypes
    <2>2. file' = IF at <= Len(file) THEN [file EXCEPT ![at] = x] ELSE Append(file, x)
      BY <1>4 DEF WriteSlot, PutSlot
    <2>3. \A i \in 1..at - 1 : i \in 1..Len(file) /\ i # at
      BY <1>n, <1>2
    <2>4. at <= Len(file) => Len(file') = Len(file)
      BY <1>n, <1>2, <2>2
    <2>5. ~(at <= Len(file)) => Len(file') = Len(file) + 1
      BY <1>n, <1>2, <2>2
    <2>6. at <= Len(file) /\ file[at] = x => file' = file
      BY <1>n, <1>2, <2>2
    <2>. QED BY <1>n, <1>2, <2>1, <2>3, <2>4, <2>5, <2>6
  <1>5. f \in Slot /\ Torn \in Slot /\ f # Torn
    BY <1>2, ConstantsAssumption DEF Slot
  <1>6. CASE UNCHANGED wal
    <2>1. file' = file /\ hdr' = hdr
      BY <1>6 DEF wal
    <2>. QED BY <1>1, <1>2, <1>6, <2>1
  <1>7. CASE WriteSlot(at, f)
    <2>1. at <= Len(file) => file[at] \in {f, Torn}
      BY <1>2
    <2>2. file' = file \/ (at = Len(file') /\ (at <= Len(file) => file[at] = Torn /\ at = Len(file)))
      BY <1>2, <1>4, <1>5, <1>7
    <2>. QED BY <1>1, <1>2, <1>4, <1>5, <1>7, <2>1, <2>2 DEF f
  <1>8. CASE CommitFails(p) /\ WriteSlot(at, Torn) /\ ~(at <= Len(file) /\ file[at] = f)
    <2>1. at <= Len(file) => file[at] = Torn /\ at = Len(file)
      BY <1>2, <1>8
    <2>. QED BY <1>1, <1>2, <1>4, <1>5, <1>8, <2>1 DEF f
  <1>. QED BY <1>3, <1>6, <1>7, <1>8

LEMMA ImagePowerLoss ==
    ASSUME StructInv, PowerLoss, WrittenBack
    PROVE  ImageHolds'
  <1>n. Len(file) \in Nat /\ Len(disk) \in Nat
    BY Numbers DEF StructInv
  <1>1. PICK n \in Len(disk)..Len(file) \cup Len(file)..Len(disk) :
          /\ hdr' = "none" => n = 0
          /\ \E kept, torn : file' = Survivors(n, kept, torn)
    BY DEF WrittenBack
  <1>2. disk' = file' /\ hdrDisk' = hdr' /\ \A p \in Procs : pc'[p] = "idle"
    BY DEF PowerLoss
  <1>3. n \in Nat /\ Len(file') = n
    BY <1>n, <1>1 DEF Survivors
  <1>4. hdr' = "none" => file' = <<>>
    BY <1>1 DEF Survivors
  <1>. QED BY <1>2, <1>3, <1>4 DEF ImageHolds

LEMMA ImageStep ==
    ASSUME StructInv, ValidInv, MemtableHolds, ImageHolds, TailHolds, ReliableMedium,
           NEW p \in Procs, CallStep(p) \/ ClientStep(p) \/ OpenFails(p) \/ Crash(p)
    PROVE  ImageHolds'
  <1>. USE DEF handle, wal
  <1>0. TypeOK /\ FileInv
    BY DEF StructInv
  <1>1. \A q \in Procs : q # p => pc[q] = "idle" /\ pc'[q] = "idle"
    BY OthersIdle
  <1>2. ASSUME UNCHANGED <<file, disk, hdr, hdrDisk>>, pc'[p] # "header" PROVE ImageHolds'
    <2>1. UNCHANGED <<file, disk, hdr, hdrDisk>>
      BY <1>2
    <2>2. \A q \in Procs : pc'[q] # "header"
      BY <1>1, <1>2
    <2>. QED BY <2>1, <2>2 DEF ImageHolds
  <1>3. ASSUME SyncOk \/ SyncFails, pc'[p] # "header" PROVE ImageHolds'
    BY <1>1, <1>3, ImageSync
  <1>4. CASE \/ OpenCorrupt(p) \/ ReadHeader(p) \/ ReplayFrame(p) \/ VerifyCheckpoint(p)
             \/ CommitPublish(p) \/ CheckpointRename(p) \/ CheckpointDirSync(p)
             \/ OpenLock(p) \/ (\E k \in Keys, v \in Vals : StorePut(p, k, v))
             \/ (\E k \in Keys : StoreDel(p, k)) \/ CommitBegin(p) \/ OpenFails(p) \/ Crash(p)
    <2>1. UNCHANGED <<file, disk, hdr, hdrDisk>>
      BY <1>4 DEF OpenCorrupt, ReadHeader, ReplayFrame, VerifyCheckpoint, CommitPublish,
             CheckpointRename, CheckpointDirSync, OpenLock, StorePut, StoreDel, Stage, CommitBegin,
             OpenFails, Crash
    <2>2. pc'[p] # "header"
      BY <1>0, <1>4 DEF OpenCorrupt, ReadHeader, ReplayFrame, VerifyCheckpoint, CommitPublish,
             CheckpointRename, CheckpointDirSync, OpenLock, StorePut, StoreDel, Stage, CommitBegin,
             OpenFails, Crash, DropHandle, Goto, TypeOK
    <2>. QED BY <1>2, <2>1, <2>2
  <1>5. CASE \/ SyncHeader(p) \/ ReplayDone(p) \/ CommitSync(p) \/ CheckpointSync(p) \/ StoreClose(p)
    <2>1. SyncOk \/ SyncFails
      BY <1>5 DEF SyncHeader, ReplayDone, CommitSync, CheckpointSync, StoreClose
    <2>2. pc'[p] # "header"
      BY <1>0, <1>5 DEF SyncHeader, ReplayDone, CommitSync, CheckpointSync, StoreClose, DropHandle,
             Goto, TypeOK
    <2>. QED BY <1>3, <2>1, <2>2
  <1>6. CASE WriteHeader(p) \/ WriteHeaderShort(p)
    <2>1. /\ hdr = "none" /\ hdr' \in {"ok", "partial"} /\ UNCHANGED <<file, disk, hdrDisk>>
      BY <1>6 DEF WriteHeader, WriteHeaderShort
    <2>2. file = <<>> /\ hdrDisk # "ok"
      BY <2>1 DEF ImageHolds
    <2>. QED BY <2>1, <2>2 DEF ImageHolds
  <1>7. CASE ReplayTruncate(p)
    BY <1>7, ImageCut
  <1>8. CASE CommitWrite(p) \/ CommitFails(p)
    <2>1. pc'[p] # "header"
      BY <1>8, CommitSlot, CommitFailSlot
    <2>. DEFINE at == walSize[p] + cursor[p] + 1
    <2>. HIDE DEF at
    <2>2. /\ hdr = "ok" /\ at \in Nat /\ at >= 1 /\ at <= Len(file) + 1 /\ at <= MaxWal
          /\ \/ UNCHANGED wal
             \/ \E x \in Slot : WriteSlot(at, x) /\ (at <= Len(file) => file[at] \in {x, Torn})
      BY <1>8, CommitEffect DEF at
    <2>3. ASSUME NEW x \in Slot, WriteSlot(at, x), at <= Len(file) => file[at] \in {x, Torn}
          PROVE  ImageHolds'
      BY <1>1, <2>1, <2>2, <2>3, ImageWrite
    <2>. QED BY <1>2, <2>1, <2>2, <2>3
  <1>. QED BY <1>4, <1>5, <1>6, <1>7, <1>8 DEF CallStep, ClientStep

LEMMA ImageNext ==
    ASSUME StructInv, ValidInv, MemtableHolds, ImageHolds, TailHolds, ReliableMedium, [Next]_vars
    PROVE  ImageHolds'
  <1>1. CASE Flip
    BY <1>1 DEF Flip, ReliableMedium
  <1>2. CASE UNCHANGED vars
    BY <1>2 DEF vars, wal, ImageHolds
  <1>. QED BY <1>1, <1>2, ImageStep, ImagePowerLoss, ReliableLoss DEF Next

-----------------------------------------------------------------------------
\* There is no tail when the log ends with the file.
LEMMA NoTail ==
    ASSUME NEW p \in Procs, walSize'[p] \in Nat, Len(file') = walSize'[p], Len(staged'[p]) \in Nat
    PROVE  TailOf(p)'
  BY DEF TailOf

LEMMA TailOpening ==
    ASSUME StructInv, StructInv', ImageHolds, NEW p \in Procs,
           \/ OpenLock(p) \/ OpenFails(p)
           \/ WriteHeader(p) \/ WriteHeaderShort(p) \/ SyncHeader(p) \/ ReadHeader(p)
           \/ ReplayFrame(p) \/ ReplayTruncate(p) \/ ReplayDone(p)
           \/ VerifyCheckpoint(p),
           pc[p] \in Live \cup {"verify"} => TailOf(p),
           pc'[p] \in Live \cup {"verify"}
    PROVE  TailOf(p)'
  <1>. USE DEF handle, wal
  <1>0. TypeOK /\ CursorInv /\ FileInv /\ TypeOK'
    BY DEF StructInv
  <1>n. /\ Len(staged'[p]) \in Nat /\ Len(file) \in Nat /\ cursor[p] \in Nat /\ walSize[p] \in Nat
    BY <1>0, Numbers DEF TypeOK
  <1>1. SyncHeader(p) \/ ReplayDone(p) \/ VerifyCheckpoint(p)
    BY <1>0 DEF OpenLock, OpenFails, WriteHeader, WriteHeaderShort, ReadHeader, ReplayFrame,
           ReplayTruncate, DropHandle, Goto, TypeOK, Live, Committing, Checkpointing
  <1>2. CASE SyncHeader(p)
    <2>1. pc[p] = "header" /\ walSize'[p] = 0
      BY <1>0, <1>2 DEF SyncHeader, DropHandle, Goto, TypeOK, CursorInv
    <2>2. file' = file
      BY <1>0, <1>2, SyncTypes DEF SyncHeader
    <2>3. file = <<>>
      BY <2>1 DEF ImageHolds
    <2>4. Len(file') = 0
      BY <2>2, <2>3
    <2>. QED BY <1>n, <2>1, <2>4, NoTail
  <1>3. CASE ReplayDone(p)
    <2>1. walSize'[p] = cursor[p] /\ cursor[p] = Len(file)
      BY <1>0, <1>n, <1>3 DEF ReplayDone, TypeOK, CursorInv
    <2>2. file' = file
      BY <1>0, <1>3, SyncTypes DEF ReplayDone
    <2>. QED BY <1>n, <2>1, <2>2, NoTail
  <1>4. CASE VerifyCheckpoint(p)
    <2>1. pc[p] = "verify" /\ file' = file /\ walSize'[p] = walSize[p]
      BY <1>0, <1>4 DEF VerifyCheckpoint, DropHandle, Goto, TypeOK, Live, Committing, Checkpointing
    <2>2. Len(file) = walSize[p]
      BY <2>1 DEF TailOf
    <2>. QED BY <1>n, <2>1, <2>2, NoTail
  <1>. QED BY <1>1, <1>2, <1>3, <1>4

LEMMA TailStage ==
    ASSUME StructInv, NEW p \in Procs, NEW f \in Frame, pc[p] = "open", Stage(p, f), TailOf(p)
    PROVE  TailOf(p)'
  <1>0. TypeOK
    BY DEF StructInv
  <1>n. /\ staged[p] \in Seq(Frame) /\ Len(staged[p]) \in Nat /\ Len(file) \in Nat
        /\ walSize[p] \in Nat
    BY <1>0, Numbers
  <1>1. /\ pc' = pc /\ staged'[p] = Append(staged[p], f)
        /\ freed' = freed /\ walSize' = walSize /\ file' = file
    BY <1>0 DEF Stage, TypeOK, wal
  <1>2. Len(staged'[p]) = Len(staged[p]) + 1 /\ \A i \in 1..Len(staged[p]) : staged'[p][i] = staged[p][i]
    BY <1>n, <1>1, AppendProperties
  <1>3. ASSUME NEW i \in walSize[p] + 1..Len(file)
        PROVE  file[i] = staged'[p][i - walSize[p]] \/ (file[i] = Torn /\ i = Len(file))
    <2>1. i - walSize[p] \in 1..Len(staged[p])
      BY <1>n DEF TailOf
    <2>. QED BY <1>2, <2>1 DEF TailOf
  <1>4. Len(file) <= walSize[p] + (Len(staged[p]) + 1)
    BY <1>n DEF TailOf
  <1>. QED BY <1>1, <1>2, <1>3, <1>4 DEF TailOf

LEMMA TailCommit ==
    ASSUME StructInv, StructInv', ValidInv, MemtableHolds, TailHolds, NEW p \in Procs,
           \/ CommitBegin(p) \/ CommitWrite(p) \/ CommitFails(p)
           \/ CommitPublish(p) \/ CommitSync(p)
    PROVE  TailOf(p)'
  <1>. USE DEF handle, wal
  <1>0. TypeOK /\ CursorInv /\ FileInv /\ TypeOK'
    BY DEF StructInv
  <1>n. /\ walSize[p] \in Nat /\ cursor[p] \in Nat /\ Len(file) \in Nat /\ Len(staged[p]) \in Nat
        /\ freed[p] \in Nat /\ Len(staged'[p]) \in Nat /\ walSize[p] <= Len(file) /\ Len(file') \in Nat
    <2>1. staged'[p] \in Seq(Frame) /\ file' \in Seq(Slot)
      BY <1>0 DEF TypeOK
    <2>2. Len(staged'[p]) \in Nat /\ Len(file') \in Nat
      BY <2>1
    <2>. QED BY <1>0, <2>2, Numbers DEF CursorInv
  <1>t. pc[p] \in {"open", "commit", "sync"} /\ TailOf(p)
    BY DEF CommitBegin, CommitWrite, CommitFails, CommitPublish, CommitSync, TailHolds, Live,
           Committing
  <1>1. CASE CommitBegin(p)
    <2>1. pc'[p] # "verify" /\ UNCHANGED <<staged, freed, walSize, file>>
      BY <1>0, <1>1 DEF CommitBegin, Goto, TypeOK
    <2>. QED BY <1>t, <2>1 DEF TailOf
  <1>2. CASE CommitWrite(p) \/ CommitFails(p)
    <2>. DEFINE at == walSize[p] + cursor[p] + 1
    <2>1. /\ pc[p] = "commit" /\ pc'[p] # "verify" /\ walSize' = walSize /\ freed' = freed
          /\ staged' = staged /\ freed[p] = 0
      <3>1. pc[p] = "commit" /\ pc'[p] # "verify" /\ walSize' = walSize
        BY <1>2, CommitSlot, CommitFailSlot
      <3>2. freed' = freed /\ staged' = staged
        BY <1>2 DEF CommitWrite, CommitFails
      <3>. QED BY <3>1, <3>2 DEF MemtableHolds, MemtableOf
    <2>2. CASE file' = file
      BY <1>t, <2>1, <2>2 DEF TailOf
    <2>3. CASE file' # file
      <3>0. at - walSize[p] = cursor[p] + 1
        BY <1>n
      <3>. HIDE DEF at
      <3>1. /\ at \in Nat /\ at >= 1 /\ at <= Len(file) + 1 /\ at <= walSize[p] + Len(staged[p])
            /\ \A i \in 1..at - 1 : file[i] \in Frame /\ file'[i] = file[i] /\ i <= Len(file)
            /\ file'[at] \in {staged[p][cursor[p] + 1], Torn} /\ at = Len(file')
        BY <1>2, <2>3, CommitEffect DEF at
      <3>2. ASSUME NEW i \in walSize[p] + 1..Len(file')
            PROVE  file'[i] = staged[p][i - walSize[p]] \/ (file'[i] = Torn /\ i = Len(file'))
        <4>1. CASE i = at
          BY <3>0, <3>1, <4>1
        <4>2. CASE i # at
          <5>1. i \in 1..at - 1 /\ i \in walSize[p] + 1..Len(file)
            BY <1>n, <3>1, <4>2
          <5>2. file[i] # Torn
            BY <3>1, <5>1, ConstantsAssumption
          <5>. QED BY <1>t, <3>1, <5>1, <5>2 DEF TailOf
        <4>. QED BY <4>1, <4>2
      <3>. QED BY <2>1, <3>1, <3>2 DEF TailOf
    <2>. QED BY <2>2, <2>3
  <1>3. CASE CommitPublish(p)
    <2>1. /\ pc[p] = "commit" /\ walSize'[p] = walSize[p] + Len(staged[p])
          /\ cursor[p] = Len(staged[p]) /\ file' = file
      BY <1>0, <1>3 DEF CommitPublish, TypeOK
    <2>2. walSize[p] + Len(staged[p]) <= Len(file)
      BY <1>0, <2>1 DEF CursorInv
    <2>3. Len(file) <= walSize[p] + Len(staged[p])
      BY <1>t DEF TailOf
    <2>4. Len(file') = walSize'[p] /\ walSize'[p] \in Nat
      BY <1>n, <2>1, <2>2, <2>3
    <2>. QED BY <1>n, <2>4, NoTail
  <1>4. CASE CommitSync(p)
    <2>1. pc[p] = "sync" /\ walSize' = walSize
      BY <1>4 DEF CommitSync
    <2>2. file' = file
      BY <1>0, <1>4, SyncTypes DEF CommitSync
    <2>3. freed[p] = Len(staged[p])
      BY <2>1 DEF MemtableHolds, MemtableOf
    <2>4. Len(file) = walSize[p]
      BY <1>n, <1>t, <2>3 DEF TailOf
    <2>. QED BY <1>n, <2>1, <2>2, <2>4, NoTail
  <1>. QED BY <1>1, <1>2, <1>3, <1>4

LEMMA TailNext ==
    ASSUME StructInv, StructInv', ValidInv, MemtableHolds, ImageHolds, TailHolds, [Next]_vars
    PROVE  TailHolds'
  <1>. USE DEF handle, wal
  <1>0. TypeOK /\ FileInv /\ LockExclusion
    BY DEF StructInv
  <1>1. ASSUME NEW p \in Procs, CallStep(p) \/ ClientStep(p) \/ OpenFails(p) \/ Crash(p)
        PROVE  TailHolds'
    <2>1. \A q \in Procs : q # p => pc'[q] = "idle"
      BY <1>1, OthersIdle
    <2>t. pc[p] \in Live \cup {"verify"} => TailOf(p)
      BY DEF TailHolds
    <2>2. ASSUME pc'[p] \in Live \cup {"verify"} PROVE TailOf(p)'
      <3>1. CASE \/ OpenLock(p) \/ OpenFails(p)
                 \/ WriteHeader(p) \/ WriteHeaderShort(p) \/ SyncHeader(p) \/ ReadHeader(p)
                 \/ ReplayFrame(p) \/ ReplayTruncate(p) \/ ReplayDone(p)
                 \/ VerifyCheckpoint(p)
        BY <2>t, <2>2, <3>1, TailOpening
      <3>2. CASE \/ CommitBegin(p) \/ CommitWrite(p) \/ CommitFails(p)
                 \/ CommitPublish(p) \/ CommitSync(p)
        BY <3>2, TailCommit
      <3>3. CASE \/ \E k \in Keys, v \in Vals : StorePut(p, k, v)
                 \/ \E k \in Keys : StoreDel(p, k)
        <4>1. PICK f \in Frame : pc[p] = "open" /\ Stage(p, f)
          BY <3>3 DEF StorePut, StoreDel, Frame
        <4>. QED BY <2>t, <4>1, TailStage DEF Live
      <3>4. CASE CheckpointSync(p) \/ CheckpointRename(p) \/ CheckpointDirSync(p)
        <4>1. /\ pc[p] \in {"open", "chkWrite", "chkDir"} /\ pc'[p] # "verify"
              /\ UNCHANGED <<staged, freed, walSize>>
          BY <1>0, <3>4 DEF CheckpointSync, CheckpointRename, CheckpointDirSync, Goto, TypeOK
        <4>2. file' = file
          BY <1>0, <3>4, SyncTypes DEF CheckpointSync, CheckpointRename, CheckpointDirSync
        <4>3. TailOf(p)
          BY <2>t, <4>1 DEF Live, Checkpointing
        <4>. QED BY <4>1, <4>2, <4>3 DEF TailOf
      <3>5. CASE OpenCorrupt(p) \/ StoreClose(p) \/ Crash(p)
        BY <1>0, <2>2, <3>5 DEF OpenCorrupt, StoreClose, Crash, DropHandle, Goto, TypeOK, Live,
               Committing, Checkpointing
      <3>. QED BY <1>1, <3>1, <3>2, <3>3, <3>4, <3>5 DEF CallStep, ClientStep
    <2>. QED BY <2>1, <2>2 DEF TailHolds, Live, Committing, Checkpointing
  <1>2. CASE PowerLoss
    <2>1. \A q \in Procs : pc'[q] = "idle"
      BY <1>2 DEF PowerLoss
    <2>. QED BY <2>1 DEF TailHolds, Live, Committing, Checkpointing
  <1>3. CASE Flip
    <2>1. \A q \in Procs : pc'[q] = "idle"
      BY <1>0, <1>3, ConstantsAssumption DEF Flip, LockExclusion
    <2>. QED BY <2>1 DEF TailHolds, Live, Committing, Checkpointing
  <1>4. CASE UNCHANGED vars
    BY <1>4 DEF vars, TailHolds, TailOf
  <1>. QED BY <1>1, <1>2, <1>3, <1>4 DEF Next

LEMMA RefinementInit == Init => ImageHolds /\ TailHolds
  BY DEF Init, ImageHolds, TailHolds, Live, Committing, Checkpointing

LEMMA RefinementNext ==
    StructInv /\ StructInv' /\ ValidInv /\ MemtableInv /\ RefinementInv /\ [Next]_vars
        => RefinementInv'
  BY ImageNext, TailNext DEF MemtableInv, RefinementInv

LEMMA InductiveInit == Init => Inductive
  <1>1. Init => CheckpointInv
    BY DEF Init, CheckpointInv, CheckpointHolds
  <1>. QED BY <1>1, StructInit, DurableInit, MemtableInit, RefinementInit
          DEF Inductive, MemtableInv, RefinementInv

LEMMA InductiveNext == Inductive /\ [Next]_vars => Inductive'
  BY StructNext, ValidNext, DurableNext, MemtableInvNext, CheckpointNext, RefinementNext DEF Inductive

\* The invariant the properties of the store rest on is one: it holds at first and
\* every step keeps it, whatever the clients, the faults and the bounds.
THEOREM InductiveHolds == Spec => []Inductive
  BY InductiveInit, InductiveNext, PTL DEF Spec

-----------------------------------------------------------------------------
(***************************************************************************)
(* The log a reopening would replay                                        *)
(***************************************************************************)

\* A set of naturals that is not empty has a least element: what stands in for
\* induction below.
LEMMA LeastNatural ==
    ASSUME NEW S \in SUBSET Nat, S # {}
    PROVE  \E i \in S : \A j \in S : i <= j
  <1>. DEFINE R == OpToRel(<, Nat)
  <1>1. IsWellFoundedOn(R, Nat)
    BY NatLessThanWellFounded
  <1>2. PICK i \in S : \A j \in S : ~(<<j, i>> \in R)
    BY <1>1, WFMin
  <1>3. \A j \in S : ~(j < i)
    BY <1>2 DEF OpToRel
  <1>. QED BY <1>3

\* A replay of the file stops after n slots.
StopsAt(n) ==
    /\ hdr = "ok" /\ n \in 0..Len(file) /\ Valid(n)
    /\ n < Len(file) => file[n + 1] = Torn

ReplayFacts ==
    /\ hdr # "ok" => Recoverable = <<>>
    /\ hdr = "ok" => \E n \in Nat : StopsAt(n)
    /\ \A n \in Nat : StopsAt(n) => Recoverable = SubSeq(file, 1, n) /\ Len(Recoverable) = n

LEMMA ReplayStops == StructInv => ReplayFacts
  <1>. SUFFICES ASSUME StructInv PROVE ReplayFacts
    OBVIOUS
  <1>0. file \in Seq(Slot) /\ Len(file) \in Nat
    BY DEF StructInv, TypeOK
  <1>1. hdr # "ok" => Recoverable = <<>>
    BY DEF Recoverable
  <1>2. ASSUME hdr = "ok" PROVE \E n \in Nat : StopsAt(n)
    <2>. DEFINE Stops == {n \in 0..Len(file) : n < Len(file) => file[n + 1] = Torn}
    <2>1. Len(file) \in Stops /\ Stops \in SUBSET Nat
      BY <1>0
    <2>2. PICK n \in Stops : \A m \in Stops : n <= m
      BY <2>1, LeastNatural
    <2>3. ASSUME NEW i \in 1..n PROVE file[i] # Torn
      <3>1. i - 1 \in 0..Len(file) /\ i - 1 < n /\ i - 1 < Len(file) /\ (i - 1) + 1 = i
        BY <1>0
      <3>2. i - 1 \notin Stops
        BY <1>0, <2>2, <3>1
      <3>. QED BY <3>1, <3>2
    <2>. QED BY <1>2, <2>3 DEF StopsAt, Valid
  <1>3. ASSUME NEW n \in Nat, StopsAt(n)
        PROVE  Recoverable = SubSeq(file, 1, n) /\ Len(Recoverable) = n
    <2>. DEFINE Longest(k) == Valid(k) /\ \A m \in 0..Len(file) : Valid(m) => m <= k
    <2>1. n \in 0..Len(file) /\ Valid(n) /\ hdr = "ok" /\ (n < Len(file) => file[n + 1] = Torn)
      BY <1>3 DEF StopsAt
    <2>2. ASSUME NEW m \in 0..Len(file), Valid(m) PROVE m <= n
      <3>1. SUFFICES ASSUME ~(m <= n) PROVE FALSE
        OBVIOUS
      <3>2. n + 1 \in 1..m /\ n < Len(file)
        BY <1>0, <2>1, <3>1
      <3>. QED BY <2>1, <2>2, <3>2 DEF Valid
    <2>3. n \in 0..Len(file) /\ Longest(n)
      BY <2>1, <2>2
    <2>4. ASSUME NEW k \in 0..Len(file), Longest(k) PROVE k = n
      BY <1>0, <2>3, <2>4
    <2>. HIDE DEF Longest
    <2>5. (CHOOSE k \in 0..Len(file) : Longest(k)) = n
      BY <2>3, <2>4
    <2>6. Recoverable = SubSeq(file, 1, n)
      BY <2>1, <2>5 DEF Recoverable, Longest
    <2>7. Len(SubSeq(file, 1, n)) = n
      BY <1>0, <2>1
    <2>. QED BY <2>6, <2>7
  <1>. QED BY <1>1, <1>2, <1>3 DEF ReplayFacts

LEMMA ReplayStopsNext == (StructInv => ReplayFacts)'
  BY ReplayStops, PTL

\* Two files that a replay reads alike.
LEMMA SameReplay ==
    ASSUME StructInv, StructInv', NEW n \in Nat, StopsAt(n), StopsAt(n)',
           \A i \in 1..n : file'[i] = file[i]
    PROVE  Recoverable' = Recoverable
  <1>1. file \in Seq(Slot) /\ file' \in Seq(Slot) /\ n <= Len(file) /\ n <= Len(file')
    BY DEF StructInv, TypeOK, StopsAt
  <1>2. SubSeq(file', 1, n) = SubSeq(file, 1, n)
    BY <1>1, SamePrefix
  <1>3. Recoverable = SubSeq(file, 1, n)
    BY ReplayStops DEF ReplayFacts
  <1>4. Recoverable' = SubSeq(file', 1, n)
    BY ReplayStopsNext DEF ReplayFacts
  <1>. QED BY <1>2, <1>3, <1>4

(***************************************************************************)
(* The steps of the abstract log                                           *)
(***************************************************************************)

\* A frame written by a commit is one frame more; one written again, or torn, is
\* none.
LEMMA WriteRefines ==
    ASSUME StructInv, StructInv', ValidInv, MemtableHolds, TailHolds, NEW p \in Procs,
           CommitWrite(p) \/ CommitFails(p)
    PROVE  Recoverable' = Recoverable \/ \E f \in Frame : Recoverable' = Append(Recoverable, f)
  <1>a. PICK at : at = walSize[p] + cursor[p] + 1
    OBVIOUS
  <1>0. /\ hdr = "ok" /\ hdr' = hdr
        /\ at \in Nat /\ at >= 1 /\ at <= Len(file) + 1
        /\ \A i \in 1..at - 1 : i <= Len(file) /\ file[i] \in Frame /\ file'[i] = file[i]
        /\ \/ file' = file
           \/ /\ at = Len(file') /\ (at <= Len(file) => file[at] = Torn)
              /\ file'[at] \in {staged[p][cursor[p] + 1], Torn}
    BY <1>a, CommitEffect DEF wal
  <1>n. Len(file) \in Nat /\ Len(file') \in Nat /\ file \in Seq(Slot) /\ file' \in Seq(Slot)
    <2>1. file \in Seq(Slot) /\ file' \in Seq(Slot)
      BY DEF StructInv, TypeOK
    <2>. QED BY <2>1
  <1>1. CASE file' = file
    BY <1>0, <1>1 DEF Recoverable, Valid
  <1>2. CASE file' # file
    <2>a. PICK n : n = at - 1
      OBVIOUS
    <2>1. n \in Nat /\ n + 1 = at /\ n <= Len(file) /\ n < Len(file')
      BY <1>0, <1>n, <1>2, <2>a
    <2>2. \A i \in 1..n : file[i] \in Frame /\ file'[i] = file[i]
      BY <1>0, <2>a
    <2>3. n < Len(file) => file[n + 1] = Torn
      BY <1>0, <1>n, <1>2, <2>1
    <2>4. StopsAt(n)
      BY <1>0, <1>n, <2>1, <2>2, <2>3, ConstantsAssumption DEF StopsAt, Valid
    <2>5. CASE file'[at] = Torn
      <3>1. StopsAt(n)'
        BY <1>0, <1>n, <2>1, <2>2, <2>5, ConstantsAssumption DEF StopsAt, Valid
      <3>. QED BY <2>1, <2>2, <2>4, <3>1, SameReplay
    <2>6. CASE file'[at] # Torn
      <3>1. file'[at] \in Slot
        BY <1>n, <2>1
      <3>2. file'[at] \in Frame
        BY <2>6, <3>1 DEF Slot
      <3>3. \A i \in 1..at : i = at \/ i \in 1..n
        BY <2>1
      <3>4. \A i \in 1..at : file'[i] \in Frame
        BY <2>2, <3>2, <3>3
      <3>5. StopsAt(at)'
        BY <1>0, <1>n, <1>2, <3>4, ConstantsAssumption DEF StopsAt, Valid
      <3>6. Recoverable' = SubSeq(file', 1, at)
        BY <1>0, <3>5, ReplayStopsNext DEF ReplayFacts
      <3>7. SubSeq(file', 1, n + 1) = Append(SubSeq(file', 1, n), file'[n + 1])
        BY <1>n, <2>1, SubSeqGrows
      <3>8. SubSeq(file', 1, n) = SubSeq(file, 1, n)
        BY <1>n, <2>1, <2>2, SamePrefix
      <3>9. Recoverable = SubSeq(file, 1, n)
        BY <2>1, <2>4, ReplayStops DEF ReplayFacts
      <3>. QED BY <2>1, <3>2, <3>6, <3>7, <3>8, <3>9
    <2>. QED BY <2>5, <2>6
  <1>. QED BY <1>1, <1>2

\* What a commit answers for is what a replay would find.
LEMMA AcknowledgeRefines ==
    ASSUME StructInv, ValidInv, MemtableHolds, TailHolds, NEW p \in Procs, pc[p] = "sync"
    PROVE  Log(p) = Recoverable
  <1>0. TypeOK /\ CursorInv
    BY DEF StructInv
  <1>n. Len(file) \in Nat /\ walSize[p] \in Nat /\ Len(staged[p]) \in Nat /\ walSize[p] <= Len(file)
    BY <1>0, Numbers DEF CursorInv
  <1>1. hdr = "ok" /\ \A i \in 1..walSize[p] : file[i] \in Frame
    BY DEF ValidInv, Relied
  <1>2. freed[p] = Len(staged[p]) /\ TailOf(p)
    BY DEF MemtableHolds, MemtableOf, TailHolds, Live, Committing
  <1>3. Len(file) = walSize[p]
    BY <1>n, <1>2 DEF TailOf
  <1>4. StopsAt(walSize[p])
    BY <1>n, <1>1, <1>3, ConstantsAssumption DEF StopsAt, Valid
  <1>. QED BY <1>n, <1>4, ReplayStops DEF ReplayFacts, Log

\* A replay that cuts the tail cuts nothing it would have replayed.
LEMMA CutRefines ==
    ASSUME StructInv, StructInv', ValidInv, ReliableMedium, NEW p \in Procs, ReplayTruncate(p)
    PROVE  Recoverable' = Recoverable
  <1>0. TypeOK
    BY DEF StructInv
  <1>1. /\ pc[p] = "replay" /\ cursor[p] < Len(file) /\ file[cursor[p] + 1] = Torn
        /\ file' = SubSeq(file, 1, cursor[p]) /\ hdr' = hdr
    BY ReliableCut DEF ReplayTruncate, Truncate
  <1>a. PICK n : n = cursor[p]
    OBVIOUS
  <1>n. Len(file) \in Nat /\ n \in Nat /\ file \in Seq(Slot)
    BY <1>0, <1>a, Numbers DEF TypeOK
  <1>2. hdr = "ok" /\ \A i \in 1..n : file[i] \in Frame
    BY <1>1, <1>a DEF ValidInv, Relied
  <1>3. Len(file') = n /\ \A i \in 1..n : file'[i] = file[i]
    BY <1>n, <1>1, <1>a
  <1>4. n < Len(file) /\ file[n + 1] = Torn
    BY <1>1, <1>a
  <1>5. StopsAt(n)
    BY <1>n, <1>2, <1>4, ConstantsAssumption DEF StopsAt, Valid
  <1>6. StopsAt(n)'
    <2>0. hdr' = "ok"
      BY <1>1, <1>2
    <2>1. hdr' = "ok" /\ n \in 0..Len(file') /\ ~(n < Len(file'))
      BY <1>n, <1>3, <2>0
    <2>2. \A i \in 1..n : file'[i] # Torn
      BY <1>2, <1>3, ConstantsAssumption
    <2>. QED BY <2>1, <2>2 DEF StopsAt, Valid
  <1>. QED BY <1>n, <1>3, <1>5, <1>6, SameReplay

\* What verifies after a power loss was there before.
LEMMA LossKeeps ==
    ASSUME StructInv, StructInv', ImageHolds, WrittenBack, NEW m \in Nat, m <= Len(file'),
           \A i \in 1..m : file'[i] # Torn
    PROVE  m <= Len(file) /\ \A i \in 1..m : file'[i] = file[i]
  <1>0. TypeOK /\ FileInv /\ Len(file) \in Nat /\ Len(disk) \in Nat
    BY Numbers DEF StructInv
  <1>1. PICK n \in Len(disk)..Len(file) \cup Len(file)..Len(disk), kept \in SUBSET (dirty \ {0}) :
          \E torn \in SUBSET kept : file' = Survivors(n, kept, torn)
    BY DEF WrittenBack
  <1>2. PICK torn \in SUBSET kept : file' = Survivors(n, kept, torn)
    BY <1>1
  <1>3. n \in Nat /\ Len(file') = n
    BY <1>0, <1>2 DEF Survivors
  <1>4. ASSUME NEW i \in 1..n
        PROVE  file'[i] = CASE i \in kept \ torn -> file[i]
                            [] i \notin kept /\ i <= Len(disk) -> disk[i]
                            [] OTHER -> Torn
    BY <1>2 DEF Survivors
  <1>5. m <= Len(file)
    <2>1. SUFFICES ASSUME ~(m <= Len(file)) PROVE FALSE
      OBVIOUS
    <2>. DEFINE i == Len(file) + 1
    <2>2. i \in 1..m /\ i \in 1..n /\ ~(i <= Len(file))
      BY <1>0, <1>3, <2>1
    <2>3. i \notin kept
      BY <1>0, <2>2 DEF FileInv
    <2>4. i <= Len(disk) => disk[i] = Torn
      BY <1>0 DEF ImageHolds
    <2>. HIDE DEF i
    <2>. QED BY <1>4, <2>2, <2>3, <2>4
  <1>6. ASSUME NEW i \in 1..m PROVE file'[i] = file[i]
    <2>1. i \in 1..n /\ i <= Len(file) /\ file'[i] # Torn
      BY <1>0, <1>3, <1>5
    <2>2. i <= Len(disk) => disk[i] \in {file[i], Torn}
      BY <1>0, <2>1 DEF ImageHolds
    <2>. QED BY <1>4, <2>1, <2>2
  <1>. QED BY <1>5, <1>6

\* A power loss cuts the log, and not below what has been acknowledged.
LEMMA LossRefines ==
    ASSUME StructInv, StructInv', SyncedInv, AckedInv, AckedInv', ImageHolds, PowerLoss, WrittenBack
    PROVE  \E n \in Len(acked)..Len(Recoverable) : Recoverable' = SubSeq(Recoverable, 1, n)
  <1>0. TypeOK /\ FileInv
    BY DEF StructInv
  <1>n. /\ Len(acked) \in Nat /\ Len(file) \in Nat /\ Len(disk) \in Nat
        /\ file \in Seq(Slot) /\ file' \in Seq(Slot) /\ Len(file') \in Nat /\ acked' = acked
    BY Numbers DEF StructInv, TypeOK, PowerLoss
  <1>1. hdr' \in {hdr, hdrDisk, "partial"} /\ (0 \notin dirty => hdr' = hdrDisk)
    BY DEF WrittenBack
  <1>2. CASE hdr' # "ok"
    <2>1. acked = <<>>
      BY <1>1, <1>2 DEF AckedInv, SyncedInv
    <2>2. Recoverable' = <<>>
      BY <1>2, ReplayStopsNext DEF ReplayFacts
    <2>3. Len(Recoverable) \in Nat
      <3>1. CASE hdr = "ok"
        BY <3>1, ReplayStops DEF ReplayFacts
      <3>2. CASE hdr # "ok"
        <4>1. Recoverable = <<>>
          BY <3>2, ReplayStops DEF ReplayFacts
        <4>. QED BY <4>1
      <3>. QED BY <3>1, <3>2
    <2>4. Len(acked) = 0 /\ 0 \in 0..Len(Recoverable)
      BY <2>1, <2>3
    <2>5. SubSeq(Recoverable, 1, 0) = <<>>
      BY SubSeqEmpty
    <2>. QED BY <2>2, <2>4, <2>5
  <1>3. CASE hdr' = "ok"
    <2>1. hdr = "ok"
      BY <1>1, <1>3 DEF ImageHolds
    <2>2. PICK k \in Nat : StopsAt(k)
      BY <2>1, ReplayStops DEF ReplayFacts
    <2>3. PICK m \in Nat : StopsAt(m)'
      BY <1>3, ReplayStopsNext DEF ReplayFacts
    <2>4. k <= Len(file) /\ (\A i \in 1..k : file[i] # Torn) /\ (k < Len(file) => file[k + 1] = Torn)
      BY <2>2 DEF StopsAt, Valid
    <2>5. /\ m <= Len(file') /\ (\A i \in 1..m : file'[i] # Torn)
          /\ (m < Len(file') => file'[m + 1] = Torn)
      BY <2>3 DEF StopsAt, Valid
    <2>6. m <= Len(file)
      BY <2>5, LossKeeps
    <2>7. \A i \in 1..m : file'[i] = file[i]
      BY <2>5, LossKeeps
    <2>8. m <= k
      <3>1. SUFFICES ASSUME ~(m <= k) PROVE FALSE
        OBVIOUS
      <3>2. k + 1 \in 1..m /\ k < Len(file)
        BY <1>n, <2>6, <3>1
      <3>. QED BY <2>4, <2>5, <2>7, <3>2
    <2>9. Len(acked) <= m
      <3>1. SUFFICES ASSUME ~(Len(acked) <= m) PROVE FALSE
        OBVIOUS
      <3>2. Len(acked) <= Len(file') /\ \A i \in 1..Len(acked) : file'[i] \in Frame
        BY <1>n DEF AckedInv
      <3>3. m + 1 \in 1..Len(acked) /\ m < Len(file')
        BY <1>n, <3>1, <3>2
      <3>. QED BY <2>5, <3>2, <3>3, ConstantsAssumption
    <2>10. Recoverable = SubSeq(file, 1, k) /\ Len(Recoverable) = k
      BY <2>2, ReplayStops DEF ReplayFacts
    <2>11. Recoverable' = SubSeq(file', 1, m)
      BY <2>3, ReplayStopsNext DEF ReplayFacts
    <2>12. SubSeq(file', 1, m) = SubSeq(file, 1, m)
      BY <1>n, <2>5, <2>6, <2>7, SamePrefix
    <2>13. SubSeq(SubSeq(file, 1, k), 1, m) = SubSeq(file, 1, m)
      BY <1>n, <2>4, <2>8, PrefixOfPrefix
    <2>14. m \in Len(acked)..Len(Recoverable)
      BY <1>n, <2>8, <2>9, <2>10
    <2>. QED BY <2>10, <2>11, <2>12, <2>13, <2>14
  <1>. QED BY <1>2, <1>3

\* Every step of the store is one of the log or changes nothing there.
LEMMA StepRefines ==
    ASSUME Inductive, Inductive', [Next]_vars, ReliableMedium, "retrySync" \notin Client
    PROVE  [Abstract!Next]_<<Recoverable, acked>>
  <1>. USE DEF handle, wal
  <1>0. /\ StructInv /\ StructInv' /\ ValidInv /\ SyncedInv /\ AckedInv /\ AckedInv'
        /\ MemtableHolds /\ ImageHolds /\ TailHolds
    BY DEF Inductive, DurableInv, MemtableInv, RefinementInv
  <1>t. TypeOK /\ FileInv
    BY <1>0 DEF StructInv
  <1>1. ASSUME Recoverable' = Recoverable, acked' = acked
        PROVE  [Abstract!Next]_<<Recoverable, acked>>
    BY <1>1
  <1>2. ASSUME file' = file, hdr' = hdr PROVE Recoverable' = Recoverable
    BY <1>2 DEF Recoverable, Valid
  <1>3. ASSUME NEW p \in Procs, CallStep(p) PROVE [Abstract!Next]_<<Recoverable, acked>>
    <2>1. CASE \/ OpenCorrupt(p) \/ ReadHeader(p) \/ ReplayFrame(p) \/ VerifyCheckpoint(p)
               \/ CommitPublish(p) \/ CheckpointRename(p) \/ CheckpointDirSync(p)
      <3>1. UNCHANGED <<file, hdr>> /\ acked' = acked
        BY <2>1 DEF OpenCorrupt, ReadHeader, ReplayFrame, VerifyCheckpoint, CommitPublish,
               CheckpointRename, CheckpointDirSync
      <3>. QED BY <1>1, <1>2, <3>1
    <2>2. CASE SyncHeader(p) \/ ReplayDone(p)
      <3>1. file' = file /\ hdr' = hdr /\ acked' = acked
        BY <1>t, <2>2, SyncTypes DEF SyncHeader, ReplayDone
      <3>. QED BY <1>1, <1>2, <3>1
    <2>3. CASE WriteHeader(p) \/ WriteHeaderShort(p)
      <3>1. hdr = "none" /\ hdr' \in {"ok", "partial"} /\ file' = file /\ acked' = acked
        BY <2>3 DEF WriteHeader, WriteHeaderShort
      <3>2. Recoverable = <<>> /\ Len(file) = 0
        BY <1>0, <3>1 DEF Recoverable, ImageHolds
      <3>3. Recoverable' = <<>>
        <4>1. CASE hdr' = "ok"
          <5>1. StopsAt(0)'
            BY <3>1, <3>2, <4>1 DEF StopsAt, Valid
          <5>2. Recoverable' = SubSeq(file', 1, 0)
            BY <1>0, <5>1, ReplayStopsNext DEF ReplayFacts
          <5>. QED BY <5>2, SubSeqEmpty
        <4>2. CASE hdr' # "ok"
          BY <4>2 DEF Recoverable
        <4>. QED BY <4>1, <4>2
      <3>. QED BY <1>1, <3>1, <3>2, <3>3
    <2>4. CASE ReplayTruncate(p)
      <3>1. acked' = acked
        BY <2>4 DEF ReplayTruncate
      <3>. QED BY <1>0, <1>1, <2>4, <3>1, CutRefines
    <2>5. CASE CommitWrite(p) \/ CommitFails(p)
      <3>1. acked' = acked
        BY <2>5 DEF CommitWrite, CommitFails
      <3>2. Recoverable' = Recoverable \/ \E f \in Frame : Recoverable' = Append(Recoverable, f)
        BY <1>0, <2>5, WriteRefines
      <3>. QED BY <1>1, <3>1, <3>2 DEF Abstract!Next, Abstract!Write
    <2>6. CASE CommitSync(p)
      <3>1. file' = file /\ hdr' = hdr /\ pc[p] = "sync" /\ acked' \in {acked, Log(p)}
        BY <1>t, <2>6, SyncTypes DEF CommitSync
      <3>2. Log(p) = Recoverable
        BY <1>0, <3>1, AcknowledgeRefines
      <3>3. Recoverable' = Recoverable
        BY <1>2, <3>1
      <3>. QED BY <1>1, <3>1, <3>2, <3>3 DEF Abstract!Next, Abstract!Acknowledge
    <2>. QED BY <1>3, <2>1, <2>2, <2>3, <2>4, <2>5, <2>6 DEF CallStep
  <1>4. ASSUME NEW p \in Procs, ClientStep(p) \/ OpenFails(p) \/ Crash(p)
        PROVE  [Abstract!Next]_<<Recoverable, acked>>
    <2>1. acked' = acked
      BY <1>4 DEF ClientStep, OpenLock, StorePut, StoreDel, Stage, CommitBegin, CheckpointSync,
             StoreClose, OpenFails, Crash
    <2>2. UNCHANGED wal \/ SyncOk \/ SyncFails
      BY <1>4 DEF ClientStep, OpenLock, StorePut, StoreDel, Stage, CommitBegin, CheckpointSync,
             StoreClose, OpenFails, Crash
    <2>3. file' = file /\ hdr' = hdr
      BY <1>t, <2>2, SyncTypes
    <2>. QED BY <1>1, <1>2, <2>1, <2>3
  <1>5. CASE PowerLoss
    <2>1. acked' = acked
      BY <1>5 DEF PowerLoss
    <2>2. \E n \in Len(acked)..Len(Recoverable) : Recoverable' = SubSeq(Recoverable, 1, n)
      BY <1>0, <1>5, LossRefines, ReliableLoss
    <2>. QED BY <2>1, <2>2 DEF Abstract!Next, Abstract!Fail
  <1>6. CASE Flip
    BY <1>6 DEF Flip, ReliableMedium
  <1>7. CASE UNCHANGED vars
    <2>1. file' = file /\ hdr' = hdr /\ acked' = acked
      BY <1>7 DEF vars
    <2>. QED BY <1>1, <1>2, <2>1
  <1>. QED BY <1>3, <1>4, <1>5, <1>6, <1>7 DEF Next

\* The store is the log it promises, for every number of processes, keys and
\* slots: on a reliable medium, and as long as no client commits again after a
\* failed fsync, its steps are writes of one frame, acknowledgements of the whole
\* log, and failures that cut only what was never acknowledged.
THEOREM StoreImplementsLog ==
    ASSUME ReliableMedium, "retrySync" \notin Client
    PROVE  Spec => ImplementsDurableLog
  <1>1. Init => Abstract!Init
    BY DEF Init, Abstract!Init, Recoverable
  <1>2. Inductive /\ Inductive' /\ [Next]_vars => [Abstract!Next]_<<Recoverable, acked>>
    BY StepRefines
  <1>3. Spec => []Inductive
    BY InductiveHolds
  <1>. QED BY <1>1, <1>2, <1>3, PTL DEF Spec, ImplementsDurableLog, Abstract!Spec
=============================================================================
