-------------------------- MODULE SettlementProofs --------------------------
(***************************************************************************)
(* Proofs about the settlement host over the store, for every batch, every *)
(* set of engines and every number of hosts that start, fail, die and are  *)
(* started again.  A step of the host is a step of the store or none, so   *)
(* that the invariant of the store carries over; what the host adds is     *)
(* where it is, what it has queued, and what it has already committed.     *)
(***************************************************************************)
EXTENDS Settlement, StoreProofs

Places == {"off", "opening", "swap", "put", "staged", "commit", "checkpoint", "receipt", "print",
           "done", "fail"}

HostTypes ==
    /\ at \in [Procs -> Places]
    /\ t \in [Procs -> Nat]
    /\ img \in [Procs -> Images \cup {<<>>}]

\* Where the store is when the host is there.
PcOf(place) ==
    CASE place = "off" -> {"idle"}
      [] place = "opening" -> Opening
      [] place = "commit" -> Committing
      [] place = "checkpoint" -> Checkpointing
      [] OTHER -> {"open"}

\* A commit whose buffers are freed is under way or has failed, and a host that
\* saw it fail goes nowhere but to its end.
PlaceOf(p) ==
    /\ pc[p] \in PcOf(at[p])
    /\ at[p] \in {"off", "opening"} => t[p] = 0
    /\ at[p] # "off" => img[p] \in Images
    /\ t[p] <= Len(Swaps)
    /\ at[p] \in {"swap", "checkpoint", "receipt", "print", "done"} => staged[p] = <<>>
    /\ at[p] \in {"checkpoint", "receipt", "print"} => t[p] = Len(Swaps)
    /\ freed[p] = 0 \/ (freed[p] = Len(staged[p]) /\ at[p] \in {"commit", "fail"})

\* What is staged is the beginning of the three PUTs of the next swap.
QueueOf(p) ==
    /\ at[p] = "put" => Len(staged[p]) < 3
    /\ at[p] \in {"staged", "commit"} => Len(staged[p]) = 3
    /\ at[p] \in {"put", "staged", "commit"} \/ staged[p] # <<>> =>
         /\ t[p] < Len(Swaps) /\ Settles(img[p], t[p] + 1) /\ Len(staged[p]) <= 3
         /\ \A i \in 1..Len(staged[p]) : staged[p][i] = Puts(t[p] + 1, img[p][t[p] + 1])[i]

\* How many swaps of this run the log of the handle has, whole.
Settled(p) == IF freed[p] > 0 THEN t[p] + 1 ELSE t[p]

\* The log of the handle ends with the first d swaps of this run.
RunTail(p, d) ==
    /\ 3 * d <= walSize[p]
    /\ \A n \in 1..d, i \in 1..3 :
          file[walSize[p] - 3 * d + 3 * (n - 1) + i] = Puts(n, img[p][n])[i]

RunOf(p) == PlaceOf(p) /\ QueueOf(p) /\ RunTail(p, Settled(p))

RunInv == HostTypes /\ \A p \in Procs : RunOf(p)

\* The steps of one process.
ProcStep(p) ==
    \/ HostStart(p) \/ InCall(p) \/ SettleSwap(p) \/ Put(p) \/ Commit(p)
    \/ CheckpointBatch(p) \/ OpenReceipt(p) \/ PrintReceipt(p) \/ HostClose(p)
    \/ HostCrash(p)

-----------------------------------------------------------------------------
(***************************************************************************)
(* The PUTs of a swap                                                      *)
(***************************************************************************)
LEMMA PutsParts ==
    ASSUME NEW n, NEW out
    PROVE  /\ Puts(n, out)[1] = [key |-> <<"acc", Swaps[n].user>>, val |-> [out |-> out]]
           /\ Puts(n, out)[2] = [key |-> <<"pool", "amm">>, val |-> PoolValue(n)]
           /\ Puts(n, out)[3] = [key |-> <<"tx", n>>, val |-> [out |-> out, status |-> Status(out)]]
  BY DEF Puts

LEMMA PutsAreFrames ==
    ASSUME NEW image \in Images, NEW n \in DOMAIN Swaps, Settles(image, n), NEW i \in 1..3
    PROVE  /\ Puts(n, image[n])[i].key \in Keys /\ Puts(n, image[n])[i].val \in Vals
           /\ [key |-> Puts(n, image[n])[i].key, val |-> Puts(n, image[n])[i].val]
                = Puts(n, image[n])[i]
           /\ Puts(n, image[n])[i] \in Frame
  <1>. DEFINE f == Puts(n, image[n])[i]
  <1>1. f.val \in Vals
    BY HostAssumption
  <1>2. f.key \in Keys /\ f = [key |-> f.key, val |-> f.val]
    <2>1. \/ f = [key |-> <<"acc", Swaps[n].user>>, val |-> [out |-> image[n]]]
          \/ f = [key |-> <<"pool", "amm">>, val |-> PoolValue(n)]
          \/ f = [key |-> <<"tx", n>>, val |-> [out |-> image[n], status |-> Status(image[n])]]
      <3>1. i = 1 \/ i = 2 \/ i = 3
        OBVIOUS
      <3>. QED BY <3>1, PutsParts
    <2>2. {<<"acc", Swaps[n].user>>, <<"pool", "amm">>, <<"tx", n>>} \subseteq Keys
      BY HostAssumption
    <2>. HIDE DEF f
    <2>. QED BY <2>1, <2>2
  <1>. HIDE DEF f
  <1>3. f \in Frame
    BY <1>1, <1>2 DEF Frame
  <1>. QED BY <1>1, <1>2, <1>3 DEF f

-----------------------------------------------------------------------------
(***************************************************************************)
(* The host steps as the store does                                        *)
(***************************************************************************)

\* Every step of the host is one of its process in the store, or none there.
LEMMA ProcStepIsStore ==
    ASSUME StructInv, RunInv, NEW p \in Procs, ProcStep(p)
    PROVE  \/ CallStep(p) \/ ClientStep(p) \/ OpenFails(p) \/ Crash(p)
           \/ UNCHANGED vars /\ pc[p] = "open"
  <1>0. RunOf(p)
    BY DEF RunInv
  <1>1. CASE HostStart(p)
    BY <1>1 DEF HostStart, ClientStep
  <1>2. CASE InCall(p)
    BY <1>2 DEF InCall
  <1>3. CASE SettleSwap(p)
    BY <1>0, <1>3 DEF SettleSwap, RunOf, PlaceOf, PcOf
  <1>4. CASE Put(p)
    <2>. DEFINE i == Len(staged[p]) + 1
                put == Puts(t[p] + 1, img[p][t[p] + 1])[i]
    <2>1. at[p] = "put" /\ pc[p] = "open"
      BY <1>0, <1>4 DEF Put, RunOf, PlaceOf, PcOf
    <2>2. /\ t[p] < Len(Swaps) /\ Settles(img[p], t[p] + 1) /\ Len(staged[p]) < 3
          /\ img[p] \in Images
      BY <1>0, <2>1 DEF RunOf, QueueOf, PlaceOf
    <2>3. t[p] \in Nat /\ Len(staged[p]) \in Nat
      BY Numbers DEF RunInv, HostTypes, StructInv
    <2>4. i \in 1..3 /\ t[p] + 1 \in DOMAIN Swaps
      BY <2>2, <2>3, HostAssumption
    <2>5. put.key \in Keys /\ put.val \in Vals
      BY <2>2, <2>4, PutsAreFrames
    <2>6. StorePut(p, put.key, put.val) \/ UNCHANGED vars
      BY <1>4 DEF Put
    <2>. QED BY <2>1, <2>5, <2>6 DEF ClientStep
  <1>5. CASE Commit(p)
    BY <1>0, <1>5 DEF Commit, ClientStep, RunOf, PlaceOf, PcOf
  <1>6. CASE CheckpointBatch(p)
    BY <1>0, <1>6 DEF CheckpointBatch, ClientStep, RunOf, PlaceOf, PcOf
  <1>7. CASE OpenReceipt(p) \/ PrintReceipt(p)
    BY <1>0, <1>7 DEF OpenReceipt, PrintReceipt, RunOf, PlaceOf, PcOf
  <1>8. CASE HostClose(p) \/ HostCrash(p)
    BY <1>8 DEF HostClose, HostCrash, ClientStep
  <1>. QED BY <1>1, <1>2, <1>3, <1>4, <1>5, <1>6, <1>7, <1>8 DEF ProcStep

LEMMA HostStepIsStore ==
    ASSUME StructInv, RunInv, [HostNext]_allVars
    PROVE  [Next]_vars
  <1>1. ASSUME NEW p \in Procs, ProcStep(p) PROVE [Next]_vars
    BY <1>1, ProcStepIsStore DEF Next
  <1>2. CASE HostPowerLoss
    BY <1>2 DEF HostPowerLoss, Next
  <1>3. CASE UNCHANGED allVars
    BY <1>3 DEF allVars
  <1>. QED BY <1>1, <1>2, <1>3 DEF HostNext, ProcStep

\* While one host steps, all others are off and stay so.
LEMMA OthersOff ==
    ASSUME StructInv, RunInv, NEW p \in Procs, ProcStep(p), NEW q \in Procs, q # p
    PROVE  pc'[q] = "idle" /\ at'[q] = "off" /\ t'[q] = 0
  <1>0. RunOf(p) /\ RunOf(q) /\ HostTypes
    BY DEF RunInv
  <1>1. pc[q] = "idle" /\ pc'[q] = "idle"
    <2>1. CASE UNCHANGED vars /\ pc[p] = "open"
      <3>1. LockExclusion /\ pc' = pc
        BY <2>1 DEF StructInv, vars
      <3>. QED BY <2>1, <3>1 DEF LockExclusion
    <2>2. CASE CallStep(p) \/ ClientStep(p) \/ OpenFails(p) \/ Crash(p)
      BY <2>2, OthersIdle
    <2>. QED BY <2>1, <2>2, ProcStepIsStore
  <1>2. at[q] = "off"
    BY <1>0, <1>1 DEF RunOf, PlaceOf, PcOf, Opening, Committing, Checkpointing
  <1>3. t[q] = 0
    BY <1>0, <1>2 DEF RunOf, PlaceOf
  <1>4. at'[q] = at[q] /\ t'[q] = t[q]
    BY <1>0 DEF ProcStep, HostStart, InCall, SettleSwap, Put, Commit, CheckpointBatch, OpenReceipt,
                PrintReceipt, HostClose, HostCrash, Gone, AtIs, HostTypes
  <1>. QED BY <1>1, <1>2, <1>3, <1>4

\* A host never commits again what a failed sync has freed.
LEMMA CommitsFresh ==
    ASSUME StructInv, RunInv, [HostNext]_allVars, NEW p \in Procs, CommitBegin(p)
    PROVE  freed[p] = 0
  <1>. SUFFICES ASSUME freed[p] # 0 PROVE FALSE
    OBVIOUS
  <1>0. RunOf(p) /\ TypeOK
    BY DEF RunInv, StructInv
  <1>1. pc[p] = "open" /\ pc'[p] = "commit"
    BY <1>0 DEF CommitBegin, Goto, TypeOK
  <1>2. at[p] = "fail"
    BY <1>0, <1>1 DEF RunOf, PlaceOf, PcOf, Committing
  <1>3. ASSUME NEW q \in Procs, ProcStep(q) PROVE FALSE
    <2>1. q = p
      BY <1>1, <1>3, OthersOff
    <2>2. CASE InCall(p)
      <3>1. CallStep(p) => pc[p] # "open"
        BY DEF CallStep, OpenCorrupt, WriteHeader, WriteHeaderShort, SyncHeader, ReadHeader,
               ReplayFrame, ReplayTruncate, ReplayDone, VerifyCheckpoint, CommitWrite, CommitFails,
               CommitPublish, CommitSync, CheckpointRename, CheckpointDirSync
      <3>2. OpenFails(p) => pc[p] # "open"
        BY DEF OpenFails, Opening
      <3>. QED BY <1>1, <2>2, <3>1, <3>2 DEF InCall
    <2>3. CASE HostClose(p) \/ HostCrash(p)
      <3>1. pc'[p] = "idle"
        BY <1>0, <2>3 DEF HostClose, HostCrash, StoreClose, Crash, DropHandle, Goto, TypeOK
      <3>. QED BY <1>1, <3>1
    <2>. QED BY <1>2, <1>3, <2>1, <2>2, <2>3
             DEF ProcStep, HostStart, SettleSwap, Put, Commit, CheckpointBatch, OpenReceipt, PrintReceipt
  <1>4. ~HostPowerLoss
    BY <1>1 DEF HostPowerLoss, PowerLoss
  <1>5. UNCHANGED allVars => pc' = pc
    BY DEF allVars, vars
  <1>. QED BY <1>1, <1>3, <1>4, <1>5 DEF HostNext, ProcStep

\* What the store guarantees to this host.
StoreHolds ==
    /\ StructInv /\ ValidInv /\ DurableInv /\ MemtableHolds
    /\ ReliableMedium => ImageHolds /\ TailHolds

LEMMA StoreHoldsInit == Init => StoreHolds
  BY StructInit, DurableInit, MemtableInit, RefinementInit DEF StoreHolds

LEMMA StoreHoldsNext ==
    ASSUME StoreHolds, RunInv, [HostNext]_allVars
    PROVE  StoreHolds'
  <1>0. StructInv /\ ValidInv /\ DurableInv /\ MemtableHolds
    BY DEF StoreHolds
  <1>1. [Next]_vars
    BY <1>0, HostStepIsStore
  <1>2. StructInv'
    BY <1>0, <1>1, StructNext
  <1>3. ValidInv' /\ DurableInv'
    BY <1>0, <1>1, <1>2, ValidNext, DurableNext
  <1>4. MemtableHolds'
    BY <1>0, <1>1, <1>2, CommitsFresh, MemtableNext
  <1>5. ASSUME ReliableMedium PROVE ImageHolds' /\ TailHolds'
    BY <1>0, <1>1, <1>2, <1>5, ImageNext, TailNext DEF StoreHolds
  <1>6. ReliableMedium' = ReliableMedium
    BY DEF ReliableMedium
  <1>. QED BY <1>2, <1>3, <1>4, <1>5, <1>6 DEF StoreHolds

-----------------------------------------------------------------------------
(***************************************************************************)
(* Where a host is, what it has queued and what it has committed           *)
(***************************************************************************)

\* A host that is off, or still opening the directory, has done nothing yet.
LEMMA Fresh ==
    StructInv => \A p \in Procs :
        /\ at[p] \in {"off", "opening"}
        /\ pc[p] \in PcOf(at[p])
        /\ t[p] = 0
        /\ at[p] # "off" => img[p] \in Images
        => RunOf(p)
  <1>. SUFFICES ASSUME StructInv, NEW p \in Procs, at[p] \in {"off", "opening"},
                       pc[p] \in PcOf(at[p]), t[p] = 0, at[p] # "off" => img[p] \in Images
                PROVE  RunOf(p)
    OBVIOUS
  <1>1. pc[p] \notin Live
    BY DEF PcOf, Opening, Live, Committing, Checkpointing
  <1>2. /\ staged[p] = <<>> /\ Len(staged[p]) = 0 /\ freed[p] = 0 /\ walSize[p] \in Nat
    <2>1. TypeOK /\ CursorInv
      BY DEF StructInv
    <2>2. staged[p] = <<>> /\ freed[p] <= Len(staged[p]) /\ freed[p] \in Nat /\ walSize[p] \in Nat
      BY <1>1, <2>1, Numbers DEF CursorInv
    <2>3. Len(staged[p]) = 0
      BY <2>2
    <2>. QED BY <2>2, <2>3
  <1>3. PlaceOf(p)
    BY <1>2, HostAssumption DEF PlaceOf
  <1>4. QueueOf(p)
    BY <1>2 DEF QueueOf
  <1>5. RunTail(p, Settled(p))
    BY <1>2 DEF RunTail, Settled
  <1>. QED BY <1>3, <1>4, <1>5 DEF RunOf

LEMMA FreshNext ==
    (StructInv => \A p \in Procs :
        /\ at[p] \in {"off", "opening"}
        /\ pc[p] \in PcOf(at[p])
        /\ t[p] = 0
        /\ at[p] # "off" => img[p] \in Images
        => RunOf(p))'
  BY Fresh, PTL

\* The tail is as it was when neither the log nor the run has changed.
LEMMA TailStays ==
    ASSUME NEW p \in Procs, NEW d \in Nat, RunTail(p, d), walSize[p] \in Nat,
           walSize'[p] = walSize[p], img'[p] = img[p],
           \A i \in 1..walSize[p] : file'[i] = file[i]
    PROVE  RunTail(p, d)'
  <1>1. 3 * d <= walSize[p]
    BY DEF RunTail
  <1>2. ASSUME NEW n \in 1..d, NEW i \in 1..3
        PROVE  file'[walSize[p] - 3 * d + 3 * (n - 1) + i] = Puts(n, img[p][n])[i]
    <2>1. walSize[p] - 3 * d + 3 * (n - 1) + i \in 1..walSize[p]
      BY <1>1
    <2>. QED BY <2>1 DEF RunTail
  <1>. QED BY <1>1, <1>2 DEF RunTail

\* The host goes on from one place to another, and the queue and the log stay.
LEMMA RunStays ==
    ASSUME StructInv, RunInv, NEW p \in Procs,
           staged'[p] = staged[p], freed'[p] = freed[p], walSize'[p] = walSize[p],
           t'[p] = t[p], img'[p] = img[p], \A i \in 1..walSize[p] : file'[i] = file[i],
           PlaceOf(p)',
           at'[p] = "put" => Len(staged[p]) < 3,
           at'[p] \in {"staged", "commit"} => Len(staged[p]) = 3,
           at'[p] \in {"put", "staged", "commit"} =>
             /\ t[p] < Len(Swaps) /\ Settles(img[p], t[p] + 1) /\ Len(staged[p]) <= 3
             /\ \A i \in 1..Len(staged[p]) : staged[p][i] = Puts(t[p] + 1, img[p][t[p] + 1])[i]
    PROVE  RunOf(p)'
  <1>0. RunOf(p) /\ t[p] \in Nat /\ walSize[p] \in Nat /\ freed[p] \in Nat
    BY Numbers DEF RunInv, HostTypes, StructInv
  <1>1. QueueOf(p)'
    BY <1>0 DEF RunOf, QueueOf
  <1>2. PICK d \in Nat : d = Settled(p)
    BY <1>0 DEF Settled
  <1>3. Settled(p)' = d
    BY <1>2 DEF Settled
  <1>4. RunTail(p, d)'
    BY <1>0, <1>2, TailStays DEF RunOf
  <1>5. RunTail(p, Settled(p))'
    BY <1>3, <1>4 DEF RunTail
  <1>. QED BY <1>1, <1>5 DEF RunOf

\* A step of the store that a host waits for; what the host makes of it.
LEMMA CallPlaces ==
    ASSUME StructInv, RunInv, NEW p \in Procs, InCall(p)
    PROVE  /\ CallStep(p) \/ OpenFails(p)
           /\ at[p] \in {"opening", "commit", "checkpoint"} /\ pc[p] \in PcOf(at[p])
           /\ pc'[p] = "idle" => at'[p] = "off" /\ t'[p] = 0
           /\ pc'[p] # "idle" =>
                /\ img'[p] = img[p] /\ at'[p] = Answer(p)
                /\ t'[p] = IF at[p] = "commit" /\ at'[p] = "swap" THEN t[p] + 1 ELSE t[p]
  <1>0. HostTypes /\ RunOf(p)
    BY DEF RunInv
  <1>1. CallStep(p) \/ OpenFails(p)
    BY DEF InCall
  <1>2. pc[p] \in Opening \cup Committing \cup Checkpointing
    BY <1>1 DEF CallStep, OpenCorrupt, WriteHeader, WriteHeaderShort, SyncHeader, ReadHeader,
                ReplayFrame, ReplayTruncate, ReplayDone, VerifyCheckpoint, CommitWrite, CommitFails,
                CommitPublish, CommitSync, CheckpointRename, CheckpointDirSync, OpenFails,
                Opening, Committing, Checkpointing
  <1>3. pc[p] \in PcOf(at[p])
    BY <1>0 DEF RunOf, PlaceOf
  <1>4. at[p] \in {"opening", "commit", "checkpoint"}
    BY <1>2, <1>3 DEF PcOf, Opening, Committing, Checkpointing
  <1>5. pc'[p] = "idle" => at'[p] = "off" /\ t'[p] = 0
    BY <1>0 DEF InCall, Gone, AtIs, HostTypes
  <1>6. pc'[p] # "idle" =>
          /\ img'[p] = img[p] /\ at'[p] = Answer(p)
          /\ t'[p] = IF at[p] = "commit" /\ at'[p] = "swap" THEN t[p] + 1 ELSE t[p]
    BY <1>0 DEF InCall, AtIs, HostTypes
  <1>. QED BY <1>1, <1>3, <1>4, <1>5, <1>6

LEMMA RunOpening ==
    ASSUME StructInv, StructInv', RunInv, NEW p \in Procs, InCall(p), at[p] = "opening"
    PROVE  RunOf(p)' /\ at'[p] \in Places /\ t'[p] \in Nat
  <1>0. HostTypes /\ RunOf(p) /\ TypeOK /\ CursorInv
    BY DEF RunInv, StructInv
  <1>1. /\ pc[p] \in Opening /\ t[p] = 0 /\ img[p] \in Images
        /\ CallStep(p) \/ OpenFails(p)
        /\ pc'[p] = "idle" => at'[p] = "off" /\ t'[p] = 0
        /\ pc'[p] # "idle" => img'[p] = img[p] /\ at'[p] = Answer(p) /\ t'[p] = t[p]
    BY <1>0, CallPlaces DEF PcOf, RunOf, PlaceOf
  <1>2. \/ pc'[p] = "idle" \/ pc'[p] \in Opening
        \/ pc'[p] = "open" /\ UNCHANGED <<handle, wal>>
    BY <1>0, <1>1 DEF CallStep, OpenCorrupt, WriteHeader, WriteHeaderShort, SyncHeader, ReadHeader,
                ReplayFrame, ReplayTruncate, ReplayDone, VerifyCheckpoint, CommitWrite, CommitFails,
                CommitPublish, CommitSync, CheckpointRename, CheckpointDirSync, OpenFails,
                Opening, DropHandle, Goto, TypeOK
  <1>3. CASE pc'[p] = "idle"
    BY <1>1, <1>3, FreshNext DEF PcOf, Places
  <1>4. CASE pc'[p] \in Opening
    <2>1. at'[p] = "opening" /\ pc'[p] # "idle"
      BY <1>1, <1>4 DEF Answer, Opening
    <2>. QED BY <1>1, <1>4, <2>1, FreshNext DEF PcOf, Places
  <1>5. CASE pc'[p] = "open" /\ UNCHANGED <<handle, wal>>
    <2>1. at'[p] = "swap" /\ t'[p] = 0 /\ img'[p] = img[p]
      BY <1>1, <1>5 DEF Answer
    <2>2. UNCHANGED <<staged, freed, walSize, file>>
      BY <1>5 DEF handle, wal
    <2>3. staged[p] = <<>> /\ freed[p] = 0
      <3>1. staged[p] = <<>> /\ freed[p] <= Len(staged[p]) /\ freed[p] \in Nat
        BY <1>0, <1>1, Numbers DEF CursorInv, Opening, Live, Committing, Checkpointing
      <3>. QED BY <3>1
    <2>4. PlaceOf(p)'
      BY <1>1, <1>5, <2>1, <2>2, <2>3, HostAssumption DEF PlaceOf, PcOf
    <2>. QED BY <1>1, <2>1, <2>2, <2>4, RunStays DEF Places
  <1>. QED BY <1>2, <1>3, <1>4, <1>5

LEMMA RunCommitting ==
    ASSUME StructInv, StructInv', MemtableHolds, RunInv, NEW p \in Procs, InCall(p), at[p] = "commit"
    PROVE  RunOf(p)' /\ at'[p] \in Places /\ t'[p] \in Nat
  <1>0. HostTypes /\ RunOf(p) /\ TypeOK /\ CursorInv /\ FileInv /\ MemtableOf(p)
    BY DEF RunInv, StructInv, MemtableHolds
  <1>n. /\ t[p] \in Nat /\ walSize[p] \in Nat /\ freed[p] \in Nat /\ Len(staged[p]) = 3
        /\ t[p] < Len(Swaps) /\ Len(Swaps) \in Nat /\ Settles(img[p], t[p] + 1)
        /\ \A i \in 1..Len(staged[p]) : staged[p][i] = Puts(t[p] + 1, img[p][t[p] + 1])[i]
        /\ img[p] \in Images /\ staged[p] # <<>> /\ walSize[p] <= Len(file) /\ Len(file) \in Nat
        /\ cursor[p] \in Nat
    <2>1. Len(staged[p]) = 3
      BY <1>0 DEF RunOf, QueueOf
    <2>2. staged[p] # <<>>
      <3>1. staged[p] = <<>> => Len(staged[p]) = 0
        OBVIOUS
      <3>. QED BY <2>1, <3>1
    <2>. QED BY <1>0, <2>1, <2>2, Numbers, HostAssumption
             DEF RunOf, QueueOf, PlaceOf, HostTypes, CursorInv
  <1>q. /\ t[p] < Len(Swaps) /\ Settles(img[p], t[p] + 1) /\ Len(staged[p]) <= 3
        /\ \A i \in 1..Len(staged[p]) : staged[p][i] = Puts(t[p] + 1, img[p][t[p] + 1])[i]
        /\ Len(staged[p]) = 3
    BY <1>n
  <1>1. /\ pc[p] \in Committing
        /\ CallStep(p) \/ OpenFails(p)
        /\ pc'[p] # "idle" =>
             /\ img'[p] = img[p] /\ at'[p] = Answer(p)
             /\ t'[p] = IF at'[p] = "swap" THEN t[p] + 1 ELSE t[p]
    BY <1>0, CallPlaces DEF PcOf
  <1>2. CommitWrite(p) \/ CommitFails(p) \/ CommitPublish(p) \/ CommitSync(p)
    BY <1>1 DEF CallStep, OpenCorrupt, WriteHeader, WriteHeaderShort, SyncHeader, ReadHeader,
                ReplayFrame, ReplayTruncate, ReplayDone, VerifyCheckpoint, CheckpointRename,
                CheckpointDirSync, OpenFails, Opening, Committing
  <1>3. CASE CommitWrite(p) \/ CommitFails(p)
    <2>1. /\ pc[p] = "commit" /\ pc'[p] \in {"commit", "open"} /\ walSize' = walSize
          /\ UNCHANGED <<staged, freed>>
      BY <1>3, CommitSlot, CommitFailSlot DEF CommitWrite, CommitFails
    <2>2. \A i \in 1..walSize[p] : file'[i] = file[i]
      <3>1. PICK k \in Nat : k = walSize[p] + cursor[p] + 1
        BY <1>n
      <3>2. \A j \in 1..Len(file) : j # k => file'[j] = file[j]
        BY <1>3, <3>1, CommitSlot, CommitFailSlot
      <3>3. \A i \in 1..walSize[p] : i \in 1..Len(file) /\ i # k
        BY <1>n, <3>1
      <3>. QED BY <3>2, <3>3
    <2>3. freed[p] = 0
      BY <1>0, <2>1 DEF MemtableOf
    <2>4. /\ at'[p] = IF pc'[p] = "commit" THEN "commit" ELSE "fail"
          /\ t'[p] = t[p] /\ img'[p] = img[p]
      BY <1>n, <1>1, <2>1 DEF Answer
    <2>5. PlaceOf(p)'
      BY <1>n, <2>1, <2>3, <2>4 DEF PlaceOf, PcOf, Committing
    <2>6. staged'[p] = staged[p] /\ freed'[p] = freed[p] /\ walSize'[p] = walSize[p]
      BY <2>1
    <2>7. RunOf(p)'
      BY <1>q, <2>2, <2>4, <2>5, <2>6, RunStays
    <2>. QED BY <1>n, <2>4, <2>7 DEF Places
  <1>4. CASE CommitPublish(p)
    <2>1. /\ pc[p] = "commit" /\ pc'[p] = "sync" /\ cursor[p] = 3
          /\ walSize'[p] = walSize[p] + 3 /\ freed'[p] = 3 /\ UNCHANGED <<staged, file>>
      BY <1>0, <1>n, <1>4 DEF CommitPublish, Goto, wal, TypeOK
    <2>2. freed[p] = 0 /\ \A i \in 1..3 : file[walSize[p] + i] = staged[p][i]
      BY <1>0, <2>1 DEF MemtableOf
    <2>3. at'[p] = "commit" /\ t'[p] = t[p] /\ img'[p] = img[p]
      BY <1>1, <2>1 DEF Answer
    <2>4. PlaceOf(p)'
      BY <1>n, <2>1, <2>3 DEF PlaceOf, PcOf, Committing
    <2>5. QueueOf(p)'
      <3>1. staged'[p] = staged[p]
        BY <2>1
      <3>. QED BY <1>q, <2>3, <3>1 DEF QueueOf
    <2>6. RunTail(p, t[p])
      BY <1>0, <2>2 DEF RunOf, Settled
    <2>7. PICK d \in Nat : d = t[p]
      BY <1>n
    <2>8. RunTail(p, d + 1)'
      <3>1. 3 * (d + 1) <= walSize'[p]
        BY <1>n, <2>1, <2>6, <2>7 DEF RunTail
      <3>2. ASSUME NEW n \in 1..d + 1, NEW i \in 1..3
            PROVE  file'[walSize'[p] - 3 * (d + 1) + 3 * (n - 1) + i] = Puts(n, img'[p][n])[i]
        <4>1. walSize'[p] - 3 * (d + 1) + 3 * (n - 1) + i = walSize[p] - 3 * d + 3 * (n - 1) + i
          BY <1>n, <2>1
        <4>2. CASE n \in 1..d
          BY <2>1, <2>3, <2>6, <2>7, <4>1, <4>2 DEF RunTail
        <4>3. CASE n = d + 1
          <5>1. walSize[p] - 3 * d + 3 * (n - 1) + i = walSize[p] + i
            BY <1>n, <4>3
          <5>2. file[walSize[p] + i] = Puts(d + 1, img[p][d + 1])[i]
            BY <1>n, <2>2, <2>7
          <5>. QED BY <2>1, <2>3, <4>1, <4>3, <5>1, <5>2
        <4>. QED BY <4>2, <4>3
      <3>. QED BY <3>1, <3>2 DEF RunTail
    <2>9. Settled(p)' = d + 1
      BY <2>1, <2>3, <2>7 DEF Settled
    <2>10. RunTail(p, Settled(p))'
      BY <2>8, <2>9 DEF RunTail
    <2>. QED BY <1>n, <2>3, <2>4, <2>5, <2>10 DEF RunOf, Places
  <1>5. CASE CommitSync(p)
    <2>1. /\ pc[p] = "sync" /\ pc'[p] = "open" /\ UNCHANGED <<walSize, file>>
          /\ \/ staged'[p] = <<>> /\ freed'[p] = 0
             \/ UNCHANGED <<staged, freed>>
      BY <1>0, <1>5, SyncTypes DEF CommitSync, Goto, TypeOK
    <2>2. freed[p] = 3
      BY <1>0, <1>n, <2>1 DEF MemtableOf
    <2>3. img'[p] = img[p]
      BY <1>1, <2>1
    <2>4. CASE staged'[p] = <<>> /\ freed'[p] = 0
      <3>1. at'[p] = "swap" /\ t'[p] = t[p] + 1
        BY <1>1, <2>1, <2>4 DEF Answer
      <3>2. PlaceOf(p)'
        BY <1>n, <2>1, <2>3, <2>4, <3>1 DEF PlaceOf, PcOf
      <3>3. QueueOf(p)'
        BY <2>4, <3>1 DEF QueueOf
      <3>4. PICK d \in Nat : d = t[p] + 1
        BY <1>n
      <3>5. RunTail(p, d)
        BY <1>0, <2>2, <3>4 DEF RunOf, Settled
      <3>6. RunTail(p, d)'
        BY <1>n, <2>1, <2>3, <3>5, TailStays
      <3>7. Settled(p)' = d
        BY <2>4, <3>1, <3>4 DEF Settled
      <3>8. RunTail(p, Settled(p))'
        BY <3>6, <3>7 DEF RunTail
      <3>. QED BY <1>n, <3>1, <3>2, <3>3, <3>8 DEF RunOf, Places
    <2>5. CASE UNCHANGED <<staged, freed>>
      <3>1. at'[p] = "fail" /\ t'[p] = t[p]
        BY <1>n, <1>1, <2>1, <2>5 DEF Answer
      <3>2. PlaceOf(p)'
        <4>1. staged'[p] = staged[p] /\ freed'[p] = Len(staged'[p])
          BY <1>n, <2>2, <2>5
        <4>. QED BY <1>n, <2>1, <2>3, <3>1, <4>1 DEF PlaceOf, PcOf
      <3>3. staged'[p] = staged[p] /\ freed'[p] = freed[p] /\ walSize'[p] = walSize[p] /\ file' = file
        BY <2>1, <2>5
      <3>4. RunOf(p)'
        BY <2>3, <3>1, <3>2, <3>3, RunStays
      <3>. QED BY <1>n, <3>1, <3>4 DEF Places
    <2>. QED BY <2>1, <2>4, <2>5
  <1>. QED BY <1>2, <1>3, <1>4, <1>5

LEMMA RunCheckpointing ==
    ASSUME StructInv, StructInv', RunInv, NEW p \in Procs, InCall(p), at[p] = "checkpoint"
    PROVE  RunOf(p)' /\ at'[p] \in {"checkpoint", "receipt", "fail"} /\ t'[p] \in Nat
  <1>0. HostTypes /\ RunOf(p) /\ TypeOK
    BY DEF RunInv, StructInv
  <1>1. /\ pc[p] \in Checkpointing
        /\ CallStep(p) \/ OpenFails(p)
        /\ pc'[p] # "idle" => img'[p] = img[p] /\ at'[p] = Answer(p) /\ t'[p] = t[p]
    BY <1>0, CallPlaces DEF PcOf
  <1>2. CheckpointRename(p) \/ CheckpointDirSync(p)
    BY <1>1 DEF CallStep, OpenCorrupt, WriteHeader, WriteHeaderShort, SyncHeader, ReadHeader,
                ReplayFrame, ReplayTruncate, ReplayDone, VerifyCheckpoint, CommitWrite, CommitFails,
                CommitPublish, CommitSync, OpenFails, Opening, Checkpointing
  <1>3. /\ pc'[p] \in {"chkDir", "open"} /\ UNCHANGED <<staged, freed, walSize, file>>
        /\ pc'[p] = "chkDir" => pc[p] = "chkWrite"
    BY <1>0, <1>2 DEF CheckpointRename, CheckpointDirSync, Goto, handle, wal, TypeOK
  <1>4. /\ at'[p] \in {"checkpoint", "receipt", "fail"} /\ t'[p] = t[p] /\ img'[p] = img[p]
        /\ at'[p] = "checkpoint" <=> pc'[p] = "chkDir"
    BY <1>1, <1>3 DEF Answer
  <1>5. staged[p] = <<>> /\ freed[p] = 0 /\ t[p] = Len(Swaps) /\ img[p] \in Images /\ t[p] \in Nat
    BY <1>0 DEF RunOf, PlaceOf, HostTypes
  <1>6. staged'[p] = staged[p] /\ freed'[p] = freed[p] /\ walSize'[p] = walSize[p] /\ file' = file
    BY <1>3
  <1>7. PlaceOf(p)'
    BY <1>3, <1>4, <1>5, <1>6 DEF PlaceOf, PcOf, Checkpointing
  <1>8. RunOf(p)'
    BY <1>4, <1>6, <1>7, RunStays
  <1>. QED BY <1>4, <1>5, <1>8

\* The steps a host takes between its calls, and those that begin one.
LEMMA RunBetween ==
    ASSUME StructInv, StructInv', RunInv, NEW p \in Procs,
           SettleSwap(p) \/ Commit(p) \/ CheckpointBatch(p) \/ OpenReceipt(p) \/ PrintReceipt(p)
    PROVE  RunOf(p)' /\ at'[p] \in Places /\ t'[p] \in Nat
  <1>0. HostTypes /\ RunOf(p) /\ TypeOK /\ FileInv /\ PlaceOf(p) /\ QueueOf(p)
    BY DEF RunInv, StructInv, RunOf
  <1>n. t[p] \in Nat /\ Len(Swaps) \in Nat
    BY <1>0, HostAssumption DEF HostTypes
  <1>1. t'[p] = t[p] /\ img'[p] = img[p]
    BY DEF SettleSwap, Commit, CheckpointBatch, OpenReceipt, PrintReceipt
  <1>2. UNCHANGED <<staged, freed, walSize, file>>
    <2>1. CASE CheckpointBatch(p)
      BY <1>0, <2>1, SyncTypes DEF CheckpointBatch, CheckpointSync, handle, wal, vars
    <2>2. CASE Commit(p)
      BY <2>2 DEF Commit, CommitBegin, handle, wal, vars
    <2>3. CASE SettleSwap(p) \/ OpenReceipt(p) \/ PrintReceipt(p)
      BY <2>3 DEF SettleSwap, OpenReceipt, PrintReceipt, handle, wal, vars
    <2>. QED BY <2>1, <2>2, <2>3
  <1>3. staged'[p] = staged[p] /\ freed'[p] = freed[p] /\ walSize'[p] = walSize[p] /\ file' = file
    BY <1>2
  <1>. SUFFICES RunOf(p)' /\ at'[p] \in Places
    BY <1>n, <1>1
  <1>4. CASE SettleSwap(p)
    <2>1. /\ at[p] = "swap" /\ t[p] < Len(Swaps) /\ pc' = pc
          /\ at'[p] = IF Settles(img[p], t[p] + 1) THEN "put" ELSE "fail"
      BY <1>0, <1>4 DEF SettleSwap, More, AtIs, HostTypes, vars
    <2>2. pc[p] = "open" /\ staged[p] = <<>> /\ freed[p] = 0 /\ img[p] \in Images
      BY <1>0, <2>1 DEF PlaceOf, PcOf
    <2>3. PlaceOf(p)'
      BY <1>n, <1>1, <1>3, <2>1, <2>2 DEF PlaceOf, PcOf
    <2>4. Len(staged[p]) = 0
      BY <2>2
    <2>5. RunOf(p)'
      BY <1>1, <1>3, <2>1, <2>3, <2>4, RunStays
    <2>. QED BY <2>1, <2>5 DEF Places
  <1>5. CASE Commit(p)
    <2>1. /\ at[p] = "staged"
          /\ \/ pc'[p] = "commit" /\ at'[p] = "commit"
             \/ pc'[p] = pc[p] /\ at'[p] = "fail"
      BY <1>0, <1>5 DEF Commit, CommitBegin, AtIs, Goto, HostTypes, TypeOK, vars
    <2>2. /\ pc[p] = "open" /\ freed[p] = 0 /\ img[p] \in Images /\ Len(staged[p]) = 3
          /\ t[p] < Len(Swaps) /\ Settles(img[p], t[p] + 1) /\ Len(staged[p]) <= 3
          /\ \A i \in 1..Len(staged[p]) : staged[p][i] = Puts(t[p] + 1, img[p][t[p] + 1])[i]
      BY <1>0, <2>1 DEF PlaceOf, PcOf, QueueOf
    <2>3. PlaceOf(p)'
      BY <1>n, <1>1, <1>3, <2>1, <2>2 DEF PlaceOf, PcOf, Committing
    <2>4. RunOf(p)'
      BY <1>1, <1>3, <2>1, <2>2, <2>3, RunStays
    <2>. QED BY <2>1, <2>4 DEF Places
  <1>6. CASE CheckpointBatch(p)
    <2>1. /\ at[p] = "swap" /\ ~(t[p] < Len(Swaps)) /\ pc'[p] \in {"chkWrite", pc[p]}
          /\ at'[p] = IF pc'[p] = "chkWrite" THEN "checkpoint" ELSE "fail"
      BY <1>0, <1>6 DEF CheckpointBatch, CheckpointSync, More, AtIs, Goto, HostTypes, TypeOK, vars,
                        PlaceOf, PcOf
    <2>2. pc[p] = "open" /\ staged[p] = <<>> /\ freed[p] = 0 /\ img[p] \in Images /\ t[p] = Len(Swaps)
      BY <1>0, <1>n, <2>1 DEF PlaceOf, PcOf
    <2>3. PlaceOf(p)'
      BY <1>n, <1>1, <1>3, <2>1, <2>2 DEF PlaceOf, PcOf, Checkpointing
    <2>4. RunOf(p)'
      BY <1>1, <1>3, <2>1, <2>3, RunStays
    <2>. QED BY <2>1, <2>4 DEF Places
  <1>7. CASE OpenReceipt(p) \/ PrintReceipt(p)
    <2>1. at[p] \in {"receipt", "print"} /\ at'[p] \in {"print", "fail", "done"} /\ pc' = pc
      BY <1>0, <1>7 DEF OpenReceipt, PrintReceipt, AtIs, HostTypes, vars
    <2>2. pc[p] = "open" /\ staged[p] = <<>> /\ freed[p] = 0 /\ img[p] \in Images /\ t[p] = Len(Swaps)
      BY <1>0, <2>1 DEF PlaceOf, PcOf
    <2>3. PlaceOf(p)'
      BY <1>n, <1>1, <1>3, <2>1, <2>2 DEF PlaceOf, PcOf
    <2>4. RunOf(p)'
      BY <1>1, <1>3, <2>1, <2>3, RunStays
    <2>. QED BY <2>1, <2>4 DEF Places
  <1>. QED BY <1>4, <1>5, <1>6, <1>7

LEMMA RunPut ==
    ASSUME StructInv, StructInv', RunInv, NEW p \in Procs, Put(p)
    PROVE  RunOf(p)' /\ at'[p] \in Places /\ t'[p] \in Nat
  <1>0. HostTypes /\ RunOf(p) /\ TypeOK /\ PlaceOf(p) /\ QueueOf(p)
    BY DEF RunInv, StructInv, RunOf
  <1>n. t[p] \in Nat /\ Len(Swaps) \in Nat /\ staged[p] \in Seq(Frame) /\ Len(staged[p]) \in Nat
    BY <1>0, Numbers, HostAssumption DEF HostTypes
  <1>1. t'[p] = t[p] /\ img'[p] = img[p] /\ at[p] = "put"
    BY DEF Put
  <1>2. /\ pc[p] = "open" /\ freed[p] = 0 /\ img[p] \in Images /\ Len(staged[p]) < 3
        /\ t[p] < Len(Swaps) /\ Settles(img[p], t[p] + 1)
        /\ \A i \in 1..Len(staged[p]) : staged[p][i] = Puts(t[p] + 1, img[p][t[p] + 1])[i]
    BY <1>0, <1>1 DEF PlaceOf, PcOf, QueueOf
  <1>. DEFINE put == Puts(t[p] + 1, img[p][t[p] + 1])[Len(staged[p]) + 1]
  <1>3. CASE UNCHANGED vars /\ AtIs(p, "fail")
    <2>1. /\ pc'[p] = pc[p] /\ at'[p] = "fail" /\ staged'[p] = staged[p] /\ freed'[p] = freed[p]
          /\ walSize'[p] = walSize[p] /\ file' = file
      BY <1>0, <1>3 DEF vars, handle, wal, AtIs, HostTypes
    <2>2. PlaceOf(p)'
      BY <1>n, <1>1, <1>2, <2>1 DEF PlaceOf, PcOf
    <2>3. RunOf(p)'
      BY <1>1, <2>1, <2>2, RunStays
    <2>. QED BY <1>n, <1>1, <2>1, <2>3 DEF Places
  <1>4. CASE StorePut(p, put.key, put.val) /\ AtIs(p, IF Len(staged[p]) + 1 = 3 THEN "staged" ELSE "put")
    <2>1. put = [key |-> put.key, val |-> put.val] /\ put \in Frame
      <3>1. t[p] + 1 \in DOMAIN Swaps /\ Len(staged[p]) + 1 \in 1..3
        BY <1>n, <1>2, HostAssumption
      <3>. QED BY <1>2, <3>1, PutsAreFrames
    <2>2. /\ pc'[p] = pc[p] /\ at'[p] = (IF Len(staged[p]) + 1 = 3 THEN "staged" ELSE "put")
          /\ staged'[p] = Append(staged[p], put) /\ freed'[p] = freed[p]
          /\ walSize'[p] = walSize[p] /\ file' = file
      <3>. HIDE DEF put
      <3>1. Stage(p, put) /\ AtIs(p, IF Len(staged[p]) + 1 = 3 THEN "staged" ELSE "put")
        BY <1>4, <2>1 DEF StorePut
      <3>. QED BY <1>0, <3>1 DEF Stage, AtIs, HostTypes, TypeOK, wal
    <2>3. /\ Len(staged'[p]) = Len(staged[p]) + 1
          /\ \A i \in 1..Len(staged'[p]) : staged'[p][i] = Puts(t[p] + 1, img[p][t[p] + 1])[i]
      <3>1. /\ Len(staged'[p]) = Len(staged[p]) + 1
            /\ \A i \in 1..Len(staged[p]) : staged'[p][i] = staged[p][i]
            /\ staged'[p][Len(staged[p]) + 1] = put
        <4>. HIDE DEF put
        <4>. QED BY <1>n, <2>1, <2>2
      <3>2. ASSUME NEW i \in 1..Len(staged'[p])
            PROVE  staged'[p][i] = Puts(t[p] + 1, img[p][t[p] + 1])[i]
        <4>1. i \in 1..Len(staged[p]) \/ i = Len(staged[p]) + 1
          BY <1>n, <3>1
        <4>. QED BY <1>2, <3>1, <4>1
      <3>. QED BY <3>1, <3>2
    <2>4. QueueOf(p)'
      BY <1>n, <1>1, <1>2, <2>2, <2>3 DEF QueueOf
    <2>5. PlaceOf(p)'
      BY <1>n, <1>1, <1>2, <2>2 DEF PlaceOf, PcOf
    <2>6. PICK d \in Nat : d = t[p]
      BY <1>n
    <2>7. RunTail(p, d)
      BY <1>0, <1>2, <2>6 DEF RunOf, Settled
    <2>8. walSize[p] \in Nat
      BY <1>0, Numbers
    <2>9. RunTail(p, d)'
      BY <1>1, <2>2, <2>7, <2>8, TailStays
    <2>10. Settled(p)' = d
      BY <1>1, <1>2, <2>2, <2>6 DEF Settled
    <2>11. RunTail(p, Settled(p))'
      BY <2>9, <2>10 DEF RunTail
    <2>. QED BY <1>n, <1>1, <2>2, <2>4, <2>5, <2>11 DEF RunOf, Places
  <1>. QED BY <1>3, <1>4 DEF Put

LEMMA RunInit == HostInit => RunInv
  <1>. SUFFICES ASSUME HostInit PROVE RunInv
    OBVIOUS
  <1>1. StructInv /\ Init
    BY StructInit DEF HostInit
  <1>2. HostTypes
    BY DEF HostInit, HostTypes, Places
  <1>3. \A p \in Procs : at[p] = "off" /\ pc[p] = "idle" /\ t[p] = 0
    BY <1>1 DEF HostInit, Init
  <1>. QED BY <1>1, <1>2, <1>3, Fresh DEF RunInv, PcOf

LEMMA RunNext ==
    ASSUME StoreHolds, StoreHolds', RunInv, [HostNext]_allVars
    PROVE  RunInv'
  <1>0. StructInv /\ StructInv' /\ MemtableHolds /\ HostTypes /\ TypeOK
    BY DEF StoreHolds, RunInv, StructInv
  <1>1. ASSUME NEW p \in Procs, ProcStep(p) PROVE RunInv'
    <2>1. RunOf(p)' /\ at'[p] \in Places /\ t'[p] \in Nat
      <3>1. CASE HostStart(p)
        <4>1. /\ at[p] = "off" /\ at'[p] = "opening" /\ pc'[p] = "locked" /\ t'[p] = t[p]
              /\ img'[p] \in Images
          BY <1>0, <3>1 DEF HostStart, OpenLock, AtIs, Goto, HostTypes, TypeOK
        <4>2. t[p] = 0
          BY <4>1 DEF RunInv, RunOf, PlaceOf
        <4>. QED BY <1>0, <4>1, <4>2, FreshNext DEF PcOf, Opening, Places
      <3>2. CASE InCall(p)
        BY <1>0, <3>2, CallPlaces, RunOpening, RunCommitting, RunCheckpointing DEF Places
      <3>3. CASE HostClose(p) \/ HostCrash(p)
        <4>1. at'[p] = "off" /\ pc'[p] = "idle" /\ t'[p] = 0
          BY <1>0, <3>3 DEF HostClose, HostCrash, StoreClose, Crash, Gone, DropHandle, AtIs, Goto,
                            HostTypes, TypeOK
        <4>. QED BY <1>0, <4>1, FreshNext DEF PcOf, Places
      <3>. QED BY <1>0, <1>1, <3>1, <3>2, <3>3, RunBetween, RunPut DEF ProcStep
    <2>2. ASSUME NEW q \in Procs, q # p PROVE RunOf(q)'
      <3>1. pc'[q] = "idle" /\ at'[q] = "off" /\ t'[q] = 0
        BY <1>0, <1>1, <2>2, OthersOff
      <3>. QED BY <1>0, <3>1, FreshNext DEF PcOf
    <2>3. HostTypes'
      <3>1. /\ \E a : at' = [at EXCEPT ![p] = a]
            /\ t' = t \/ \E n : t' = [t EXCEPT ![p] = n]
            /\ img' = img \/ \E i \in Images \cup {<<>>} : img' = [img EXCEPT ![p] = i]
        BY <1>1 DEF ProcStep, HostStart, InCall, SettleSwap, Put, Commit, CheckpointBatch, OpenReceipt,
                    PrintReceipt, HostClose, HostCrash, Gone, AtIs
      <3>. QED BY <1>0, <2>1, <3>1 DEF HostTypes
    <2>. QED BY <2>1, <2>2, <2>3 DEF RunInv
  <1>2. CASE HostPowerLoss
    <2>1. HostTypes' /\ \A p \in Procs : at'[p] = "off" /\ pc'[p] = "idle" /\ t'[p] = 0
      BY <1>2 DEF HostPowerLoss, PowerLoss, HostTypes, Places
    <2>. QED BY <1>0, <2>1, FreshNext DEF RunInv, PcOf
  <1>3. CASE UNCHANGED allVars
    <2>1. UNCHANGED <<at, t, img, pc, staged, freed, walSize, file>>
      BY <1>3 DEF allVars, vars, hostVars, handle, wal
    <2>2. HostTypes'
      BY <1>0, <2>1 DEF HostTypes
    <2>3. ASSUME NEW p \in Procs PROVE RunOf(p)'
      <3>1. PlaceOf(p) /\ QueueOf(p) /\ RunTail(p, Settled(p))
        BY DEF RunInv, RunOf
      <3>2. PlaceOf(p)' /\ QueueOf(p)'
        BY <2>1, <3>1 DEF PlaceOf, QueueOf
      <3>3. RunTail(p, Settled(p))'
        BY <2>1, <3>1 DEF RunTail, Settled
      <3>. QED BY <3>2, <3>3 DEF RunOf
    <2>. QED BY <2>2, <2>3 DEF RunInv
  <1>. QED BY <1>1, <1>2, <1>3 DEF HostNext, ProcStep

-----------------------------------------------------------------------------
(***************************************************************************)
(* Nothing but PUTs of swaps is in the log                                 *)
(***************************************************************************)

OwnSlot(x) ==
    x # Torn => \E image \in Images, n \in DOMAIN Swaps, i \in 1..3 :
                   Settles(image, n) /\ x = Puts(n, image[n])[i]

SlotInv ==
    /\ \A i \in 1..Len(file) : OwnSlot(file[i])
    /\ \A i \in 1..Len(disk) : OwnSlot(disk[i])

\* What a step of the store can do to the WAL.
LEMMA WalSteps ==
    ASSUME NEW p \in Procs, CallStep(p) \/ ClientStep(p) \/ OpenFails(p) \/ Crash(p)
    PROVE  \/ UNCHANGED <<file, disk>>
           \/ SyncOk \/ SyncFails
           \/ ReplayTruncate(p)
           \/ CommitWrite(p) \/ CommitFails(p)
  <1>1. CASE CallStep(p)
    BY <1>1 DEF CallStep, OpenCorrupt, WriteHeader, WriteHeaderShort, SyncHeader, ReadHeader,
           ReplayFrame, ReplayDone, VerifyCheckpoint, CommitPublish, CommitSync, CheckpointRename,
           CheckpointDirSync, wal
  <1>2. CASE ClientStep(p)
    BY <1>2 DEF ClientStep, OpenLock, CommitBegin, CheckpointSync, StoreClose, StorePut, StoreDel,
           Stage, wal
  <1>3. CASE OpenFails(p) \/ Crash(p)
    BY <1>3 DEF OpenFails, Crash, wal
  <1>. QED BY <1>1, <1>2, <1>3

\* What a commit of this host writes.
LEMMA HostWrites ==
    ASSUME StoreHolds, RunInv, NEW p \in Procs, CommitWrite(p) \/ CommitFails(p)
    PROVE  /\ pc[p] = "commit" /\ freed[p] = 0 /\ cursor[p] \in 0..2 /\ t[p] + 1 \in DOMAIN Swaps
           /\ img[p] \in Images /\ Settles(img[p], t[p] + 1)
           /\ staged[p][cursor[p] + 1] = Puts(t[p] + 1, img[p][t[p] + 1])[cursor[p] + 1]
           /\ Len(staged[p]) = 3
           /\ \A i \in 1..3 : staged[p][i] = Puts(t[p] + 1, img[p][t[p] + 1])[i]
  <1>0. StructInv /\ TypeOK /\ MemtableOf(p) /\ HostTypes /\ PlaceOf(p) /\ QueueOf(p)
    BY DEF StoreHolds, StructInv, MemtableHolds, RunInv, RunOf
  <1>n. t[p] \in Nat /\ cursor[p] \in Nat /\ Len(staged[p]) \in Nat
    BY <1>0, Numbers DEF HostTypes
  <1>1. pc[p] = "commit" /\ cursor[p] < Len(staged[p])
    BY <1>n DEF CommitWrite, CommitFails
  <1>2. at[p] = "commit"
    BY <1>0, <1>1 DEF PlaceOf, PcOf, Opening, Checkpointing
  <1>3. /\ Len(staged[p]) = 3 /\ t[p] < Len(Swaps) /\ Settles(img[p], t[p] + 1) /\ img[p] \in Images
        /\ \A i \in 1..Len(staged[p]) : staged[p][i] = Puts(t[p] + 1, img[p][t[p] + 1])[i]
    BY <1>0, <1>2 DEF QueueOf, PlaceOf
  <1>4. cursor[p] \in 0..2 /\ cursor[p] + 1 \in 1..Len(staged[p]) /\ t[p] + 1 \in DOMAIN Swaps
    BY <1>n, <1>1, <1>3, HostAssumption
  <1>5. freed[p] = 0
    BY <1>0, <1>1 DEF MemtableOf
  <1>. QED BY <1>1, <1>3, <1>4, <1>5

LEMMA SlotNext ==
    ASSUME StoreHolds, StoreHolds', RunInv, SlotInv, [HostNext]_allVars
    PROVE  SlotInv'
  <1>0. StructInv /\ StructInv' /\ TypeOK /\ FileInv /\ TypeOK'
    BY DEF StoreHolds, StructInv
  <1>n. /\ Len(file) \in Nat /\ Len(disk) \in Nat /\ file \in Seq(Slot) /\ disk \in Seq(Slot)
        /\ file' \in Seq(Slot) /\ disk' \in Seq(Slot) /\ Len(file') \in Nat /\ Len(disk') \in Nat
    <2>1. /\ file \in Seq(Slot) /\ disk \in Seq(Slot)
          /\ file' \in Seq(Slot) /\ disk' \in Seq(Slot)
      BY <1>0 DEF TypeOK
    <2>. QED BY <2>1
  <1>t. OwnSlot(Torn)
    BY DEF OwnSlot
  <1>f. /\ \A i \in 1..Len(file) : OwnSlot(file[i])
        /\ \A i \in 1..Len(disk) : OwnSlot(disk[i])
    BY DEF SlotInv
  <1>1. ASSUME UNCHANGED <<file, disk>> PROVE SlotInv'
    BY <1>f, <1>1 DEF SlotInv
  <1>2. ASSUME SyncOk \/ SyncFails PROVE SlotInv'
    <2>1. file' = file
      BY <1>0, <1>2, SyncTypes
    <2>2. ASSUME NEW S, Flush(S) PROVE \A i \in 1..Len(disk') : OwnSlot(disk'[i])
      <3>1. Len(disk') = Len(file)
        BY <1>0, <2>2, FlushTypes
      <3>2. \A i \in 1..Len(file) : \/ disk'[i] = file[i] \/ disk'[i] = Torn
                                    \/ i <= Len(disk) /\ disk'[i] = disk[i]
        BY <2>2 DEF Flush
      <3>. QED BY <1>n, <1>t, <1>f, <3>1, <3>2
    <2>3. SyncFails => disk' = disk
      BY DEF SyncFails
    <2>. QED BY <1>2, <1>f, <2>1, <2>2, <2>3 DEF SyncOk, SlotInv
  <1>3. ASSUME NEW p \in Procs, ReplayTruncate(p) PROVE SlotInv'
    <2>1. /\ file' = SubSeq(file, 1, cursor[p]) /\ disk' = disk /\ cursor[p] < Len(file)
          /\ cursor[p] \in Nat
      BY <1>0, <1>3, Numbers DEF ReplayTruncate, Truncate
    <2>2. Len(file') = cursor[p] /\ \A i \in 1..cursor[p] : i \in 1..Len(file) /\ file'[i] = file[i]
      BY <1>n, <2>1
    <2>. QED BY <1>f, <2>1, <2>2 DEF SlotInv
  <1>4. ASSUME NEW p \in Procs, CommitWrite(p) \/ CommitFails(p) PROVE SlotInv'
    <2>1. PICK k \in Nat : k = walSize[p] + cursor[p] + 1
      BY <1>0, Numbers
    <2>2. OwnSlot(staged[p][cursor[p] + 1])
      <3>1. cursor[p] + 1 \in 1..3
        BY <1>4, HostWrites
      <3>. QED BY <1>4, <3>1, HostWrites DEF OwnSlot
    <2>3. k \in 1..Len(file) + 1
      BY <1>0, <1>4, <2>1, CommitSlot, CommitFailSlot
    <2>4. \/ UNCHANGED wal
          \/ \E x : OwnSlot(x) /\ WriteSlot(k, x)
      <3>1. CASE CommitWrite(p)
        <4>1. StagedBytes(p, cursor[p] + 1) = {staged[p][cursor[p] + 1]}
          BY <1>4, HostWrites DEF StagedBytes
        <4>2. WriteSlot(k, staged[p][cursor[p] + 1])
          BY <1>0, <2>1, <3>1, <4>1, CommitSlot
        <4>. QED BY <2>2, <4>2
      <3>2. CASE CommitFails(p)
        BY <1>0, <1>t, <2>1, <3>2, CommitFailSlot
      <3>. QED BY <1>4, <3>1, <3>2
    <2>5. ASSUME NEW x, OwnSlot(x), WriteSlot(k, x) PROVE SlotInv'
      <3>1. \A i \in 1..Len(file') : OwnSlot(file'[i])
        <4>1. CASE k <= Len(file)
          <5>1. file' = [file EXCEPT ![k] = x]
            BY <2>5, <4>1 DEF WriteSlot, PutSlot
          <5>2. Len(file') = Len(file) /\ \A i \in 1..Len(file) : file'[i] \in {x, file[i]}
            BY <1>n, <5>1
          <5>. QED BY <1>f, <2>5, <5>2
        <4>2. CASE ~(k <= Len(file))
          <5>1. file' = Append(file, x)
            BY <2>5, <4>2 DEF WriteSlot, PutSlot
          <5>2. /\ Len(file') = Len(file) + 1 /\ file'[Len(file) + 1] = x
                /\ \A i \in 1..Len(file) : file'[i] = file[i]
            BY <1>n, <5>1
          <5>. QED BY <1>n, <1>f, <2>5, <5>2
        <4>. QED BY <4>1, <4>2
      <3>2. \A i \in 1..Len(disk') : OwnSlot(disk'[i])
        <4>1. \/ disk' = disk
              \/ Len(disk) > Len(file) /\ disk' = SubSeq(disk, 1, Len(file))
          BY <2>5 DEF WriteSlot
        <4>2. CASE Len(disk) > Len(file) /\ disk' = SubSeq(disk, 1, Len(file))
          <5>1. Len(disk') = Len(file) /\ \A i \in 1..Len(file) : i \in 1..Len(disk) /\ disk'[i] = disk[i]
            BY <1>n, <4>2
          <5>. QED BY <1>f, <5>1
        <4>. QED BY <1>f, <4>1, <4>2
      <3>. QED BY <3>1, <3>2 DEF SlotInv
    <2>. QED BY <1>1, <2>4, <2>5 DEF wal
  <1>5. ASSUME PowerLoss, WrittenBack PROVE SlotInv'
    <2>1. PICK n \in Len(disk)..Len(file) \cup Len(file)..Len(disk),
               kept \in SUBSET (dirty \ {0}) :
            \E torn \in SUBSET kept : file' = Survivors(n, kept, torn)
      BY <1>5 DEF WrittenBack
    <2>2. disk' = file' /\ n \in Nat
      BY <1>n, <1>5 DEF PowerLoss
    <2>3. PICK torn \in SUBSET kept : file' = Survivors(n, kept, torn)
      BY <2>1
    <2>4. \A i \in 1..n : \/ i \in kept /\ file'[i] = file[i]
                          \/ i <= Len(disk) /\ file'[i] = disk[i]
                          \/ file'[i] = Torn
      BY <2>3 DEF Survivors
    <2>5. \A i \in kept : i <= Len(file)
      BY <1>0 DEF FileInv
    <2>6. Len(file') = n
      BY <2>2, <2>3 DEF Survivors
    <2>7. \A i \in 1..Len(file') : OwnSlot(file'[i])
      BY <1>n, <1>t, <1>f, <2>2, <2>4, <2>5, <2>6
    <2>. QED BY <2>2, <2>7 DEF SlotInv
  <1>6. ASSUME NEW p \in Procs, ProcStep(p) PROVE SlotInv'
    <2>1. CASE UNCHANGED vars
      BY <1>1, <2>1 DEF vars, wal
    <2>2. CASE CallStep(p) \/ ClientStep(p) \/ OpenFails(p) \/ Crash(p)
      BY <1>1, <1>2, <1>3, <1>4, <2>2, WalSteps
    <2>. QED BY <1>0, <1>6, <2>1, <2>2, ProcStepIsStore
  <1>7. UNCHANGED allVars => SlotInv'
    BY <1>1 DEF allVars, vars, wal
  <1>8. ASSUME PowerLoss, NameLost PROVE SlotInv'
    <2>1. disk' = file' /\ Len(file') = 0
      BY <1>8 DEF PowerLoss, NameLost
    <2>. QED BY <2>1 DEF SlotInv
  <1>. QED BY <1>5, <1>6, <1>7, <1>8 DEF HostNext, ProcStep, HostPowerLoss, PowerLoss

-----------------------------------------------------------------------------
(***************************************************************************)
(* A receipt is about one whole batch                                      *)
(***************************************************************************)

\* The end of a log that has every key of it gives the table of the whole.
LEMMA SuffixReflects ==
    ASSUME NEW s \in Seq(Slot), NEW m \in Table, Reflects(m, s), NEW b \in Nat, NEW c \in Nat, b + c = Len(s),
           NEW e \in [1..c -> Slot], \A j \in 1..c : e[j] = s[b + j],
           \A i \in 1..Len(s) : \E j \in 1..c : e[j].key = s[i].key
    PROVE  Reflects(m, e)
  <1>0. DOMAIN s = 1..Len(s) /\ Len(s) \in Nat
    OBVIOUS
  <1>1. ASSUME NEW k \in Keys
        PROVE  \/ m[k] = Absent /\ \A i \in DOMAIN e : e[i].key # k
               \/ \E i \in DOMAIN e :
                     /\ e[i] = [key |-> k, val |-> m[k]]
                     /\ \A j \in DOMAIN e : j > i => e[j].key # k
    <2>1. CASE m[k] = Absent /\ \A i \in DOMAIN s : s[i].key # k
      <3>1. \A j \in 1..c : b + j \in 1..Len(s)
        BY <1>0
      <3>2. ASSUME NEW j \in 1..c PROVE e[j].key # k
        <4>1. s[b + j].key # k /\ e[j] = s[b + j]
          BY <1>0, <2>1, <3>1
        <4>. QED BY <4>1
      <3>. QED BY <2>1, <3>2
    <2>2. ASSUME NEW i \in DOMAIN s, s[i] = [key |-> k, val |-> m[k]],
                 \A j \in DOMAIN s : j > i => s[j].key # k
          PROVE  \E l \in DOMAIN e :
                     /\ e[l] = [key |-> k, val |-> m[k]]
                     /\ \A j \in DOMAIN e : j > l => e[j].key # k
      <3>1. s[i].key = k /\ i \in 1..Len(s)
        BY <1>0, <2>2
      <3>2. PICK j \in 1..c : e[j].key = k
        BY <3>1
      <3>3. b + j \in DOMAIN s /\ s[b + j].key = k
        BY <1>0, <3>2
      <3>4. ~(b + j > i)
        BY <2>2, <3>3
      <3>5. i - b \in 1..c /\ b + (i - b) = i
        BY <1>0, <3>1, <3>4
      <3>6. e[i - b] = [key |-> k, val |-> m[k]]
        BY <2>2, <3>5
      <3>7. ASSUME NEW l \in 1..c, l > i - b PROVE e[l].key # k
        <4>1. b + l \in DOMAIN s /\ b + l > i
          BY <1>0, <3>5, <3>7
        <4>. QED BY <2>2, <4>1
      <3>. QED BY <3>5, <3>6, <3>7
    <2>. QED BY <2>1, <2>2 DEF Reflects
  <1>. QED BY <1>1 DEF Reflects

\* The key of a PUT does not depend on the engine.
PutKey(n, i) == IF i = 1 THEN <<"acc", Swaps[n].user>>
                ELSE IF i = 2 THEN <<"pool", "amm">> ELSE <<"tx", n>>

LEMMA PutsKey ==
    ASSUME NEW n, NEW x, NEW i \in 1..3
    PROVE  Puts(n, x)[i].key = PutKey(n, i)
  <1>1. i = 1 \/ i = 2 \/ i = 3
    OBVIOUS
  <1>2. CASE i = 1
    <2>1. Puts(n, x)[i] = [key |-> <<"acc", Swaps[n].user>>, val |-> [out |-> x]]
      BY <1>2, PutsParts
    <2>. QED BY <1>2, <2>1 DEF PutKey
  <1>3. CASE i = 2
    <2>1. Puts(n, x)[i] = [key |-> <<"pool", "amm">>, val |-> PoolValue(n)]
      BY <1>3, PutsParts
    <2>. QED BY <1>3, <2>1 DEF PutKey
  <1>4. CASE i = 3
    <2>1. Puts(n, x)[i] = [key |-> <<"tx", n>>, val |-> [out |-> x, status |-> Status(x)]]
      BY <1>4, PutsParts
    <2>. QED BY <1>4, <2>1 DEF PutKey
  <1>. QED BY <1>1, <1>2, <1>3, <1>4

LEMMA WholeBatch ==
    ASSUME StoreHolds, RunInv, SlotInv, NEW p \in Procs, at[p] \in {"checkpoint", "receipt", "print"}
    PROVE  /\ t[p] = Len(Swaps) /\ Reflects(mem[p], Log(p))
           /\ Reflects(mem[p], Batch(img[p]))
  <1>0. StructInv /\ TypeOK /\ CursorInv /\ ValidInv /\ MemtableOf(p) /\ RunOf(p) /\ HostTypes
    BY DEF StoreHolds, StructInv, MemtableHolds, RunInv
  <1>1. /\ t[p] = Len(Swaps) /\ staged[p] = <<>> /\ freed[p] = 0
        /\ pc[p] \in {"open", "chkWrite", "chkDir"}
    BY <1>0 DEF RunOf, PlaceOf, PcOf, Checkpointing
  <1>2. Len(Swaps) \in Nat /\ DOMAIN Swaps = 1..Len(Swaps)
    BY HostAssumption
  <1>3. /\ file \in Seq(Slot) /\ walSize[p] \in Nat /\ Len(file) \in Nat /\ walSize[p] <= Len(file)
    BY <1>0, Numbers DEF TypeOK, CursorInv
  <1>4. /\ Log(p) \in Seq(Slot) /\ Len(Log(p)) = walSize[p]
        /\ \A i \in 1..walSize[p] : Log(p)[i] = file[i]
    BY <1>3 DEF Log
  <1>5. Reflects(mem[p], Log(p))
    <2>1. Reflects(mem[p], Log(p) \o Pending(p))
      BY <1>0, <1>1 DEF MemtableOf, Live, Checkpointing
    <2>2. Len(staged[p]) = 0
      BY <1>1
    <2>. QED BY <1>0, <1>1, <2>1, <2>2, Queues DEF QueueFacts
  <1>. DEFINE c == 3 * Len(Swaps)
              b == walSize[p] - c
              e == Batch(img[p])
  <1>6. /\ c <= walSize[p] /\ b \in Nat /\ c \in Nat
        /\ \A n \in 1..Len(Swaps), i \in 1..3 : file[b + 3 * (n - 1) + i] = Puts(n, img[p][n])[i]
    BY <1>0, <1>1, <1>2, <1>3 DEF RunOf, RunTail, Settled
  <1>7. DOMAIN e = 1..c
    BY DEF Batch
  <1>8. ASSUME NEW n \in 1..Len(Swaps), NEW i \in 1..3, NEW j \in 1..c, j = 3 * (n - 1) + i
        PROVE  e[j] = Puts(n, img[p][n])[i]
    <2>1. (j - 1) \div 3 + 1 = n /\ ((j - 1) % 3) + 1 = i
      BY <1>2, <1>8
    <2>. QED BY <2>1 DEF Batch
  <1>. HIDE DEF e, b
  <1>9. ASSUME NEW j \in 1..c PROVE e[j] = Log(p)[b + j]
    <2>1. PICK n \in 1..Len(Swaps), i \in 1..3 : j = 3 * (n - 1) + i
      <3>1. (j - 1) \div 3 + 1 \in 1..Len(Swaps) /\ ((j - 1) % 3) + 1 \in 1..3
        BY <1>2
      <3>2. j = 3 * (((j - 1) \div 3 + 1) - 1) + (((j - 1) % 3) + 1)
        BY <1>2
      <3>. QED BY <3>1, <3>2
    <2>2. e[j] = file[b + j]
      <3>1. b + 3 * (n - 1) + i = b + j
        BY <1>2, <1>6, <2>1
      <3>. QED BY <1>6, <1>8, <2>1, <3>1
    <2>3. b + j \in 1..walSize[p]
      <3>1. b + c = walSize[p] /\ c \in Nat /\ b \in Nat
        BY <1>2, <1>3, <1>6 DEF b
      <3>. HIDE DEF c
      <3>. QED BY <1>3, <3>1
    <2>. QED BY <1>4, <2>2, <2>3
  <1>10. ASSUME NEW i \in 1..walSize[p] PROVE \E j \in 1..c : e[j].key = Log(p)[i].key
    <2>1. file[i] \in Frame
      BY <1>0, <1>1 DEF ValidInv, Relied
    <2>2. i \in 1..Len(file) /\ file[i] # Torn
      BY <1>3, <2>1, ConstantsAssumption
    <2>3. PICK image \in Images, n \in DOMAIN Swaps, k \in 1..3 : file[i] = Puts(n, image[n])[k]
      BY <2>2 DEF SlotInv, OwnSlot
    <2>4. PICK j : j = 3 * (n - 1) + k
      OBVIOUS
    <2>5. j \in 1..c
      BY <1>2, <2>4
    <2>6. e[j] = Puts(n, img[p][n])[k]
      BY <1>2, <1>8, <2>4, <2>5
    <2>7. e[j].key = PutKey(n, k) /\ file[i].key = PutKey(n, k)
      BY <2>3, <2>6, PutsKey
    <2>. QED BY <1>4, <2>5, <2>7
  <1>11. b + c = Len(Log(p))
    BY <1>2, <1>3, <1>4 DEF b
  <1>12. Reflects(mem[p], e)
    <2>1. \A j \in 1..c : e[j] = Log(p)[b + j]
      BY <1>9
    <2>2. \A i \in 1..Len(Log(p)) : \E j \in 1..c : e[j].key = Log(p)[i].key
      BY <1>4, <1>10
    <2>3. PICK s \in Seq(Slot) : s = Log(p)
      BY <1>4
    <2>4. PICK m \in Table : m = mem[p]
      BY <1>0 DEF TypeOK
    <2>5. /\ Reflects(m, s) /\ b + c = Len(s) /\ \A j \in 1..c : e[j] = s[b + j]
          /\ \A i \in 1..Len(s) : \E j \in 1..c : e[j].key = s[i].key
      BY <1>5, <1>11, <2>1, <2>2, <2>3, <2>4
    <2>. HIDE DEF c
    <2>6. e \in [1..c -> Slot]
      <3>1. \A j \in 1..c : b + j \in 1..Len(s)
        BY <1>6, <2>5
      <3>2. \A j \in 1..c : e[j] \in Slot
        BY <2>5, <3>1
      <3>3. e = [j \in 1..c |-> e[j]]
        BY <1>7 DEF e, Batch
      <3>. QED BY <3>2, <3>3
    <2>7. Reflects(m, e)
      BY <1>6, <2>5, <2>6, SuffixReflects
    <2>. QED BY <2>4, <2>7
  <1>. QED BY <1>1, <1>5, <1>12 DEF e

\* A receipt is one there was, none, or the one just printed.
LEMMA NewReceipt ==
    ASSUME [HostNext]_allVars, NEW r \in Receipts'
    PROVE  \/ r \in Receipts
           \/ \E p \in Procs : PrintReceipt(p) /\ r = receipt' /\ r # NoReceipt
  <1>0. r \in {receipt', receiptDisk'} /\ r # NoReceipt
    BY DEF Receipts
  <1>1. \/ receipt' \in {receipt, receiptDisk, NoReceipt} /\ receiptDisk' \in {receipt, receiptDisk, NoReceipt}
        \/ \E p \in Procs : PrintReceipt(p) /\ receiptDisk' = receiptDisk
    BY DEF HostNext, HostStart, InCall, SettleSwap, Put, Commit, CheckpointBatch, OpenReceipt,
           PrintReceipt, HostClose, HostCrash, HostPowerLoss, allVars, hostVars
  <1>. QED BY <1>0, <1>1 DEF Receipts

LEMMA ReceiptNext ==
    ASSUME StoreHolds, RunInv, SlotInv, ReceiptIsWholeBatch, [HostNext]_allVars
    PROVE  ReceiptIsWholeBatch'
  <1>. SUFFICES ASSUME NEW r \in Receipts'
                PROVE  r.txs = Len(Swaps) /\ Reflects(r.root, Batch(r.img))
    BY DEF ReceiptIsWholeBatch
  <1>1. CASE r \in Receipts
    BY <1>1 DEF ReceiptIsWholeBatch
  <1>2. ASSUME NEW p \in Procs, PrintReceipt(p), r = receipt', r # NoReceipt
        PROVE  r.txs = Len(Swaps) /\ Reflects(r.root, Batch(r.img))
    <2>1. at[p] = "print" /\ r = [img |-> img[p], txs |-> t[p], root |-> mem[p], frames |-> frames[p]]
      BY <1>2 DEF PrintReceipt
    <2>2. r.img = img[p] /\ r.txs = t[p] /\ r.root = mem[p]
      BY <2>1
    <2>3. t[p] = Len(Swaps) /\ Reflects(mem[p], Batch(img[p]))
      BY <2>1, WholeBatch
    <2>. QED BY <2>2, <2>3
  <1>. QED BY <1>1, <1>2, NewReceipt

-----------------------------------------------------------------------------
(***************************************************************************)
(* What a receipt attests stays on the medium                              *)
(***************************************************************************)

Attesting == {"checkpoint", "receipt", "print"}

\* From the checkpoint on the log of the handle is protected, and so is the part
\* of the log that a receipt speaks of.
AttestHolds ==
    /\ \A p \in Procs : at[p] \in Attesting => Protected(walSize[p])
    /\ \A r \in Receipts :
         /\ r.frames \in Nat /\ Protected(r.frames)
         /\ Reflects(r.root, SubSeq(file, 1, r.frames))

AttestInv == ReliableMedium => AttestHolds

\* A host gets there only through the sync its checkpoint begins with.
LEMMA AttestPlaces ==
    ASSUME StructInv, RunInv, [HostNext]_allVars, NEW p \in Procs, at'[p] \in Attesting
    PROVE  \/ at[p] \in Attesting /\ walSize'[p] = walSize[p]
           \/ CheckpointBatch(p) /\ pc'[p] = "chkWrite"
  <1>0. HostTypes /\ RunOf(p) /\ TypeOK
    BY DEF RunInv, StructInv
  <1>1. ASSUME NEW q \in Procs, ProcStep(q)
        PROVE  \/ at[p] \in Attesting /\ walSize'[p] = walSize[p]
               \/ CheckpointBatch(p) /\ pc'[p] = "chkWrite"
    <2>1. q = p
      BY <1>1, OthersOff DEF Attesting
    <2>2. CASE HostStart(p) \/ SettleSwap(p) \/ Put(p) \/ Commit(p) \/ HostClose(p) \/ HostCrash(p)
      <3>1. at'[p] \in {"opening", "put", "fail", "staged", "commit", "off"}
        BY <1>0, <2>2 DEF HostStart, SettleSwap, Put, Commit, HostClose, HostCrash, Gone, AtIs, HostTypes
      <3>. QED BY <3>1 DEF Attesting
    <2>3. CASE InCall(p)
      <3>1. /\ at[p] \in {"opening", "commit", "checkpoint"} /\ pc[p] \in PcOf(at[p])
            /\ CallStep(p) \/ OpenFails(p)
            /\ at'[p] \in {"off", Answer(p)}
        BY <2>3, CallPlaces
      <3>2. at[p] = "checkpoint"
        BY <3>1 DEF Answer, Attesting
      <3>3. CheckpointRename(p) \/ CheckpointDirSync(p)
        BY <3>1, <3>2 DEF PcOf, CallStep, OpenCorrupt, WriteHeader, WriteHeaderShort, SyncHeader,
                ReadHeader, ReplayFrame, ReplayTruncate, ReplayDone, VerifyCheckpoint, CommitWrite,
                CommitFails, CommitPublish, CommitSync, OpenFails, Opening, Checkpointing
      <3>4. walSize' = walSize
        BY <3>3 DEF CheckpointRename, CheckpointDirSync, handle
      <3>. QED BY <3>2, <3>4 DEF Attesting
    <2>4. CASE CheckpointBatch(p)
      <3>1. at'[p] = IF pc'[p] = "chkWrite" THEN "checkpoint" ELSE "fail"
        BY <1>0, <2>4 DEF CheckpointBatch, AtIs, HostTypes, RunOf, PlaceOf, PcOf, vars
      <3>. QED BY <2>4, <3>1 DEF Attesting
    <2>5. CASE OpenReceipt(p) \/ PrintReceipt(p)
      BY <2>5 DEF OpenReceipt, PrintReceipt, Attesting, vars, handle
    <2>. QED BY <1>1, <2>1, <2>2, <2>3, <2>4, <2>5 DEF ProcStep
  <1>2. ~HostPowerLoss
    BY DEF HostPowerLoss, Attesting
  <1>3. CASE UNCHANGED allVars
    BY <1>3 DEF allVars, hostVars, vars, handle
  <1>. QED BY <1>1, <1>2, <1>3 DEF HostNext, ProcStep

LEMMA AttestNext ==
    ASSUME StoreHolds, StoreHolds', RunInv, SlotInv, AttestHolds, ReliableMedium, [HostNext]_allVars
    PROVE  AttestHolds'
  <1>0. /\ StructInv /\ StructInv' /\ ValidInv' /\ SyncedInv /\ TypeOK /\ TypeOK' /\ CursorInv
        /\ CursorInv' /\ FileInv /\ LockExclusion' /\ [Next]_vars
    BY HostStepIsStore DEF StoreHolds, DurableInv, StructInv
  <1>n. \A p \in Procs : walSize[p] \in Nat /\ walSize'[p] \in Nat
    BY <1>0 DEF TypeOK
  <1>k. ASSUME NEW n \in Nat, Protected(n)
        PROVE  Protected(n)' /\ SubSeq(file', 1, n) = SubSeq(file, 1, n)
    <2>1. Protected(n)' /\ \A i \in 1..n : file'[i] = file[i]
      BY <1>0, <1>k, ProtectedNext
    <2>2. /\ file \in Seq(Slot) /\ file' \in Seq(Slot)
          /\ n <= Len(file) /\ n <= Len(file')
      BY <1>0, <1>k, <2>1 DEF TypeOK, Protected
    <2>. QED BY <2>1, <2>2, SamePrefix
  <1>1. ASSUME NEW p \in Procs, at'[p] \in Attesting PROVE Protected(walSize[p])'
    <2>1. PICK n \in Nat : n = walSize'[p]
      BY <1>n
    <2>2. Protected(n)'
      <3>1. CASE at[p] \in Attesting /\ walSize'[p] = walSize[p]
        BY <1>k, <2>1, <3>1 DEF AttestHolds
      <3>2. CASE CheckpointBatch(p) /\ pc'[p] = "chkWrite"
        <4>1. SyncOk
          <5>1. pc[p] = "open"
            BY <3>2 DEF CheckpointBatch, RunInv, RunOf, PlaceOf, PcOf
          <5>2. CheckpointSync(p)
            BY <3>2, <5>1 DEF CheckpointBatch, vars
          <5>. QED BY <3>2, <5>1, <5>2 DEF CheckpointSync
        <4>2. dirty' = {}
          BY <1>0, <4>1, FlushTypes DEF SyncOk, ReliableMedium
        <4>3. hdr' = "ok" /\ \A i \in 1..n : file'[i] \in Frame
          BY <1>0, <2>1, <3>2 DEF ValidInv, Relied
        <4>4. n <= Len(file')
          BY <1>0, <2>1 DEF CursorInv
        <4>5. \A q \in Procs : q # p => pc'[q] = "idle"
          <5>1. pc'[p] # "idle"
            BY <3>2
          <5>. QED BY <1>0, <5>1 DEF LockExclusion
        <4>6. \A q \in Procs : /\ pc'[q] # "header"
                               /\ pc'[q] \in Live \cup {"verify"} => n <= walSize'[q]
          BY <2>1, <3>2, <4>5 DEF Live, Committing, Checkpointing
        <4>. QED BY <4>2, <4>3, <4>4, <4>6 DEF Protected
      <3>. QED BY <1>0, <1>1, <3>1, <3>2, AttestPlaces
    <2>. QED BY <2>1, <2>2 DEF Protected
  <1>2. ASSUME NEW r \in Receipts'
        PROVE  /\ r.frames \in Nat /\ Protected(r.frames)'
               /\ Reflects(r.root, SubSeq(file', 1, r.frames))
    <2>1. CASE r \in Receipts
      <3>1. PICK n \in Nat : n = r.frames
        BY <2>1 DEF AttestHolds
      <3>2. Protected(n) /\ Reflects(r.root, SubSeq(file, 1, n))
        BY <2>1, <3>1 DEF AttestHolds
      <3>3. Protected(n)' /\ SubSeq(file', 1, n) = SubSeq(file, 1, n)
        BY <1>k, <3>2
      <3>. QED BY <3>1, <3>2, <3>3 DEF Protected
    <2>2. ASSUME NEW p \in Procs, PrintReceipt(p), r = receipt', r # NoReceipt
          PROVE  /\ r.frames \in Nat /\ Protected(r.frames)'
                 /\ Reflects(r.root, SubSeq(file', 1, r.frames))
      <3>1. /\ at[p] = "print" /\ UNCHANGED vars
            /\ r = [img |-> img[p], txs |-> t[p], root |-> mem[p], frames |-> frames[p]]
        BY <2>2 DEF PrintReceipt
      <3>2. PICK n \in Nat : n = walSize[p]
        BY <1>n
      <3>3. r.root = mem[p] /\ r.frames = n
        BY <1>0, <3>1, <3>2 DEF CursorInv
      <3>4. Reflects(mem[p], SubSeq(file, 1, n))
        BY <3>1, <3>2, WholeBatch DEF Log
      <3>5. Protected(n)
        BY <3>1, <3>2 DEF AttestHolds, Attesting
      <3>6. Protected(n)' /\ SubSeq(file', 1, n) = SubSeq(file, 1, n)
        BY <1>k, <3>5
      <3>. QED BY <3>3, <3>4, <3>6 DEF Protected
    <2>. QED BY <2>1, <2>2, NewReceipt
  <1>3. \A p \in Procs : at'[p] \in Attesting => Protected(walSize[p])'
    BY <1>1
  <1>. QED BY <1>2, <1>3 DEF AttestHolds

LEMMA AttestedOnMedium ==
    ASSUME StructInv, ReliableMedium => SyncedInv, AttestInv
    PROVE  AttestedIsDurable
  <1>. SUFFICES ASSUME SyncedInv, AttestHolds, ReliableMedium, NEW r \in Receipts
                PROVE  /\ walName = "durable" /\ hdrDisk = "ok" /\ r.frames <= Len(disk)
                       /\ \A i \in 1..r.frames : disk[i] # Torn
                       /\ Reflects(r.root, SubSeq(disk, 1, r.frames))
    BY DEF AttestedIsDurable, AttestInv
  <1>0. walName = "durable"
    BY DEF StructInv, FileInv, ReliableMedium
  <1>1. PICK n \in Nat : n = r.frames
    BY DEF AttestHolds
  <1>2. Protected(n) /\ Reflects(r.root, SubSeq(file, 1, n))
    BY <1>1 DEF AttestHolds
  <1>3. /\ Len(file) \in Nat /\ Len(disk) \in Nat /\ n <= Len(file)
        /\ file \in Seq(Slot) /\ disk \in Seq(Slot)
    BY <1>2, Numbers DEF StructInv, TypeOK, Protected
  <1>4. hdrDisk = "ok"
    BY <1>2 DEF Protected, SyncedInv
  <1>5. \A i \in 1..n : i <= Len(disk) /\ disk[i] = file[i] /\ file[i] \in Frame
    BY <1>2, <1>3 DEF Protected, SyncedInv
  <1>6. n <= Len(disk)
    <2>1. n = 0 \/ n \in 1..n
      OBVIOUS
    <2>. QED BY <1>3, <1>5, <2>1
  <1>7. SubSeq(disk, 1, n) = SubSeq(file, 1, n)
    BY <1>3, <1>5, <1>6, SamePrefix
  <1>8. \A i \in 1..n : disk[i] # Torn
    BY <1>5, ConstantsAssumption
  <1>. QED BY <1>0, <1>1, <1>2, <1>4, <1>6, <1>7, <1>8

-----------------------------------------------------------------------------
(***************************************************************************)
(* The record of a swap comes last                                         *)
(***************************************************************************)

\* Before the record of a swap in slot i there are its account entry and the
\* records of all swaps before it.
Recorded(i) ==
    \A n \in DOMAIN Swaps : file[i].key = <<"tx", n>> =>
        /\ \E j \in 1..i - 1 : file[j].key = <<"acc", Swaps[n].user>>
        /\ \A k \in 1..n - 1 : \E j \in 1..i - 1 : file[j].key = <<"tx", k>>

\* It is so in every part of the log that a replay would accept.
OrderHolds ==
    \A i \in 1..Len(file) : (\A j \in 1..i : file[j] # Torn) => Recorded(i)

LEMMA TxPut ==
    ASSUME NEW m \in DOMAIN Swaps, NEW x, NEW i \in 1..3, NEW n \in DOMAIN Swaps,
           Puts(m, x)[i].key = <<"tx", n>>
    PROVE  i = 3 /\ m = n
  <1>1. PutKey(m, i) = <<"tx", n>>
    BY PutsKey
  <1>. QED BY <1>1 DEF PutKey

LEMMA AccPut ==
    ASSUME NEW m \in DOMAIN Swaps, NEW x, NEW i \in 1..3, NEW n \in DOMAIN Swaps,
           Puts(m, x)[i].key = <<"acc", Swaps[n].user>>
    PROVE  i = 1 /\ m = n
  <1>1. PutKey(m, i) = <<"acc", Swaps[n].user>>
    BY PutsKey
  <1>2. i = 1 /\ Swaps[m].user = Swaps[n].user
    BY <1>1 DEF PutKey
  <1>. QED BY <1>2, HostAssumption

\* What this run has committed has its records in the log.
LEMMA EarlierTxs ==
    ASSUME StructInv, RunInv, NEW p \in Procs, freed[p] = 0, NEW k \in 1..t[p]
    PROVE  \E j \in 1..walSize[p] : file[j].key = <<"tx", k>>
  <1>0. walSize[p] \in Nat /\ t[p] \in Nat /\ RunOf(p)
    BY Numbers DEF StructInv, RunInv, HostTypes
  <1>1. PICK d \in Nat : d = t[p]
    BY <1>0
  <1>2. RunTail(p, d)
    BY <1>0, <1>1 DEF RunOf, Settled
  <1>3. PICK j : j = walSize[p] - 3 * d + 3 * (k - 1) + 3
    OBVIOUS
  <1>4. j \in 1..walSize[p]
    BY <1>0, <1>1, <1>2, <1>3 DEF RunTail
  <1>5. file[j] = Puts(k, img[p][k])[3]
    BY <1>1, <1>2, <1>3 DEF RunTail
  <1>6. Puts(k, img[p][k])[3].key = <<"tx", k>>
    BY PutsKey DEF PutKey
  <1>. QED BY <1>4, <1>5, <1>6

\* What stays of the beginning of the log stays in order.
LEMMA OrderKept ==
    ASSUME OrderHolds, Len(file) \in Nat, NEW m \in Nat, m <= Len(file),
           \A j \in 1..m : file'[j] = file[j],
           NEW i \in 1..m, \A j \in 1..i : file'[j] # Torn
    PROVE  Recorded(i)'
  <1>1. i \in 1..Len(file) /\ \A j \in 1..i : j \in 1..m
    OBVIOUS
  <1>2. Recorded(i)
    BY <1>1 DEF OrderHolds
  <1>3. file'[i] = file[i] /\ \A j \in 1..i - 1 : file'[j] = file[j]
    BY <1>1
  <1>. QED BY <1>2, <1>3 DEF Recorded

\* The frame a commit adds is in order.
LEMMA OrderCommit ==
    ASSUME StoreHolds, StoreHolds', ReliableMedium, RunInv, OrderHolds,
           NEW p \in Procs, CommitWrite(p) \/ CommitFails(p)
    PROVE  OrderHolds'
  <1>0. /\ StructInv /\ TypeOK /\ ValidInv /\ MemtableHolds /\ TailHolds /\ TypeOK' /\ CursorInv
        /\ HostTypes
    BY DEF StoreHolds, StructInv, RunInv
  <1>n. /\ Len(file) \in Nat /\ Len(file') \in Nat /\ walSize[p] \in Nat /\ cursor[p] \in Nat
        /\ t[p] \in Nat
    <2>1. file \in Seq(Slot) /\ file' \in Seq(Slot)
      BY <1>0 DEF TypeOK
    <2>. QED BY <1>0, <2>1, Numbers DEF HostTypes
  <1>1. PICK k \in Nat : k = walSize[p] + cursor[p] + 1
    BY <1>n
  <1>2. ASSUME file' = file PROVE OrderHolds'
    BY <1>2 DEF OrderHolds, Recorded
  <1>3. \A i \in 1..k - 1 : i <= Len(file) /\ file[i] \in Frame /\ file'[i] = file[i]
    BY <1>0, <1>1, CommitEffect
  <1>w. /\ pc[p] = "commit" /\ freed[p] = 0 /\ cursor[p] \in 0..2 /\ t[p] + 1 \in DOMAIN Swaps
        /\ staged[p][cursor[p] + 1] = Puts(t[p] + 1, img[p][t[p] + 1])[cursor[p] + 1]
        /\ \A i \in 1..3 : staged[p][i] = Puts(t[p] + 1, img[p][t[p] + 1])[i]
    BY HostWrites
  <1>4. ASSUME k = Len(file'), file'[k] \in {staged[p][cursor[p] + 1], Torn} PROVE OrderHolds'
    <2>. SUFFICES ASSUME NEW i \in 1..Len(file'), \A j \in 1..i : file'[j] # Torn
                  PROVE  Recorded(i)'
      BY DEF OrderHolds
    <2>1. CASE i \in 1..k - 1
      <3>1. k - 1 \in Nat /\ k - 1 <= Len(file)
        <4>1. k - 1 \in 1..k - 1
          BY <1>1, <1>n, <2>1
        <4>. QED BY <1>1, <1>3, <1>n, <4>1
      <3>2. PICK m \in Nat : m = k - 1
        BY <3>1
      <3>. QED BY <1>n, <1>3, <2>1, <3>1, <3>2, OrderKept
    <2>2. CASE i = k
      <3>1. file'[k] = staged[p][cursor[p] + 1]
        <4>1. k \in 1..k
          BY <1>n, <1>1
        <4>. QED BY <1>4, <2>2, <4>1
      <3>. SUFFICES ASSUME NEW n \in DOMAIN Swaps, file'[k].key = <<"tx", n>>
                    PROVE  /\ \E j \in 1..k - 1 : file'[j].key = <<"acc", Swaps[n].user>>
                           /\ \A l \in 1..n - 1 : \E j \in 1..k - 1 : file'[j].key = <<"tx", l>>
        BY <2>2 DEF Recorded
      <3>2. cursor[p] + 1 = 3 /\ t[p] + 1 = n
        <4>1. cursor[p] + 1 \in 1..3
          BY <1>w
        <4>2. Puts(t[p] + 1, img[p][t[p] + 1])[cursor[p] + 1].key = <<"tx", n>>
          BY <1>w, <3>1
        <4>. QED BY <1>w, <4>1, <4>2, TxPut
      <3>3. walSize[p] + 1 \in 1..k - 1 /\ \A j \in 1..walSize[p] : j \in 1..k - 1
        BY <1>n, <1>1, <3>2
      <3>4. file[walSize[p] + 1] = staged[p][1]
        <4>1. 1 \in 1..cursor[p]
          BY <1>n, <3>2
        <4>. QED BY <1>0, <1>w, <4>1 DEF MemtableHolds, MemtableOf
      <3>5. staged[p][1].key = <<"acc", Swaps[n].user>>
        <4>1. staged[p][1] = Puts(n, img[p][n])[1]
          BY <1>w, <3>2
        <4>2. Puts(n, img[p][n])[1].key = <<"acc", Swaps[n].user>>
          BY PutsKey DEF PutKey
        <4>. QED BY <4>1, <4>2
      <3>6. \E j \in 1..k - 1 : file'[j].key = <<"acc", Swaps[n].user>>
        BY <1>3, <3>3, <3>4, <3>5
      <3>7. ASSUME NEW l \in 1..n - 1
            PROVE  \E j \in 1..k - 1 : file'[j].key = <<"tx", l>>
        <4>1. l \in 1..t[p]
          BY <1>n, <3>2
        <4>2. PICK j \in 1..walSize[p] : file[j].key = <<"tx", l>>
          BY <1>0, <1>w, <4>1, EarlierTxs
        <4>. QED BY <1>3, <3>3, <4>2
      <3>. QED BY <3>6, <3>7
    <2>. QED BY <1>4, <1>1, <1>n, <2>1, <2>2
  <1>5. \/ file' = file
        \/ k = Len(file') /\ file'[k] \in {staged[p][cursor[p] + 1], Torn}
    BY <1>0, <1>1, CommitEffect DEF wal
  <1>. QED BY <1>2, <1>4, <1>5

LEMMA OrderNext ==
    ASSUME StoreHolds, StoreHolds', ReliableMedium, RunInv, OrderHolds, [HostNext]_allVars
    PROVE  OrderHolds'
  <1>0. StructInv /\ StructInv' /\ TypeOK /\ FileInv /\ TypeOK' /\ ImageHolds
    BY DEF StoreHolds, StructInv
  <1>n. /\ file \in Seq(Slot) /\ file' \in Seq(Slot) /\ Len(file) \in Nat /\ Len(file') \in Nat
    <2>1. file \in Seq(Slot) /\ file' \in Seq(Slot)
      BY <1>0 DEF TypeOK
    <2>. QED BY <2>1
  <1>1. ASSUME file' = file PROVE OrderHolds'
    BY <1>1 DEF OrderHolds, Recorded
  <1>2. ASSUME NEW p \in Procs, ReplayTruncate(p) PROVE OrderHolds'
    <2>1. file' = SubSeq(file, 1, cursor[p]) /\ cursor[p] < Len(file) /\ cursor[p] \in Nat
      BY <1>0, <1>2, Numbers DEF ReplayTruncate, Truncate
    <2>2. PICK m \in Nat : m = cursor[p]
      BY <2>1
    <2>3. Len(file') = m /\ m <= Len(file) /\ \A j \in 1..m : file'[j] = file[j]
      BY <1>n, <2>1, <2>2
    <2>. QED BY <1>n, <2>3, OrderKept DEF OrderHolds
  <1>3. ASSUME PowerLoss PROVE OrderHolds'
    <2>. SUFFICES ASSUME NEW i \in 1..Len(file'), \A j \in 1..i : file'[j] # Torn
                  PROVE  Recorded(i)'
      BY DEF OrderHolds
    <2>1. i \in Nat /\ i \in 1..i /\ i <= Len(file')
      BY <1>n
    <2>2. i <= Len(file) /\ \A j \in 1..i : file'[j] = file[j]
      BY <1>0, <1>3, <2>1, LossKeeps, ReliableLoss
    <2>. QED BY <1>n, <2>1, <2>2, OrderKept
  <1>4. ASSUME NEW p \in Procs, ProcStep(p) PROVE OrderHolds'
    <2>1. CASE UNCHANGED vars
      BY <1>1, <2>1 DEF vars, wal
    <2>2. CASE CallStep(p) \/ ClientStep(p) \/ OpenFails(p) \/ Crash(p)
      <3>1. SyncOk \/ SyncFails => file' = file
        BY <1>0, SyncTypes
      <3>. QED BY <1>1, <1>2, <2>2, <3>1, WalSteps, OrderCommit
    <2>. QED BY <1>0, <1>4, <2>1, <2>2, ProcStepIsStore
  <1>5. CASE HostPowerLoss
    BY <1>3, <1>5 DEF HostPowerLoss
  <1>6. CASE UNCHANGED allVars
    BY <1>1, <1>6 DEF allVars, vars, wal
  <1>. QED BY <1>4, <1>5, <1>6 DEF HostNext, ProcStep

\* What the memtable of an open store reflects: frames of the log, and behind them
\* the beginning of the PUTs of the next swap.
LEMMA Journal ==
    ASSUME StoreHolds, RunInv, NEW p \in Procs, pc[p] \in Live \cup {"verify"}
    PROVE  /\ Log(p) \o Pending(p) \in Seq(Slot)
           /\ \A i \in 1..walSize[p] : (Log(p) \o Pending(p))[i] = file[i] /\ file[i] \in Frame
           /\ \E c \in 0..3 :
                /\ Len(Log(p) \o Pending(p)) = walSize[p] + c
                /\ c > 0 => /\ freed[p] = 0 /\ t[p] + 1 \in DOMAIN Swaps /\ img[p] \in Images
                            /\ Settles(img[p], t[p] + 1)
                /\ \A i \in 1..c : (Log(p) \o Pending(p))[walSize[p] + i]
                                     = Puts(t[p] + 1, img[p][t[p] + 1])[i]
  <1>0. /\ StructInv /\ TypeOK /\ CursorInv /\ ValidInv /\ HostTypes
        /\ PlaceOf(p) /\ QueueOf(p) /\ QueueFacts(p)
    BY Queues DEF StoreHolds, StructInv, RunInv, RunOf
  <1>1. /\ Log(p) \in Seq(Slot) /\ Len(Log(p)) = walSize[p]
        /\ \A i \in 1..walSize[p] : Log(p)[i] = file[i]
    BY <1>0, LogIsSeq
  <1>2. /\ walSize[p] \in Nat /\ cursor[p] \in Nat /\ t[p] \in Nat /\ staged[p] \in Seq(Frame)
        /\ Len(staged[p]) \in Nat
    BY <1>0, Numbers DEF HostTypes
  <1>3. \A i \in 1..walSize[p] : file[i] \in Frame
    <2>1. Relied(p) = walSize[p] \/ Relied(p) = walSize[p] + cursor[p]
      BY DEF Relied, Live, Committing, Checkpointing
    <2>2. \A i \in 1..walSize[p] : i \in 1..Relied(p)
      BY <1>2, <2>1
    <2>. QED BY <1>0, <2>2 DEF ValidInv
  <1>4. PICK s \in Seq(Slot) : s = Log(p) \o Pending(p)
    BY <1>0 DEF QueueFacts
  <1>5. \A i \in 1..walSize[p] : s[i] = file[i]
    BY <1>0, <1>1, <1>4 DEF QueueFacts
  <1>6. CASE freed[p] = Len(staged[p])
    <2>1. s = Log(p)
      BY <1>0, <1>4, <1>6 DEF QueueFacts
    <2>2. Len(s) = walSize[p] + 0 /\ 0 \in 0..3 /\ ~(0 > 0) /\ 1..0 = {}
      BY <1>1, <1>2, <2>1
    <2>3. \E c \in 0..3 :
            /\ Len(s) = walSize[p] + c
            /\ c > 0 => /\ freed[p] = 0 /\ t[p] + 1 \in DOMAIN Swaps /\ img[p] \in Images
                        /\ Settles(img[p], t[p] + 1)
            /\ \A i \in 1..c : s[walSize[p] + i] = Puts(t[p] + 1, img[p][t[p] + 1])[i]
      <3>. WITNESS 0 \in 0..3
      <3>. QED BY <2>2
    <2>. QED BY <1>3, <1>4, <1>5, <2>3
  <1>7. CASE freed[p] = 0 /\ Len(staged[p]) # 0
    <2>1. Pending(p) = staged[p]
      BY <1>0, <1>7 DEF QueueFacts
    <2>2. staged[p] # <<>>
      BY <1>7
    <2>3. /\ t[p] < Len(Swaps) /\ Settles(img[p], t[p] + 1) /\ Len(staged[p]) <= 3
          /\ \A i \in 1..Len(staged[p]) : staged[p][i] = Puts(t[p] + 1, img[p][t[p] + 1])[i]
      BY <1>0, <2>2 DEF QueueOf
    <2>4. img[p] \in Images
      <3>1. at[p] # "off"
        BY <1>0 DEF PlaceOf, PcOf, Live, Committing, Checkpointing
      <3>. QED BY <1>0, <3>1 DEF PlaceOf
    <2>5. t[p] + 1 \in DOMAIN Swaps
      BY <1>2, <2>3, HostAssumption
    <2>6. Pending(p) \in Seq(Slot)
      BY <1>0 DEF QueueFacts
    <2>7. /\ Len(s) = walSize[p] + Len(staged[p])
          /\ \A i \in 1..Len(staged[p]) : s[walSize[p] + i] = staged[p][i]
      <3>1. PICK l \in Seq(Slot), q \in Seq(Slot) : l = Log(p) /\ q = staged[p]
        BY <1>1, <2>1, <2>6
      <3>2. s = l \o q /\ Len(l) = walSize[p] /\ Len(q) = Len(staged[p])
        BY <1>1, <1>4, <2>1, <3>1
      <3>3. /\ Len(l \o q) = Len(l) + Len(q)
            /\ \A i \in 1..Len(q) : (l \o q)[Len(l) + i] = q[i]
        OBVIOUS
      <3>. QED BY <3>1, <3>2, <3>3
    <2>8. Len(staged[p]) \in 0..3
      <3>1. PICK c \in Nat : c = Len(staged[p])
        BY <1>2
      <3>2. c <= 3
        BY <2>3, <3>1
      <3>3. c \in 0..3
        BY <3>2
      <3>. QED BY <3>1, <3>3
    <2>9. \A i \in 1..Len(staged[p]) : s[walSize[p] + i] = Puts(t[p] + 1, img[p][t[p] + 1])[i]
      BY <2>3, <2>7
    <2>. QED BY <1>3, <1>4, <1>5, <1>7, <2>3, <2>4, <2>5, <2>7, <2>8, <2>9
  <1>. QED BY <1>0, <1>6, <1>7 DEF PlaceOf

\* Every entry of it is a PUT of a swap that was settled.
LEMMA JournalPuts ==
    ASSUME StoreHolds, RunInv, SlotInv, NEW p \in Procs, pc[p] \in Live \cup {"verify"},
           NEW i \in 1..Len(Log(p) \o Pending(p))
    PROVE  \E image \in Images, n \in DOMAIN Swaps, l \in 1..3 :
              Settles(image, n) /\ (Log(p) \o Pending(p))[i] = Puts(n, image[n])[l]
  <1>. DEFINE s == Log(p) \o Pending(p)
  <1>1. PICK c \in 0..3 :
          /\ Len(s) = walSize[p] + c
          /\ c > 0 => /\ freed[p] = 0 /\ t[p] + 1 \in DOMAIN Swaps /\ img[p] \in Images
                      /\ Settles(img[p], t[p] + 1)
          /\ \A j \in 1..c : s[walSize[p] + j] = Puts(t[p] + 1, img[p][t[p] + 1])[j]
    BY Journal
  <1>2. \A j \in 1..walSize[p] : s[j] = file[j] /\ file[j] \in Frame
    BY Journal
  <1>. HIDE DEF s
  <1>3. StructInv /\ CursorInv /\ walSize[p] \in Nat /\ Len(file) \in Nat /\ walSize[p] <= Len(file)
    BY Numbers DEF StoreHolds, StructInv, CursorInv
  <1>4. CASE i <= walSize[p]
    <2>1. i \in 1..walSize[p] /\ i \in 1..Len(file)
      BY <1>1, <1>3, <1>4 DEF s
    <2>2. s[i] = file[i] /\ file[i] # Torn
      BY <1>2, <2>1, ConstantsAssumption
    <2>. QED BY <2>1, <2>2 DEF SlotInv, OwnSlot, s
  <1>5. CASE ~(i <= walSize[p])
    <2>1. PICK j \in 1..c : i = walSize[p] + j
      <3>1. i - walSize[p] \in 1..c /\ i = walSize[p] + (i - walSize[p])
        BY <1>1, <1>3, <1>5 DEF s
      <3>. QED BY <3>1
    <2>2. c > 0 /\ j \in 1..3
      BY <2>1
    <2>. QED BY <1>1, <2>1, <2>2 DEF s
  <1>. QED BY <1>4, <1>5

\* With the record of a swap there are its account entry and the records before.
LEMMA JournalOrder ==
    ASSUME StoreHolds, RunInv, OrderHolds, NEW p \in Procs, pc[p] \in Live \cup {"verify"},
           NEW i \in 1..Len(Log(p) \o Pending(p)), NEW n \in DOMAIN Swaps,
           (Log(p) \o Pending(p))[i].key = <<"tx", n>>
    PROVE  /\ \E j \in 1..Len(Log(p) \o Pending(p)) :
                 (Log(p) \o Pending(p))[j].key = <<"acc", Swaps[n].user>>
           /\ \A k \in 1..n - 1 : \E j \in 1..Len(Log(p) \o Pending(p)) :
                 (Log(p) \o Pending(p))[j].key = <<"tx", k>>
  <1>. DEFINE s == Log(p) \o Pending(p)
  <1>1. PICK c \in 0..3 :
          /\ Len(s) = walSize[p] + c
          /\ c > 0 => freed[p] = 0 /\ t[p] + 1 \in DOMAIN Swaps
          /\ \A j \in 1..c : s[walSize[p] + j] = Puts(t[p] + 1, img[p][t[p] + 1])[j]
    BY Journal
  <1>2. \A j \in 1..walSize[p] : s[j] = file[j] /\ file[j] \in Frame
    BY Journal
  <1>3. /\ StructInv /\ CursorInv /\ walSize[p] \in Nat /\ Len(file) \in Nat /\ walSize[p] <= Len(file)
        /\ t[p] \in Nat
    BY Numbers DEF StoreHolds, StructInv, CursorInv, RunInv, HostTypes
  <1>i. i \in 1..Len(s) /\ s[i].key = <<"tx", n>>
    OBVIOUS
  <1>. SUFFICES /\ \E j \in 1..Len(s) : s[j].key = <<"acc", Swaps[n].user>>
                /\ \A k \in 1..n - 1 : \E j \in 1..Len(s) : s[j].key = <<"tx", k>>
    OBVIOUS
  <1>. HIDE DEF s
  <1>l. \A j \in 1..walSize[p] : j \in 1..Len(s) /\ j \in 1..Len(file)
    BY <1>1, <1>3
  <1>4. CASE i <= walSize[p]
    <2>1. i \in 1..walSize[p] /\ i \in 1..Len(file) /\ \A j \in 1..i : j \in 1..walSize[p]
      BY <1>i, <1>1, <1>3, <1>4
    <2>2. Recorded(i)
      BY <1>2, <2>1, ConstantsAssumption DEF OrderHolds
    <2>3. file[i].key = <<"tx", n>>
      BY <1>i, <1>2, <2>1
    <2>4. \A j \in 1..i - 1 : j \in 1..walSize[p]
      BY <1>3, <2>1
    <2>. QED BY <1>2, <1>l, <2>2, <2>3, <2>4 DEF Recorded
  <1>5. CASE ~(i <= walSize[p])
    <2>1. PICK j \in 1..c : i = walSize[p] + j
      <3>1. Len(s) = walSize[p] + c /\ walSize[p] \in Nat /\ i \in 1..Len(s)
        BY <1>i, <1>1, <1>3
      <3>2. i - walSize[p] \in 1..c /\ i = walSize[p] + (i - walSize[p])
        BY <1>5, <3>1
      <3>. QED BY <3>2
    <2>2. c > 0 /\ j \in 1..3 /\ 1 \in 1..c
      BY <2>1
    <2>3. t[p] + 1 \in DOMAIN Swaps /\ Puts(t[p] + 1, img[p][t[p] + 1])[j].key = <<"tx", n>>
      BY <1>i, <1>1, <2>1, <2>2
    <2>4. t[p] + 1 = n
      BY <2>2, <2>3, TxPut
    <2>5. s[walSize[p] + 1] = Puts(n, img[p][n])[1]
      BY <1>1, <2>2, <2>4
    <2>6. Puts(n, img[p][n])[1].key = <<"acc", Swaps[n].user>>
      BY PutsKey DEF PutKey
    <2>7. walSize[p] + 1 \in 1..Len(s)
      BY <1>1, <1>3, <2>2
    <2>8. ASSUME NEW k \in 1..n - 1 PROVE \E l \in 1..Len(s) : s[l].key = <<"tx", k>>
      <3>1. k \in 1..t[p]
        BY <1>3, <2>4
      <3>2. PICK l \in 1..walSize[p] : file[l].key = <<"tx", k>>
        BY <1>1, <1>3, <2>2, <3>1, EarlierTxs
      <3>. QED BY <1>2, <1>l, <3>2
    <2>. QED BY <2>5, <2>6, <2>7, <2>8
  <1>. QED BY <1>4, <1>5

\* All engines that settle a swap answer it alike.
EnginesAgree ==
    \A a, b \in Images, n \in DOMAIN Swaps : Settles(a, n) /\ Settles(b, n) => a[n] = b[n]

\* A key that was put has a value, that of the last PUT of it.
LEMMA PutIsSeen ==
    ASSUME StoreHolds, RunInv, SlotInv, NEW p \in Procs, pc[p] \in Live \cup {"verify"},
           NEW k \in Keys, mem[p][k] # Absent
                           \/ \E i \in 1..Len(Log(p) \o Pending(p)) : (Log(p) \o Pending(p))[i].key = k
    PROVE  /\ mem[p][k] # Absent
           /\ \E i \in 1..Len(Log(p) \o Pending(p)), image \in Images, n \in DOMAIN Swaps, l \in 1..3 :
                /\ Settles(image, n) /\ Puts(n, image[n])[l] = [key |-> k, val |-> mem[p][k]]
                /\ (Log(p) \o Pending(p))[i] = Puts(n, image[n])[l]
  <1>1. PICK s \in Seq(Slot) : s = Log(p) \o Pending(p)
    BY Journal
  <1>2. Reflects(mem[p], s) /\ DOMAIN s = 1..Len(s)
    BY <1>1 DEF StoreHolds, MemtableHolds, MemtableOf
  <1>3. PICK i \in 1..Len(s) : s[i] = [key |-> k, val |-> mem[p][k]]
    BY <1>1, <1>2 DEF Reflects
  <1>4. PICK image \in Images, n \in DOMAIN Swaps, l \in 1..3 :
            Settles(image, n) /\ s[i] = Puts(n, image[n])[l]
    BY <1>1, JournalPuts
  <1>5. Puts(n, image[n])[l].val \in Vals
    BY <1>4, HostAssumption
  <1>6. mem[p][k] # Absent
    BY <1>3, <1>4, <1>5, ConstantsAssumption
  <1>. QED BY <1>1, <1>3, <1>4, <1>6

LEMMA RecordIsLast ==
    ASSUME StoreHolds, RunInv, SlotInv, OrderHolds, EnginesAgree
    PROVE  RecordComesLast
  <1>. SUFFICES ASSUME NEW p \in Procs, pc[p] \in Live \cup {"verify"}, NEW n \in DOMAIN Swaps,
                       mem[p][<<"tx", n>>] # Absent
                PROVE  /\ mem[p][<<"acc", Swaps[n].user>>] = [out |-> mem[p][<<"tx", n>>].out]
                       /\ \A k \in 1..n - 1 : mem[p][<<"tx", k>>] # Absent
    BY DEF RecordComesLast
  <1>1. PICK tx \in Keys, acc \in Keys : tx = <<"tx", n>> /\ acc = <<"acc", Swaps[n].user>>
    BY HostAssumption
  <1>2. PICK i \in 1..Len(Log(p) \o Pending(p)), a \in Images, m \in DOMAIN Swaps, l \in 1..3 :
          /\ Settles(a, m) /\ Puts(m, a[m])[l] = [key |-> tx, val |-> mem[p][tx]]
          /\ (Log(p) \o Pending(p))[i] = Puts(m, a[m])[l]
    BY <1>1, PutIsSeen
  <1>3. l = 3 /\ m = n
    <2>1. Puts(m, a[m])[l].key = <<"tx", n>>
      BY <1>1, <1>2
    <2>. QED BY <2>1, TxPut
  <1>4. mem[p][tx].out = a[n]
    <2>1. Puts(n, a[n])[3] = [key |-> <<"tx", n>>, val |-> [out |-> a[n], status |-> Status(a[n])]]
      BY PutsParts
    <2>2. mem[p][tx] = [out |-> a[n], status |-> Status(a[n])]
      BY <1>2, <1>3, <2>1
    <2>. QED BY <2>2
  <1>5. /\ \E j \in 1..Len(Log(p) \o Pending(p)) : (Log(p) \o Pending(p))[j].key = acc
        /\ \A k \in 1..n - 1 : \E j \in 1..Len(Log(p) \o Pending(p)) :
              (Log(p) \o Pending(p))[j].key = <<"tx", k>>
    <2>1. (Log(p) \o Pending(p))[i].key = <<"tx", n>>
      BY <1>1, <1>2
    <2>. QED BY <1>1, <2>1, JournalOrder
  <1>6. mem[p][acc] = [out |-> a[n]]
    <2>1. PICK j \in 1..Len(Log(p) \o Pending(p)), b \in Images, q \in DOMAIN Swaps, r \in 1..3 :
            Settles(b, q) /\ Puts(q, b[q])[r] = [key |-> acc, val |-> mem[p][acc]]
      BY <1>5, PutIsSeen
    <2>2. r = 1 /\ q = n
      <3>1. Puts(q, b[q])[r].key = <<"acc", Swaps[n].user>>
        BY <1>1, <2>1
      <3>. QED BY <3>1, AccPut
    <2>3. Puts(n, b[n])[1] = [key |-> <<"acc", Swaps[n].user>>, val |-> [out |-> b[n]]]
      BY PutsParts
    <2>4. mem[p][acc] = [out |-> b[n]]
      BY <2>1, <2>2, <2>3
    <2>5. b[n] = a[n]
      BY <1>2, <1>3, <2>1, <2>2 DEF EnginesAgree
    <2>. QED BY <2>4, <2>5
  <1>7. ASSUME NEW k \in 1..n - 1 PROVE mem[p][<<"tx", k>>] # Absent
    <2>1. k \in DOMAIN Swaps
      BY HostAssumption
    <2>2. PICK key \in Keys : key = <<"tx", k>>
      BY <2>1, HostAssumption
    <2>. QED BY <1>5, <2>2, PutIsSeen
  <1>. QED BY <1>1, <1>4, <1>6, <1>7

-----------------------------------------------------------------------------
(***************************************************************************)
(* Theorems                                                                *)
(***************************************************************************)

LEMMA HostAlways == HostSpec => [](StoreHolds /\ RunInv /\ SlotInv /\ ReceiptIsWholeBatch)
  <1>1. HostInit => StoreHolds /\ RunInv /\ SlotInv /\ ReceiptIsWholeBatch
    <2>. SUFFICES ASSUME HostInit PROVE StoreHolds /\ RunInv /\ SlotInv /\ ReceiptIsWholeBatch
      OBVIOUS
    <2>1. StoreHolds /\ RunInv
      BY StoreHoldsInit, RunInit DEF HostInit
    <2>2. Len(file) = 0 /\ Len(disk) = 0 /\ Receipts = {}
      BY DEF HostInit, Init, Receipts
    <2>. QED BY <2>1, <2>2 DEF SlotInv, ReceiptIsWholeBatch
  <1>2. StoreHolds /\ RunInv /\ [HostNext]_allVars => StoreHolds'
    BY StoreHoldsNext
  <1>3. StoreHolds /\ StoreHolds' /\ RunInv /\ [HostNext]_allVars => RunInv'
    BY RunNext
  <1>4. StoreHolds /\ StoreHolds' /\ RunInv /\ SlotInv /\ [HostNext]_allVars => SlotInv'
    BY SlotNext
  <1>5. StoreHolds /\ RunInv /\ SlotInv /\ ReceiptIsWholeBatch /\ [HostNext]_allVars
          => ReceiptIsWholeBatch'
    BY ReceiptNext
  <1>. QED BY <1>1, <1>2, <1>3, <1>4, <1>5, PTL DEF HostSpec

\* Whatever the batch, the engines and the failures of earlier runs: a receipt
\* counts every swap, and its root is that of the batch and of nothing else.
THEOREM ReceiptsAreWhole == HostSpec => []ReceiptIsWholeBatch
  BY HostAlways, PTL

\* On a reliable medium the frames a receipt speaks of are on it from the moment
\* the receipt can be read, and they give its root.
THEOREM AttestedStays == HostSpec => []AttestedIsDurable
  <1>1. HostInit => AttestInv
    BY DEF HostInit, AttestInv, AttestHolds, Attesting, Receipts
  <1>2. /\ StoreHolds /\ StoreHolds' /\ RunInv /\ SlotInv /\ AttestInv /\ [HostNext]_allVars
        => AttestInv'
    BY AttestNext DEF AttestInv, ReliableMedium
  <1>3. StoreHolds /\ AttestInv => AttestedIsDurable
    BY AttestedOnMedium DEF StoreHolds, DurableInv
  <1>. QED BY <1>1, <1>2, <1>3, HostAlways, PTL DEF HostSpec

\* On a reliable medium, with engines that agree where they answer at all, a store
\* that can be opened never shows a recorded swap without its account entry, with
\* another amount, or without the records of the swaps before it.
THEOREM RecordsLast ==
    ASSUME ReliableMedium, EnginesAgree
    PROVE  HostSpec => []RecordComesLast
  <1>1. HostInit => OrderHolds
    <2>1. HostInit => Len(file) = 0
      BY DEF HostInit, Init
    <2>. QED BY <2>1 DEF OrderHolds
  <1>2. StoreHolds /\ StoreHolds' /\ RunInv /\ OrderHolds /\ [HostNext]_allVars => OrderHolds'
    BY OrderNext
  <1>3. StoreHolds /\ RunInv /\ SlotInv /\ OrderHolds => RecordComesLast
    BY RecordIsLast
  <1>. QED BY <1>1, <1>2, <1>3, HostAlways, PTL DEF HostSpec
=============================================================================
