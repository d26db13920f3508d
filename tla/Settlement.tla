----------------------------- MODULE Settlement -----------------------------
(***************************************************************************)
(* examples/defi_settlement_proof/settlement_store_host.c: a batch of swaps*)
(* settled on LinVM, each one stored with three PUTs and a commit, then a  *)
(* checkpoint and a receipt.  A host that fails or dies is started again   *)
(* on the same directory and begins with the first swap.  LinVM is given by*)
(* what an image answers for each swap; a key is the pair its text spells. *)
(***************************************************************************)
EXTENDS Store, Integers

CONSTANTS
    Swaps,      \* BATCH: [user, reserve_in, reserve_out]
    Images,     \* engine images: what settle_swap returns for each swap, or VmError
    VmError,    \* an error of vm_exec
    NoReceipt   \* there is no receipt file, or one that is empty or cut short

VARIABLES
    at,         \* at[p]: where main is, "off" when it does not run
    t,          \* t[p]: swaps that are committed, the loop counter
    img,        \* img[p]: the image it was given, none when it does not run
    receipt,    \* the receipt file
    receiptDisk \* the receipt file as the medium has it

hostVars == <<at, t, img, receipt, receiptDisk>>
allVars == <<vars, hostVars>>

HostInit ==
    /\ Init
    /\ at = [p \in Procs |-> "off"]
    /\ t = [p \in Procs |-> 0]
    /\ img = [p \in Procs |-> <<>>]
    /\ receipt = NoReceipt /\ receiptDisk = NoReceipt

AtIs(p, label) == at' = [at EXCEPT ![p] = label]

\* main has returned or died.
Gone(p) ==
    /\ AtIs(p, "off")
    /\ t' = [t EXCEPT ![p] = 0]
    /\ img' = [img EXCEPT ![p] = <<>>]

-----------------------------------------------------------------------------
\* An image that loads is given, and the directory is opened.
HostStart(p) ==
    /\ at[p] = "off"
    /\ OpenLock(p)
    /\ \E i \in Images : img' = [img EXCEPT ![p] = i]
    /\ AtIs(p, "opening")
    /\ UNCHANGED <<t, receipt, receiptDisk>>

\* Mutant: a commit that failed is not looked at.
AnswerUnchecked(p) ==
    IF pc'[p] # "open" THEN at[p]
    ELSE CASE at[p] = "opening" -> "swap"
           [] at[p] = "commit" -> "swap"
           [] at[p] = "checkpoint" -> IF pc[p] = "chkDir" THEN "receipt" ELSE "fail"

\* Where main goes on when a step of the store returns to it: a commit has
\* answered STORE_OK when its queue is empty, a checkpoint when it came to its end.
Answer(p) ==
    IF pc'[p] # "open" THEN at[p]
    ELSE CASE at[p] = "opening" -> "swap"
           [] at[p] = "commit" -> IF staged'[p] = <<>> THEN "swap" ELSE "fail"
           [] at[p] = "checkpoint" -> IF pc[p] = "chkDir" THEN "receipt" ELSE "fail"

\* The call of the store that main is in goes on.
InCall(p) ==
    /\ CallStep(p) \/ OpenFails(p)
    /\ \/ pc'[p] = "idle" /\ Gone(p)     \* the directory could not be opened
       \/ /\ pc'[p] # "idle"
          /\ AtIs(p, Answer(p))
          /\ t' = [t EXCEPT ![p] = IF at[p] = "commit" /\ at'[p] = "swap" THEN @ + 1 ELSE @]
          /\ UNCHANGED img
    /\ UNCHANGED <<receipt, receiptDisk>>

\* Mutant: the last swap is left out.
MoreOffByOne(p) == t[p] + 1 < Len(Swaps)

More(p) == t[p] < Len(Swaps)

\* The answer of the engine is an amount the pool has, or -1.
ShapeOk(out, swap) == out = -1 \/ out \in 0..swap.reserve_out

\* The engine answers swap n, and with an amount that can be.
Settles(image, n) == image[n] # VmError /\ ShapeOk(image[n], Swaps[n])

SettleSwap(p) ==
    /\ at[p] = "swap"
    /\ More(p)
    /\ AtIs(p, IF Settles(img[p], t[p] + 1) THEN "put" ELSE "fail")
    /\ UNCHANGED <<vars, t, img, receipt, receiptDisk>>

Status(out) == IF out >= 0 THEN "APPLIED" ELSE "REJECTED"

PoolValue(n) == [reserve_in |-> Swaps[n].reserve_in, reserve_out |-> Swaps[n].reserve_out]

\* Mutant: the record of the swap is stored first.
PutsTxFirst(n, out) ==
    <<[key |-> <<"tx", n>>, val |-> [out |-> out, status |-> Status(out)]],
      [key |-> <<"acc", Swaps[n].user>>, val |-> [out |-> out]],
      [key |-> <<"pool", "amm">>, val |-> PoolValue(n)]>>

\* The three PUTs of swap n.
Puts(n, out) ==
    <<[key |-> <<"acc", Swaps[n].user>>, val |-> [out |-> out]],
      [key |-> <<"pool", "amm">>, val |-> PoolValue(n)],
      [key |-> <<"tx", n>>, val |-> [out |-> out, status |-> Status(out)]]>>

\* BATCH is an array with a user of its own in every entry, and what the host puts
\* are keys and values of the store.
ASSUME HostAssumption ==
    /\ Len(Swaps) \in Nat /\ DOMAIN Swaps = 1..Len(Swaps)
    /\ \A i, j \in DOMAIN Swaps : Swaps[i].user = Swaps[j].user => i = j
    /\ <<"pool", "amm">> \in Keys
    /\ \A n \in DOMAIN Swaps : {<<"acc", Swaps[n].user>>, <<"tx", n>>} \subseteq Keys
    /\ \A image \in Images, n \in DOMAIN Swaps : Settles(image, n) =>
          \A i \in 1..3 : Puts(n, image[n])[i].val \in Vals

\* The next PUT, unless memory has run out.
Put(p) ==
    LET i == Len(staged[p]) + 1
        put == Puts(t[p] + 1, img[p][t[p] + 1])[i]
    IN
    /\ at[p] = "put"
    /\ \/ StorePut(p, put.key, put.val) /\ AtIs(p, IF i = 3 THEN "staged" ELSE "put")
       \/ "short" \in Faults /\ AtIs(p, "fail") /\ UNCHANGED vars
    /\ UNCHANGED <<t, img, receipt, receiptDisk>>

Commit(p) ==
    /\ at[p] = "staged"
    /\ \/ CommitBegin(p) /\ AtIs(p, "commit")
       \/ /\ walSize[p] + Len(staged[p]) > MaxWal
          /\ AtIs(p, "fail")
          /\ UNCHANGED vars
    /\ UNCHANGED <<t, img, receipt, receiptDisk>>

\* The root is computed, unless memory has run out, and store_checkpoint is called.
CheckpointBatch(p) ==
    /\ at[p] = "swap"
    /\ ~More(p)
    /\ \/ CheckpointSync(p) /\ AtIs(p, IF pc'[p] = "chkWrite" THEN "checkpoint" ELSE "fail")
       \/ "short" \in Faults /\ AtIs(p, "fail") /\ UNCHANGED vars
    /\ UNCHANGED <<t, img, receipt, receiptDisk>>

\* fopen empties the file, which the medium may have or not have, or fails.
OpenReceipt(p) ==
    /\ at[p] = "receipt"
    /\ \/ /\ receipt' = NoReceipt
          /\ receiptDisk' \in {receiptDisk, receipt}
          /\ AtIs(p, "print")
       \/ AtIs(p, "fail") /\ UNCHANGED <<receipt, receiptDisk>>
    /\ UNCHANGED <<vars, t, img>>

\* Root and frame count are those of the handle: it has not changed since they
\* were read, before the checkpoint.  A write that fails goes unnoticed.
PrintReceipt(p) ==
    /\ at[p] = "print"
    /\ \/ receipt' = [img |-> img[p], txs |-> t[p], root |-> mem[p], frames |-> frames[p]]
       \/ "short" \in Faults /\ receipt' = NoReceipt
    /\ AtIs(p, "done")
    /\ UNCHANGED <<vars, t, img, receiptDisk>>

HostClose(p) ==
    /\ at[p] \in {"fail", "done"}
    /\ StoreClose(p)
    /\ Gone(p)
    /\ UNCHANGED <<receipt, receiptDisk>>

\* The process dies wherever it is; --crash-after does so between PUTs and commit.
HostCrash(p) ==
    /\ Crash(p)
    /\ Gone(p)
    /\ UNCHANGED <<receipt, receiptDisk>>

\* The receipt is not synced: a power loss may take it away, or bring back the one
\* that was there before.
HostPowerLoss ==
    /\ PowerLoss
    /\ at' = [p \in Procs |-> "off"]
    /\ t' = [p \in Procs |-> 0]
    /\ img' = [p \in Procs |-> <<>>]
    /\ receipt' \in {receipt, receiptDisk, NoReceipt}
    /\ receiptDisk' = receipt'

HostNext ==
    \/ \E p \in Procs :
          \/ HostStart(p) \/ InCall(p) \/ SettleSwap(p) \/ Put(p) \/ Commit(p)
          \/ CheckpointBatch(p) \/ OpenReceipt(p) \/ PrintReceipt(p) \/ HostClose(p)
          \/ HostCrash(p)
    \/ HostPowerLoss

HostSpec == HostInit /\ [][HostNext]_allVars

-----------------------------------------------------------------------------
(***************************************************************************)
(* Properties                                                              *)
(***************************************************************************)

\* The frames of a whole batch, one swap after the other.
Batch(image) ==
    [i \in 1..3 * Len(Swaps) |->
       Puts((i - 1) \div 3 + 1, image[(i - 1) \div 3 + 1])[((i - 1) % 3) + 1]]

\* A receipt that can be read, now or after a power loss.
Receipts == {receipt, receiptDisk} \ {NoReceipt}

\* However many runs failed or died half way before, a receipt speaks of a
\* complete settlement: its root is the root of the batch, whatever an earlier run
\* left in the store, and it counts every swap.
ReceiptIsWholeBatch ==
    \A r \in Receipts :
        /\ r.txs = Len(Swaps)
        /\ Reflects(r.root, Batch(r.img))

\* "ATTESTED_DURABLE": from the moment a receipt can be read, the first frames of
\* the log on the medium, as many as it says, give its root, whatever power
\* losses, recoveries and later runs follow, as long as the medium is reliable (its
\* reads and the name of the log included).
AttestedIsDurable ==
    ReliableMedium =>
        \A r \in Receipts :
            /\ walName = "durable" /\ hdrDisk = "ok"
            /\ r.frames <= Len(disk)
            /\ \A i \in 1..r.frames : disk[i] # Torn
            /\ Reflects(r.root, SubSeq(disk, 1, r.frames))

\* A swap is not stored atomically, but its record comes last: in every store
\* that can be opened a recorded swap has its account entry, with the same
\* amount as long as all engines that answer agree, and all swaps before it are
\* recorded.
RecordComesLast ==
    \A p \in Procs : pc[p] \in Live \cup {"verify"} =>
        \A n \in DOMAIN Swaps : mem[p][<<"tx", n>>] # Absent =>
            /\ mem[p][<<"acc", Swaps[n].user>>] = [out |-> mem[p][<<"tx", n>>].out]
            /\ \A k \in 1..n - 1 : mem[p][<<"tx", k>>] # Absent
=============================================================================
