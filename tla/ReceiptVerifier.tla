-------------------------- MODULE ReceiptVerifier --------------------------
(***************************************************************************)
(* contracts/LinReceiptVerifier.sol: the owner anchors Merkle roots of     *)
(* batches of swaps, anybody may have a batch cancelled by showing a       *)
(* fraudulent swap in it.                                                  *)
(*                                                                         *)
(* A digest is represented by what it was computed from, so hashes do not  *)
(* collide; a leaf hashes 128 bytes and an inner node 64, so neither is    *)
(* ever the other.  A call that reverts changes nothing and is no step.    *)
(* Arithmetic is Solidity's checked arithmetic on 0..MaxUint.              *)
(***************************************************************************)
EXTENDS Naturals, Sequences

CONSTANTS
    Accounts,    \* message senders
    Owner,       \* the account that deployed the contract
    BatchIds,    \* batch identifiers
    Swaps,       \* swaps that batches are made of
    SwapCounts,  \* values of header.swapCount
    Roots,       \* roots the owner may post, see Zero
    Proofs,      \* Merkle proofs callers may send
    Indices,     \* leaf indices callers may send
    Zero,        \* bytes32(0)
    MaxUint,     \* type(uint256).max
    TreeDepth    \* bound on the depth of trees and the length of proofs

SwapRecord == [reserveIn : 0..MaxUint, reserveOut : 0..MaxUint,
               amountIn : 0..MaxUint, amountOut : 0..MaxUint]

ASSUME VerifierAssumption ==
    /\ MaxUint \in Nat
    /\ TreeDepth \in Nat
    /\ Owner \in Accounts
    /\ Swaps \subseteq SwapRecord
    /\ SwapCounts \subseteq 0..MaxUint
    /\ Indices \subseteq 0..MaxUint
    /\ \A p \in Proofs : Len(p) \in 0..TreeDepth /\ DOMAIN p = 1..Len(p)

VARIABLES
    settledBatches,       \* settledBatches[b]: the root anchored for b, or Zero
    verifiedMerkleRoots,  \* the roots whose mark is set
    spotChecked           \* history: batches settled with an inclusion proof

vars == <<settledBatches, verifiedMerkleRoots, spotChecked>>

-----------------------------------------------------------------------------
Fits(n) == n <= MaxUint

\* The two sides of the invariant that verifyConstantProduct compares.
AdjustedIn(s) == s.reserveIn * 1000 + s.amountIn * 997
KAfter(s) == AdjustedIn(s) * (s.reserveOut - s.amountOut)
KBefore(s) == s.reserveIn * s.reserveOut * 1000

\* verifyConstantProduct returns false, reverts on an overflow, or compares.
Verdict(s) ==
    IF s.amountOut >= s.reserveOut THEN "fraud"
    ELSE IF ~(Fits(AdjustedIn(s)) /\ Fits(KBefore(s)) /\ Fits(KAfter(s))) THEN "revert"
    ELSE IF KAfter(s) >= KBefore(s) THEN "valid"
    ELSE "fraud"

\* computeSwapLeaf and the hash of an inner node.
Leaf(s) == [swap |-> s]
Node(l, r) == [left |-> l, right |-> r]

\* Mutant: the index is not looked at.
ClimbLeft(s, proof, index) ==
    LET hash[i \in 0..Len(proof)] ==
          IF i = 0 THEN Leaf(s) ELSE Node(hash[i - 1], proof[i])
    IN  hash[Len(proof)]

\* What verifySwapInclusion ends up with: bit i of the index says on which side
\* element i of the proof goes.
Climb(s, proof, index) ==
    LET hash[i \in 0..Len(proof)] ==
          IF i = 0 THEN Leaf(s)
          ELSE IF (index \div 2^(i - 1)) % 2 = 1 THEN Node(proof[i], hash[i - 1])
          ELSE Node(hash[i - 1], proof[i])
    IN  hash[Len(proof)]

\* Nobody has a preimage of the zero digest.
ASSUME DigestAssumption ==
    \A s \in Swaps, p \in Proofs, i \in Indices : Climb(s, p, i) # Zero

-----------------------------------------------------------------------------
Init ==
    /\ settledBatches = [b \in BatchIds |-> Zero]
    /\ verifiedMerkleRoots = {}
    /\ spotChecked = {}

\* The two assignments both ways of settling make.
Anchor(b, root) ==
    /\ settledBatches' = [settledBatches EXCEPT ![b] = root]
    /\ verifiedMerkleRoots' = verifiedMerkleRoots \cup {root}

\* Mutant: a batch that is anchored may be anchored again.
SettleAgain(sender, b, root, count) ==
    /\ sender = Owner
    /\ Anchor(b, root)
    /\ Fits(count * 100000)
    /\ spotChecked' = spotChecked \ {b}

\* The estimate of the gas saved is computed after the assignments; when it
\* overflows the whole call reverts.
SettleBatch(sender, b, root, count) ==
    /\ sender = Owner
    /\ settledBatches[b] = Zero
    /\ Anchor(b, root)
    /\ Fits(count * 100000)
    /\ spotChecked' = spotChecked \ {b}

\* Mutant: the invariant of the spot is not checked.
SettleUncheckedSpot(sender, b, root, s, proof, index) ==
    /\ sender = Owner
    /\ settledBatches[b] = Zero
    /\ Climb(s, proof, index) = root
    /\ Anchor(b, root)
    /\ spotChecked' = spotChecked \cup {b}

SettleBatchWithInclusionProof(sender, b, root, s, proof, index) ==
    /\ sender = Owner
    /\ settledBatches[b] = Zero
    /\ Verdict(s) = "valid"
    /\ Climb(s, proof, index) = root
    /\ Anchor(b, root)
    /\ spotChecked' = spotChecked \cup {b}

\* Mutant: the root keeps its mark.
DisputeKeepsMark(sender, b, s, proof, index) ==
    /\ settledBatches[b] # Zero
    /\ Climb(s, proof, index) = settledBatches[b]
    /\ Verdict(s) = "fraud"
    /\ settledBatches' = [settledBatches EXCEPT ![b] = Zero]
    /\ spotChecked' = spotChecked \ {b}
    /\ UNCHANGED verifiedMerkleRoots

\* Any sender may dispute.
DisputeFraudulentSwap(sender, b, s, proof, index) ==
    /\ settledBatches[b] # Zero
    /\ Climb(s, proof, index) = settledBatches[b]
    /\ Verdict(s) = "fraud"
    /\ verifiedMerkleRoots' = verifiedMerkleRoots \ {settledBatches[b]}
    /\ settledBatches' = [settledBatches EXCEPT ![b] = Zero]
    /\ spotChecked' = spotChecked \ {b}

\* Somebody disputes batch b with what is at hand.
Dispute(b) ==
    \E a \in Accounts, s \in Swaps, p \in Proofs, i \in Indices :
        DisputeFraudulentSwap(a, b, s, p, i)

Next ==
    \/ \E a \in Accounts, b \in BatchIds, r \in Roots, n \in SwapCounts :
          SettleBatch(a, b, r, n)
    \/ \E a \in Accounts, b \in BatchIds, r \in Roots,
          s \in Swaps, p \in Proofs, i \in Indices :
          SettleBatchWithInclusionProof(a, b, r, s, p, i)
    \/ \E b \in BatchIds : Dispute(b)

Spec == Init /\ [][Next]_vars

\* The optimistic model: for every batch there is a watchtower that goes on
\* disputing it for as long as that can succeed.
FairSpec == Spec /\ \A b \in BatchIds : WF_vars(Dispute(b))
-----------------------------------------------------------------------------
(***************************************************************************)
(* Properties                                                              *)
(***************************************************************************)

\* The digests of the tree under root, by steps of one level from the top.
Tree(root) ==
    LET level[n \in 0..TreeDepth] ==
          IF n = 0 THEN {root}
          ELSE UNION {{t.left, t.right} : t \in {u \in level[n - 1] : "left" \in DOMAIN u}}
    IN  UNION {level[n] : n \in 0..TreeDepth}

\* The swaps a root commits to.
Batch(root) == IF root = Zero THEN {} ELSE {s \in Swaps : Leaf(s) \in Tree(root)}

\* A reader of verifiedMerkleRoots never trusts a root that was withdrawn: a root
\* has its mark only while some batch is anchored with it, whatever roots batches
\* share and however often they are disputed and settled again.  (The zero root
\* is the exception: settleBatch takes it for a root, everybody else for none.)
VerifiedHasBatch ==
    \A r \in verifiedMerkleRoots : r = Zero \/ \E b \in BatchIds : settledBatches[b] = r

\* A batch settled with an inclusion proof commits to a swap that keeps the
\* invariant k (contract comment: "contem pelo menos 1 swap valido").
SpotIsValid ==
    \A b \in spotChecked : \E s \in Batch(settledBatches[b]) : Verdict(s) = "valid"

\* An anchored root is never replaced, and it is cancelled only if its tree
\* holds a swap the contract finds fraudulent: no proof, however chosen, gets
\* an honest batch cancelled.
AnchorStands ==
    [][\A b \in BatchIds :
         (settledBatches[b] # Zero /\ settledBatches'[b] # settledBatches[b]) =>
             /\ settledBatches'[b] = Zero
             /\ \E s \in Batch(settledBatches[b]) : Verdict(s) = "fraud"]_vars

\* Wherever in its tree a fraudulent swap sits, there is a proof that reaches
\* it: the batch does not stay anchored.
FraudIsCancelled ==
    \A b \in BatchIds, r \in Roots :
        (settledBatches[b] = r /\ \E s \in Batch(r) : Verdict(s) = "fraud")
            ~> settledBatches[b] # r
=============================================================================
