----------------------- MODULE ReceiptVerifierProofs -----------------------
(***************************************************************************)
(* What marks and anchors mean, for any accounts, batches, roots, swaps    *)
(* and proofs.                                                             *)
(***************************************************************************)
EXTENDS ReceiptVerifier, NaturalsInduction, WellFoundedInduction, TLAPS

\* The inductive invariant: with a root for every batch, VerifiedHasBatch
\* keeps itself.
MarkInv ==
    /\ settledBatches \in [BatchIds -> Roots \cup {Zero}]
    /\ VerifiedHasBatch

\* Anchoring takes no root away from another batch: the one it writes had none.
LEMMA AnchorKeeps ==
    ASSUME MarkInv, NEW b \in BatchIds, NEW r \in Roots,
           settledBatches[b] = Zero, Anchor(b, r)
    PROVE  MarkInv'
<1>1. settledBatches' \in [BatchIds -> Roots \cup {Zero}]
  BY DEF Anchor, MarkInv
<1>2. ASSUME NEW q \in verifiedMerkleRoots', q # Zero
      PROVE  \E c \in BatchIds : settledBatches'[c] = q
  <2>1. CASE q = r
    BY <2>1 DEF Anchor, MarkInv
  <2>2. CASE q # r
    <3>1. PICK c \in BatchIds : settledBatches[c] = q
      BY <1>2, <2>2 DEF Anchor, MarkInv, VerifiedHasBatch
    <3>2. settledBatches'[c] = q
      BY <1>2, <3>1 DEF Anchor, MarkInv
    <3> QED  BY <3>2
  <2> QED  BY <2>1, <2>2
<1> QED  BY <1>1, <1>2 DEF MarkInv, VerifiedHasBatch

\* A dispute takes the mark of the one root that lost a batch.
LEMMA DisputeKeeps ==
    ASSUME MarkInv, NEW b \in BatchIds, Dispute(b)
    PROVE  MarkInv'
<1>1. /\ verifiedMerkleRoots' = verifiedMerkleRoots \ {settledBatches[b]}
      /\ settledBatches' = [settledBatches EXCEPT ![b] = Zero]
  BY DEF Dispute, DisputeFraudulentSwap
<1>2. ASSUME NEW q \in verifiedMerkleRoots', q # Zero
      PROVE  \E c \in BatchIds : settledBatches'[c] = q
  <2>1. PICK c \in BatchIds : settledBatches[c] = q
    BY <1>1, <1>2 DEF MarkInv, VerifiedHasBatch
  <2>2. c # b
    BY <1>1, <1>2, <2>1
  <2> QED  BY <1>1, <2>1, <2>2 DEF MarkInv
<1> QED  BY <1>1, <1>2 DEF MarkInv, VerifiedHasBatch

\* A root is marked as verified only while some batch is anchored with it, over
\* every sequence of settlements and disputes.
THEOREM MarksHaveBatches == Spec => []VerifiedHasBatch
<1>1. Init => MarkInv
  BY DEF Init, MarkInv, VerifiedHasBatch
<1>2. MarkInv /\ [Next]_vars => MarkInv'
  <2> SUFFICES ASSUME MarkInv, [Next]_vars PROVE MarkInv'
    OBVIOUS
  <2>1. ASSUME NEW a \in Accounts, NEW b \in BatchIds, NEW r \in Roots,
               NEW n \in SwapCounts, SettleBatch(a, b, r, n)
        PROVE  MarkInv'
    BY <2>1, AnchorKeeps DEF SettleBatch
  <2>2. ASSUME NEW a \in Accounts, NEW b \in BatchIds, NEW r \in Roots, NEW s \in Swaps,
               NEW p \in Proofs, NEW i \in Indices,
               SettleBatchWithInclusionProof(a, b, r, s, p, i)
        PROVE  MarkInv'
    BY <2>2, AnchorKeeps DEF SettleBatchWithInclusionProof
  <2>3. ASSUME NEW b \in BatchIds, Dispute(b) PROVE MarkInv'
    BY <2>3, DisputeKeeps
  <2>4. CASE UNCHANGED vars
    BY <2>4 DEF vars, MarkInv, VerifiedHasBatch
  <2> QED  BY <2>1, <2>2, <2>3, <2>4 DEF Next
<1>3. MarkInv => VerifiedHasBatch
  BY DEF MarkInv
<1> QED  BY <1>1, <1>2, <1>3, PTL DEF Spec

-----------------------------------------------------------------------------
(***************************************************************************)
(* Merkle proofs.  What a climb and a tree are is defined by recursion on  *)
(* the level; each of the facts below is shown to have no least level at   *)
(* which it fails.                                                         *)
(***************************************************************************)
LEMMA LeastLevel ==
    ASSUME NEW S \in SUBSET Nat, S # {}
    PROVE  \E i \in S : \A j \in S : i <= j
<1> DEFINE R == OpToRel(<, Nat)
<1>1. PICK i \in S : \A j \in S : ~(<<j, i>> \in R)
  BY NatLessThanWellFounded, WFMin
<1>2. \A j \in S : ~(j < i)
  BY <1>1 DEF OpToRel
<1> QED  BY <1>2

\* hash holds the digests that verifySwapInclusion computes from the leaf up.
ClimbFn(hash, s, proof, index, n) ==
    hash = [i \in 0..n |->
              IF i = 0 THEN Leaf(s)
              ELSE IF (index \div 2^(i - 1)) % 2 = 1 THEN Node(proof[i], hash[i - 1])
              ELSE Node(hash[i - 1], proof[i])]

LEMMA ClimbFnExists ==
    ASSUME NEW s, NEW proof, NEW index, NEW n \in Nat
    PROVE  \E hash : ClimbFn(hash, s, proof, index, n)
<1> DEFINE None == {m \in Nat : ~\E hash : ClimbFn(hash, s, proof, index, m)}
<1> SUFFICES ASSUME None # {} PROVE FALSE
  OBVIOUS
<1>1. PICK m \in None : \A j \in None : m <= j
  BY LeastLevel
<1>2. m # 0
  <2> DEFINE h == [i \in 0..0 |-> Leaf(s)]
  <2>1. ClimbFn(h, s, proof, index, 0)
    BY DEF ClimbFn
  <2> QED  BY <2>1
<1>3. m - 1 \in Nat /\ m - 1 \notin None
  BY <1>1, <1>2
<1>4. PICK g : ClimbFn(g, s, proof, index, m - 1)
  BY <1>3
<1> DEFINE h == [i \in 0..m |->
                   IF i < m THEN g[i]
                   ELSE IF (index \div 2^(i - 1)) % 2 = 1 THEN Node(proof[i], g[i - 1])
                   ELSE Node(g[i - 1], proof[i])]
           body(f) == [i \in 0..m |->
                   IF i = 0 THEN Leaf(s)
                   ELSE IF (index \div 2^(i - 1)) % 2 = 1 THEN Node(proof[i], f[i - 1])
                   ELSE Node(f[i - 1], proof[i])]
<1>5. ASSUME NEW i \in 0..m PROVE h[i] = body(h)[i]
  <2>1. \A j \in 0..m - 1 : h[j] = g[j]
    BY <1>2
  <2>2. CASE i = m
    <3>1. h[i - 1] = g[i - 1]
      BY <2>1, <2>2, <1>2
    <3> QED  BY <3>1, <2>2, <1>2
  <2>3. CASE i # m
    <3>1. i \in 0..m - 1 /\ h[i] = g[i] /\ i \in 0..m
      BY <2>1, <2>3
    <3>2. i # 0 => h[i - 1] = g[i - 1]
      BY <2>1, <3>1
    <3>3. g[i] = IF i = 0 THEN Leaf(s)
                 ELSE IF (index \div 2^(i - 1)) % 2 = 1 THEN Node(proof[i], g[i - 1])
                 ELSE Node(g[i - 1], proof[i])
      BY <1>4, <3>1 DEF ClimbFn
    <3> QED  BY <3>1, <3>2, <3>3
  <2> QED  BY <2>2, <2>3
<1>6. h = body(h)
  BY <1>5
<1>7. ClimbFn(h, s, proof, index, m)
  BY <1>6 DEF ClimbFn
<1> QED  BY <1>7

\* level holds the digests of the tree under root down to depth d.
Below(S) == UNION {{t.left, t.right} : t \in {u \in S : "left" \in DOMAIN u}}

TreeFn(level, root, d) ==
    level = [n \in 0..d |-> IF n = 0 THEN {root} ELSE Below(level[n - 1])]

LEMMA TreeFnExists ==
    ASSUME NEW root, NEW d \in Nat
    PROVE  \E level : TreeFn(level, root, d)
<1> DEFINE None == {m \in Nat : ~\E level : TreeFn(level, root, m)}
<1> SUFFICES ASSUME None # {} PROVE FALSE
  OBVIOUS
<1>1. PICK m \in None : \A j \in None : m <= j
  BY LeastLevel
<1>2. m # 0
  <2> DEFINE f == [n \in 0..0 |-> {root}]
  <2>1. TreeFn(f, root, 0)
    BY DEF TreeFn
  <2> QED  BY <2>1
<1>3. m - 1 \in Nat /\ m - 1 \notin None
  BY <1>1, <1>2
<1>4. PICK g : TreeFn(g, root, m - 1)
  BY <1>3
<1> DEFINE f == [n \in 0..m |-> IF n < m THEN g[n] ELSE Below(g[n - 1])]
           body(h) == [n \in 0..m |-> IF n = 0 THEN {root} ELSE Below(h[n - 1])]
<1>5. ASSUME NEW n \in 0..m PROVE f[n] = body(f)[n]
  <2>1. \A j \in 0..m - 1 : f[j] = g[j]
    BY <1>2
  <2>2. n # 0 => f[n - 1] = g[n - 1]
    BY <2>1
  <2>3. n < m => g[n] = IF n = 0 THEN {root} ELSE Below(g[n - 1])
    <3>1. n < m => n \in 0..m - 1
      OBVIOUS
    <3> QED  BY <1>4, <3>1 DEF TreeFn
  <2> QED  BY <2>2, <2>3, <1>2
<1>6. f = body(f)
  BY <1>5
<1>7. TreeFn(f, root, m)
  BY <1>6 DEF TreeFn
<1> QED  BY <1>7

\* The leaf a climb starts from is in the tree under the digest it ends with.
LEMMA ClimbReaches ==
    ASSUME NEW s \in Swaps, NEW proof \in Proofs, NEW index \in Indices
    PROVE  Leaf(s) \in Tree(Climb(s, proof, index))
<1> DEFINE n == Len(proof)
           root == Climb(s, proof, index)
<1>1. n \in Nat /\ n <= TreeDepth /\ TreeDepth \in Nat
  BY VerifierAssumption
<1>2. PICK hash : ClimbFn(hash, s, proof, index, n) /\ root = hash[n]
  <2> DEFINE hash == CHOOSE hash : ClimbFn(hash, s, proof, index, n)
  <2>1. ClimbFn(hash, s, proof, index, n)
    BY <1>1, ClimbFnExists
  <2>2. root = hash[n]
    BY DEF Climb, ClimbFn
  <2> QED  BY <2>1, <2>2
<1>3. PICK level : TreeFn(level, root, TreeDepth)
                   /\ Tree(root) = UNION {level[k] : k \in 0..TreeDepth}
  <2> DEFINE level == CHOOSE level : TreeFn(level, root, TreeDepth)
  <2> HIDE DEF root
  <2>1. TreeFn(level, root, TreeDepth)
    BY <1>1, TreeFnExists
  <2>2. Tree(root) = UNION {level[k] : k \in 0..TreeDepth}
    BY DEF Tree, TreeFn, Below
  <2> QED  BY <2>1, <2>2
<1> HIDE DEF root
<1>4. /\ hash[0] = Leaf(s)
      /\ \A i \in 1..n : \/ hash[i] = Node(proof[i], hash[i - 1])
                         \/ hash[i] = Node(hash[i - 1], proof[i])
  <2>1. ASSUME NEW i \in 0..n
        PROVE  hash[i] = IF i = 0 THEN Leaf(s)
                         ELSE IF (index \div 2^(i - 1)) % 2 = 1 THEN Node(proof[i], hash[i - 1])
                         ELSE Node(hash[i - 1], proof[i])
    BY <1>2 DEF ClimbFn
  <2>2. 0 \in 0..n /\ \A i \in 1..n : i \in 0..n /\ i # 0
    BY <1>1
  <2> HIDE DEF n
  <2> QED  BY <2>1, <2>2
<1>5. /\ level[0] = {root}
      /\ \A k \in 1..TreeDepth : level[k] = Below(level[k - 1])
  <2>1. ASSUME NEW k \in 0..TreeDepth
        PROVE  level[k] = IF k = 0 THEN {root} ELSE Below(level[k - 1])
    BY <1>3 DEF TreeFn
  <2>2. 0 \in 0..TreeDepth /\ \A k \in 1..TreeDepth : k \in 0..TreeDepth /\ k # 0
    BY <1>1
  <2> QED  BY <2>1, <2>2
<1>6. \A k \in 0..n : hash[n - k] \in level[k]
  <2> DEFINE Off == {k \in 0..n : hash[n - k] \notin level[k]}
  <2> SUFFICES ASSUME Off # {} PROVE FALSE
    OBVIOUS
  <2>1. PICK k \in Off : \A j \in Off : k <= j
    <3>1. Off \in SUBSET Nat
      BY <1>1
    <3> HIDE DEF Off
    <3> QED  BY <3>1, LeastLevel
  <2>2. k # 0
    BY <1>1, <1>2, <1>5, <2>1
  <2>3. k - 1 \in 0..n /\ k - 1 \notin Off
    BY <1>1, <2>1, <2>2
  <2>4. hash[n - (k - 1)] \in level[k - 1]
    BY <2>3
  <2>5. PICK i \in 1..n : i = n - (k - 1) /\ i - 1 = n - k
    <3>1. k \in Nat /\ k <= n
      BY <1>1, <2>1
    <3> HIDE DEF n
    <3>2. n - (k - 1) \in 1..n /\ (n - (k - 1)) - 1 = n - k
      BY <1>1, <2>2, <3>1
    <3> QED  BY <3>2
  <2>6. hash[i - 1] \in Below(level[k - 1])
    <3>1. hash[i] \in level[k - 1]
      BY <2>4, <2>5
    <3>2. /\ "left" \in DOMAIN hash[i]
          /\ hash[i - 1] \in {hash[i].left, hash[i].right}
      <4>1. CASE hash[i] = Node(proof[i], hash[i - 1])
        BY <4>1 DEF Node
      <4>2. CASE hash[i] = Node(hash[i - 1], proof[i])
        BY <4>2 DEF Node
      <4> QED  BY <1>4, <4>1, <4>2
    <3> QED  BY <3>1, <3>2 DEF Below
  <2>7. level[k] = Below(level[k - 1])
    <3>1. k \in 1..TreeDepth
      BY <1>1, <2>1, <2>2
    <3> QED  BY <1>5, <3>1
  <2> QED  BY <2>1, <2>5, <2>6, <2>7
<1>7. hash[0] \in level[n]
  <2>1. n \in 0..n /\ n - n = 0
    BY <1>1
  <2> QED  BY <1>6, <2>1
<1> QED  BY <1>1, <1>3, <1>4, <1>7 DEF root

\* So the root of a climb commits to its swap.
LEMMA ClimbInBatch ==
    ASSUME NEW s \in Swaps, NEW proof \in Proofs, NEW index \in Indices
    PROVE  s \in Batch(Climb(s, proof, index))
BY ClimbReaches, DigestAssumption DEF Batch

-----------------------------------------------------------------------------
\* The inductive invariant: a batch in spotChecked is one of BatchIds, and its
\* root commits to a swap that keeps k.
SpotInv ==
    /\ settledBatches \in [BatchIds -> Roots \cup {Zero}]
    /\ spotChecked \subseteq BatchIds
    /\ SpotIsValid

\* Whatever is anchored, cancelled and anchored again, a batch whose settlement
\* went through settleBatchWithInclusionProof commits to a valid swap for as long
\* as it is anchored.
THEOREM SpotsAreValid == Spec => []SpotIsValid
<1>1. Init => SpotInv
  BY DEF Init, SpotInv, SpotIsValid
<1>2. SpotInv /\ [Next]_vars => SpotInv'
  <2> SUFFICES ASSUME SpotInv, [Next]_vars PROVE SpotInv'
    OBVIOUS
  <2> USE DEF SpotInv
  <2>1. ASSUME NEW a \in Accounts, NEW b \in BatchIds, NEW r \in Roots,
               NEW n \in SwapCounts, SettleBatch(a, b, r, n)
        PROVE  SpotInv'
    BY <2>1 DEF SettleBatch, Anchor, SpotIsValid
  <2>2. ASSUME NEW a \in Accounts, NEW b \in BatchIds, NEW r \in Roots, NEW s \in Swaps,
               NEW p \in Proofs, NEW i \in Indices,
               SettleBatchWithInclusionProof(a, b, r, s, p, i)
        PROVE  SpotInv'
    <3>1. s \in Batch(r) /\ Verdict(s) = "valid"
      BY <2>2, ClimbInBatch DEF SettleBatchWithInclusionProof
    <3>2. /\ settledBatches' = [settledBatches EXCEPT ![b] = r]
          /\ spotChecked' = spotChecked \cup {b}
      BY <2>2 DEF SettleBatchWithInclusionProof, Anchor
    <3> QED  BY <3>1, <3>2 DEF SpotIsValid
  <2>3. ASSUME NEW b \in BatchIds, Dispute(b) PROVE SpotInv'
    BY <2>3 DEF Dispute, DisputeFraudulentSwap, SpotIsValid
  <2>4. CASE UNCHANGED vars
    BY <2>4 DEF vars, SpotIsValid
  <2> QED  BY <2>1, <2>2, <2>3, <2>4 DEF Next
<1>3. SpotInv => SpotIsValid
  BY DEF SpotInv
<1> QED  BY <1>1, <1>2, <1>3, PTL DEF Spec

\* No step replaces an anchored root, and only a climb to it from a fraudulent
\* swap withdraws it: nothing an account sends cancels a batch of valid swaps.
THEOREM AnchorsStand == Spec => AnchorStands
<1> DEFINE Stands ==
      \A b \in BatchIds :
         (settledBatches[b] # Zero /\ settledBatches'[b] # settledBatches[b]) =>
             /\ settledBatches'[b] = Zero
             /\ \E s \in Batch(settledBatches[b]) : Verdict(s) = "fraud"
    TypeInv == settledBatches \in [BatchIds -> Roots \cup {Zero}]
<1>1. Init => TypeInv
  BY DEF Init
<1>2. TypeInv /\ [Next]_vars => TypeInv' /\ [Stands]_vars
  <2> SUFFICES ASSUME TypeInv, [Next]_vars PROVE TypeInv' /\ Stands
    OBVIOUS
  <2>1. ASSUME NEW a \in Accounts, NEW b \in BatchIds, NEW r \in Roots,
               NEW n \in SwapCounts, SettleBatch(a, b, r, n)
        PROVE  TypeInv' /\ Stands
    BY <2>1 DEF SettleBatch, Anchor
  <2>2. ASSUME NEW a \in Accounts, NEW b \in BatchIds, NEW r \in Roots, NEW s \in Swaps,
               NEW p \in Proofs, NEW i \in Indices,
               SettleBatchWithInclusionProof(a, b, r, s, p, i)
        PROVE  TypeInv' /\ Stands
    BY <2>2 DEF SettleBatchWithInclusionProof, Anchor
  <2>3. ASSUME NEW b \in BatchIds, Dispute(b) PROVE TypeInv' /\ Stands
    <3>1. PICK s \in Swaps, p \in Proofs, i \in Indices :
             Climb(s, p, i) = settledBatches[b] /\ Verdict(s) = "fraud"
      BY <2>3 DEF Dispute, DisputeFraudulentSwap
    <3>2. s \in Batch(settledBatches[b])
      BY <3>1, ClimbInBatch
    <3>3. settledBatches' = [settledBatches EXCEPT ![b] = Zero]
      BY <2>3 DEF Dispute, DisputeFraudulentSwap
    <3> QED  BY <3>1, <3>2, <3>3
  <2>4. CASE UNCHANGED vars
    BY <2>4 DEF vars
  <2> QED  BY <2>1, <2>2, <2>3, <2>4 DEF Next
<1> QED  BY <1>1, <1>2, PTL DEF Spec, AnchorStands
=============================================================================
