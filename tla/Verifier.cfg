SPECIFICATION FairSpec
CHECK_DEADLOCK FALSE
CONSTANTS
    Accounts = {owner, watcher}
    Owner = owner
    BatchIds = {b1, b2}
    Swaps <- MCSwaps
    SwapCounts = {1, 3}
    Roots <- MCRoots
    Proofs <- MCProofs
    Indices = {0, 1, 2, 3}
    Zero = Zero
    MaxUint = 200000
    TreeDepth = 2
INVARIANTS VerifiedHasBatch SpotIsValid
PROPERTIES AnchorStands FraudIsCancelled
