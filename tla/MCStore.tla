------------------------------ MODULE MCStore ------------------------------
(***************************************************************************)
(* Store for TLC: processes and keys are symmetric.                        *)
(***************************************************************************)
EXTENDS StoreInv, TLC

Symmetry == Permutations(Procs) \cup Permutations(Keys)
=============================================================================
