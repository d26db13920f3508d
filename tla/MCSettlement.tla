---------------------------- MODULE MCSettlement ----------------------------
(***************************************************************************)
(* Two swaps, one applied and one rejected, with an engine that answers    *)
(* both, one that fails at the second and one whose second answer is more  *)
(* than the pool has.                                                      *)
(***************************************************************************)
EXTENDS Settlement

MCSwaps == <<[user |-> "alice", reserve_in |-> 1, reserve_out |-> 2],
             [user |-> "bob", reserve_in |-> 3, reserve_out |-> 4]>>

MCImages == {<<1, -1>>, <<1, VmError>>, <<1, 5>>}

MCKeys == {<<"acc", "alice">>, <<"acc", "bob">>, <<"pool", "amm">>, <<"tx", 1>>, <<"tx", 2>>}

MCVals ==
    {[out |-> 1], [out |-> -1], PoolValue(1), PoolValue(2),
     [out |-> 1, status |-> "APPLIED"], [out |-> -1, status |-> "REJECTED"]}
=============================================================================
