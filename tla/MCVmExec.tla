------------------------------ MODULE MCVmExec ------------------------------
(***************************************************************************)
(* Instances of VmExec: all short programs over an alphabet that has loops,*)
(* recursion and arrays; and every operator on boundary operands together  *)
(* with the region intrinsics.                                             *)
(***************************************************************************)
EXTENDS VmExec, TLC

I(op, a) == [op |-> op, a |-> a]

Fn(nparams, arr, code) ==
    [ok |-> TRUE, nparams |-> nparams, nlocals |-> 2, arr |-> arr, code |-> code]

NoArrays == [l \in 0..MaxLocals - 1 |-> 0]
OneArray == [NoArrays EXCEPT ![0] = 1]
TwoArrays == [NoArrays EXCEPT ![0] = 1, ![1] = 2]

Alphabet ==
    {I("push", 1), I("load", 0), I("store", 0), I("pop", 0),
     I("jump", 0), I("jump_if_false", 0), I("jump_if_false_keep", 2),
     I("jump_if_true_keep", 2), I("load_index", 0), I("store_index", 0),
     I("arr_len", 1), I("call", 0), I("call", 1), I("ret", 0)}

\* A callee without parameters, and one with a parameter and a dirty array.
Nullary == Fn(0, NoArrays, <<I("push", 2)>>)
Unary1 == Fn(1, [NoArrays EXCEPT ![1] = 1],
             <<I("load", 0), I("load", 0), I("store_index", 1), I("load", 0), I("ret", 0)>>)

\* A call from a full stack, which its argument makes room for.
FullStackCall ==
    <<Fn(1, NoArrays, <<I("push", 1), I("push", 1), I("push", 1), I("call", 1)>>),
      Fn(1, NoArrays, <<I("load", 0), I("ret", 0)>>)>>

ControlModules ==
    {<<Fn(n, arr, code), callee>> :
        n \in 0..1, arr \in {NoArrays, OneArray},
        code \in [1..3 -> Alphabet], callee \in {Nullary, Unary1}}
      \cup {<<Fn(0, NoArrays, <<I("call", 7)>>)>>,
            <<[Fn(0, NoArrays, <<I("push", 1)>>) EXCEPT !.ok = FALSE]>>,
            <<Fn(0, TwoArrays, <<I("push", 1)>>)>>,
            FullStackCall}

Boundary == {-Half, -Half + 1, -2, -1, 0, 1, 2, 5, Bits - 1, Bits, Half - 1}

Operators ==
    {<<Fn(0, NoArrays, <<I("push", x), I("push", y), I(op, 0), I("ret", 0)>>)>> :
        x \in Boundary, y \in Boundary, op \in BinaryOps}
      \cup {<<Fn(0, NoArrays, <<I("push", x), I(op, 0), I("ret", 0)>>)>> :
              x \in Boundary, op \in UnaryOps}

\* Calls of every intrinsic on existing, missing and impossible places, of an
\* id that no region intrinsic has, and with too few operands.
Calling(id, args) ==
    <<Fn(0, NoArrays, [k \in 1..Len(args) |-> I("push", args[k])] \o <<I("abi_call", id)>>)>>

Intrinsics ==
    {Calling(RegionLoadByte, <<r, i>>) : r \in {-1, 0, 1}, i \in -1..3}
      \cup {Calling(RegionCheckRange, <<r, i, n>>) : r \in {-1, 0, 1}, i \in {-1, 0, 2, 3}, n \in {-1, 0, 1, 3}}
      \cup {Calling(RegionCapacity, <<r>>) : r \in {-1, 0, 1}}
      \cup {Calling(8, <<0>>), Calling(RegionCheckRange, <<0>>)}

Legacy == [profile |-> 1, abiVersion |-> 1, enabled |-> {}, regions |-> <<>>, store |-> FALSE]
Abi2 == [profile |-> 2, abiVersion |-> 2, enabled |-> {}, regions |-> <<>>, store |-> TRUE]

MCHosts ==
    {[module |-> m, ctx |-> Legacy] : m \in ControlModules \cup Operators \cup {Calling(8, <<0>>)}}
      \cup {[module |-> m, ctx |-> Abi2] : m \in Intrinsics}

\* Cells with three bytes 5, 7, 6 in them, no cells, and more payload than cells.
MCBindings ==
    {[capacity |-> 2, payload |-> 3, cells |-> 0 :> (-3) @@ 1 :> 6],
     [capacity |-> 0, payload |-> 0, cells |-> <<>>],
     [capacity |-> 1, payload |-> 3, cells |-> 0 :> 0]}

MCInputs == {<<>>, <<2>>, <<0, 7, 1>>}

NoArgsOrOne == {<<>>, <<0>>}
=============================================================================
