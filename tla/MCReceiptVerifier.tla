------------------------- MODULE MCReceiptVerifier -------------------------
(***************************************************************************)
(* Swaps of every verdict, in trees of up to three levels.                 *)
(***************************************************************************)
EXTENDS ReceiptVerifier

Swap(rin, rout, ain, aout) ==
    [reserveIn |-> rin, reserveOut |-> rout, amountIn |-> ain, amountOut |-> aout]

Honest == Swap(2, 3, 2, 1)
Skewed == Swap(2, 3, 1, 1)       \* k falls by less than one part in a thousand
Drained == Swap(2, 3, 2, 3)
Huge == Swap(20, 20, 1, 5)       \* k falls, and does not fit in a word

MCSwaps == {Honest, Skewed, Drained, Huge}

Pair(s, t) == Node(Leaf(s), Leaf(t))

\* A digest whose preimage nobody has shown.
Opaque == [opaque |-> TRUE]

MCRoots ==
    {Zero, Opaque, Leaf(Honest), Leaf(Skewed), Pair(Honest, Honest), Pair(Honest, Skewed),
     Pair(Drained, Honest), Pair(Honest, Huge),
     Node(Pair(Honest, Honest), Pair(Honest, Skewed))}

Elements == {Leaf(Honest), Leaf(Skewed), Pair(Honest, Honest), Pair(Honest, Skewed)}
MCProofs == {<<>>} \cup [1..1 -> Elements] \cup [1..2 -> Elements]
=============================================================================
