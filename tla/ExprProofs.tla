----------------------------- MODULE ExprProofs -----------------------------
(***************************************************************************)
(* The expression tools, for every text, every environment and every value *)
(* of the limits: the recursion of the parser is bounded, its arena is in  *)
(* order, the code lowered from it fits its buffer and runs on LinVM to    *)
(* the value of the evaluator, and a receipt that passes is true.          *)
(*                                                                         *)
(* The invariant is ExprInv.  It keeps the parser's call stack (ParseInv), *)
(* the shape of the arena, in which every tree lies in consecutive nodes   *)
(* (ShapeInv), and, once there is code, a plan of its run (Plan): the      *)
(* operand stack in front of each instruction, given by induction over the *)
(* tree the code was lowered from (TreeTranslates).                        *)
(***************************************************************************)
EXTENDS ExprReceipt, LinVMProofs

IsSeq(s) == \E S : s \in Seq(S)

\* An activation of parse_primary has raised p->depth for its callee.
Inside == {"unary", "paren", "arg"}

DepthIn(c) == IF c.wait \in Inside THEN c.depth + 1 ELSE c.depth

\* Activations of parse_expression at one depth are told apart by their minimum;
\* that of parse_primary comes after them.
Rank(c) == IF c.wait \in Inside THEN 5 ELSE c.min + 1

\* Activation number i, when the arena holds n nodes.
CallOK(c, i, n) ==
    /\ DOMAIN c = {"wait", "min", "op", "left", "text", "args", "depth"}
    /\ c.wait \in Waiting
    /\ c.min \in 0..3
    /\ c.depth \in Nat
    /\ c.args \in Seq(Nat)
    /\ DepthIn(c) <= ParserMaxDepth + 1
    /\ i <= 5 * c.depth + Rank(c)
    /\ c.wait = "binary" => c.left \in Nat /\ c.left < n

\* Each activation started at the depth its caller had come to.
Stack(s, n) ==
    /\ IsSeq(s)
    /\ \A i \in 1..Len(s) : CallOK(s[i], i, n)
    /\ \A i \in 1..Len(s) - 1 : s[i + 1].depth = DepthIn(s[i])

\* Node number i - 1 refers to earlier ones.
NodeOK(a, i) ==
    /\ a.tag \in UnaryTags \cup BinaryTags => a.lhs < i - 1
    /\ a.tag \in BinaryTags => a.rhs < i - 1

ArenaOK(a) == IsSeq(a) /\ \A i \in 1..Len(a) : NodeOK(a[i], i)

ParseInv ==
    /\ ArenaOK(arena)
    /\ Stack(calls, Len(arena))
    /\ depth \in Nat
    /\ (parsing \in {"primary", "return"} /\ calls # <<>>) => depth = DepthIn(top_call)
    /\ parsing = "primary" => calls # <<>> /\ top_call.wait \in {"operand", "unary"}
    /\ parsing = "return" => node \in Nat /\ node < Len(arena)

-----------------------------------------------------------------------------
(***************************************************************************)
(* Stacks and arenas                                                       *)
(***************************************************************************)
LEMMA StackPush ==
    ASSUME NEW s, NEW c, NEW n \in Nat, Stack(s, n), CallOK(c, Len(s) + 1, n),
           s # <<>> => c.depth = DepthIn(s[Len(s)])
    PROVE  /\ Stack(Append(s, c), n)
           /\ Append(s, c) # <<>>
           /\ Len(Append(s, c)) = Len(s) + 1
           /\ Append(s, c)[Len(Append(s, c))] = c
PROOF
<1>1. PICK S : s \in Seq(S)
  BY DEF Stack, IsSeq
<1> DEFINE t == Append(s, c)
<1>2. /\ s \in Seq(S \cup {c}) /\ t \in Seq(S \cup {c})
      /\ Len(s) \in Nat /\ Len(t) = Len(s) + 1
  BY <1>1
<1>3. t[Len(s) + 1] = c /\ \A i \in 1..Len(s) : t[i] = s[i]
  BY <1>2
<1>4. IsSeq(t)
  BY <1>2 DEF IsSeq
<1>5. \A i \in 1..Len(t) : CallOK(t[i], i, n)
  <2> SUFFICES ASSUME NEW i \in 1..Len(t) PROVE CallOK(t[i], i, n)
    OBVIOUS
  <2>1. i \in 1..Len(s) \/ i = Len(s) + 1
    BY <1>2
  <2> QED
    BY <2>1, <1>3 DEF Stack
<1>6. \A i \in 1..Len(t) - 1 : t[i + 1].depth = DepthIn(t[i])
  <2> SUFFICES ASSUME NEW i \in 1..Len(s) PROVE t[i + 1].depth = DepthIn(t[i])
    BY <1>2
  <2>1. t[i] = s[i] /\ s # <<>>
    BY <1>3, <1>2
  <2>2. CASE i = Len(s)
    BY <2>1, <2>2, <1>3
  <2>3. CASE i # Len(s)
    <3>1. i \in 1..Len(s) - 1 /\ i + 1 \in 1..Len(s)
      BY <2>3, <1>2
    <3> QED
      BY <3>1, <2>1, <1>3 DEF Stack
  <2> QED
    BY <2>2, <2>3
<1>7. Stack(t, n)
  BY <1>4, <1>5, <1>6 DEF Stack
<1> QED
  BY <1>7, <1>2, <1>3

\* A sequence without its last element.
LEMMA Shorter ==
    ASSUME NEW S, NEW s \in Seq(S), s # <<>>
    PROVE  LET t == SubSeq(s, 1, Len(s) - 1) IN
           t \in Seq(S) /\ Len(t) = Len(s) - 1 /\ \A i \in 1..Len(t) : t[i] = s[i]
PROOF
<1> DEFINE t == SubSeq(s, 1, Len(s) - 1)
<1>0. Len(s) \in Nat \ {0}
  OBVIOUS
<1>1. \A i \in 1..Len(s) - 1 : s[i] \in S
  BY <1>0
<1>2. Len(s) - 1 \in Int /\ 1 \in Int
  BY <1>0
<1>3. /\ t \in Seq(S)
      /\ Len(t) = IF 1 <= Len(s) - 1 THEN Len(s) - 1 - 1 + 1 ELSE 0
      /\ \A i \in 1..Len(s) - 1 - 1 + 1 : t[i] = s[1 + i - 1]
  BY <1>1, <1>2, SubSeqProperties
<1> HIDE DEF t
<1>4. Len(t) = Len(s) - 1
  <2>1. \A k \in Nat \ {0} : (IF 1 <= k - 1 THEN k - 1 - 1 + 1 ELSE 0) = k - 1
    OBVIOUS
  <2>2. Len(t) = IF 1 <= Len(s) - 1 THEN Len(s) - 1 - 1 + 1 ELSE 0
    BY <1>3
  <2> QED
    BY <2>1, <2>2, <1>0, Zenon
<1>5. ASSUME NEW i \in 1..Len(t) PROVE t[i] = s[i]
  <2>1. i \in 1..Len(s) - 1 - 1 + 1 /\ 1 + i - 1 = i
    BY <1>4, <1>0
  <2> QED
    BY <2>1, <1>3
<1> QED
  BY <1>3, <1>4, <1>5 DEF t

LEMMA StackPop ==
    ASSUME NEW s, NEW n \in Nat, Stack(s, n), s # <<>>
    PROVE  LET t == SubSeq(s, 1, Len(s) - 1) IN
           /\ Stack(t, n)
           /\ Len(s) \in Nat \ {0} /\ Len(t) = Len(s) - 1
           /\ CallOK(s[Len(s)], Len(s), n)
           /\ t # <<>> => s[Len(s)].depth = DepthIn(t[Len(t)])
PROOF
<1>1. PICK S : s \in Seq(S)
  BY DEF Stack, IsSeq
<1> DEFINE t == SubSeq(s, 1, Len(s) - 1)
<1>2. Len(s) \in Nat \ {0}
  BY <1>1
<1>3. t \in Seq(S) /\ Len(t) = Len(s) - 1 /\ \A i \in 1..Len(t) : t[i] = s[i]
  BY <1>1, Shorter
<1>4. \A i \in 1..Len(t) : CallOK(t[i], i, n)
  BY <1>2, <1>3 DEF Stack
<1>5. \A i \in 1..Len(t) - 1 : t[i + 1].depth = DepthIn(t[i])
  <2> SUFFICES ASSUME NEW i \in 1..Len(t) - 1 PROVE t[i + 1].depth = DepthIn(t[i])
    OBVIOUS
  <2>1. i \in 1..Len(t) /\ i + 1 \in 1..Len(t) /\ i \in 1..Len(s) - 1
    BY <1>2, <1>3
  <2> QED
    BY <2>1, <1>3 DEF Stack
<1>6. Stack(t, n)
  BY <1>3, <1>4, <1>5 DEF Stack, IsSeq
<1>7. CallOK(s[Len(s)], Len(s), n)
  BY <1>2 DEF Stack
<1>8. ASSUME t # <<>> PROVE s[Len(s)].depth = DepthIn(t[Len(t)])
  <2>0. \A u \in Seq(S) : u # <<>> => Len(u) \in Nat \ {0}
    OBVIOUS
  <2>1. Len(t) \in Nat \ {0}
    BY <2>0, <1>3, <1>8
  <2>2. Len(t) \in 1..Len(s) - 1 /\ Len(t) \in 1..Len(t) /\ Len(t) + 1 = Len(s)
    BY <2>1, <1>2, <1>3
  <2>3. s[Len(t) + 1].depth = DepthIn(s[Len(t)])
    BY <2>2 DEF Stack
  <2> QED
    BY <2>2, <2>3, <1>3
<1> QED
  BY <1>2, <1>3, <1>6, <1>7, <1>8

LEMMA StackGrow ==
    ASSUME NEW s, NEW n \in Nat, NEW m \in Nat, n <= m, Stack(s, n)
    PROVE  Stack(s, m)
PROOF
<1>1. ASSUME NEW c, NEW i, CallOK(c, i, n) PROVE CallOK(c, i, m)
  BY <1>1 DEF CallOK
<1> QED
  BY <1>1 DEF Stack

LEMMA ArenaGrow ==
    ASSUME NEW a, NEW new, ArenaOK(a), IsSeq(new),
           \A k \in 1..Len(new) : NodeOK(new[k], Len(a) + k)
    PROVE  ArenaOK(a \o new) /\ Len(a) \in Nat /\ Len(new) \in Nat
             /\ Len(a \o new) = Len(a) + Len(new)
PROOF
<1>1. PICK S : a \in Seq(S)
  BY DEF ArenaOK, IsSeq
<1>2. PICK T : new \in Seq(T)
  BY DEF IsSeq
<1> DEFINE b == a \o new
<1>3. a \in Seq(S \cup T) /\ new \in Seq(S \cup T) /\ Len(a) \in Nat /\ Len(new) \in Nat
  BY <1>1, <1>2
<1>4. b \in Seq(S \cup T) /\ Len(b) = Len(a) + Len(new)
  BY <1>3
<1>5. ASSUME NEW i \in 1..Len(b) PROVE NodeOK(b[i], i)
  <2>1. CASE i <= Len(a)
    <3>1. i \in 1..Len(a) /\ b[i] = a[i]
      BY <2>1, <1>3, <1>4
    <3> QED
      BY <3>1 DEF ArenaOK
  <2>2. CASE i > Len(a)
    <3>1. i - Len(a) \in 1..Len(new) /\ b[i] = new[i - Len(a)]
      BY <2>2, <1>3, <1>4
    <3>2. Len(a) + (i - Len(a)) = i
      BY <1>3, <1>4
    <3> QED
      BY <3>1, <3>2
  <2> QED
    BY <2>1, <2>2, <1>3, <1>4
<1> QED
  BY <1>3, <1>4, <1>5 DEF ArenaOK, IsSeq

-----------------------------------------------------------------------------
(***************************************************************************)
(* The steps of the parser                                                 *)
(***************************************************************************)

\* Nodes are added, or the arena is full; activations s go on.
LEMMA AddKeeps ==
    ASSUME ParseInv, NEW new, NEW s, AddAndReturn(new, s),
           IsSeq(new), new # <<>>, \A k \in 1..Len(new) : NodeOK(new[k], Len(arena) + k),
           Stack(s, Len(arena)), depth' \in Nat,
           s # <<>> => depth' = DepthIn(s[Len(s)])
    PROVE  ParseInv'
PROOF
<1>1. ArenaOK(arena \o new) /\ Len(arena) \in Nat /\ Len(new) \in Nat
        /\ Len(arena \o new) = Len(arena) + Len(new)
  BY ArenaGrow DEF ParseInv
<1>2. Len(new) # 0
  BY DEF IsSeq
<1>3. CASE Len(arena) + Len(new) <= ArenaCap
  <2>1. /\ arena' = arena \o new /\ node' = Len(arena) + Len(new) - 1
        /\ calls' = s /\ parsing' = "return"
    BY <1>3 DEF AddAndReturn
  <2>2. Len(arena') \in Nat /\ Len(arena) <= Len(arena')
    BY <1>1, <2>1
  <2>3. Stack(calls', Len(arena'))
    BY <1>1, <2>1, <2>2, StackGrow
  <2>4. node' \in Nat /\ node' < Len(arena')
    BY <1>1, <1>2, <2>1
  <2> QED
    BY <1>1, <2>1, <2>3, <2>4 DEF ParseInv, top_call
<1>4. CASE ~(Len(arena) + Len(new) <= ArenaCap)
  BY <1>4 DEF AddAndReturn, ParseInv, top_call
<1> QED
  BY <1>3, <1>4

\* A call of parse_primary begins.
LEMMA DescendKeeps ==
    ASSUME ParseInv, NEW s, Descend(s), Stack(s, Len(arena)), s # <<>>,
           depth' \in Nat, depth' = DepthIn(s[Len(s)]),
           s[Len(s)].wait \in {"operand", "unary"}
    PROVE  ParseInv'
PROOF
  BY DEF Descend, ParseInv, top_call

LEMMA ParseFailKeeps ==
    ASSUME ParseInv, NEW e \in ParseErrors, ParseFails(e)
    PROVE  ParseInv'
PROOF
  BY DEF ParseFails, ParseErrors, ParseInv, top_call

\* One node that nothing in front of it disturbs.
LEMMA OneNode ==
    ASSUME NEW a, NEW i \in Nat, NodeOK(a, i + 1)
    PROVE  IsSeq(<<a>>) /\ <<a>> # <<>> /\ \A k \in 1..Len(<<a>>) : NodeOK(<<a>>[k], i + k)
PROOF
<1>1. <<a>> \in Seq({a}) /\ Len(<<a>>) = 1 /\ <<a>>[1] = a
  OBVIOUS
<1>2. IsSeq(<<a>>)
  BY <1>1, Zenon DEF IsSeq
<1>3. <<a>> # <<>>
  OBVIOUS
<1>4. ASSUME NEW k \in 1..Len(<<a>>) PROVE NodeOK(<<a>>[k], i + k)
  <2>1. k = 1
    BY <1>1
  <2> QED
    BY <2>1, <1>1
<1> QED
  BY <1>2, <1>3, <1>4

LEMMA Counted ==
    ASSUME ParseInv
    PROVE  Len(arena) \in Nat
PROOF
  BY DEF ParseInv, ArenaOK, IsSeq

LEMMA LeafKeeps ==
    ASSUME ParseInv, Literal \/ Variable
    PROVE  ParseInv'
PROOF
<1>1. PICK tag \in Leaf : AddAndReturn(<<AstNode(tag, 0, 0, look.text)>>, calls)
  BY DEF Literal, Variable, Leaf
<1>2. parsing = "primary" /\ UNCHANGED depth
  BY DEF Literal, Variable, Entering
<1>3. NodeOK(AstNode(tag, 0, 0, look.text), Len(arena) + 1)
  BY DEF NodeOK, AstNode, Leaf, UnaryTags, BinaryTags, Comparisons, Additions, Products
<1>4. Stack(calls, Len(arena)) /\ depth' \in Nat /\ calls # <<>> /\ depth' = DepthIn(calls[Len(calls)])
  BY <1>2 DEF ParseInv, top_call
<1> QED
  BY <1>1, <1>3, <1>4, OneNode, Counted, AddKeeps

\* What parse_primary knows when it goes on to a call at depth + 1.
LEMMA EnterFacts ==
    ASSUME ParseInv, NEW kinds, Entering(kinds),
           NEW c, DOMAIN c = {"wait", "min", "op", "left", "text", "args", "depth"},
           c.wait \in Inside, c.min = 0, c.depth = depth, c.args = <<>>
    PROVE  /\ Stack(Append(calls, c), Len(arena))
           /\ Append(calls, c) # <<>>
           /\ Len(Append(calls, c)) = Len(calls) + 1
           /\ Append(calls, c)[Len(Append(calls, c))] = c
           /\ Len(calls) \in Nat
           /\ Len(calls) + 1 <= 5 * depth + 5
           /\ depth \in Nat /\ depth <= ParserMaxDepth
           /\ DepthIn(c) = depth + 1
PROOF
<1>1. parsing = "primary" /\ depth <= ParserMaxDepth /\ depth \in Nat
  BY DEF Entering, ParseInv
<1>2. /\ calls # <<>> /\ depth = DepthIn(top_call)
      /\ top_call.wait \in {"operand", "unary"} /\ Stack(calls, Len(arena))
  BY <1>1 DEF ParseInv
<1>3. Len(calls) \in Nat \ {0} /\ CallOK(top_call, Len(calls), Len(arena))
  BY <1>2, StackPop, Counted DEF top_call
<1>4. Len(calls) + 1 <= 5 * depth + 5
  <2>1. CASE top_call.wait = "operand"
    <3>1. depth = top_call.depth /\ Len(calls) <= 5 * top_call.depth + top_call.min + 1
            /\ top_call.min \in 0..3
      BY <2>1, <1>2, <1>3 DEF DepthIn, CallOK, Rank, Inside
    <3> QED
      BY <3>1, <1>1, <1>3
  <2>2. CASE top_call.wait = "unary"
    <3>1. depth = top_call.depth + 1 /\ Len(calls) <= 5 * top_call.depth + 5
            /\ top_call.depth \in Nat
      BY <2>2, <1>2, <1>3 DEF DepthIn, CallOK, Rank, Inside
    <3> QED
      BY <3>1, <1>1, <1>3
  <2> QED
    BY <2>1, <2>2, <1>2
<1>5. DepthIn(c) = depth + 1
  BY DEF DepthIn
<1>6. Rank(c) = 5
  BY DEF Rank
<1>7. CallOK(c, Len(calls) + 1, Len(arena))
  <2>1. c.wait \in Waiting /\ c.wait # "binary"
    BY DEF Waiting, Inside
  <2>2. DepthIn(c) <= ParserMaxDepth + 1
    BY <1>1, <1>5, ParserAssumption
  <2> QED
    BY <2>1, <2>2, <1>1, <1>4, <1>6 DEF CallOK
<1> QED
  BY <1>1, <1>2, <1>3, <1>4, <1>5, <1>7, StackPush, Counted DEF top_call

LEMMA TwoMore ==
    ASSUME NEW s, NEW c, NEW d, IsSeq(s)
    PROVE  s \o <<c, d>> = Append(Append(s, c), d)
PROOF
<1>1. PICK S : s \in Seq(S)
  BY DEF IsSeq
<1>2. s \in Seq(S \cup {c, d})
  BY <1>1
<1> QED
  BY <1>2

\* parse_expression starts with p->depth where its caller has left it.
LEMMA ExpressionPush ==
    ASSUME NEW s, NEW n \in Nat, NEW e, Stack(s, n), s # <<>>,
           DOMAIN e = {"wait", "min", "op", "left", "text", "args", "depth"},
           e.wait = "operand", e.min \in 0..3, e.args = <<>>,
           e.depth = DepthIn(s[Len(s)]),
           s[Len(s)].wait \in Inside \/ s[Len(s)].min < e.min
    PROVE  /\ Stack(Append(s, e), n)
           /\ Append(s, e) # <<>>
           /\ Append(s, e)[Len(Append(s, e))] = e
           /\ DepthIn(e) = e.depth
PROOF
<1> DEFINE c == s[Len(s)]
<1>1. Len(s) \in Nat \ {0} /\ CallOK(c, Len(s), n)
  BY StackPop
<1>2. Len(s) + 1 <= 5 * e.depth + (e.min + 1)
  <2>1. CASE c.wait \in Inside
    <3>1. e.depth = c.depth + 1 /\ Len(s) <= 5 * c.depth + 5 /\ c.depth \in Nat
      BY <2>1, <1>1 DEF CallOK, DepthIn, Rank
    <3> QED
      BY <3>1, <1>1
  <2>2. CASE c.wait \notin Inside
    <3>1. e.depth = c.depth /\ Len(s) <= 5 * c.depth + (c.min + 1) /\ c.depth \in Nat
            /\ c.min \in 0..3 /\ c.min < e.min
      BY <2>2, <1>1 DEF CallOK, DepthIn, Rank
    <3> QED
      BY <3>1, <1>1
  <2> QED
    BY <2>1, <2>2
<1>3. DepthIn(e) = e.depth /\ Rank(e) = e.min + 1 /\ e.wait \in Waiting
  BY DEF DepthIn, Rank, Inside, Waiting
<1>4. e.depth \in Nat /\ e.depth <= ParserMaxDepth + 1
  BY <1>1 DEF CallOK, DepthIn
<1>5. CallOK(e, Len(s) + 1, n)
  BY <1>2, <1>3, <1>4 DEF CallOK
<1> QED
  BY <1>3, <1>5, StackPush

LEMMA SignKeeps ==
    ASSUME ParseInv, Sign
    PROVE  ParseInv'
PROOF
<1> DEFINE c == Activation("unary", 0,
                   IF look.kind = "+" THEN "unary_pos" ELSE "unary_neg", 0, <<>>, <<>>)
           s == Append(calls, c)
<1>1. Entering({"+", "-"}) /\ Descend(s) /\ depth' = depth + 1
  BY DEF Sign
<1>2. /\ DOMAIN c = {"wait", "min", "op", "left", "text", "args", "depth"}
      /\ c.wait = "unary" /\ c.min = 0 /\ c.depth = depth /\ c.args = <<>>
  BY DEF Activation
<1> HIDE DEF c
<1>3. c.wait \in Inside
  BY <1>2 DEF Inside
<1>4. /\ Stack(s, Len(arena)) /\ s # <<>> /\ s[Len(s)] = c
      /\ depth \in Nat /\ DepthIn(c) = depth + 1
  BY <1>1, <1>2, <1>3, EnterFacts
<1> HIDE DEF s
<1>5. depth' \in Nat /\ depth' = DepthIn(s[Len(s)]) /\ s[Len(s)].wait \in {"operand", "unary"}
  BY <1>1, <1>2, <1>4
<1> QED
  BY <1>1, <1>4, <1>5, DescendKeeps

\* A parenthesis or an argument list: an activation that waits, and an expression.
LEMMA OpenKeeps ==
    ASSUME ParseInv, NEW kinds, Entering(kinds), depth' = depth + 1,
           NEW w \in {"paren", "arg"}, NEW text,
           Descend(calls \o <<Activation(w, 0, "none", 0, text, <<>>),
                              [Expression(0) EXCEPT !.depth = depth + 1]>>)
    PROVE  ParseInv'
PROOF
<1> DEFINE c == Activation(w, 0, "none", 0, text, <<>>)
           e == [Expression(0) EXCEPT !.depth = depth + 1]
           s == Append(calls, c)
<1>1. /\ DOMAIN c = {"wait", "min", "op", "left", "text", "args", "depth"}
      /\ c.wait = w /\ c.min = 0 /\ c.depth = depth /\ c.args = <<>>
  BY DEF Activation
<1>2. /\ DOMAIN e = {"wait", "min", "op", "left", "text", "args", "depth"}
      /\ e.wait = "operand" /\ e.min = 0 /\ e.depth = depth + 1 /\ e.args = <<>>
  BY DEF Activation, Expression
<1> HIDE DEF c, e
<1>3. c.wait \in Inside
  BY <1>1 DEF Inside
<1>4. /\ Stack(s, Len(arena)) /\ s # <<>> /\ s[Len(s)] = c
      /\ depth \in Nat /\ DepthIn(c) = depth + 1
  BY <1>1, <1>3, EnterFacts
<1>5. IsSeq(calls) /\ Len(arena) \in Nat
  BY Counted DEF ParseInv, Stack
<1> DEFINE r == Append(s, e)
<1>6. calls \o <<c, e>> = r
  BY <1>5, TwoMore
<1>7. Descend(r)
  BY <1>6 DEF c, e
<1> HIDE DEF s
<1>8. e.min \in 0..3 /\ e.depth = DepthIn(s[Len(s)]) /\ s[Len(s)].wait \in Inside
  BY <1>2, <1>3, <1>4
<1>9. /\ Stack(r, Len(arena)) /\ r # <<>>
      /\ r[Len(r)] = e /\ DepthIn(e) = e.depth
  BY <1>2, <1>4, <1>5, <1>8, ExpressionPush
<1> HIDE DEF r
<1>10. depth' \in Nat /\ depth' = DepthIn(r[Len(r)]) /\ r[Len(r)].wait \in {"operand", "unary"}
  BY <1>2, <1>4, <1>9
<1> QED
  BY <1>7, <1>9, <1>10, DescendKeeps

LEMMA CallBeginKeeps ==
    ASSUME ParseInv, CallBegin
    PROVE  ParseInv'
PROOF
<1> DEFINE new == AstNode("call", 0, 0, look.text)
<1>1. Entering({"IDENT"})
  BY DEF CallBegin
<1>2. CASE AddAndReturn(<<new>>, calls) /\ UNCHANGED depth
  <2>1. NodeOK(new, Len(arena) + 1)
    BY DEF NodeOK, AstNode, UnaryTags, BinaryTags, Comparisons, Additions, Products
  <2>2. Stack(calls, Len(arena)) /\ depth' \in Nat /\ depth' = DepthIn(calls[Len(calls)])
    BY <1>1, <1>2 DEF Entering, ParseInv, top_call
  <2> HIDE DEF new
  <2> QED
    BY <1>2, <2>1, <2>2, OneNode, Counted, AddKeeps
<1>3. CASE /\ depth' = depth + 1
           /\ Descend(calls \o <<Activation("arg", 0, "none", 0, look.text, <<>>),
                                  [Expression(0) EXCEPT !.depth = depth + 1]>>)
  BY <1>1, <1>3, OpenKeeps
<1> QED
  BY <1>2, <1>3 DEF CallBegin

LEMMA ParenKeeps ==
    ASSUME ParseInv, Paren
    PROVE  ParseInv'
PROOF
<1>1. /\ Entering({"("}) /\ depth' = depth + 1
      /\ Descend(calls \o <<Activation("paren", 0, "none", 0, <<>>, <<>>),
                             [Expression(0) EXCEPT !.depth = depth + 1]>>)
  BY DEF Paren
<1> QED
  BY <1>1, OpenKeeps

\* A node has come back to the newest activation.
LEMMA ReturnFacts ==
    ASSUME ParseInv, NEW waits, Returned(waits)
    PROVE  /\ parsing = "return" /\ calls # <<>> /\ top_call.wait \in waits
           /\ Len(arena) \in Nat
           /\ node \in Nat /\ node < Len(arena)
           /\ depth = DepthIn(top_call)
           /\ Stack(Callers, Len(arena))
           /\ Len(calls) \in Nat \ {0} /\ Len(Callers) + 1 = Len(calls)
           /\ CallOK(top_call, Len(calls), Len(arena))
           /\ Callers # <<>> => top_call.depth = DepthIn(Callers[Len(Callers)])
PROOF
<1>1. /\ parsing = "return" /\ calls # <<>> /\ top_call.wait \in waits
      /\ node \in Nat /\ node < Len(arena) /\ depth = DepthIn(top_call)
      /\ Stack(calls, Len(arena)) /\ Len(arena) \in Nat
  BY Counted DEF Returned, ParseInv
<1>2. /\ Stack(Callers, Len(arena))
      /\ Len(calls) \in Nat \ {0} /\ Len(Callers) = Len(calls) - 1
      /\ CallOK(top_call, Len(calls), Len(arena))
      /\ Callers # <<>> => top_call.depth = DepthIn(Callers[Len(Callers)])
  BY <1>1, StackPop DEF Callers, top_call
<1>3. Len(Callers) + 1 = Len(calls)
  BY <1>2
<1> QED
  BY <1>1, <1>2, <1>3

LEMMA SignEndKeeps ==
    ASSUME ParseInv, SignEnd
    PROVE  ParseInv'
PROOF
<1> DEFINE new == AstNode(top_call.op, node, 0, <<>>)
<1>1. /\ Returned({"unary"}) /\ depth' = top_call.depth
      /\ AddAndReturn(<<new>>, Callers)
  BY DEF SignEnd
<1>2. /\ Len(arena) \in Nat /\ node \in Nat /\ node < Len(arena)
      /\ Stack(Callers, Len(arena)) /\ CallOK(top_call, Len(calls), Len(arena))
      /\ Callers # <<>> => top_call.depth = DepthIn(Callers[Len(Callers)])
  BY <1>1, ReturnFacts
<1>3. NodeOK(new, Len(arena) + 1)
  BY <1>2 DEF NodeOK, AstNode
<1>4. depth' \in Nat /\ (Callers # <<>> => depth' = DepthIn(Callers[Len(Callers)]))
  BY <1>1, <1>2 DEF CallOK
<1> HIDE DEF new
<1> QED
  BY <1>1, <1>2, <1>3, <1>4, OneNode, AddKeeps

LEMMA ParenEndKeeps ==
    ASSUME ParseInv, ParenEnd
    PROVE  ParseInv'
PROOF
<1>1. Returned({"paren"})
  BY DEF ParenEnd
<1>2. CASE depth' = top_call.depth /\ calls' = Callers /\ UNCHANGED <<arena, node, parsing>>
  <2>1. /\ parsing = "return" /\ Stack(Callers, Len(arena))
        /\ CallOK(top_call, Len(calls), Len(arena))
        /\ Callers # <<>> => top_call.depth = DepthIn(Callers[Len(Callers)])
    BY <1>1, ReturnFacts
  <2>2. depth' \in Nat
    BY <1>2, <2>1 DEF CallOK
  <2>3. Stack(calls, Len(arena))' /\ ArenaOK(arena)' /\ parsing' = "return"
    BY <1>2, <2>1 DEF ParseInv
  <2>4. calls' # <<>> => depth' = DepthIn(calls'[Len(calls')])
    BY <1>2, <2>1
  <2> QED
    BY <1>2, <2>2, <2>3, <2>4 DEF ParseInv, top_call
<1>3. CASE ParseFails("MISSING_CLOSE_PAREN")
  BY <1>3, ParseFailKeeps DEF ParseErrors
<1> QED
  BY <1>2, <1>3 DEF ParenEnd

\* The nodes of a call are of no kind that the evaluator or lowerer follows.
LEMMA CallNodesOK ==
    ASSUME NEW text, NEW args \in Seq(Nat), Len(arena) \in Nat
    PROVE  LET new == CallNodes(text, args) IN
           /\ IsSeq(new) /\ new # <<>>
           /\ \A k \in 1..Len(new) : NodeOK(new[k], Len(arena) + k)
           /\ \A k \in 1..Len(new) : new[k].tag \in {"call_arg", "call"}
PROOF
<1> DEFINE chain == [i \in 1..Len(args) |-> AstNode("call_arg", args[i],
                        IF i = 1 THEN 0 ELSE Len(arena) + i - 2, <<>>)]
           last == AstNode("call", Len(arena) + Len(args) - 1, 0, text)
           T == {chain[i] : i \in 1..Len(args)} \cup {last}
           new == chain \o <<last>>
<1>1. Len(args) \in Nat
  OBVIOUS
<1>2. \A i \in 1..Len(args) : chain[i].tag = "call_arg"
  BY DEF AstNode
<1>3. last.tag = "call"
  BY DEF AstNode
<1>4. chain \in Seq(T) /\ Len(chain) = Len(args)
  <2>1. chain \in [1..Len(args) -> T]
    OBVIOUS
  <2> HIDE DEF chain, T
  <2> QED
    BY <1>1, <2>1
<1>5. last \in T
  OBVIOUS
<1> HIDE DEF chain, last, T
<1>6. /\ new \in Seq(T) /\ Len(new) = Len(args) + 1
      /\ \A k \in 1..Len(args) : new[k] = chain[k]
      /\ new[Len(args) + 1] = last
  BY <1>1, <1>4, <1>5
<1> HIDE DEF new
<1>7. \A k \in 1..Len(new) : new[k].tag \in {"call_arg", "call"}
  <2> SUFFICES ASSUME NEW k \in 1..Len(new) PROVE new[k].tag \in {"call_arg", "call"}
    OBVIOUS
  <2>1. k \in 1..Len(args) \/ k = Len(args) + 1
    BY <1>1, <1>6
  <2> QED
    BY <2>1, <1>2, <1>3, <1>6
<1>8. \A k \in 1..Len(new) : NodeOK(new[k], Len(arena) + k)
  BY <1>7 DEF NodeOK, UnaryTags, BinaryTags, Comparisons, Additions, Products
<1>9. IsSeq(new) /\ new # <<>>
  BY <1>1, <1>6 DEF IsSeq
<1>10. new = CallNodes(text, args)
  BY DEF new, chain, last, CallNodes
<1> QED
  BY <1>7, <1>8, <1>9, <1>10

\* The newest activation goes on in another place, at the same depth.
LEMMA Replaced ==
    ASSUME ParseInv, NEW waits, Returned(waits), NEW c,
           DOMAIN c = DOMAIN top_call, c.wait \in Waiting, c.min = top_call.min,
           c.depth = top_call.depth, c.args \in Seq(Nat),
           c.wait \in Inside <=> top_call.wait \in Inside,
           c.wait = "binary" => c.left = node
    PROVE  /\ Stack(Append(Callers, c), Len(arena))
           /\ Append(Callers, c) # <<>>
           /\ Append(Callers, c)[Len(Append(Callers, c))] = c
           /\ DepthIn(c) = depth
PROOF
<1>1. /\ Len(arena) \in Nat /\ node \in Nat /\ node < Len(arena)
      /\ depth = DepthIn(top_call)
      /\ Stack(Callers, Len(arena))
      /\ Len(Callers) + 1 = Len(calls)
      /\ CallOK(top_call, Len(calls), Len(arena))
      /\ Callers # <<>> => top_call.depth = DepthIn(Callers[Len(Callers)])
  BY ReturnFacts
<1>2. DepthIn(c) = DepthIn(top_call) /\ Rank(c) = Rank(top_call)
  BY DEF DepthIn, Rank
<1>3. CallOK(c, Len(Callers) + 1, Len(arena))
  BY <1>1, <1>2 DEF CallOK
<1> QED
  BY <1>1, <1>2, <1>3, StackPush

LEMMA ArgEndKeeps ==
    ASSUME ParseInv, ArgEnd
    PROVE  ParseInv'
PROOF
<1> DEFINE args == Append(top_call.args, node)
<1>1. Returned({"arg"})
  BY DEF ArgEnd
<1>2. /\ Len(arena) \in Nat /\ node \in Nat
      /\ depth = DepthIn(top_call) /\ depth \in Nat /\ top_call.wait = "arg"
      /\ Stack(Callers, Len(arena))
      /\ CallOK(top_call, Len(calls), Len(arena))
      /\ Callers # <<>> => top_call.depth = DepthIn(Callers[Len(Callers)])
  BY <1>1, ReturnFacts DEF ParseInv
<1>3. args \in Seq(Nat)
  BY <1>2 DEF CallOK
<1>4. CASE /\ Descend(Callers \o <<[top_call EXCEPT !.args = args], Expression(0)>>)
           /\ UNCHANGED depth
  <2> DEFINE c == [top_call EXCEPT !.args = args]
             e == Expression(0)
             s == Append(Callers, c)
             r == Append(s, e)
  <2>1. /\ DOMAIN c = DOMAIN top_call /\ c.wait = "arg" /\ c.min = top_call.min
        /\ c.depth = top_call.depth /\ c.args = args
    BY <1>2 DEF CallOK
  <2>2. /\ DOMAIN e = {"wait", "min", "op", "left", "text", "args", "depth"}
        /\ e.wait = "operand" /\ e.min = 0 /\ e.depth = depth /\ e.args = <<>>
    BY DEF Activation, Expression
  <2> HIDE DEF c, e, args
  <2>3. c.wait \in Waiting /\ c.wait \in Inside /\ top_call.wait \in Inside
    BY <1>2, <2>1 DEF Waiting, Inside
  <2>4. /\ Stack(s, Len(arena)) /\ s # <<>> /\ s[Len(s)] = c /\ DepthIn(c) = depth
    BY <1>1, <1>3, <2>1, <2>3, Replaced
  <2>5. Callers \o <<c, e>> = r
    BY <1>2, TwoMore DEF Stack
  <2>6. Descend(r)
    BY <1>4, <2>5 DEF c, e
  <2> HIDE DEF s
  <2>7. e.min \in 0..3 /\ e.depth = DepthIn(s[Len(s)]) /\ s[Len(s)].wait \in Inside
    BY <2>2, <2>3, <2>4
  <2>8. /\ Stack(r, Len(arena)) /\ r # <<>>
        /\ r[Len(r)] = e /\ DepthIn(e) = e.depth
    BY <1>2, <2>2, <2>4, <2>7, ExpressionPush
  <2> HIDE DEF r
  <2>9. depth' \in Nat /\ depth' = DepthIn(r[Len(r)]) /\ r[Len(r)].wait \in {"operand", "unary"}
    BY <1>2, <1>4, <2>2, <2>8
  <2> QED
    BY <2>6, <2>8, <2>9, DescendKeeps
<1>5. CASE \E x \in {"ARENA_OOM", "MISSING_CLOSE_PAREN"} : ParseFails(x)
  BY <1>5, ParseFailKeeps DEF ParseErrors
<1>6. CASE depth' = top_call.depth /\ AddAndReturn(CallNodes(top_call.text, args), Callers)
  <2> DEFINE new == CallNodes(top_call.text, args)
  <2>1. IsSeq(new) /\ new # <<>> /\ \A k \in 1..Len(new) : NodeOK(new[k], Len(arena) + k)
    BY <1>2, <1>3, CallNodesOK
  <2>2. depth' \in Nat /\ (Callers # <<>> => depth' = DepthIn(Callers[Len(Callers)]))
    BY <1>2, <1>6 DEF CallOK
  <2>3. AddAndReturn(new, Callers)
    BY <1>6
  <2> HIDE DEF new
  <2> QED
    BY <1>2, <2>1, <2>2, <2>3, AddKeeps
<1> QED
  BY <1>4, <1>5, <1>6 DEF ArgEnd

LEMMA CombineKeeps ==
    ASSUME ParseInv, Combine
    PROVE  ParseInv'
PROOF
<1> DEFINE new == AstNode(top_call.op, top_call.left, node, <<>>)
           c == [top_call EXCEPT !.wait = "operand"]
           s == Append(Callers, c)
<1>1. Returned({"binary"}) /\ AddAndReturn(<<new>>, s) /\ UNCHANGED depth
  BY DEF Combine
<1>2. /\ Len(arena) \in Nat /\ node \in Nat /\ node < Len(arena)
      /\ top_call.wait = "binary" /\ depth \in Nat
      /\ CallOK(top_call, Len(calls), Len(arena))
  BY <1>1, ReturnFacts DEF ParseInv
<1>3. NodeOK(new, Len(arena) + 1)
  BY <1>2 DEF NodeOK, AstNode, CallOK
<1>4. /\ DOMAIN c = DOMAIN top_call /\ c.wait = "operand" /\ c.min = top_call.min
      /\ c.depth = top_call.depth /\ c.args \in Seq(Nat)
  BY <1>2 DEF CallOK
<1> HIDE DEF new, c
<1>5. c.wait \in Waiting /\ c.wait \notin Inside /\ top_call.wait \notin Inside
  BY <1>2, <1>4 DEF Waiting, Inside
<1>6. Stack(s, Len(arena)) /\ s[Len(s)] = c /\ DepthIn(c) = depth
  BY <1>1, <1>4, <1>5, Replaced
<1> HIDE DEF s
<1>7. depth' \in Nat /\ depth' = DepthIn(s[Len(s)])
  BY <1>1, <1>2, <1>6
<1> QED
  BY <1>1, <1>2, <1>3, <1>6, <1>7, OneNode, AddKeeps

LEMMA TakeOperatorKeeps ==
    ASSUME ParseInv, TakeOperator
    PROVE  ParseInv'
PROOF
<1> DEFINE c == [top_call EXCEPT !.wait = "binary", !.op = look.kind, !.left = node]
           e == Expression(get_precedence(look.kind))
           s == Append(Callers, c)
           r == Append(s, e)
<1>1. /\ Returned({"operand"}) /\ get_precedence(look.kind) > top_call.min
      /\ Descend(Callers \o <<c, e>>) /\ UNCHANGED depth
  BY DEF TakeOperator, Binds
<1>2. /\ Len(arena) \in Nat /\ depth \in Nat /\ top_call.wait = "operand"
      /\ Stack(Callers, Len(arena))
      /\ CallOK(top_call, Len(calls), Len(arena))
  BY <1>1, ReturnFacts DEF ParseInv
<1>3. get_precedence(look.kind) \in 0..3
  BY DEF get_precedence
<1>4. /\ DOMAIN c = DOMAIN top_call /\ c.wait = "binary" /\ c.min = top_call.min
      /\ c.depth = top_call.depth /\ c.args \in Seq(Nat) /\ c.left = node
  BY <1>2 DEF CallOK
<1>5. /\ DOMAIN e = {"wait", "min", "op", "left", "text", "args", "depth"}
      /\ e.wait = "operand" /\ e.min = get_precedence(look.kind)
      /\ e.depth = depth /\ e.args = <<>>
  BY DEF Activation, Expression
<1> HIDE DEF c, e
<1>6. c.wait \in Waiting /\ c.wait \notin Inside /\ top_call.wait \notin Inside
  BY <1>2, <1>4 DEF Waiting, Inside
<1>7. Stack(s, Len(arena)) /\ s # <<>> /\ s[Len(s)] = c /\ DepthIn(c) = depth
  BY <1>1, <1>4, <1>6, Replaced
<1>8. Callers \o <<c, e>> = r
  BY <1>2, TwoMore DEF Stack
<1>9. Descend(r)
  BY <1>1, <1>8
<1> HIDE DEF s
<1>10. s[Len(s)].min < e.min
  <2>1. top_call.min \in 0..3
    BY <1>2 DEF CallOK
  <2> QED
    BY <2>1, <1>1, <1>3, <1>4, <1>5, <1>7
<1>11. e.min \in 0..3 /\ e.depth = DepthIn(s[Len(s)])
  BY <1>3, <1>5, <1>7
<1>12. /\ Stack(r, Len(arena)) /\ r # <<>>
       /\ r[Len(r)] = e /\ DepthIn(e) = e.depth
  BY <1>2, <1>5, <1>7, <1>10, <1>11, ExpressionPush
<1> HIDE DEF r
<1>13. depth' \in Nat /\ depth' = DepthIn(r[Len(r)]) /\ r[Len(r)].wait \in {"operand", "unary"}
  BY <1>1, <1>2, <1>5, <1>12
<1> QED
  BY <1>9, <1>12, <1>13, DescendKeeps

LEMMA ExpressionEndKeeps ==
    ASSUME ParseInv, ExpressionEnd
    PROVE  ParseInv'
PROOF
<1>1. Returned({"operand"}) /\ calls' = Callers /\ UNCHANGED <<arena, depth, node, parsing>>
  BY DEF ExpressionEnd
<1>2. /\ parsing = "return" /\ depth = DepthIn(top_call) /\ top_call.wait = "operand"
      /\ Stack(Callers, Len(arena))
      /\ Callers # <<>> => top_call.depth = DepthIn(Callers[Len(Callers)])
  BY <1>1, ReturnFacts
<1>3. depth = top_call.depth
  BY <1>2 DEF DepthIn, Inside
<1>4. calls' # <<>> => depth' = DepthIn(calls'[Len(calls')])
  BY <1>1, <1>2, <1>3
<1>5. Stack(calls, Len(arena))' /\ ArenaOK(arena)' /\ parsing' = "return"
  BY <1>1, <1>2 DEF ParseInv
<1> QED
  BY <1>1, <1>4, <1>5 DEF ParseInv, top_call

-----------------------------------------------------------------------------
LEMMA ParserInitOK ==
    ASSUME ParserInit
    PROVE  ParseInv
PROOF
<1> DEFINE c == [wait |-> "operand", min |-> 0, op |-> "none", left |-> 0,
                 text |-> <<>>, args |-> <<>>, depth |-> 0]
<1>1. /\ arena = <<>> /\ depth = 0 /\ calls = <<c>> /\ parsing = "primary"
  BY DEF ParserInit
<1>2. calls \in Seq({c}) /\ Len(calls) = 1 /\ calls[1] = c /\ calls # <<>>
  BY <1>1
<1>3. DepthIn(c) = 0 /\ Rank(c) = 1
  BY DEF DepthIn, Rank, Inside
<1>4. CallOK(c, 1, 0)
  BY <1>3, ParserAssumption DEF CallOK, Waiting
<1>5. c.wait = "operand"
  OBVIOUS
<1> HIDE DEF c
<1>6. ArenaOK(arena) /\ Len(arena) = 0
  <2>1. arena \in Seq({}) /\ Len(arena) = 0
    BY <1>1
  <2> QED
    BY <2>1 DEF ArenaOK, IsSeq
<1>7. Stack(calls, Len(arena))
  <2>1. IsSeq(calls)
    BY <1>2 DEF IsSeq
  <2>2. \A i \in 1..Len(calls) : i = 1
    BY <1>2
  <2>3. \A i \in 1..Len(calls) : CallOK(calls[i], i, Len(arena))
    BY <2>2, <1>2, <1>4, <1>6
  <2>4. 1..Len(calls) - 1 = {}
    BY <1>2
  <2> QED
    BY <2>1, <2>3, <2>4 DEF Stack
<1> QED
  BY <1>1, <1>2, <1>3, <1>5, <1>6, <1>7 DEF ParseInv, top_call

LEMMA ParserNextOK ==
    ASSUME ParseInv, [ParseStep \/ ParseFullEnd]_parseVars
    PROVE  ParseInv'
PROOF
<1>1. CASE TooDeep \/ Unexpected
  BY <1>1, ParseFailKeeps DEF TooDeep, Unexpected, ParseErrors
<1>2. CASE Literal \/ Variable
  BY <1>2, LeafKeeps
<1>3. CASE ParseFullEnd
  BY <1>3 DEF ParseFullEnd, ParseInv, top_call
<1>4. CASE UNCHANGED parseVars
  BY <1>4 DEF parseVars, ParseInv, top_call
<1> QED
  BY <1>1, <1>2, <1>3, <1>4, CallBeginKeeps, SignKeeps, ParenKeeps, SignEndKeeps,
     ParenEndKeeps, ArgEndKeeps, CombineKeeps, TakeOperatorKeeps, ExpressionEndKeeps
     DEF ParseStep

-----------------------------------------------------------------------------
(***************************************************************************)
(* Tokens                                                                  *)
(***************************************************************************)
LEMMA RunEndOK ==
    ASSUME NEW T, src \in Seq(T), NEW p \in 0..Len(src), NEW S
    PROVE  /\ RunEnd(p, S) \in p..Len(src)
           /\ \A i \in p + 1..RunEnd(p, S) : src[i] \in S
PROOF
<1> DEFINE L == Len(src)
           Ends == {q \in Nat : q \in p..L /\ (q < L => src[q + 1] \notin S)}
<1>1. L \in Nat /\ p \in Nat /\ p <= L
  OBVIOUS
<1>2. L \in Ends
  BY <1>1
<1>3. PICK q \in Ends : \A r \in Ends : q <= r
  <2> HIDE DEF Ends
  <2>1. Ends \in SUBSET Nat
    BY DEF Ends
  <2> QED
    BY <1>2, <2>1, LeastOf
<1>4. q \in p..L /\ (q < L => src[q + 1] \notin S)
  BY <1>3
<1>5. ASSUME NEW i \in p + 1..q PROVE src[i] \in S
  <2>1. i - 1 \in Nat /\ i - 1 \in p..L /\ i - 1 < q /\ (i - 1) + 1 = i
    BY <1>1, <1>4
  <2>2. i - 1 \notin Ends
    <3> HIDE DEF Ends
    <3> QED
      BY <1>3, <2>1, <1>4
  <2> QED
    BY <2>1, <2>2
<1>6. \E r \in p..Len(src) : /\ \A i \in p + 1..r : src[i] \in S
                             /\ r < Len(src) => src[r + 1] \notin S
  BY <1>4, <1>5
<1> HIDE DEF Ends, L
<1> QED
  BY <1>6 DEF RunEnd

\* A token ends inside the text, and a literal has digits only.
LEMMA TokenOK ==
    ASSUME src \in Seq(STRING), NEW p \in 0..Len(src)
    PROVE  /\ NextToken(p).end \in 0..Len(src)
           /\ NextToken(p).kind = "INT_LIT" => NextToken(p).text \in Seq(DOMAIN Digit)
PROOF
<1> DEFINE L == Len(src)
           t == NextToken(p)
           s == RunEnd(p, Space)
           ident == Letters \cup DOMAIN Digit
           digits == RunEnd(s, DOMAIN Digit)
           name == RunEnd(s, ident)
<1>1. L \in Nat
  OBVIOUS
<1>2. s \in p..L
  BY RunEndOK
<1>3. s \in 0..L
  BY <1>1, <1>2
<1> HIDE DEF s
<1>4. digits \in s..L /\ \A i \in s + 1..digits : src[i] \in DOMAIN Digit
  BY <1>3, RunEndOK
<1>5. name \in s..L
  BY <1>3, RunEndOK
<1>6. SubSeq(src, s + 1, digits) \in Seq(DOMAIN Digit)
  <2> HIDE DEF digits
  <2>1. s + 1 \in Int /\ digits \in Int
    BY <1>1, <1>3, <1>4
  <2> QED
    BY <1>4, <2>1, SubSeqProperties
<1> HIDE DEF digits, name
<1>7. \/ t = Token("EOF", <<>>, s)
      \/ t = Token("INVALID", <<>>, digits)
      \/ t = Token("INT_LIT", SubSeq(src, s + 1, digits), digits)
      \/ t = Token("IDENT", SubSeq(src, s + 1, name), name)
      \/ s + 1 < L /\ src[s + 1] \in Doubled /\ t = Token(WithEquals(src[s + 1]), <<>>, s + 2)
      \/ s # L /\ src[s + 1] \in Single /\ t = Token(src[s + 1], <<>>, s + 1)
      \/ s # L /\ t = Token("INVALID", <<>>, s + 1)
  BY DEF NextToken, s, digits, name
<1>8. t.end \in 0..L
  <2>1. \A k, x, e : Token(k, x, e).end = e
    BY DEF Token
  <2>2. t.end \in {s, digits, name} \/ (s # L /\ t.end = s + 1) \/ (s + 1 < L /\ t.end = s + 2)
    <3> HIDE DEF t, L
    <3> QED
      BY <1>7, <2>1
  <2> HIDE DEF t
  <2> QED
    BY <1>1, <1>3, <1>4, <1>5, <2>2
<1>9. t.kind = "INT_LIT" => t.text = SubSeq(src, s + 1, digits)
  <2>1. \A k, x, e : Token(k, x, e).kind = k /\ Token(k, x, e).text = x
    BY DEF Token
  <2>2. \A c \in Doubled : WithEquals(c) # "INT_LIT"
    BY DEF WithEquals, Doubled
  <2>3. \A c \in Single : c # "INT_LIT"
    BY DEF Single
  <2> HIDE DEF t, L
  <2>4. \/ t.kind = "EOF" \/ t.kind = "INVALID" \/ t.kind = "IDENT"
        \/ t.text = SubSeq(src, s + 1, digits)
        \/ \E c \in Doubled : t.kind = WithEquals(c)
        \/ \E c \in Single : t.kind = c
    <3>1. CASE t = Token("EOF", <<>>, s)
      BY <3>1, <2>1
    <3>2. CASE t = Token("INVALID", <<>>, digits) \/ t = Token("INVALID", <<>>, s + 1)
      BY <3>2, <2>1
    <3>3. CASE t = Token("INT_LIT", SubSeq(src, s + 1, digits), digits)
      <4> DEFINE x == SubSeq(src, s + 1, digits)
      <4> HIDE DEF x
      <4>1. t = Token("INT_LIT", x, digits)
        BY <3>3 DEF x
      <4>2. t.text = x
        BY <4>1, <2>1
      <4> QED
        BY <4>2 DEF x
    <3>4. CASE t = Token("IDENT", SubSeq(src, s + 1, name), name)
      BY <3>4, <2>1
    <3>5. CASE src[s + 1] \in Doubled /\ t = Token(WithEquals(src[s + 1]), <<>>, s + 2)
      BY <3>5, <2>1
    <3>6. CASE src[s + 1] \in Single /\ t = Token(src[s + 1], <<>>, s + 1)
      BY <3>6, <2>1
    <3> QED
      BY <1>7, <3>1, <3>2, <3>3, <3>4, <3>5, <3>6
  <2> QED
    BY <2>2, <2>3, <2>4
<1> QED
  BY <1>6, <1>8, <1>9

-----------------------------------------------------------------------------
(***************************************************************************)
(* The shape of the arena.  lo[n] is the first of the consecutive nodes    *)
(* that hold the tree under node n: the operands of a node lie one behind  *)
(* the other in front of it, so no node is used twice.                     *)
(***************************************************************************)
ShapedNode(a, n, lo) ==
    /\ lo[n] <= n
    /\ a.tag \in UnaryTags \cup BinaryTags =>
          a.lhs \in Nat /\ a.lhs < n /\ lo[n] <= lo[a.lhs]
    /\ a.tag \in BinaryTags => a.rhs \in Nat /\ a.rhs < n /\ a.lhs < lo[a.rhs]
    /\ a.tag = "lit" => a.text \in Seq(DOMAIN Digit)

Shaped(ar, lo) ==
    /\ lo \in [0..Len(ar) - 1 -> Nat]
    /\ \A n \in 0..Len(ar) - 1 : ShapedNode(ar[n + 1], n, lo)

\* The left operands that wait in s lie in front of node b.
LeftOf(s, b) == \A i \in 1..Len(s) : s[i].wait = "binary" => s[i].left < b

\* They lie one behind the other among n nodes.
LeftsInOrder(s, lo, n) ==
    \A i \in 1..Len(s) : s[i].wait = "binary" =>
        /\ s[i].left \in 0..n - 1
        /\ \A j \in i + 1..Len(s) : s[j].wait = "binary" => s[i].left < lo[s[j].left]

SignsWait(s) == \A i \in 1..Len(s) : s[i].wait = "unary" => s[i].op \in UnaryTags

Pending(s, lo, n) == LeftsInOrder(s, lo, n) /\ SignsWait(s)

ShapeAt(lo) ==
    /\ Shaped(arena, lo)
    /\ Pending(calls, lo, Len(arena))
    /\ parsing = "return" => LeftOf(calls, lo[node])

ShapeInv ==
    /\ src \in Seq(STRING) /\ pos \in 0..Len(src)
    /\ Len(arena) <= ArenaCap
    /\ parsing \in {"return", "OK"} => node \in Nodes
    /\ \E lo : ShapeAt(lo)

LEMMA PendingPush ==
    ASSUME NEW s, IsSeq(s), NEW lo, NEW n, Pending(s, lo, n), NEW c,
           c.wait = "binary" => c.left \in 0..n - 1 /\ LeftOf(s, lo[c.left]),
           c.wait = "unary" => c.op \in UnaryTags
    PROVE  Pending(Append(s, c), lo, n)
PROOF
<1> DEFINE t == Append(s, c)
<1>1. PICK S : s \in Seq(S)
  BY DEF IsSeq
<1>2. s \in Seq(S \cup {c}) /\ c \in S \cup {c}
  BY <1>1
<1>3. /\ Len(s) \in Nat /\ Len(t) = Len(s) + 1
      /\ t[Len(s) + 1] = c /\ \A i \in 1..Len(s) : t[i] = s[i]
  BY <1>2
<1> HIDE DEF t
<1>a. SignsWait(t)
  <2>1. \A i \in 1..Len(t) : i = Len(s) + 1 \/ (i \in 1..Len(s) /\ t[i] = s[i])
    BY <1>3
  <2> QED
    BY <1>3, <2>1 DEF Pending, SignsWait
<1> SUFFICES ASSUME NEW i \in 1..Len(t), t[i].wait = "binary"
             PROVE  /\ t[i].left \in 0..n - 1
                    /\ \A j \in i + 1..Len(t) : t[j].wait = "binary" => t[i].left < lo[t[j].left]
  BY <1>a DEF Pending, LeftsInOrder, t
<1>4. CASE i = Len(s) + 1
  BY <1>3, <1>4
<1>5. CASE i # Len(s) + 1
  <2>1. i \in 1..Len(s) /\ t[i] = s[i]
    BY <1>3, <1>5
  <2>2. t[i].left \in 0..n - 1
    BY <2>1 DEF Pending, LeftsInOrder
  <2>3. ASSUME NEW j \in i + 1..Len(t), t[j].wait = "binary" PROVE t[i].left < lo[t[j].left]
    <3>1. CASE j = Len(s) + 1
      BY <1>3, <2>1, <2>3, <3>1 DEF LeftOf
    <3>2. CASE j # Len(s) + 1
      <4>1. j \in i + 1..Len(s) /\ j \in 1..Len(s) /\ t[j] = s[j]
        BY <1>3, <2>1, <3>2
      <4> QED
        BY <2>1, <2>3, <4>1 DEF Pending, LeftsInOrder
    <3> QED
      BY <3>1, <3>2
  <2> QED
    BY <2>2, <2>3
<1> QED
  BY <1>4, <1>5

LEMMA LeftOfPush ==
    ASSUME NEW s, IsSeq(s), NEW c, NEW b, LeftOf(s, b), c.wait = "binary" => c.left < b
    PROVE  LeftOf(Append(s, c), b)
PROOF
<1> DEFINE t == Append(s, c)
<1>1. PICK S : s \in Seq(S)
  BY DEF IsSeq
<1>2. s \in Seq(S \cup {c}) /\ c \in S \cup {c}
  BY <1>1
<1>3. /\ Len(s) \in Nat /\ Len(t) = Len(s) + 1
      /\ t[Len(s) + 1] = c /\ \A i \in 1..Len(s) : t[i] = s[i]
  BY <1>2
<1> HIDE DEF t
<1>4. ASSUME NEW i \in 1..Len(t), t[i].wait = "binary" PROVE t[i].left < b
  <2>1. i = Len(s) + 1 \/ (i \in 1..Len(s) /\ t[i] = s[i])
    BY <1>3
  <2> QED
    BY <1>3, <1>4, <2>1 DEF LeftOf
<1> QED
  BY <1>4 DEF LeftOf, t

LEMMA PendingPop ==
    ASSUME NEW s, IsSeq(s), s # <<>>, NEW lo, NEW n, Pending(s, lo, n)
    PROVE  LET t == SubSeq(s, 1, Len(s) - 1)
               c == s[Len(s)]
           IN  /\ IsSeq(t)
               /\ Pending(t, lo, n)
               /\ \A b : LeftOf(s, b) => LeftOf(t, b) /\ (c.wait = "binary" => c.left < b)
               /\ c.wait = "binary" => c.left \in 0..n - 1 /\ LeftOf(t, lo[c.left])
               /\ c.wait = "unary" => c.op \in UnaryTags
PROOF
<1> DEFINE t == SubSeq(s, 1, Len(s) - 1)
           c == s[Len(s)]
<1>1. PICK S : s \in Seq(S)
  BY DEF IsSeq
<1>2. Len(s) \in Nat \ {0} /\ Len(s) \in 1..Len(s)
  BY <1>1
<1>3. t \in Seq(S) /\ Len(t) = Len(s) - 1 /\ \A i \in 1..Len(t) : t[i] = s[i]
  BY <1>1, Shorter
<1> HIDE DEF t, c
<1>4. \A i \in 1..Len(t) : i \in 1..Len(s) /\ Len(s) \in i + 1..Len(s) /\ i + 1..Len(t) \subseteq i + 1..Len(s)
                             /\ i + 1..Len(t) \subseteq 1..Len(t)
  BY <1>2, <1>3
<1>5. Pending(t, lo, n)
  <2>1. LeftsInOrder(t, lo, n)
    BY <1>3, <1>4 DEF Pending, LeftsInOrder
  <2>2. SignsWait(t)
    BY <1>3, <1>4 DEF Pending, SignsWait
  <2> QED
    BY <2>1, <2>2 DEF Pending
<1>6. ASSUME NEW b, LeftOf(s, b) PROVE LeftOf(t, b) /\ (c.wait = "binary" => c.left < b)
  BY <1>2, <1>3, <1>4, <1>6 DEF LeftOf, c
<1>7. c.wait = "binary" => c.left \in 0..n - 1 /\ LeftOf(t, lo[c.left])
  BY <1>2, <1>3, <1>4 DEF Pending, LeftsInOrder, LeftOf, c
<1>8. c.wait = "unary" => c.op \in UnaryTags
  BY <1>2 DEF Pending, SignsWait, c
<1> QED
  BY <1>3, <1>5, <1>6, <1>7, <1>8 DEF IsSeq, t, c

\* Nodes are added: g names the first nodes of their trees.
LEMMA ShapeAdd ==
    ASSUME ShapeInv, ParseInv, NEW lo, ShapeAt(lo), NEW new, IsSeq(new), new # <<>>,
           NEW g \in [Len(arena)..Len(arena) + Len(new) - 1 -> Nat],
           NEW hi, hi = [k \in 0..Len(arena) + Len(new) - 1 |->
                           IF k < Len(arena) THEN lo[k] ELSE g[k]],
           \A k \in 1..Len(new) : ShapedNode(new[k], Len(arena) + k - 1, hi),
           NEW s, IsSeq(s), Pending(s, lo, Len(arena)),
           LeftOf(s, g[Len(arena) + Len(new) - 1]),
           AddAndReturn(new, s), src' = src, pos' \in 0..Len(src)
    PROVE  ShapeInv'
PROOF
<1> DEFINE m == Len(arena)
           d == Len(new)
<1>1. PICK S : arena \in Seq(S)
  BY DEF ParseInv, ArenaOK, IsSeq
<1>2. PICK T : new \in Seq(T)
  BY DEF IsSeq
<1>3. m \in Nat /\ d \in Nat \ {0}
  BY <1>1, <1>2
<1>4. Shaped(arena, lo) /\ Pending(calls, lo, m)
  BY DEF ShapeAt
<1>5. lo \in [0..m - 1 -> Nat]
  BY <1>4 DEF Shaped
<1>6. CASE m + d <= ArenaCap
  <2> DEFINE ar == arena \o new
  <2>1. /\ arena' = ar /\ node' = m + d - 1 /\ calls' = s /\ parsing' = "return"
    BY <1>6 DEF AddAndReturn
  <2>2. arena \in Seq(S \cup T) /\ new \in Seq(S \cup T)
    BY <1>1, <1>2
  <2>3. /\ Len(ar) = m + d
        /\ \A k \in 1..m : ar[k] = arena[k]
        /\ \A k \in 1..d : ar[m + k] = new[k]
    BY <1>3, <2>2
  <2> HIDE DEF ar, m, d
  <2>4. /\ hi \in [0..m + d - 1 -> Nat]
        /\ \A k \in 0..m - 1 : hi[k] = lo[k]
        /\ hi[m + d - 1] = g[m + d - 1]
    BY <1>3, <1>5 DEF m, d
  <2>5. ASSUME NEW n \in 0..m + d - 1 PROVE ShapedNode(ar[n + 1], n, hi)
    <3>1. CASE n < m
      <4>1. n \in 0..m - 1 /\ n + 1 \in 1..m
        BY <3>1, <1>3
      <4>2. ShapedNode(arena[n + 1], n, lo)
        BY <1>4, <4>1 DEF Shaped, m
      <4>3. \A k \in Nat : k < n => k \in 0..m - 1
        BY <4>1, <1>3
      <4>4. ShapedNode(arena[n + 1], n, hi)
        BY <2>4, <4>1, <4>2, <4>3 DEF ShapedNode, BinaryTags
      <4> QED
        BY <2>3, <4>1, <4>4
    <3>2. CASE ~(n < m)
      <4> DEFINE k == n - m + 1
      <4>1. k \in 1..d /\ m + k = n + 1 /\ m + k - 1 = n
        BY <3>2, <1>3
      <4> HIDE DEF k
      <4> QED
        BY <2>3, <4>1 DEF m, d
    <3> QED
      BY <3>1, <3>2
  <2>6. Shaped(ar, hi)
    <3>1. 0..Len(ar) - 1 = 0..m + d - 1
      BY <1>3, <2>3
    <3> QED
      BY <2>4, <2>5, <3>1 DEF Shaped
  <2>7. Pending(s, hi, m + d)
    <3> SUFFICES ASSUME NEW i \in 1..Len(s), s[i].wait = "binary"
                 PROVE  /\ s[i].left \in 0..m + d - 1
                        /\ \A j \in i + 1..Len(s) : s[j].wait = "binary" =>
                              s[i].left < hi[s[j].left]
      <4>1. (m + d) - 1 = m + d - 1
        BY <1>3
      <4> QED
        BY <4>1, Zenon DEF Pending, LeftsInOrder
    <3>1. \A j \in 1..Len(s) : s[j].wait = "binary" => s[j].left \in 0..m - 1
      BY DEF Pending, LeftsInOrder, m
    <3>2. s[i].left \in 0..m + d - 1
      BY <3>1, <1>3
    <3>3. ASSUME NEW j \in i + 1..Len(s), s[j].wait = "binary" PROVE s[i].left < hi[s[j].left]
      <4>1. j \in 1..Len(s)
        BY DEF IsSeq
      <4> QED
        BY <2>4, <3>1, <3>3, <4>1 DEF Pending, LeftsInOrder, m
    <3> QED
      BY <3>2, <3>3
  <2>8. LeftOf(s, hi[m + d - 1])
    BY <2>4 DEF m, d
  <2>9. node' \in Nodes' /\ Len(arena') <= ArenaCap
    BY <1>3, <1>6, <2>1, <2>3 DEF Nodes
  <2>10. ShapeAt(hi)'
    BY <2>1, <2>3, <2>6, <2>7, <2>8 DEF ShapeAt
  <2> QED
    BY <2>9, <2>10 DEF ShapeInv
<1>7. CASE ~(m + d <= ArenaCap)
  <2>1. parsing' = "ARENA_OOM" /\ UNCHANGED <<arena, node, calls>>
    BY <1>7 DEF AddAndReturn
  <2>2. ShapeAt(lo)'
    BY <2>1, <1>4 DEF ShapeAt
  <2> QED
    BY <2>1, <2>2 DEF ShapeInv
<1> QED
  BY <1>6, <1>7

-----------------------------------------------------------------------------
\* The facts about a parser step that its lemma starts from.
LEMMA ShapeFacts ==
    ASSUME ParseInv, ShapeInv
    PROVE  /\ IsSeq(calls) /\ Len(arena) \in Nat
           /\ src \in Seq(STRING) /\ pos \in 0..Len(src)
           /\ look.end \in 0..Len(src)
           /\ look.kind = "INT_LIT" => look.text \in Seq(DOMAIN Digit)
           /\ NextToken(look.end).end \in 0..Len(src)
           /\ NextToken(NextToken(look.end).end).end \in 0..Len(src)
PROOF
<1>1. IsSeq(calls) /\ Len(arena) \in Nat
  BY Counted DEF ParseInv, Stack
<1>2. src \in Seq(STRING) /\ pos \in 0..Len(src)
  BY DEF ShapeInv
<1>3. look.end \in 0..Len(src) /\ (look.kind = "INT_LIT" => look.text \in Seq(DOMAIN Digit))
  BY <1>2, TokenOK DEF look
<1>4. NextToken(look.end).end \in 0..Len(src)
  BY <1>2, <1>3, TokenOK
<1>5. NextToken(NextToken(look.end).end).end \in 0..Len(src)
  BY <1>2, <1>4, TokenOK
<1> QED
  BY <1>1, <1>2, <1>3, <1>4, <1>5

\* One node, whose tree begins at node b.
LEMMA ShapeAddOne ==
    ASSUME ParseInv, ShapeInv, NEW lo, ShapeAt(lo), NEW a, NEW b \in 0..Len(arena),
           a.tag \in UnaryTags \cup BinaryTags =>
               a.lhs \in Nat /\ a.lhs < Len(arena) /\ b <= lo[a.lhs],
           a.tag \in BinaryTags => a.rhs \in Nat /\ a.rhs < Len(arena) /\ a.lhs < lo[a.rhs],
           a.tag = "lit" => a.text \in Seq(DOMAIN Digit),
           NEW s, IsSeq(s), Pending(s, lo, Len(arena)), LeftOf(s, b),
           AddAndReturn(<<a>>, s), src' = src, pos' \in 0..Len(src)
    PROVE  ShapeInv'
PROOF
<1> DEFINE m == Len(arena)
           new == <<a>>
           g == [k \in m..m + Len(new) - 1 |-> b]
           hi == [k \in 0..m + Len(new) - 1 |-> IF k < m THEN lo[k] ELSE g[k]]
<1>1. new \in Seq({a}) /\ Len(new) = 1 /\ new[1] = a /\ new # <<>>
  OBVIOUS
<1>2. m \in Nat /\ lo \in [0..m - 1 -> Nat]
  BY ShapeFacts DEF ShapeAt, Shaped
<1>3. IsSeq(new)
  BY <1>1 DEF IsSeq
<1> HIDE DEF new, m
<1>4. g \in [m..m + Len(new) - 1 -> Nat] /\ g[m + Len(new) - 1] = b
  BY <1>1, <1>2 DEF m
<1>5. hi[m] = b /\ \A k \in 0..m - 1 : hi[k] = lo[k]
  BY <1>1, <1>2, <1>4
<1> HIDE DEF g, hi
<1>6. ShapedNode(a, m, hi)
  <2>1. \A k \in Nat : k < m => k \in 0..m - 1
    BY <1>2
  <2> QED
    BY <1>2, <1>5, <2>1 DEF ShapedNode, m, BinaryTags
<1>7. \A k \in 1..Len(new) : ShapedNode(new[k], m + k - 1, hi)
  <2>1. \A k \in 1..Len(new) : k = 1 /\ m + k - 1 = m
    BY <1>1, <1>2
  <2> QED
    BY <1>1, <1>6, <2>1
<1>8. hi = [k \in 0..m + Len(new) - 1 |-> IF k < m THEN lo[k] ELSE g[k]]
  BY DEF hi
<1>9. LeftOf(s, g[m + Len(new) - 1]) /\ AddAndReturn(new, s)
  BY <1>4 DEF new
<1> QED
  BY <1>1, <1>3, <1>4, <1>7, <1>8, <1>9, ShapeAdd DEF m

\* Nothing waits behind the end of the arena.
LEMMA LeftOfAll ==
    ASSUME NEW s, NEW lo, Pending(s, lo, Len(arena)), Len(arena) \in Nat
    PROVE  LeftOf(s, Len(arena))
PROOF
  BY DEF Pending, LeftsInOrder, LeftOf

LEMMA ShapeDescend ==
    ASSUME ParseInv, ShapeInv, NEW lo, ShapeAt(lo), NEW s, Pending(s, lo, Len(arena)),
           Descend(s), src' = src, pos' \in 0..Len(src)
    PROVE  ShapeInv'
PROOF
<1>1. calls' = s /\ parsing' = "primary" /\ UNCHANGED <<arena, node>>
  BY DEF Descend
<1>2. ShapeAt(lo)'
  BY <1>1 DEF ShapeAt
<1> QED
  BY <1>1, <1>2 DEF ShapeInv

LEMMA ShapeFails ==
    ASSUME ShapeInv, NEW e \in ParseErrors, ParseFails(e)
    PROVE  ShapeInv'
PROOF
<1>1. PICK lo : ShapeAt(lo)
  BY DEF ShapeInv
<1>2. parsing' = e /\ UNCHANGED <<src, pos, arena, calls, depth, node>>
  BY DEF ParseFails
<1>3. e \notin {"return", "OK"}
  BY DEF ParseErrors
<1>4. ShapeAt(lo)'
  BY <1>1, <1>2, <1>3 DEF ShapeAt
<1> QED
  BY <1>2, <1>3, <1>4 DEF ShapeInv

LEMMA SeqPush ==
    ASSUME NEW s, NEW c, IsSeq(s)
    PROVE  IsSeq(Append(s, c))
PROOF
<1>1. PICK S : s \in Seq(S)
  BY DEF IsSeq
<1>2. Append(s, c) \in Seq(S \cup {c})
  BY <1>1
<1> QED
  BY <1>2 DEF IsSeq

LEMMA ShapeLeaf ==
    ASSUME ParseInv, ShapeInv, Literal \/ Variable \/ CallBegin
    PROVE  ShapeInv'
PROOF
<1>1. PICK lo : ShapeAt(lo)
  BY DEF ShapeInv
<1>2. Pending(calls, lo, Len(arena)) /\ LeftOf(calls, Len(arena)) /\ Len(arena) \in 0..Len(arena)
  BY <1>1, ShapeFacts, LeftOfAll DEF ShapeAt
<1>3. ASSUME NEW tag \in {"lit", "var_ref", "call"}, tag = "lit" => look.kind = "INT_LIT",
             AddAndReturn(<<AstNode(tag, 0, 0, look.text)>>, calls),
             src' = src, pos' \in 0..Len(src)
      PROVE  ShapeInv'
  <2> DEFINE a == AstNode(tag, 0, 0, look.text)
  <2>1. a.tag = tag /\ a.text = look.text
    BY DEF AstNode
  <2>2. a.tag \notin UnaryTags \cup BinaryTags
    BY <2>1, <1>3 DEF UnaryTags, BinaryTags, Comparisons, Additions, Products
  <2>3. a.tag = "lit" => a.text \in Seq(DOMAIN Digit)
    BY <2>1, <1>3, ShapeFacts
  <2>4. AddAndReturn(<<a>>, calls)
    BY <1>3
  <2> HIDE DEF a
  <2> QED
    BY <1>1, <1>2, <1>3, <2>2, <2>3, <2>4, ShapeFacts, ShapeAddOne
<1>4. CASE Literal
  BY <1>3, <1>4, ShapeFacts DEF Literal, Entering
<1>5. CASE Variable
  BY <1>3, <1>5, ShapeFacts DEF Variable
<1>6. CASE CallBegin
  <2>1. CASE /\ AddAndReturn(<<AstNode("call", 0, 0, look.text)>>, calls)
             /\ pos' = NextToken(NextToken(look.end).end).end
    BY <1>3, <1>6, <2>1, ShapeFacts DEF CallBegin
  <2>2. CASE /\ pos' = NextToken(look.end).end
             /\ Descend(calls \o <<Activation("arg", 0, "none", 0, look.text, <<>>),
                                [Expression(0) EXCEPT !.depth = depth + 1]>>)
    <3> DEFINE c == Activation("arg", 0, "none", 0, look.text, <<>>)
               e == [Expression(0) EXCEPT !.depth = depth + 1]
    <3>1. c.wait = "arg" /\ e.wait = "operand"
      BY DEF Activation, Expression
    <3> HIDE DEF c, e
    <3>2. Pending(Append(calls, c), lo, Len(arena)) /\ IsSeq(Append(calls, c))
      BY <1>2, <3>1, ShapeFacts, PendingPush, SeqPush
    <3>3. Pending(Append(Append(calls, c), e), lo, Len(arena))
      BY <3>1, <3>2, PendingPush
    <3>4. Descend(Append(Append(calls, c), e))
      <4>1. calls \o <<c, e>> = Append(Append(calls, c), e)
        BY ShapeFacts, TwoMore
      <4>2. Descend(calls \o <<c, e>>)
        BY <2>2 DEF c, e
      <4> QED
        BY <4>1, <4>2
    <3> QED
      BY <1>1, <1>6, <2>2, <3>3, <3>4, ShapeFacts, ShapeDescend DEF CallBegin
  <2> QED
    BY <1>6, <2>1, <2>2 DEF CallBegin
<1> QED
  BY <1>4, <1>5, <1>6

LEMMA ShapeOpen ==
    ASSUME ParseInv, ShapeInv, Sign \/ Paren
    PROVE  ShapeInv'
PROOF
<1>1. PICK lo : ShapeAt(lo)
  BY DEF ShapeInv
<1>2. Pending(calls, lo, Len(arena)) /\ IsSeq(calls)
  BY <1>1, ShapeFacts DEF ShapeAt
<1>3. src' = src /\ pos' \in 0..Len(src)
  BY ShapeFacts DEF Sign, Paren
<1>4. CASE Sign
  <2> DEFINE c == Activation("unary", 0,
                   IF look.kind = "+" THEN "unary_pos" ELSE "unary_neg", 0, <<>>, <<>>)
  <2>1. c.wait = "unary" /\ c.op \in UnaryTags
    BY DEF Activation, UnaryTags
  <2>2. Descend(Append(calls, c))
    BY <1>4 DEF Sign
  <2> HIDE DEF c
  <2>3. Pending(Append(calls, c), lo, Len(arena))
    BY <1>2, <2>1, PendingPush
  <2> QED
    BY <1>1, <1>3, <2>2, <2>3, ShapeDescend
<1>5. CASE Paren
  <2> DEFINE c == Activation("paren", 0, "none", 0, <<>>, <<>>)
             e == [Expression(0) EXCEPT !.depth = depth + 1]
  <2>1. c.wait = "paren" /\ e.wait = "operand"
    BY DEF Activation, Expression
  <2>2. Descend(calls \o <<c, e>>)
    BY <1>5 DEF Paren
  <2> HIDE DEF c, e
  <2>3. Pending(Append(calls, c), lo, Len(arena)) /\ IsSeq(Append(calls, c))
    BY <1>2, <2>1, PendingPush, SeqPush
  <2>4. Pending(Append(Append(calls, c), e), lo, Len(arena))
    BY <2>1, <2>3, PendingPush
  <2>5. calls \o <<c, e>> = Append(Append(calls, c), e)
    BY <1>2, TwoMore
  <2>6. Descend(Append(Append(calls, c), e))
    BY <2>2, <2>5
  <2> QED
    BY <1>1, <1>3, <2>4, <2>6, ShapeDescend
<1> QED
  BY <1>4, <1>5

\* A node comes back to the newest activation.
LEMMA ShapeReturn ==
    ASSUME ParseInv, ShapeInv, NEW lo, ShapeAt(lo), NEW waits, Returned(waits)
    PROVE  /\ parsing = "return" /\ node \in Nat /\ node < Len(arena) /\ node \in Nodes
           /\ lo[node] \in Nat /\ lo[node] <= node
           /\ IsSeq(Callers) /\ Pending(Callers, lo, Len(arena))
           /\ LeftOf(Callers, lo[node])
           /\ top_call.wait = "binary" =>
                 /\ top_call.left \in Nat /\ top_call.left < Len(arena)
                 /\ top_call.left < lo[node]
                 /\ lo[top_call.left] \in Nat /\ lo[top_call.left] <= top_call.left
                 /\ LeftOf(Callers, lo[top_call.left])
           /\ top_call.wait \in waits
           /\ top_call.wait = "unary" => top_call.op \in UnaryTags
PROOF
<1>1. parsing = "return" /\ calls # <<>> /\ top_call.wait \in waits
  BY DEF Returned
<1>2. /\ node \in 0..Len(arena) - 1 /\ Len(arena) \in Nat /\ IsSeq(calls)
      /\ Pending(calls, lo, Len(arena)) /\ LeftOf(calls, lo[node]) /\ Shaped(arena, lo)
  BY <1>1, ShapeFacts DEF ShapeInv, ShapeAt, Nodes
<1>3. \A n \in 0..Len(arena) - 1 : lo[n] \in Nat /\ lo[n] <= n
  BY <1>2 DEF Shaped, ShapedNode
<1>4. /\ IsSeq(Callers) /\ Pending(Callers, lo, Len(arena))
      /\ \A b : LeftOf(calls, b) =>
            LeftOf(Callers, b) /\ (top_call.wait = "binary" => top_call.left < b)
      /\ top_call.wait = "binary" =>
            top_call.left \in 0..Len(arena) - 1 /\ LeftOf(Callers, lo[top_call.left])
      /\ top_call.wait = "unary" => top_call.op \in UnaryTags
  BY <1>1, <1>2, PendingPop DEF Callers, top_call
<1> QED
  BY <1>1, <1>2, <1>3, <1>4 DEF Nodes

\* The newest activation is done, and the node goes on to its caller.
LEMMA ShapePop ==
    ASSUME ParseInv, ShapeInv, NEW waits, Returned(waits), calls' = Callers,
           UNCHANGED <<src, arena, node, parsing>>, pos' \in 0..Len(src)
    PROVE  ShapeInv'
PROOF
<1>1. PICK lo : ShapeAt(lo)
  BY DEF ShapeInv
<1>2. Pending(Callers, lo, Len(arena)) /\ LeftOf(Callers, lo[node]) /\ parsing = "return"
  BY <1>1, ShapeReturn
<1>3. ShapeAt(lo)'
  BY <1>1, <1>2 DEF ShapeAt
<1> QED
  BY <1>3 DEF ShapeInv, Nodes

LEMMA ShapeSignEnd ==
    ASSUME ParseInv, ShapeInv, SignEnd
    PROVE  ShapeInv'
PROOF
<1> DEFINE a == AstNode(top_call.op, node, 0, <<>>)
<1>1. PICK lo : ShapeAt(lo)
  BY DEF ShapeInv
<1>2. Returned({"unary"}) /\ AddAndReturn(<<a>>, Callers) /\ UNCHANGED <<src, pos>>
  BY DEF SignEnd
<1>3. /\ node \in Nat /\ node < Len(arena) /\ lo[node] \in Nat /\ lo[node] <= node
      /\ IsSeq(Callers) /\ Pending(Callers, lo, Len(arena)) /\ LeftOf(Callers, lo[node])
      /\ top_call.op \in UnaryTags
  BY <1>1, <1>2, ShapeReturn
<1>4. a.tag = top_call.op /\ a.lhs = node /\ a.text = <<>>
  BY DEF AstNode
<1>5. a.tag \notin BinaryTags
  BY <1>3, <1>4 DEF UnaryTags, BinaryTags, Comparisons, Additions, Products
<1> HIDE DEF a
<1>6. a.text \in Seq(DOMAIN Digit) /\ lo[node] <= lo[a.lhs]
  BY <1>3, <1>4
<1>7. lo[node] \in 0..Len(arena) /\ src' = src /\ pos' \in 0..Len(src)
  BY <1>2, <1>3, ShapeFacts
<1> QED
  BY <1>1, <1>2, <1>3, <1>4, <1>5, <1>6, <1>7, ShapeAddOne

LEMMA ShapeParenEnd ==
    ASSUME ParseInv, ShapeInv, ParenEnd
    PROVE  ShapeInv'
PROOF
<1>1. CASE /\ pos' = look.end /\ calls' = Callers
           /\ UNCHANGED <<src, arena, node, parsing>>
  BY <1>1, ShapeFacts, ShapePop DEF ParenEnd
<1>2. CASE ParseFails("MISSING_CLOSE_PAREN")
  BY <1>2, ShapeFails DEF ParseErrors
<1> QED
  BY <1>1, <1>2 DEF ParenEnd

LEMMA ShapeExpressionEnd ==
    ASSUME ParseInv, ShapeInv, ExpressionEnd
    PROVE  ShapeInv'
PROOF
  BY ShapeFacts, ShapePop DEF ExpressionEnd

LEMMA ShapeCombine ==
    ASSUME ParseInv, ShapeInv, Combine
    PROVE  ShapeInv'
PROOF
<1> DEFINE a == AstNode(top_call.op, top_call.left, node, <<>>)
           c == [top_call EXCEPT !.wait = "operand"]
           b == top_call.left
<1>1. PICK lo : ShapeAt(lo)
  BY DEF ShapeInv
<1>2. Returned({"binary"}) /\ AddAndReturn(<<a>>, Append(Callers, c)) /\ UNCHANGED <<src, pos>>
  BY DEF Combine
<1>3. /\ node \in Nat /\ node < Len(arena) /\ Len(arena) \in Nat
      /\ IsSeq(Callers) /\ Pending(Callers, lo, Len(arena))
      /\ b \in Nat /\ b < Len(arena) /\ b < lo[node]
      /\ lo[b] \in Nat /\ lo[b] <= b /\ LeftOf(Callers, lo[b])
  BY <1>1, <1>2, ShapeReturn, ShapeFacts
<1>4. a.tag = top_call.op /\ a.lhs = b /\ a.rhs = node /\ a.text = <<>>
  BY DEF AstNode
<1>5. c.wait = "operand"
  <2>1. CallOK(top_call, Len(calls), Len(arena))
    BY <1>2, ReturnFacts
  <2> QED
    BY <2>1 DEF CallOK
<1> HIDE DEF a, c, b
<1>6. IsSeq(Append(Callers, c)) /\ Pending(Append(Callers, c), lo, Len(arena))
        /\ LeftOf(Append(Callers, c), lo[b])
  BY <1>3, <1>5, SeqPush, PendingPush, LeftOfPush
<1>7. lo[b] \in 0..Len(arena) /\ a.text \in Seq(DOMAIN Digit) /\ lo[b] <= lo[a.lhs]
  BY <1>3, <1>4
<1> QED
  BY <1>1, <1>2, <1>3, <1>4, <1>6, <1>7, ShapeFacts, ShapeAddOne

LEMMA ShapeTakeOperator ==
    ASSUME ParseInv, ShapeInv, TakeOperator
    PROVE  ShapeInv'
PROOF
<1> DEFINE c == [top_call EXCEPT !.wait = "binary", !.op = look.kind, !.left = node]
           e == Expression(get_precedence(look.kind))
<1>1. PICK lo : ShapeAt(lo)
  BY DEF ShapeInv
<1>2. /\ Returned({"operand"}) /\ Descend(Callers \o <<c, e>>)
      /\ pos' = look.end /\ UNCHANGED src
  BY DEF TakeOperator
<1>3. /\ node \in 0..Len(arena) - 1
      /\ IsSeq(Callers) /\ Pending(Callers, lo, Len(arena)) /\ LeftOf(Callers, lo[node])
  BY <1>1, <1>2, ShapeReturn DEF Nodes
<1>4. c.wait = "binary" /\ c.left = node /\ e.wait = "operand"
  <2>1. CallOK(top_call, Len(calls), Len(arena))
    BY <1>2, ReturnFacts
  <2> QED
    BY <2>1 DEF CallOK, Expression, Activation
<1> HIDE DEF c, e
<1>5. IsSeq(Append(Callers, c)) /\ Pending(Append(Callers, c), lo, Len(arena))
  BY <1>3, <1>4, SeqPush, PendingPush
<1>6. Pending(Append(Append(Callers, c), e), lo, Len(arena))
  BY <1>4, <1>5, PendingPush
<1>7. Callers \o <<c, e>> = Append(Append(Callers, c), e)
  BY <1>3, TwoMore
<1>8. Descend(Append(Append(Callers, c), e))
  BY <1>2, <1>7
<1> QED
  BY <1>1, <1>2, <1>6, <1>8, ShapeFacts, ShapeDescend


LEMMA ShapeArgEnd ==
    ASSUME ParseInv, ShapeInv, ArgEnd
    PROVE  ShapeInv'
PROOF
<1> DEFINE args == Append(top_call.args, node)
           m == Len(arena)
<1>1. PICK lo : ShapeAt(lo)
  BY DEF ShapeInv
<1>2. Returned({"arg"}) /\ UNCHANGED src
  BY DEF ArgEnd
<1>3. /\ m \in Nat /\ IsSeq(Callers) /\ Pending(Callers, lo, m)
      /\ lo \in [0..m - 1 -> Nat] /\ node \in Nat
  BY <1>1, <1>2, ShapeReturn, ShapeFacts DEF ShapeAt, Shaped
<1>4. /\ CallOK(top_call, Len(calls), m) /\ top_call.wait = "arg"
  BY <1>2, ReturnFacts
<1>5. args \in Seq(Nat)
  BY <1>3, <1>4 DEF CallOK
<1>6. CASE /\ Descend(Callers \o <<[top_call EXCEPT !.args = args], Expression(0)>>)
           /\ pos' = look.end
  <2> DEFINE c == [top_call EXCEPT !.args = args]
             e == Expression(0)
  <2>1. c.wait = "arg" /\ e.wait = "operand"
    BY <1>4 DEF CallOK, Expression, Activation
  <2>2. Descend(Callers \o <<c, e>>)
    BY <1>6
  <2> HIDE DEF c, e
  <2>3. IsSeq(Append(Callers, c)) /\ Pending(Append(Callers, c), lo, m)
    BY <1>3, <2>1, SeqPush, PendingPush
  <2>4. Pending(Append(Append(Callers, c), e), lo, m)
    BY <2>1, <2>3, PendingPush
  <2>5. Callers \o <<c, e>> = Append(Append(Callers, c), e)
    BY <1>3, TwoMore
  <2>6. Descend(Append(Append(Callers, c), e))
    BY <2>2, <2>5
  <2> QED
    BY <1>1, <1>2, <1>6, <2>4, <2>6, ShapeFacts, ShapeDescend
<1>7. CASE \E x \in {"ARENA_OOM", "MISSING_CLOSE_PAREN"} : ParseFails(x)
  BY <1>7, ShapeFails DEF ParseErrors
<1>8. CASE /\ AddAndReturn(CallNodes(top_call.text, args), Callers)
           /\ pos' = look.end
  <2> DEFINE new == CallNodes(top_call.text, args)
             g == [k \in m..m + Len(new) - 1 |-> k]
             hi == [k \in 0..m + Len(new) - 1 |-> IF k < m THEN lo[k] ELSE g[k]]
  <2>1. /\ IsSeq(new) /\ new # <<>>
        /\ \A k \in 1..Len(new) : new[k].tag \in {"call_arg", "call"}
    BY <1>3, <1>5, CallNodesOK
  <2>2. AddAndReturn(new, Callers)
    BY <1>8
  <2>3. Len(new) \in Nat \ {0}
    <3> HIDE DEF new
    <3> QED
      BY <2>1 DEF IsSeq
  <2> HIDE DEF new, m
  <2>4. g \in [m..m + Len(new) - 1 -> Nat] /\ g[m + Len(new) - 1] = m + Len(new) - 1
    BY <1>3, <2>3
  <2>5. \A k \in m..m + Len(new) - 1 : hi[k] = k
    BY <1>3, <2>3
  <2> HIDE DEF g, hi
  <2>6. ASSUME NEW k \in 1..Len(new) PROVE ShapedNode(new[k], m + k - 1, hi)
    <3>1. new[k].tag \notin UnaryTags \cup BinaryTags /\ new[k].tag # "lit"
      BY <2>1 DEF UnaryTags, BinaryTags, Comparisons, Additions, Products
    <3>2. m + k - 1 \in m..m + Len(new) - 1
      BY <1>3, <2>3
    <3> QED
      BY <1>3, <2>5, <3>1, <3>2 DEF ShapedNode
  <2>7. LeftOf(Callers, g[m + Len(new) - 1])
    <3>1. \A i \in 1..Len(Callers) : Callers[i].wait = "binary" => Callers[i].left \in 0..m - 1
      BY <1>3 DEF Pending, LeftsInOrder
    <3> QED
      BY <1>3, <2>3, <2>4, <3>1 DEF LeftOf
  <2>8. hi = [k \in 0..m + Len(new) - 1 |-> IF k < m THEN lo[k] ELSE g[k]]
    BY DEF hi
  <2> QED
    BY <1>1, <1>2, <1>3, <1>8, <2>1, <2>2, <2>4, <2>6, <2>7, <2>8, ShapeFacts, ShapeAdd DEF m
<1> QED
  BY <1>6, <1>7, <1>8 DEF ArgEnd

LEMMA ShapeStep ==
    ASSUME ParseInv, ShapeInv, ParseStep \/ ParseFullEnd
    PROVE  ShapeInv'
PROOF
<1>1. CASE TooDeep \/ Unexpected
  BY <1>1, ShapeFails DEF TooDeep, Unexpected, ParseErrors
<1>2. CASE ParseFullEnd
  <2>1. PICK lo : ShapeAt(lo)
    BY DEF ShapeInv
  <2>2. /\ parsing = "return" /\ parsing' \in {"OK", "TRAILING_TOKENS"}
        /\ pos' = look.end /\ UNCHANGED <<src, arena, calls, depth, node>>
    BY <1>2 DEF ParseFullEnd
  <2>3. ShapeAt(lo)'
    BY <2>1, <2>2 DEF ShapeAt
  <2> QED
    BY <2>2, <2>3, ShapeFacts DEF ShapeInv, Nodes
<1> QED
  BY <1>1, <1>2, ShapeLeaf, ShapeOpen, ShapeSignEnd, ShapeParenEnd, ShapeArgEnd,
     ShapeCombine, ShapeTakeOperator, ShapeExpressionEnd DEF ParseStep

-----------------------------------------------------------------------------
(***************************************************************************)
(* The evaluator and the lowerer recurse over the nodes.  That they are    *)
(* defined, for an arena in which references lead back, is shown for one   *)
(* node more at a time.                                                    *)
(***************************************************************************)

EnvOK == env \in Seq([name : Seq(STRING), val : Word]) /\ Len(env) <= MaxLocals

LEMMA BindingOK ==
    ASSUME EnvOK, NEW text
    PROVE  /\ Binding(text) \in 0..Len(env)
           /\ Binding(text) # 0 => env[Binding(text)].val \in Word
PROOF
<1> DEFINE bound == {i \in DOMAIN env : env[i].name = text}
           B == Binding(text)
<1>1. Len(env) \in Nat /\ DOMAIN env = 1..Len(env) /\ bound \in SUBSET Nat
  BY DEF EnvOK
<1>2. CASE bound = {}
  <2>1. B = 0
    BY <1>2 DEF Binding
  <2> QED
    BY <1>1, <2>1
<1>3. CASE bound # {}
  <2>1. B = CHOOSE i \in bound : \A j \in bound : i <= j
    BY <1>3 DEF Binding
  <2>2. \E i \in bound : \A j \in bound : i <= j
    BY <1>1, <1>3, LeastOf
  <2>3. B \in bound
    BY <2>1, <2>2
  <2>4. B \in DOMAIN env
    BY <2>3
  <2>5. Binding(text) \in DOMAIN env
    BY <2>4
  <2>6. \A i \in DOMAIN env : env[i] \in [name : Seq(STRING), val : Word]
    <3> DEFINE S == [name : Seq(STRING), val : Word]
    <3>1. env \in Seq(S)
      BY DEF EnvOK
    <3> HIDE DEF S
    <3>2. \A i \in DOMAIN env : env[i] \in S
      BY <3>1
    <3> QED
      BY <3>2 DEF S
  <2>7. \A i \in DOMAIN env : i \in 0..Len(env) /\ env[i].val \in Word
    BY <1>1, <2>6
  <2> HIDE DEF B, bound
  <2> QED
    BY <2>5, <2>7
<1> QED
  BY <1>2, <1>3

\* f[k] is the number the first k digits spell.
Spells(f, digits, m) ==
    f = [k \in 0..m |-> IF k = 0 THEN 0 ELSE 10 * f[k - 1] + Digit[digits[k]]]

LEMMA SpellsExists ==
    ASSUME NEW digits, NEW n \in Nat
    PROVE  \E f : Spells(f, digits, n)
PROOF
<1> DEFINE None == {m \in Nat : ~\E f : Spells(f, digits, m)}
<1> SUFFICES ASSUME None # {} PROVE FALSE
  OBVIOUS
<1>1. PICK m \in None : \A j \in None : m <= j
  BY LeastOf
<1>2. m # 0
  <2> DEFINE f == [k \in 0..0 |-> 0]
  <2>1. Spells(f, digits, 0)
    BY DEF Spells
  <2> QED
    BY <2>1
<1>3. m - 1 \in Nat /\ m - 1 \notin None
  BY <1>1, <1>2
<1>4. PICK g : Spells(g, digits, m - 1)
  BY <1>3
<1> DEFINE f == [k \in 0..m |-> IF k < m THEN g[k] ELSE 10 * g[k - 1] + Digit[digits[k]]]
           body(h) == [k \in 0..m |-> IF k = 0 THEN 0 ELSE 10 * h[k - 1] + Digit[digits[k]]]
<1>5. ASSUME NEW k \in 0..m PROVE f[k] = body(f)[k]
  <2>0. m \in Nat /\ k \in Int
    BY <1>3
  <2>1. \A j \in 0..m - 1 : f[j] = g[j]
    BY <1>2
  <2>2. CASE k = m
    <3>1. f[k - 1] = g[k - 1]
      <4>1. k - 1 \in 0..m - 1
        BY <2>0, <2>2, <1>2
      <4> HIDE DEF f
      <4> QED
        BY <2>1, <4>1
    <3> QED
      BY <3>1, <2>2, <1>2
  <2>3. CASE k # m
    <3>0. k \in 0..m - 1 /\ (k # 0 => k - 1 \in 0..m - 1)
      BY <2>0, <2>3
    <3>1. k \in 0..m - 1 /\ f[k] = g[k] /\ k \in 0..m
      <4> HIDE DEF f
      <4> QED
        BY <2>1, <3>0
    <3>2. k # 0 => f[k - 1] = g[k - 1]
      <4> HIDE DEF f
      <4> QED
        BY <2>1, <3>0
    <3>3. g[k] = IF k = 0 THEN 0 ELSE 10 * g[k - 1] + Digit[digits[k]]
      BY <1>4, <3>1 DEF Spells
    <3> QED
      BY <3>1, <3>2, <3>3
  <2> QED
    BY <2>2, <2>3
<1>6. f = body(f)
  BY <1>5
<1>7. Spells(f, digits, m)
  BY <1>6 DEF Spells
<1> QED
  BY <1>7

LEMMA NumberOK ==
    ASSUME NEW digits \in Seq(DOMAIN Digit)
    PROVE  Number(digits) \in Nat
PROOF
<1> DEFINE N == Len(digits)
           Is(f) == Spells(f, digits, N)
           first == CHOOSE f : Is(f)
<1>1. N \in Nat /\ \A k \in 1..N : digits[k] \in DOMAIN Digit
  OBVIOUS
<1>2. Is(first)
  BY <1>1, SpellsExists
<1>3. Number(digits) = first[N]
  BY DEF Number, Spells
<1>4. \A k \in 0..N : first[k] = IF k = 0 THEN 0 ELSE 10 * first[k - 1] + Digit[digits[k]]
  <2>1. first = [k \in 0..N |-> IF k = 0 THEN 0 ELSE 10 * first[k - 1] + Digit[digits[k]]]
    BY <1>2 DEF Spells
  <2> HIDE DEF first
  <2> QED
    BY <2>1
<1> HIDE DEF first, Is
<1> DEFINE Bad == {k \in Nat : k <= N /\ first[k] \notin Nat}
<1>5. Bad = {}
  <2> SUFFICES ASSUME Bad # {} PROVE FALSE
    OBVIOUS
  <2>1. PICK m \in Bad : \A j \in Bad : m <= j
    BY LeastOf
  <2>2. m # 0
    BY <1>1, <1>4, <2>1
  <2>3. m - 1 \in Nat /\ m - 1 \notin Bad /\ m - 1 <= N /\ m \in 1..N /\ m \in 0..N
    BY <2>1, <2>2, <1>1
  <2>4. first[m - 1] \in Nat /\ Digit[digits[m]] \in Nat
    BY <1>1, <2>3, ToolAssumption
  <2>5. first[m] = 10 * first[m - 1] + Digit[digits[m]]
    BY <1>4, <2>2, <2>3
  <2> QED
    BY <2>1, <2>4, <2>5
<1> QED
  BY <1>1, <1>3, <1>5

EvalBody(f, n) ==
    LET a == arena[n + 1]
        l == f[a.lhs]
    IN  CASE a.tag = "lit" -> Value(Wrap(Number(a.text)))
          [] a.tag = "var_ref" -> IF Binding(a.text) = 0 THEN Failed("UNDEF_VAR")
                                  ELSE Value(env[Binding(a.text)].val)
          [] a.tag = "unary_pos" -> l
          [] a.tag = "unary_neg" -> IF l.err = "OK" THEN Value(Wrap(-l.val)) ELSE l
          [] a.tag \in BinaryTags -> Apply2(a.tag, l, f[a.rhs])
          [] OTHER -> Failed("UNDEF_VAR")

LowerBody(f, n, out) ==
    LET a == arena[n + 1]
    IN  IF out.err # "OK" THEN out
        ELSE CASE a.tag = "lit" -> Emit(out, "push", Wrap(Number(a.text)))
               [] a.tag = "var_ref" -> IF Binding(a.text) = 0
                                       THEN [out EXCEPT !.err = "UNDEF_VAR"]
                                       ELSE Emit(out, "load", Binding(a.text) - 1)
               [] a.tag = "unary_pos" -> f[<<a.lhs, out>>]
               [] a.tag = "unary_neg" -> Emit(f[<<a.lhs, out>>], "neg", 0)
               [] a.tag \in BinaryTags ->
                     Emit(f[<<a.rhs, f[<<a.lhs, out>>]>>], OpOf(a.tag), 0)
               [] OTHER -> [out EXCEPT !.err = "UNDEF_VAR"]

\* References lead back, and literals are made of digits.
Backward ==
    /\ Len(arena) \in Nat
    /\ \A n \in Nodes :
          /\ arena[n + 1].tag \in UnaryTags \cup BinaryTags => arena[n + 1].lhs \in 0..n - 1
          /\ arena[n + 1].tag \in BinaryTags => arena[n + 1].rhs \in 0..n - 1
          /\ arena[n + 1].tag = "lit" => arena[n + 1].text \in Seq(DOMAIN Digit)

LEMMA TagsDiffer ==
    /\ BinaryTags \cap {"lit", "var_ref", "unary_pos", "unary_neg"} = {}
    /\ UnaryTags = {"unary_pos", "unary_neg"}
PROOF
  BY DEF BinaryTags, Comparisons, Additions, Products, UnaryTags

\* What either does, tag by tag.
EvalsAs(f, n) ==
    LET a == arena[n + 1]
        l == f[a.lhs]
    IN  /\ a.tag = "lit" => EvalBody(f, n) = Value(Wrap(Number(a.text)))
        /\ a.tag = "var_ref" =>
             EvalBody(f, n) = IF Binding(a.text) = 0 THEN Failed("UNDEF_VAR")
                              ELSE Value(env[Binding(a.text)].val)
        /\ a.tag = "unary_pos" => EvalBody(f, n) = l
        /\ a.tag = "unary_neg" =>
             EvalBody(f, n) = IF l.err = "OK" THEN Value(Wrap(-l.val)) ELSE l
        /\ a.tag \in BinaryTags => EvalBody(f, n) = Apply2(a.tag, l, f[a.rhs])
        /\ a.tag \notin Leaf \cup UnaryTags \cup BinaryTags =>
             EvalBody(f, n) = Failed("UNDEF_VAR")

LEMMA EvalCases ==
    ASSUME NEW f, NEW n
    PROVE  EvalsAs(f, n)
PROOF
<1> DEFINE a == arena[n + 1]
<1>1. CASE a.tag \in BinaryTags
  <2>1. a.tag \notin {"lit", "var_ref", "unary_pos", "unary_neg"}
    BY <1>1, TagsDiffer
  <2> QED
    BY <1>1, <2>1 DEF EvalsAs, EvalBody, Leaf, UnaryTags
<1>2. CASE a.tag \notin BinaryTags
  BY <1>2 DEF EvalsAs, EvalBody, Leaf, UnaryTags
<1> QED
  BY <1>1, <1>2

LowersAs(f, n, out) ==
    LET a == arena[n + 1]
        b == LowerBody(f, n, out)
    IN  /\ a.tag = "lit" => b = Emit(out, "push", Wrap(Number(a.text)))
        /\ a.tag = "var_ref" =>
             b = IF Binding(a.text) = 0 THEN [out EXCEPT !.err = "UNDEF_VAR"]
                 ELSE Emit(out, "load", Binding(a.text) - 1)
        /\ a.tag = "unary_pos" => b = f[<<a.lhs, out>>]
        /\ a.tag = "unary_neg" => b = Emit(f[<<a.lhs, out>>], "neg", 0)
        /\ a.tag \in BinaryTags =>
             b = Emit(f[<<a.rhs, f[<<a.lhs, out>>]>>], OpOf(a.tag), 0)
        /\ a.tag \notin Leaf \cup UnaryTags \cup BinaryTags =>
             b = [out EXCEPT !.err = "UNDEF_VAR"]

LEMMA LowerCases ==
    ASSUME NEW f, NEW n, NEW out, out.err = "OK"
    PROVE  LowersAs(f, n, out)
PROOF
<1> DEFINE a == arena[n + 1]
<1>1. CASE a.tag \in BinaryTags
  <2>1. a.tag \notin {"lit", "var_ref", "unary_pos", "unary_neg"}
    BY <1>1, TagsDiffer
  <2> QED
    BY <1>1, <2>1 DEF LowersAs, LowerBody, Leaf, UnaryTags
<1>2. CASE a.tag \notin BinaryTags
  BY <1>2 DEF LowersAs, LowerBody, Leaf, UnaryTags
<1> QED
  BY <1>1, <1>2

\* Only earlier nodes are asked for.
LEMMA EvalLocal ==
    ASSUME Backward, NEW n \in Nodes, NEW f, NEW g, \A j \in 0..n - 1 : f[j] = g[j]
    PROVE  EvalBody(f, n) = EvalBody(g, n)
PROOF
<1> DEFINE a == arena[n + 1]
<1>1. /\ a.tag \in UnaryTags \cup BinaryTags => f[a.lhs] = g[a.lhs]
      /\ a.tag \in BinaryTags => f[a.rhs] = g[a.rhs]
  BY DEF Backward
<1>2. CASE a.tag \in UnaryTags
  <2>1. a.tag \notin BinaryTags /\ a.tag \in {"unary_pos", "unary_neg"} /\ f[a.lhs] = g[a.lhs]
    BY <1>1, <1>2, TagsDiffer
  <2> QED
    BY <2>1 DEF EvalBody
<1>3. CASE a.tag \in BinaryTags
  <2>1. /\ a.tag \notin {"lit", "var_ref", "unary_pos", "unary_neg"}
        /\ f[a.lhs] = g[a.lhs] /\ f[a.rhs] = g[a.rhs]
    BY <1>1, <1>3, TagsDiffer
  <2> QED
    BY <1>3, <2>1 DEF EvalBody
<1>4. CASE a.tag \notin UnaryTags \cup BinaryTags
  <2>1. a.tag \notin {"unary_pos", "unary_neg"} /\ a.tag \notin BinaryTags
    BY <1>4, TagsDiffer
  <2> QED
    BY <2>1 DEF EvalBody
<1> QED
  BY <1>2, <1>3, <1>4

LEMMA EmitOK ==
    ASSUME NEW out \in Lowered, NEW op \in Ops, NEW a \in Int
    PROVE  Emit(out, op, a) \in Lowered
PROOF
<1> DEFINE Code == [op : Ops, a : Int]
<1>1. [op |-> op, a |-> a] \in Code
  OBVIOUS
<1> HIDE DEF Code
<1>2. Lowered = [err : {"OK", "UNDEF_VAR", "ARENA_OOM"}, code : Seq(Code)]
  BY DEF Lowered, Code
<1>3. Append(out.code, [op |-> op, a |-> a]) \in Seq(Code)
  BY <1>1, <1>2
<1> QED
  BY <1>2, <1>3 DEF Emit

LEMMA OpOfOK ==
    ASSUME NEW tag \in BinaryTags
    PROVE  OpOf(tag) \in BinaryOps /\ OpOf(tag) \in Ops
PROOF
<1>1. tag \in {"==", "!=", "<", "<=", ">", ">=", "+", "-", "*", "/", "%"}
  BY DEF BinaryTags, Comparisons, Additions, Products
<1>2. OpOf(tag) \in {"add", "sub", "mul", "div", "mod", "eq", "ne", "lt", "le", "gt", "ge"}
  BY <1>1 DEF OpOf
<1> QED
  BY <1>2 DEF BinaryOps, Ops

\* f lowers the nodes in front of n.
LowersBelow(f, n) == \A j \in 0..n - 1, o \in Lowered : f[<<j, o>>] \in Lowered

LEMMA LowerBodyOK ==
    ASSUME Backward, EnvOK, NEW n \in Nodes, NEW out \in Lowered, NEW f, LowersBelow(f, n)
    PROVE  LowerBody(f, n, out) \in Lowered
PROOF
<1> DEFINE a == arena[n + 1]
<1>0. CASE out.err # "OK"
  BY <1>0 DEF LowerBody
<1>u. [out EXCEPT !.err = "UNDEF_VAR"] \in Lowered
  <2> DEFINE S == Seq([op : Ops, a : Int])
  <2>1. Lowered = [err : {"OK", "UNDEF_VAR", "ARENA_OOM"}, code : S]
    BY DEF Lowered
  <2> HIDE DEF S
  <2> QED
    BY <2>1
<1>c. out.err = "OK" => LowersAs(f, n, out)
  BY LowerCases
<1>o. "push" \in Ops /\ "load" \in Ops /\ "neg" \in Ops
  BY DEF Ops, LocalOps, UnaryOps
<1>1. CASE out.err = "OK" /\ a.tag = "lit"
  <2>1. Number(a.text) \in Int
    BY <1>1, NumberOK DEF Backward
  <2>2. Wrap(Number(a.text)) \in Word
    BY <2>1, WrapFacts
  <2>3. Wrap(Number(a.text)) \in Int
    BY <2>2, WordAssumption DEF Word
  <2>4. Emit(out, "push", Wrap(Number(a.text))) \in Lowered
    BY <2>3, <1>o, EmitOK
  <2> QED
    BY <1>1, <2>4, <1>c DEF LowersAs
<1>2. CASE out.err = "OK" /\ a.tag = "var_ref"
  <2>1. Len(env) \in Nat
    BY DEF EnvOK
  <2>2. Binding(a.text) \in Int
    BY <2>1, BindingOK
  <2>3. Emit(out, "load", Binding(a.text) - 1) \in Lowered
    BY <2>2, <1>o, EmitOK
  <2> QED
    BY <1>2, <1>u, <2>3, <1>c DEF LowersAs
<1>3. CASE out.err = "OK" /\ a.tag = "unary_pos"
  <2>1. f[<<a.lhs, out>>] \in Lowered
    BY <1>3, TagsDiffer DEF Backward, LowersBelow
  <2> QED
    BY <1>3, <2>1, <1>c DEF LowersAs
<1>4. CASE out.err = "OK" /\ a.tag = "unary_neg"
  <2>1. f[<<a.lhs, out>>] \in Lowered
    BY <1>4, TagsDiffer DEF Backward, LowersBelow
  <2>2. Emit(f[<<a.lhs, out>>], "neg", 0) \in Lowered
    BY <2>1, <1>o, EmitOK
  <2> QED
    BY <1>4, <2>2, <1>c DEF LowersAs
<1>5. CASE out.err = "OK" /\ a.tag \in BinaryTags
  <2>1. a.lhs \in 0..n - 1 /\ a.rhs \in 0..n - 1
    BY <1>5 DEF Backward
  <2>2. f[<<a.lhs, out>>] \in Lowered
    BY <2>1 DEF LowersBelow
  <2>3. f[<<a.rhs, f[<<a.lhs, out>>]>>] \in Lowered
    BY <2>1, <2>2 DEF LowersBelow
  <2>4. Emit(f[<<a.rhs, f[<<a.lhs, out>>]>>], OpOf(a.tag), 0) \in Lowered
    BY <1>5, <2>3, EmitOK, OpOfOK
  <2> QED
    BY <1>5, <2>4, <1>c DEF LowersAs
<1>6. CASE a.tag \notin {"lit", "var_ref", "unary_pos", "unary_neg"} \cup BinaryTags
  BY <1>0, <1>6, <1>u DEF LowerBody
<1> QED
  BY <1>0, <1>1, <1>2, <1>3, <1>4, <1>5, <1>6

LEMMA LowerLocal ==
    ASSUME Backward, NEW n \in Nodes, NEW out \in Lowered, NEW f, NEW g, LowersBelow(g, n),
           \A j \in 0..n - 1, o \in Lowered : f[<<j, o>>] = g[<<j, o>>]
    PROVE  LowerBody(f, n, out) = LowerBody(g, n, out)
PROOF
<1> DEFINE a == arena[n + 1]
<1>1. /\ a.tag \in UnaryTags \cup BinaryTags => f[<<a.lhs, out>>] = g[<<a.lhs, out>>]
      /\ a.tag \in BinaryTags =>
            f[<<a.rhs, f[<<a.lhs, out>>]>>] = g[<<a.rhs, g[<<a.lhs, out>>]>>]
  <2>1. CASE a.tag \in BinaryTags
    <3>1. a.lhs \in 0..n - 1 /\ a.rhs \in 0..n - 1
      BY <2>1 DEF Backward
    <3>2. f[<<a.lhs, out>>] = g[<<a.lhs, out>>] /\ g[<<a.lhs, out>>] \in Lowered
      BY <3>1 DEF LowersBelow
    <3> QED
      BY <3>1, <3>2
  <2>2. CASE a.tag \in UnaryTags
    <3>1. a.lhs \in 0..n - 1
      BY <2>2 DEF Backward
    <3>2. a.tag \notin BinaryTags
      BY <2>2, TagsDiffer
    <3> QED
      BY <3>1, <3>2
  <2> QED
    BY <2>1, <2>2
<1>2. CASE a.tag \in UnaryTags
  <2>1. /\ a.tag \notin BinaryTags /\ a.tag \in {"unary_pos", "unary_neg"}
        /\ f[<<a.lhs, out>>] = g[<<a.lhs, out>>]
    BY <1>1, <1>2, TagsDiffer
  <2> QED
    BY <2>1 DEF LowerBody
<1>3. CASE a.tag \in BinaryTags
  <2>1. /\ a.tag \notin {"lit", "var_ref", "unary_pos", "unary_neg"}
        /\ f[<<a.rhs, f[<<a.lhs, out>>]>>] = g[<<a.rhs, g[<<a.lhs, out>>]>>]
    BY <1>1, <1>3, TagsDiffer
  <2> QED
    BY <1>3, <2>1 DEF LowerBody
<1>4. CASE a.tag \notin UnaryTags \cup BinaryTags
  <2>1. a.tag \notin {"unary_pos", "unary_neg"} /\ a.tag \notin BinaryTags
    BY <1>4, TagsDiffer
  <2> QED
    BY <2>1 DEF LowerBody
<1> QED
  BY <1>2, <1>3, <1>4

LEMMA EvalFnExists ==
    ASSUME Backward, NEW m \in 0..Len(arena)
    PROVE  \E f : f = [n \in 0..m - 1 |-> EvalBody(f, n)]
PROOF
<1> DEFINE Defined(k) == \E f : f = [n \in 0..k - 1 |-> EvalBody(f, n)]
           None == {k \in Nat : k <= Len(arena) /\ ~Defined(k)}
<1> HIDE DEF Defined
<1>0. Len(arena) \in Nat
  BY DEF Backward
<1> SUFFICES ASSUME None # {} PROVE FALSE
  BY <1>0 DEF Defined
<1>1. PICK k \in None : \A j \in None : k <= j
  BY LeastOf
<1>2. k # 0
  <2>1. Defined(0)
    <3> DEFINE f == [n \in {} |-> 0]
    <3>1. 0..0 - 1 = {}
      OBVIOUS
    <3>2. f = [n \in 0..0 - 1 |-> EvalBody(f, n)]
      BY <3>1
    <3> QED
      BY <3>2 DEF Defined
  <2> QED
    BY <2>1
<1>3. k - 1 \in Nat /\ k - 1 \notin None /\ k <= Len(arena)
  BY <1>1, <1>2
<1>4. PICK g : g = [n \in 0..k - 1 - 1 |-> EvalBody(g, n)]
  BY <1>0, <1>3 DEF Defined
<1> DEFINE f == [n \in 0..k - 1 |-> IF n < k - 1 THEN g[n] ELSE EvalBody(g, n)]
<1>5. \A j \in 0..k - 1 - 1 : f[j] = g[j] /\ g[j] = EvalBody(g, j)
  BY <1>3, <1>4
<1>6. ASSUME NEW n \in 0..k - 1 PROVE f[n] = EvalBody(f, n)
  <2>1. \A j \in 0..n - 1 : f[j] = g[j]
    <3>1. 0..n - 1 \subseteq 0..k - 1 - 1
      BY <1>3
    <3> HIDE DEF f
    <3> QED
      BY <1>5, <3>1
  <2>2. n \in Nodes
    BY <1>0, <1>3 DEF Nodes
  <2>3. f[n] = EvalBody(g, n)
    <3>1. CASE n < k - 1
      <4>1. n \in 0..k - 1 - 1
        BY <1>3, <3>1
      <4> HIDE DEF f
      <4> QED
        BY <1>5, <4>1
    <3>2. CASE ~(n < k - 1)
      BY <3>2
    <3> QED
      BY <3>1, <3>2
  <2> HIDE DEF f
  <2> QED
    BY <2>1, <2>2, <2>3, EvalLocal
<1>7. f = [n \in 0..k - 1 |-> EvalBody(f, n)]
  <2> DEFINE h == [n \in 0..k - 1 |-> EvalBody(f, n)]
  <2>1. DOMAIN f = 0..k - 1 /\ f = [n \in DOMAIN f |-> f[n]]
    OBVIOUS
  <2> HIDE DEF f
  <2> QED
    BY <1>6, <2>1
<1> QED
  BY <1>1, <1>7 DEF Defined

\* f lowers the first m nodes.
Lowers(f, m) ==
    /\ f = [q \in (0..m - 1) \X Lowered |-> LowerBody(f, q[1], q[2])]
    /\ LowersBelow(f, m)

LEMMA LowerFnExists ==
    ASSUME Backward, EnvOK, NEW m \in 0..Len(arena)
    PROVE  \E f : Lowers(f, m)
PROOF
<1> DEFINE None == {k \in Nat : k <= Len(arena) /\ ~\E f : Lowers(f, k)}
<1>0. Len(arena) \in Nat
  BY DEF Backward
<1> SUFFICES ASSUME None # {} PROVE FALSE
  BY <1>0
<1>1. PICK k \in None : \A j \in None : k <= j
  BY LeastOf
<1>2. k # 0
  <2> DEFINE f == [q \in {} |-> 0]
  <2>1. (0..0 - 1) = {} /\ (0..0 - 1) \X Lowered = {}
    OBVIOUS
  <2>2. f = [q \in (0..0 - 1) \X Lowered |-> LowerBody(f, q[1], q[2])]
    BY <2>1
  <2>3. LowersBelow(f, 0)
    BY <2>1 DEF LowersBelow
  <2>4. Lowers(f, 0)
    BY <2>2, <2>3 DEF Lowers
  <2> QED
    BY <2>4
<1>3. k - 1 \in Nat /\ k - 1 \notin None /\ k <= Len(arena) /\ k - 1 \in Nodes
  BY <1>0, <1>1, <1>2 DEF Nodes
<1>4. PICK g : Lowers(g, k - 1)
  BY <1>0, <1>3
<1> DEFINE D == (0..k - 1) \X Lowered
           f == [q \in D |-> IF q[1] < k - 1 THEN g[q] ELSE LowerBody(g, q[1], q[2])]
<1>5. \A j \in 0..k - 1 - 1, o \in Lowered :
         /\ f[<<j, o>>] = g[<<j, o>>]
         /\ g[<<j, o>>] = LowerBody(g, j, o)
         /\ g[<<j, o>>] \in Lowered
  <2> SUFFICES ASSUME NEW j \in 0..k - 1 - 1, NEW o \in Lowered
               PROVE  /\ f[<<j, o>>] = g[<<j, o>>]
                      /\ g[<<j, o>>] = LowerBody(g, j, o)
                      /\ g[<<j, o>>] \in Lowered
    OBVIOUS
  <2>1. j < k - 1 /\ <<j, o>> \in D /\ <<j, o>>[1] = j /\ <<j, o>>[2] = o
        /\ <<j, o>> \in (0..k - 1 - 1) \X Lowered
    BY <1>3
  <2>2. f[<<j, o>>] = g[<<j, o>>]
    BY <2>1
  <2>3. g[<<j, o>>] = LowerBody(g, j, o)
    <3>1. g = [q \in (0..k - 1 - 1) \X Lowered |-> LowerBody(g, q[1], q[2])]
      BY <1>4 DEF Lowers
    <3>2. \A q \in (0..k - 1 - 1) \X Lowered : g[q] = LowerBody(g, q[1], q[2])
      BY <3>1
    <3> QED
      BY <2>1, <3>2
  <2>4. g[<<j, o>>] \in Lowered
    BY <1>4 DEF Lowers, LowersBelow
  <2> QED
    BY <2>2, <2>3, <2>4
<1>6. ASSUME NEW n \in 0..k - 1, NEW o \in Lowered
      PROVE  f[<<n, o>>] = LowerBody(f, n, o) /\ f[<<n, o>>] \in Lowered
  <2>1. n \in Nodes /\ <<n, o>> \in D /\ <<n, o>>[1] = n /\ <<n, o>>[2] = o
    BY <1>0, <1>3 DEF Nodes
  <2>2. 0..n - 1 \subseteq 0..k - 1 - 1
    BY <1>3
  <2>3. LowersBelow(g, n) /\ \A j \in 0..n - 1, p \in Lowered : f[<<j, p>>] = g[<<j, p>>]
    <3> HIDE DEF f
    <3> QED
      BY <1>5, <2>2 DEF LowersBelow
  <2>4. LowerBody(f, n, o) = LowerBody(g, n, o) /\ LowerBody(g, n, o) \in Lowered
    <3> HIDE DEF f
    <3>1. LowerBody(f, n, o) = LowerBody(g, n, o)
      BY <2>1, <2>3, LowerLocal
    <3>2. LowerBody(g, n, o) \in Lowered
      BY <2>1, <2>3, LowerBodyOK
    <3> QED
      BY <3>1, <3>2
  <2>5. f[<<n, o>>] = LowerBody(g, n, o)
    <3>1. CASE n < k - 1
      <4>1. n \in 0..k - 1 - 1
        BY <1>3, <3>1
      <4> HIDE DEF f
      <4> QED
        BY <1>5, <4>1
    <3>2. CASE ~(n < k - 1)
      BY <2>1, <3>2
    <3> QED
      BY <3>1, <3>2
  <2> HIDE DEF f
  <2> QED
    BY <2>4, <2>5
<1>7. f = [q \in D |-> LowerBody(f, q[1], q[2])]
  <2>1. DOMAIN f = D /\ f = [q \in DOMAIN f |-> f[q]]
    OBVIOUS
  <2>2. ASSUME NEW q \in D PROVE f[q] = LowerBody(f, q[1], q[2])
    <3>1. PICK n \in 0..k - 1, o \in Lowered : q = <<n, o>>
      OBVIOUS
    <3>2. q[1] = n /\ q[2] = o
      BY <3>1
    <3> HIDE DEF f
    <3> QED
      BY <3>1, <3>2, <1>6
  <2> HIDE DEF f, D
  <2> QED
    BY <2>1, <2>2
<1>8. LowersBelow(f, k)
  <2> HIDE DEF f
  <2> QED
    BY <1>6 DEF LowersBelow
<1>9. Lowers(f, k)
  BY <1>7, <1>8 DEF Lowers
<1> QED
  BY <1>1, <1>9

LEMMA EvalDef ==
    ASSUME Backward, NEW n \in Nodes
    PROVE  /\ ast_arena_eval[n] = EvalBody(ast_arena_eval, n)
           /\ EvalsAs(ast_arena_eval, n)
PROOF
<1> DEFINE Is(f) == f = [k \in Nodes |-> EvalBody(f, k)]
<1>1. \E f : Is(f)
  <2>1. Len(arena) \in 0..Len(arena)
    BY DEF Backward
  <2> QED
    BY <2>1, EvalFnExists DEF Nodes
<1>2. Is(CHOOSE f : Is(f))
  BY <1>1
<1>3. ast_arena_eval = CHOOSE f : Is(f)
  BY DEF ast_arena_eval, EvalBody
<1>4. ast_arena_eval = [k \in Nodes |-> EvalBody(ast_arena_eval, k)]
  BY <1>2, <1>3
<1> HIDE DEF Is
<1>5. EvalsAs(ast_arena_eval, n)
  BY EvalCases
<1> QED
  BY <1>4, <1>5

LEMMA LowerDef ==
    ASSUME Backward, EnvOK, NEW n \in Nodes, NEW out \in Lowered
    PROVE  /\ lower_emit[<<n, out>>] = LowerBody(lower_emit, n, out)
           /\ lower_emit[<<n, out>>] \in Lowered
           /\ out.err = "OK" => LowersAs(lower_emit, n, out)
PROOF
<1> DEFINE Is(f) == f = [q \in Nodes \X Lowered |-> LowerBody(f, q[1], q[2])]
<1>1. \E f : Is(f)
  <2>1. Len(arena) \in 0..Len(arena)
    BY DEF Backward
  <2> QED
    BY <2>1, LowerFnExists DEF Nodes, Lowers
<1>2. Is(CHOOSE f : Is(f))
  BY <1>1
<1>3. lower_emit = CHOOSE f : Is(f)
  BY DEF lower_emit, LowerBody
<1>4. lower_emit = [q \in Nodes \X Lowered |-> LowerBody(lower_emit, q[1], q[2])]
  BY <1>2, <1>3
<1> HIDE DEF Is
<1>5. \A j \in Nodes, o \in Lowered : lower_emit[<<j, o>>] = LowerBody(lower_emit, j, o)
  <2> TAKE j \in Nodes, o \in Lowered
  <2>1. <<j, o>> \in Nodes \X Lowered /\ <<j, o>>[1] = j /\ <<j, o>>[2] = o
    OBVIOUS
  <2> QED
    BY <1>4, <2>1
<1> DEFINE Bad == {k \in Nat : k < Len(arena) /\ \E o \in Lowered : lower_emit[<<k, o>>] \notin Lowered}
<1>6. Bad = {}
  <2> SUFFICES ASSUME Bad # {} PROVE FALSE
    OBVIOUS
  <2>1. PICK k \in Bad : \A j \in Bad : k <= j
    BY LeastOf
  <2>2. k \in Nodes /\ k \in Nat
    BY <2>1 DEF Nodes, Backward
  <2>3. PICK o \in Lowered : lower_emit[<<k, o>>] \notin Lowered
    BY <2>1
  <2>4. ASSUME NEW j \in 0..k - 1 PROVE \A p \in Lowered : lower_emit[<<j, p>>] \in Lowered
    <3>1. j \in Nat /\ j < Len(arena) /\ ~(k <= j)
      BY <2>2 DEF Nodes, Backward
    <3> HIDE DEF Bad
    <3>2. j \notin Bad
      BY <2>1, <3>1
    <3> QED
      BY <3>1, <3>2 DEF Bad
  <2>5. LowersBelow(lower_emit, k)
    BY <2>4 DEF LowersBelow
  <2> QED
    BY <2>2, <2>3, <2>5, <1>5, LowerBodyOK
<1>7. lower_emit[<<n, out>>] \in Lowered
  <2>1. n \in Nat /\ n < Len(arena)
    BY DEF Nodes, Backward
  <2> QED
    BY <1>6, <2>1
<1>8. out.err = "OK" => LowersAs(lower_emit, n, out)
  BY LowerCases
<1> QED
  BY <1>5, <1>7, <1>8

-----------------------------------------------------------------------------
(***************************************************************************)
(* The evaluator's values                                                  *)
(***************************************************************************)
Values == [err : {"OK", "UNDEF_VAR", "DIV_ZERO"}, val : Word]

LEMMA MakeValue ==
    /\ \A v \in Word : Value(v) \in Values /\ Value(v).err = "OK" /\ Value(v).val = v
    /\ \A e \in {"UNDEF_VAR", "DIV_ZERO"} : Failed(e) \in Values /\ Failed(e).err = e
PROOF
<1>1. 0 \in Word
  BY WordAssumption DEF Word
<1> QED
  BY <1>1 DEF Values, Value, Failed

\* What an operator makes of two values that are words.
Combined(tag, x, y) ==
    CASE tag = "+" -> Wrap(x + y)
      [] tag = "-" -> Wrap(x - y)
      [] tag = "*" -> Wrap(x * y)
      [] tag = "/" -> lin_wdiv(x, y)
      [] tag = "%" -> lin_wrem(x, y)
      [] tag = "==" -> Truth(x = y)
      [] tag = "!=" -> Truth(x # y)
      [] tag = "<" -> Truth(x < y)
      [] tag = "<=" -> Truth(x <= y)
      [] tag = ">" -> Truth(x > y)
      [] tag = ">=" -> Truth(x >= y)

\* The evaluator and the machine agree on every operator.
LEMMA SameArithmetic ==
    ASSUME NEW tag \in BinaryTags, NEW x \in Word, NEW y \in Word,
           ~(tag \in {"/", "%"} /\ y = 0)
    PROVE  /\ Combined(tag, x, y) \in Word
           /\ Results(OpOf(tag), x, y) = {Combined(tag, x, y)}
PROOF
<1> DEFINE w == Combined(tag, x, y)
<1>0. tag \in {"==", "!=", "<", "<=", ">", ">=", "+", "-", "*", "/", "%"}
  BY DEF BinaryTags, Comparisons, Additions, Products
<1>1. 0 \in Word /\ 1 \in Word /\ x \in Int /\ y \in Int
  BY WordAssumption, Pow2Facts DEF Word
<1>2. x + y \in Int /\ x - y \in Int /\ x * y \in Int
  BY <1>1
<1>3. w \in Word
  <2>1. CASE tag \in {"+", "-", "*"}
    BY <1>2, <2>1, WrapFacts DEF Combined
  <2>2. CASE tag \in {"/", "%"}
    BY <2>2, Division DEF Combined
  <2>3. CASE tag \in {"==", "!=", "<", "<=", ">", ">="}
    BY <1>1, <2>3 DEF Combined, Truth
  <2> QED
    BY <1>0, <2>1, <2>2, <2>3
<1>4. \A r : Computes(OpOf(tag), x, y, r) <=> r = w
  <2> TAKE r
  <2>1. CASE tag \in {"+", "-", "*"}
    BY <2>1 DEF Computes, OpOf, Combined
  <2>2. CASE tag \in {"/", "%"}
    BY <2>2 DEF Computes, OpOf, Combined
  <2>3. CASE tag \in {"==", "!=", "<", "<=", ">", ">="}
    BY <2>3 DEF Computes, OpOf, Combined
  <2> QED
    BY <1>0, <2>1, <2>2, <2>3
<1> QED
  BY <1>3, <1>4 DEF Results

LEMMA Apply2OK ==
    ASSUME NEW tag \in BinaryTags, NEW l \in Values, NEW r \in Values
    PROVE  /\ l.err # "OK" => Apply2(tag, l, r) = l
           /\ (l.err = "OK" /\ r.err # "OK") => Apply2(tag, l, r) = r
           /\ (l.err = "OK" /\ r.err = "OK" /\ tag \in {"/", "%"} /\ r.val = 0) =>
                 Apply2(tag, l, r) = Failed("DIV_ZERO")
           /\ (l.err = "OK" /\ r.err = "OK" /\ ~(tag \in {"/", "%"} /\ r.val = 0)) =>
                 Apply2(tag, l, r) = Value(Combined(tag, l.val, r.val))
           /\ Apply2(tag, l, r) \in Values
PROOF
<1>1. l.val \in Word /\ r.val \in Word
  BY DEF Values
<1>2. Combined(tag, l.val, r.val) \in Word \/ (tag \in {"/", "%"} /\ r.val = 0)
  BY <1>1, SameArithmetic
<1>3. CASE l.err = "OK" /\ r.err = "OK" /\ ~(tag \in {"/", "%"} /\ r.val = 0)
  <2>1. Apply2(tag, l, r) = Value(Combined(tag, l.val, r.val))
    BY <1>3 DEF Apply2, Combined
  <2> QED
    BY <1>2, <1>3, <2>1, MakeValue
<1>4. CASE ~(l.err = "OK" /\ r.err = "OK" /\ ~(tag \in {"/", "%"} /\ r.val = 0))
  BY <1>4, MakeValue DEF Apply2
<1> QED
  BY <1>3, <1>4

LEMMA EvalOK ==
    ASSUME Backward, EnvOK, NEW n \in Nodes
    PROVE  ast_arena_eval[n] \in Values
PROOF
<1> DEFINE Bad == {k \in Nat : k < Len(arena) /\ ast_arena_eval[k] \notin Values}
<1>0. Len(arena) \in Nat /\ n \in Nat /\ n < Len(arena)
  BY DEF Backward, Nodes
<1> SUFFICES ASSUME Bad # {} PROVE FALSE
  BY <1>0
<1>1. PICK k \in Bad : \A j \in Bad : k <= j
  BY LeastOf
<1>2. k \in Nodes /\ k \in Nat
  BY <1>0, <1>1 DEF Nodes
<1>3. ASSUME NEW j \in 0..k - 1 PROVE ast_arena_eval[j] \in Values
  <2>1. j \in Nat /\ j < Len(arena) /\ ~(k <= j)
    BY <1>0, <1>1
  <2>2. j \notin Bad
    <3> HIDE DEF Bad
    <3> QED
      BY <1>1, <2>1
  <2> QED
    BY <2>1, <2>2
<1> DEFINE a == arena[k + 1]
           v == ast_arena_eval[k]
<1>4. EvalsAs(ast_arena_eval, k) /\ v = EvalBody(ast_arena_eval, k)
  BY <1>2, EvalDef
<1> HIDE DEF v
<1> SUFFICES v \in Values
  BY <1>1 DEF v
<1>5. CASE a.tag = "lit"
  <2>1. Wrap(Number(a.text)) \in Word
    <3>1. Number(a.text) \in Int
      BY <1>2, <1>5, NumberOK DEF Backward
    <3> QED
      BY <3>1, WrapFacts
  <2> QED
    BY <1>4, <1>5, <2>1, MakeValue DEF EvalsAs
<1>6. CASE a.tag = "var_ref"
  <2>1. Binding(a.text) # 0 => env[Binding(a.text)].val \in Word
    BY BindingOK
  <2>2. v = IF Binding(a.text) = 0 THEN Failed("UNDEF_VAR")
            ELSE Value(env[Binding(a.text)].val)
    BY <1>4, <1>6 DEF EvalsAs
  <2> QED
    BY <2>1, <2>2, MakeValue
<1>7. CASE a.tag \in UnaryTags
  <2> DEFINE l == ast_arena_eval[a.lhs]
  <2>1. l \in Values
    BY <1>2, <1>3, <1>7 DEF Backward
  <2>2. l.val \in Int
    BY <2>1, WordAssumption DEF Values, Word
  <2>3. Wrap(-l.val) \in Word
    BY <2>2, WrapFacts
  <2>4. v = l \/ v = Value(Wrap(-l.val))
    BY <1>4, <1>7, TagsDiffer DEF EvalsAs
  <2> QED
    BY <2>1, <2>3, <2>4, MakeValue
<1>8. CASE a.tag \in BinaryTags
  <2>1. ast_arena_eval[a.lhs] \in Values /\ ast_arena_eval[a.rhs] \in Values
    BY <1>2, <1>3, <1>8 DEF Backward
  <2>2. v = Apply2(a.tag, ast_arena_eval[a.lhs], ast_arena_eval[a.rhs])
    BY <1>4, <1>8 DEF EvalsAs
  <2> QED
    BY <1>8, <2>1, <2>2, Apply2OK
<1>9. CASE a.tag \notin Leaf \cup UnaryTags \cup BinaryTags
  BY <1>4, <1>9, MakeValue DEF EvalsAs
<1> QED
  BY <1>5, <1>6, <1>7, <1>8, <1>9 DEF Leaf

-----------------------------------------------------------------------------
(***************************************************************************)
(* Runs of straight code.  e is the environment the locals hold.           *)
(***************************************************************************)
Code == [op : Ops, a : Int]

\* Instruction i takes the operand stack from s to t.
StackStep(e, i, s, t) ==
    \/ i.op = "push" /\ t = Append(s, i.a)
    \/ i.op = "load" /\ i.a \in 0..Len(e) - 1 /\ t = Append(s, e[i.a + 1].val)
    \/ /\ i.op = "neg" /\ Len(s) >= 1
       /\ t = Append(SubSeq(s, 1, Len(s) - 1), Wrap(-s[Len(s)]))
    \/ /\ i.op \in BinaryOps /\ Len(s) >= 2
       /\ \E r : /\ Results(i.op, s[Len(s) - 1], s[Len(s)]) = {r}
                 /\ t = Append(SubSeq(s, 1, Len(s) - 2), r)

\* Instruction i finds a zero to divide by.
Stuck(i, s) == i.op \in {"div", "mod"} /\ Len(s) >= 2 /\ s[Len(s)] = 0

\* The stacks st of the first d instructions of c, from b; 2 * height <= h above b.
Trace(e, c, b, d, st, h) ==
    /\ st \in [0..d -> Seq(Word)]
    /\ st[0] = b
    /\ \A k \in 0..d - 1 : StackStep(e, c[k + 1], st[k], st[k + 1])
    /\ \A k \in 0..d : 2 * (Len(st[k]) - Len(b)) <= h

\* One instruction.
RunsTo(e, c, b, t, h) == \E st : Trace(e, c, b, Len(c), st, h) /\ st[Len(c)] = t

OneStep(e, i, b, t, h) ==
    /\ b \in Seq(Word) /\ t \in Seq(Word) /\ h \in Nat
    /\ StackStep(e, i, b, t)
    /\ 2 * (Len(t) - Len(b)) <= h

LEMMA TraceOne ==
    ASSUME NEW e, NEW i, NEW b, NEW t, NEW h, OneStep(e, i, b, t, h)
    PROVE  RunsTo(e, <<i>>, b, t, h)
PROOF
<1>0. /\ b \in Seq(Word) /\ t \in Seq(Word) /\ h \in Nat
      /\ StackStep(e, i, b, t)
      /\ 2 * (Len(t) - Len(b)) <= h
  BY DEF OneStep
<1> DEFINE st == [k \in 0..1 |-> IF k = 0 THEN b ELSE t]
<1>1. st \in [0..1 -> Seq(Word)] /\ st[0] = b /\ st[1] = t
  BY <1>0
<1>2. ASSUME NEW k \in 0..1 - 1 PROVE StackStep(e, <<i>>[k + 1], st[k], st[k + 1])
  <2>1. k = 0 /\ k + 1 = 1 /\ <<i>>[1] = i
    OBVIOUS
  <2> HIDE DEF st
  <2> QED
    BY <1>0, <1>1, <2>1
<1>3. ASSUME NEW k \in 0..1 PROVE 2 * (Len(st[k]) - Len(b)) <= h
  <2>1. Len(b) \in Int /\ Len(t) \in Int /\ (k = 0 \/ k = 1)
    BY <1>0
  <2> HIDE DEF st
  <2> QED
    BY <1>0, <1>1, <2>1
<1>4. Trace(e, <<i>>, b, 1, st, h)
  <2> HIDE DEF st
  <2> QED
    BY <1>1, <1>2, <1>3 DEF Trace
<1>5. Len(<<i>>) = 1
  OBVIOUS
<1> QED
  BY <1>1, <1>4, <1>5 DEF RunsTo

\* A run of part of the code.
LEMMA TraceLonger ==
    ASSUME NEW e, NEW S, NEW c \in Seq(S), NEW x \in Seq(S), NEW b \in Seq(Word),
           NEW d \in 0..Len(c), NEW st, NEW h \in Nat, NEW g \in Nat, h <= g,
           Trace(e, c, b, d, st, h)
    PROVE  Trace(e, c \o x, b, d, st, g)
PROOF
<1>1. /\ st \in [0..d -> Seq(Word)] /\ st[0] = b
      /\ \A k \in 0..d - 1 : StackStep(e, c[k + 1], st[k], st[k + 1])
      /\ \A k \in 0..d : 2 * (Len(st[k]) - Len(b)) <= h
  BY DEF Trace
<1>2. ASSUME NEW k \in 0..d - 1 PROVE StackStep(e, (c \o x)[k + 1], st[k], st[k + 1])
  <2>1. k + 1 \in 1..Len(c)
    OBVIOUS
  <2>2. (c \o x)[k + 1] = c[k + 1]
    BY <2>1
  <2> QED
    BY <1>1, <2>2
<1>3. ASSUME NEW k \in 0..d PROVE 2 * (Len(st[k]) - Len(b)) <= g
  <2>1. Len(st[k]) \in Int /\ Len(b) \in Int
    BY <1>1
  <2> QED
    BY <1>1, <2>1
<1> QED
  BY <1>1, <1>2, <1>3 DEF Trace

\* The whole of c and then part of x.
TwoRuns(e, c, x, b, d, s, t, h, j, g) ==
    /\ c \in Seq(Code) /\ x \in Seq(Code) /\ b \in Seq(Word) /\ d \in 0..Len(x)
    /\ h \in Nat /\ j \in Nat /\ g \in Nat /\ h <= g
    /\ Trace(e, c, b, Len(c), s, h)
    /\ Trace(e, x, s[Len(c)], d, t, j)
    /\ 2 * (Len(s[Len(c)]) - Len(b)) + j <= g

LEMMA TraceJoin ==
    ASSUME NEW e, NEW c, NEW x, NEW b, NEW d, NEW s, NEW t, NEW h, NEW j, NEW g,
           TwoRuns(e, c, x, b, d, s, t, h, j, g)
    PROVE  \E st : Trace(e, c \o x, b, Len(c) + d, st, g) /\ st[Len(c) + d] = t[d]
PROOF
<1> DEFINE m == Len(c)
           mid == s[m]
           st == [k \in 0..m + d |-> IF k <= m THEN s[k] ELSE t[k - m]]
<1>a. /\ c \in Seq(Code) /\ x \in Seq(Code) /\ b \in Seq(Word) /\ d \in 0..Len(x)
      /\ h \in Nat /\ j \in Nat /\ g \in Nat /\ h <= g
      /\ Trace(e, c, b, Len(c), s, h)
      /\ Trace(e, x, s[Len(c)], d, t, j)
      /\ 2 * (Len(s[Len(c)]) - Len(b)) + j <= g
  BY DEF TwoRuns
<1>0. m \in Nat /\ d \in Nat /\ Len(x) \in Nat /\ d <= Len(x)
  BY <1>a
<1>1. /\ s \in [0..m -> Seq(Word)] /\ s[0] = b
      /\ \A k \in 0..m - 1 : StackStep(e, c[k + 1], s[k], s[k + 1])
      /\ \A k \in 0..m : 2 * (Len(s[k]) - Len(b)) <= h
  BY <1>a DEF Trace
<1>2. /\ t \in [0..d -> Seq(Word)] /\ t[0] = mid
      /\ \A k \in 0..d - 1 : StackStep(e, x[k + 1], t[k], t[k + 1])
      /\ \A k \in 0..d : 2 * (Len(t[k]) - Len(mid)) <= j
  BY <1>a DEF Trace
<1>3. ASSUME NEW k \in 0..m PROVE st[k] = s[k] /\ st[k] \in Seq(Word)
  <2>1. k \in 0..m + d /\ k <= m
    BY <1>0
  <2> QED
    BY <1>1, <2>1
<1>4. ASSUME NEW k \in 0..d PROVE st[m + k] = t[k] /\ st[m + k] \in Seq(Word)
  <2>1. m + k \in 0..m + d /\ (m + k) - m = k /\ m \in 0..m + d /\ m \in 0..m
    BY <1>0
  <2>2. CASE k = 0
    <3>1. m + k = m /\ t[k] = mid
      BY <1>0, <1>2, <2>2
    <3>2. st[m + k] = s[m]
      BY <2>1, <3>1, <1>3
    <3> HIDE DEF st
    <3> QED
      BY <1>1, <2>1, <3>1, <3>2
  <2>3. CASE k # 0
    <3>1. ~(m + k <= m)
      BY <1>0, <2>3
    <3>2. st[m + k] = t[k]
      BY <2>1, <3>1
    <3> HIDE DEF st
    <3> QED
      BY <1>2, <3>2
  <2> QED
    BY <2>2, <2>3
<1>5. st = [k \in 0..m + d |-> st[k]]
  OBVIOUS
<1> HIDE DEF st
<1>6. ASSUME NEW k \in 0..m + d PROVE k \in 0..m \/ (\E i \in 0..d : k = m + i)
  <2>1. k \in 0..m \/ (k - m \in 0..d /\ k = m + (k - m))
    BY <1>0
  <2> QED
    BY <2>1
<1>7. st \in [0..m + d -> Seq(Word)]
  <2>1. ASSUME NEW k \in 0..m + d PROVE st[k] \in Seq(Word)
    BY <1>3, <1>4, <1>6
  <2> QED
    BY <1>5, <2>1
<1>8. ASSUME NEW k \in 0..(m + d) - 1 PROVE StackStep(e, (c \o x)[k + 1], st[k], st[k + 1])
  <2>1. CASE k < m
    <3>1. k \in 0..m - 1 /\ k \in 0..m /\ k + 1 \in 0..m /\ k + 1 \in 1..m
      BY <1>0, <2>1
    <3>2. (c \o x)[k + 1] = c[k + 1]
      BY <1>a, <3>1
    <3> QED
      BY <1>1, <1>3, <3>1, <3>2
  <2>2. CASE ~(k < m)
    <3> DEFINE i == k - m
    <3>1. i \in 0..d - 1 /\ i \in 0..d /\ i + 1 \in 0..d /\ k = m + i /\ k + 1 = m + (i + 1)
          /\ i + 1 \in 1..Len(x)
      BY <1>0, <2>2
    <3>2. (c \o x)[m + (i + 1)] = x[i + 1]
      BY <1>a, <3>1
    <3>3. st[k] = t[i] /\ st[k + 1] = t[i + 1]
      BY <1>4, <3>1
    <3> HIDE DEF i
    <3> QED
      BY <1>2, <3>1, <3>2, <3>3
  <2> QED
    BY <2>1, <2>2
<1>9. ASSUME NEW k \in 0..m + d PROVE 2 * (Len(st[k]) - Len(b)) <= g
  <2>0. Len(b) \in Int /\ Len(mid) \in Int /\ h \in Nat /\ j \in Nat /\ g \in Nat /\ h <= g
    BY <1>a, <1>0, <1>1
  <2>1. CASE k \in 0..m
    <3>1. st[k] = s[k] /\ Len(s[k]) \in Int
      BY <1>1, <1>3, <2>1
    <3>2. 2 * (Len(s[k]) - Len(b)) <= h
      BY <1>1, <2>1
    <3> QED
      BY <2>0, <3>1, <3>2
  <2>2. ASSUME NEW i \in 0..d, k = m + i PROVE 2 * (Len(st[k]) - Len(b)) <= g
    <3>1. st[k] = t[i] /\ Len(t[i]) \in Int
      BY <1>2, <1>4, <2>2
    <3>2. 2 * (Len(t[i]) - Len(mid)) <= j
      BY <1>2
    <3>3. 2 * (Len(mid) - Len(b)) + j <= g
      BY <1>a
    <3> HIDE DEF mid
    <3> QED
      BY <2>0, <3>1, <3>2, <3>3
  <2> QED
    BY <1>6, <2>1, <2>2
<1>10. st[0] = b /\ st[m + d] = t[d]
  <2>1. 0 \in 0..m /\ d \in 0..d
    BY <1>0
  <2> QED
    BY <1>1, <1>3, <1>4, <2>1
<1>11. Trace(e, c \o x, b, m + d, st, g)
  BY <1>7, <1>8, <1>9, <1>10 DEF Trace
<1> QED
  BY <1>10, <1>11

\* The code c, run on the stack b, leaves the value v there, or stops at a division
\* by zero when v is an error.
Outcome(e, c, v, b, h) ==
    IF v.err = "OK"
    THEN \E st : Trace(e, c, b, Len(c), st, h) /\ st[Len(c)] = Append(b, v.val)
    ELSE \E d \in 0..Len(c) - 1 : \E st : Trace(e, c, b, d, st, h) /\ Stuck(c[d + 1], st[d])

LEMMA Pushed ==
    ASSUME NEW b \in Seq(Word), NEW x \in Word
    PROVE  /\ Append(b, x) \in Seq(Word) /\ Len(Append(b, x)) = Len(b) + 1
           /\ Append(b, x)[Len(b) + 1] = x
           /\ \A i \in 1..Len(b) : Append(b, x)[i] = b[i]
           /\ SubSeq(Append(b, x), 1, Len(b)) = b
PROOF
<1> DEFINE t == Append(b, x)
           u == SubSeq(t, 1, Len(b))
<1>1. Len(b) \in Nat /\ t \in Seq(Word) /\ Len(t) = Len(b) + 1 /\ t[Len(b) + 1] = x
  OBVIOUS
<1>2. \A i \in 1..Len(b) : t[i] = b[i]
  OBVIOUS
<1>3. u \in Seq(Word) /\ Len(u) = Len(b)
  BY <1>1
<1>4. \A i \in 1..Len(b) : u[i] = b[i]
  BY <1>1, <1>2
<1>5. u = b
  BY <1>3, <1>4
<1> QED
  BY <1>1, <1>2, <1>5

LEMMA OutcomeMore ==
    ASSUME NEW e, NEW c \in Seq(Code), NEW v, NEW b \in Seq(Word), NEW h \in Nat, NEW g \in Nat,
           h <= g, Outcome(e, c, v, b, h)
    PROVE  Outcome(e, c, v, b, g)
PROOF
<1>1. ASSUME NEW d \in Nat, NEW st, Trace(e, c, b, d, st, h) PROVE Trace(e, c, b, d, st, g)
  <2>1. st \in [0..d -> Seq(Word)] /\ \A k \in 0..d : 2 * (Len(st[k]) - Len(b)) <= h
    BY <1>1 DEF Trace
  <2>2. ASSUME NEW k \in 0..d PROVE 2 * (Len(st[k]) - Len(b)) <= g
    <3>1. Len(st[k]) \in Int /\ Len(b) \in Int
      BY <2>1
    <3> QED
      BY <2>1, <3>1
  <2> QED
    BY <1>1, <2>2 DEF Trace
<1>2. Len(c) \in Nat /\ \A d \in 0..Len(c) - 1 : d \in Nat
  OBVIOUS
<1> QED
  BY <1>1, <1>2 DEF Outcome

LEMMA PushOutcome ==
    ASSUME NEW e, NEW i, NEW x \in Word, NEW b \in Seq(Word), StackStep(e, i, b, Append(b, x)),
           NEW g \in Nat, 2 <= g
    PROVE  Outcome(e, <<i>>, Value(x), b, g)
PROOF
<1>1. Append(b, x) \in Seq(Word) /\ 2 * (Len(Append(b, x)) - Len(b)) <= g
  <2>1. Len(b) \in Int
    OBVIOUS
  <2> QED
    BY <2>1, Pushed
<1>2. OneStep(e, i, b, Append(b, x), g)
  BY <1>1 DEF OneStep
<1>3. RunsTo(e, <<i>>, b, Append(b, x), g)
  BY <1>2, TraceOne
<1>4. Value(x).err = "OK" /\ Value(x).val = x
  BY MakeValue
<1> QED
  BY <1>3, <1>4 DEF Outcome, RunsTo

\* An error stays one, whatever code follows.
LEMMA StuckOutcome ==
    ASSUME NEW e, NEW c \in Seq(Code), NEW x \in Seq(Code), NEW v, NEW w,
           v.err # "OK", w.err # "OK", NEW b \in Seq(Word), NEW h \in Nat, NEW g \in Nat, h <= g,
           Outcome(e, c, v, b, h)
    PROVE  Outcome(e, c \o x, w, b, g)
PROOF
<1>a. PICK d \in 0..Len(c) - 1 : \E st : Trace(e, c, b, d, st, h) /\ Stuck(c[d + 1], st[d])
  BY DEF Outcome
<1>1. PICK st : Trace(e, c, b, d, st, h) /\ Stuck(c[d + 1], st[d])
  BY <1>a
<1>2. d \in 0..Len(c) /\ d + 1 \in 1..Len(c) /\ d \in 0..Len(c \o x) - 1
  OBVIOUS
<1>3. (c \o x)[d + 1] = c[d + 1]
  BY <1>2
<1>4. Trace(e, c \o x, b, d, st, g)
  BY <1>1, <1>2, TraceLonger
<1> QED
  BY <1>1, <1>2, <1>3, <1>4 DEF Outcome

\* An error after a value.
LEMMA StuckAfter ==
    ASSUME NEW e, NEW c \in Seq(Code), NEW x \in Seq(Code), NEW v \in Values, NEW w, NEW u,
           v.err = "OK", w.err # "OK", u.err # "OK", NEW b \in Seq(Word),
           NEW h \in Nat, NEW j \in Nat, NEW g \in Nat, h <= g, j + 2 <= g,
           Outcome(e, c, v, b, h), Outcome(e, x, w, Append(b, v.val), j)
    PROVE  Outcome(e, c \o x, u, b, g)
PROOF
<1>0. v.val \in Word /\ Len(b) \in Int
  BY DEF Values
<1>1. PICK s : Trace(e, c, b, Len(c), s, h) /\ s[Len(c)] = Append(b, v.val)
  BY DEF Outcome
<1>a. PICK d \in 0..Len(x) - 1 : \E t :
         Trace(e, x, Append(b, v.val), d, t, j) /\ Stuck(x[d + 1], t[d])
  BY DEF Outcome
<1>2. PICK t : Trace(e, x, Append(b, v.val), d, t, j) /\ Stuck(x[d + 1], t[d])
  BY <1>a
<1>3. 2 * (Len(s[Len(c)]) - Len(b)) + j <= g
  BY <1>0, <1>1, Pushed
<1>4. d \in 0..Len(x) /\ Trace(e, x, s[Len(c)], d, t, j)
  BY <1>1, <1>2
<1>5. PICK st : Trace(e, c \o x, b, Len(c) + d, st, g) /\ st[Len(c) + d] = t[d]
  <2>1. TwoRuns(e, c, x, b, d, s, t, h, j, g)
    BY <1>1, <1>3, <1>4 DEF TwoRuns
  <2> QED
    BY <2>1, TraceJoin
<1>6. /\ Len(c) + d \in 0..Len(c \o x) - 1 /\ (Len(c) + d) + 1 = Len(c) + (d + 1)
      /\ d + 1 \in 1..Len(x)
  OBVIOUS
<1>7. (c \o x)[Len(c) + (d + 1)] = x[d + 1]
  BY <1>6
<1>8. Stuck((c \o x)[(Len(c) + d) + 1], st[Len(c) + d])
  BY <1>2, <1>5, <1>6, <1>7
<1> QED
  BY <1>5, <1>6, <1>8 DEF Outcome

\* A value after a value.
LEMMA BothRun ==
    ASSUME NEW e, NEW c \in Seq(Code), NEW x \in Seq(Code), NEW v \in Values, NEW w \in Values,
           v.err = "OK", w.err = "OK", NEW b \in Seq(Word),
           NEW h \in Nat, NEW j \in Nat, NEW g \in Nat, h <= g, j + 2 <= g,
           Outcome(e, c, v, b, h), Outcome(e, x, w, Append(b, v.val), j)
    PROVE  RunsTo(e, c \o x, b, Append(Append(b, v.val), w.val), g)
PROOF
<1>0. v.val \in Word /\ Len(b) \in Int
  BY DEF Values
<1>1. PICK s : Trace(e, c, b, Len(c), s, h) /\ s[Len(c)] = Append(b, v.val)
  BY DEF Outcome
<1>2. PICK t : /\ Trace(e, x, Append(b, v.val), Len(x), t, j)
               /\ t[Len(x)] = Append(Append(b, v.val), w.val)
  BY DEF Outcome
<1>3. 2 * (Len(s[Len(c)]) - Len(b)) + j <= g
  BY <1>0, <1>1, Pushed
<1>4. Len(x) \in 0..Len(x) /\ Trace(e, x, s[Len(c)], Len(x), t, j)
  BY <1>1, <1>2
<1>5. PICK st : Trace(e, c \o x, b, Len(c) + Len(x), st, g) /\ st[Len(c) + Len(x)] = t[Len(x)]
  <2>1. TwoRuns(e, c, x, b, Len(x), s, t, h, j, g)
    BY <1>1, <1>3, <1>4 DEF TwoRuns
  <2> QED
    BY <2>1, TraceJoin
<1>6. Len(c \o x) = Len(c) + Len(x)
  OBVIOUS
<1> QED
  BY <1>2, <1>5, <1>6 DEF RunsTo

LEMMA NegOutcome ==
    ASSUME NEW e, NEW c \in Seq(Code), NEW v \in Values,
           NEW b \in Seq(Word), NEW h \in Nat, NEW g \in Nat, h <= g, 2 <= g,
           Outcome(e, c, v, b, h)
    PROVE  LET i == [op |-> "neg", a |-> 0]
           IN  Outcome(e, c \o <<i>>, IF v.err = "OK" THEN Value(Wrap(-v.val)) ELSE v, b, g)
PROOF
<1> DEFINE i == [op |-> "neg", a |-> 0]
           y == Wrap(-v.val)
<1>0. v.val \in Word /\ Len(b) \in Nat
  BY DEF Values
<1>1. i \in Code /\ <<i>> \in Seq(Code) /\ Len(<<i>>) = 1
  <2>1. i \in Code
    BY DEF Code, Ops, UnaryOps
  <2> HIDE DEF i
  <2> QED
    BY <2>1
<1>2. y \in Word
  <2>1. -v.val \in Int
    BY <1>0, WordAssumption DEF Word
  <2> QED
    BY <2>1, WrapFacts
<1> HIDE DEF y
<1>3. CASE v.err # "OK"
  <2> HIDE DEF i
  <2>1. Outcome(e, c \o <<i>>, v, b, g)
    BY <1>1, <1>3, StuckOutcome
  <2> QED
    BY <1>3, <2>1 DEF i
<1>4. CASE v.err = "OK"
  <2> DEFINE x == Append(b, v.val)
  <2>1. PICK s : Trace(e, c, b, Len(c), s, h) /\ s[Len(c)] = x
    BY <1>4 DEF Outcome
  <2>2. /\ x \in Seq(Word) /\ Len(x) = Len(b) + 1 /\ x[Len(b) + 1] = v.val
        /\ SubSeq(x, 1, Len(b)) = b
    BY <1>0, Pushed
  <2>3. /\ Append(b, y) \in Seq(Word) /\ Len(Append(b, y)) = Len(b) + 1
    BY <1>2, Pushed
  <2> HIDE DEF x
  <2>4. StackStep(e, i, x, Append(b, y))
    <3>1. Len(x) >= 1 /\ Len(x) - 1 = Len(b) /\ x[Len(x)] = v.val
      BY <1>0, <2>2
    <3>2. Append(b, y) = Append(SubSeq(x, 1, Len(x) - 1), Wrap(-x[Len(x)]))
      BY <2>2, <3>1 DEF y
    <3> QED
      BY <3>1, <3>2 DEF StackStep
  <2> HIDE DEF i
  <2>5. PICK t : Trace(e, <<i>>, x, 1, t, 0) /\ t[1] = Append(b, y)
    <3>1. 2 * (Len(Append(b, y)) - Len(x)) <= 0 /\ 0 \in Nat
      BY <1>0, <2>2, <2>3
    <3>2. OneStep(e, i, x, Append(b, y), 0)
      BY <2>2, <2>3, <2>4, <3>1 DEF OneStep
    <3>3. RunsTo(e, <<i>>, x, Append(b, y), 0)
      BY <3>2, TraceOne
    <3> QED
      BY <1>1, <3>3 DEF RunsTo
  <2>6. PICK st : Trace(e, c \o <<i>>, b, Len(c) + 1, st, g) /\ st[Len(c) + 1] = t[1]
    <3>1. 2 * (Len(s[Len(c)]) - Len(b)) + 0 <= g
      BY <1>0, <2>1, <2>2
    <3>2. 1 \in 0..Len(<<i>>) /\ 0 \in Nat
      BY <1>1
    <3>3. Trace(e, <<i>>, s[Len(c)], 1, t, 0)
      BY <2>1, <2>5
    <3>4. TwoRuns(e, c, <<i>>, b, 1, s, t, h, 0, g)
      BY <1>1, <2>1, <3>1, <3>2, <3>3 DEF TwoRuns
    <3> QED
      BY <3>4, TraceJoin
  <2>7. Len(c \o <<i>>) = Len(c) + 1
    BY <1>1
  <2>8. Value(y).err = "OK" /\ Value(y).val = y
    BY <1>2, MakeValue
  <2>9. Outcome(e, c \o <<i>>, Value(y), b, g)
    BY <2>5, <2>6, <2>7, <2>8 DEF Outcome
  <2> QED
    BY <1>4, <2>9 DEF i, y
<1> QED
  BY <1>3, <1>4

LEMMA BinaryOutcome ==
    ASSUME NEW e, NEW tag \in BinaryTags, NEW c \in Seq(Code), NEW x \in Seq(Code),
           NEW l \in Values, NEW r \in Values, NEW b \in Seq(Word),
           NEW h \in Nat, NEW j \in Nat, NEW g \in Nat, h <= g, j + 2 <= g, 4 <= g,
           Outcome(e, c, l, b, h), \A q \in Seq(Word) : Outcome(e, x, r, q, j)
    PROVE  LET i == [op |-> OpOf(tag), a |-> 0]
           IN  Outcome(e, (c \o x) \o <<i>>, Apply2(tag, l, r), b, g)
PROOF
<1> DEFINE i == [op |-> OpOf(tag), a |-> 0]
           cx == c \o x
           v == Apply2(tag, l, r)
<1>0. l.val \in Word /\ r.val \in Word /\ Len(b) \in Nat
  BY DEF Values
<1>1. i \in Code /\ i.op = OpOf(tag) /\ <<i>> \in Seq(Code) /\ Len(<<i>>) = 1
  <2>1. i \in Code /\ i.op = OpOf(tag)
    BY OpOfOK DEF Code
  <2> HIDE DEF i
  <2> QED
    BY <2>1
<1>2. cx \in Seq(Code) /\ Len(cx) \in Nat
  OBVIOUS
<1>g. g <= g
  OBVIOUS
<1>3. Append(b, l.val) \in Seq(Word)
  BY <1>0, Pushed
<1>4. Outcome(e, x, r, Append(b, l.val), j)
  BY <1>3
<1>5. CASE l.err # "OK"
  <2>1. v = l
    BY <1>5, Apply2OK
  <2>2. Outcome(e, cx, l, b, g)
    BY <1>5, StuckOutcome
  <2> HIDE DEF cx, i, v
  <2>3. Outcome(e, cx \o <<i>>, l, b, g)
    BY <1>1, <1>2, <1>g, <1>5, <2>2, StuckOutcome
  <2> QED
    BY <2>1, <2>3 DEF cx, i, v
<1>6. CASE l.err = "OK" /\ r.err # "OK"
  <2>1. v = r
    BY <1>6, Apply2OK
  <2>2. Outcome(e, cx, r, b, g)
    BY <1>4, <1>6, StuckAfter
  <2> HIDE DEF cx, i, v
  <2>3. Outcome(e, cx \o <<i>>, r, b, g)
    BY <1>1, <1>2, <1>g, <1>6, <2>2, StuckOutcome
  <2> QED
    BY <2>1, <2>3 DEF cx, i, v
<1>7. CASE l.err = "OK" /\ r.err = "OK"
  <2> DEFINE bl == Append(b, l.val)
             top2 == Append(bl, r.val)
  <2>1. PICK s : Trace(e, cx, b, Len(cx), s, g) /\ s[Len(cx)] = top2
    <3>1. RunsTo(e, c \o x, b, Append(Append(b, l.val), r.val), g)
      BY <1>4, <1>7, BothRun
    <3> QED
      BY <3>1 DEF RunsTo
  <2>2. /\ bl \in Seq(Word) /\ Len(bl) = Len(b) + 1 /\ bl[Len(b) + 1] = l.val
        /\ SubSeq(bl, 1, Len(b)) = b
    BY <1>0, Pushed
  <2>3. /\ top2 \in Seq(Word) /\ Len(top2) = Len(bl) + 1 /\ top2[Len(bl) + 1] = r.val
        /\ \A k \in 1..Len(bl) : top2[k] = bl[k]
    <3> HIDE DEF bl
    <3> QED
      BY <1>0, <2>2, Pushed
  <2> HIDE DEF bl, top2, cx, i
  <2>4. Len(top2) = Len(b) + 2 /\ top2[Len(top2)] = r.val /\ top2[Len(top2) - 1] = l.val
    <3>1. Len(b) + 1 \in 1..Len(bl) /\ Len(top2) - 1 = Len(b) + 1
      BY <1>0, <2>2, <2>3
    <3> QED
      BY <1>0, <2>2, <2>3, <3>1
  <2>5. CASE tag \in {"/", "%"} /\ r.val = 0
    <3>1. i.op \in {"div", "mod"}
      BY <1>1, <2>5 DEF OpOf
    <3>2. Stuck(i, s[Len(cx)])
      BY <1>0, <2>1, <2>4, <2>5, <3>1 DEF Stuck
    <3>3. Trace(e, cx \o <<i>>, b, Len(cx), s, g)
      <4>1. Len(cx) \in 0..Len(cx)
        BY <1>2
      <4> QED
        BY <1>1, <1>2, <1>g, <2>1, <4>1, TraceLonger
    <3>4. (cx \o <<i>>)[Len(cx) + 1] = i /\ Len(cx) \in 0..Len(cx \o <<i>>) - 1
      BY <1>1, <1>2
    <3>5. v.err # "OK"
      BY <1>7, <2>5, Apply2OK, MakeValue
    <3> HIDE DEF v
    <3>6. Outcome(e, cx \o <<i>>, v, b, g)
      BY <3>2, <3>3, <3>4, <3>5 DEF Outcome
    <3> QED
      BY <3>6 DEF cx, i, v
  <2>6. CASE ~(tag \in {"/", "%"} /\ r.val = 0)
    <3> DEFINE w == Combined(tag, l.val, r.val)
    <3>1. w \in Word /\ Results(i.op, l.val, r.val) = {w}
      BY <1>0, <1>1, <2>6, SameArithmetic
    <3>2. v = Value(w)
      BY <1>7, <2>6, Apply2OK
    <3> HIDE DEF w
    <3>3. v.err = "OK" /\ v.val = w
      BY <3>1, <3>2, MakeValue
    <3>4. Append(b, w) \in Seq(Word) /\ Len(Append(b, w)) = Len(b) + 1
      BY <3>1, Pushed
    <3>5. SubSeq(top2, 1, Len(top2) - 2) = b
      <4> DEFINE u == SubSeq(top2, 1, Len(b))
      <4>1. u \in Seq(Word) /\ Len(u) = Len(b) /\ \A k \in 1..Len(b) : u[k] = top2[k]
        BY <1>0, <2>3, <2>4
      <4>2. \A k \in 1..Len(b) : top2[k] = b[k]
        <5>1. \A k \in 1..Len(b) : bl[k] = b[k]
          BY <1>0, Pushed DEF bl
        <5> QED
          BY <1>0, <2>2, <2>3, <5>1
      <4>3. \A k \in 1..Len(b) : u[k] = b[k]
        BY <4>1, <4>2
      <4> HIDE DEF u
      <4>4. u = b
        BY <4>1, <4>3
      <4>5. Len(top2) - 2 = Len(b)
        BY <1>0, <2>4
      <4> QED
        BY <4>4, <4>5 DEF u
    <3>6. StackStep(e, i, top2, Append(b, w))
      <4>1. i.op \in BinaryOps /\ Len(top2) >= 2
        BY <1>0, <1>1, <2>4, OpOfOK
      <4>2. Results(i.op, top2[Len(top2) - 1], top2[Len(top2)]) = {w}
        BY <2>4, <3>1
      <4> QED
        BY <3>5, <4>1, <4>2 DEF StackStep
    <3>7. OneStep(e, i, top2, Append(b, w), 0)
      <4>1. 2 * (Len(Append(b, w)) - Len(top2)) <= 0
        BY <1>0, <2>4, <3>4
      <4> QED
        BY <2>3, <3>4, <3>6, <4>1 DEF OneStep
    <3>8. RunsTo(e, <<i>>, top2, Append(b, w), 0)
      BY <3>7, TraceOne
    <3>9. PICK t : Trace(e, <<i>>, top2, 1, t, 0) /\ t[1] = Append(b, w)
      BY <1>1, <3>8 DEF RunsTo
    <3>10. TwoRuns(e, cx, <<i>>, b, 1, s, t, g, 0, g)
      <4>1. 2 * (Len(s[Len(cx)]) - Len(b)) + 0 <= g
        BY <1>0, <2>1, <2>4
      <4>2. Trace(e, <<i>>, s[Len(cx)], 1, t, 0) /\ 1 \in 0..Len(<<i>>)
        BY <1>1, <2>1, <3>9
      <4> QED
        BY <1>1, <1>2, <2>1, <4>1, <4>2 DEF TwoRuns
    <3>11. PICK st : Trace(e, cx \o <<i>>, b, Len(cx) + 1, st, g) /\ st[Len(cx) + 1] = t[1]
      BY <3>10, TraceJoin
    <3>12. Len(cx \o <<i>>) = Len(cx) + 1
      BY <1>1, <1>2
    <3> HIDE DEF v
    <3>13. Outcome(e, cx \o <<i>>, v, b, g)
      BY <3>3, <3>9, <3>11, <3>12 DEF Outcome
    <3> QED
      BY <3>13 DEF cx, i, v
  <2> QED
    BY <2>5, <2>6
<1> QED
  BY <1>5, <1>6, <1>7

-----------------------------------------------------------------------------
(***************************************************************************)
(* The lowered code of a node computes the evaluator's value of it, in no  *)
(* more instructions than its tree has nodes and on no more operands than  *)
(* half of them.                                                           *)
(***************************************************************************)
LEMMA Associative ==
    ASSUME NEW x \in Seq(Code), NEW y \in Seq(Code), NEW z \in Seq(Code)
    PROVE  (x \o y) \o z = x \o (y \o z)
PROOF
<1> DEFINE l == (x \o y) \o z
           r == x \o (y \o z)
           m == Len(x) + Len(y) + Len(z)
<1>1. /\ Len(x) \in Nat /\ Len(y) \in Nat /\ Len(z) \in Nat
      /\ x \o y \in Seq(Code) /\ Len(x \o y) = Len(x) + Len(y)
      /\ y \o z \in Seq(Code) /\ Len(y \o z) = Len(y) + Len(z)
  OBVIOUS
<1>2. l \in Seq(Code) /\ r \in Seq(Code) /\ Len(l) = m /\ Len(r) = m
  BY <1>1
<1>3. ASSUME NEW i \in 1..m PROVE l[i] = r[i]
  <2>1. CASE i <= Len(x)
    <3>1. i \in 1..Len(x) /\ i \in 1..Len(x \o y)
      BY <1>1, <2>1
    <3> QED
      BY <1>1, <3>1
  <2>2. CASE i > Len(x) /\ i <= Len(x) + Len(y)
    <3>1. i \in 1..Len(x \o y) /\ i - Len(x) \in 1..Len(y) /\ i - Len(x) \in 1..Len(y \o z)
      BY <1>1, <2>2
    <3>2. l[i] = (x \o y)[i] /\ (x \o y)[i] = y[i - Len(x)]
      BY <1>1, <2>2, <3>1
    <3>3. r[i] = (y \o z)[i - Len(x)] /\ (y \o z)[i - Len(x)] = y[i - Len(x)]
      BY <1>1, <2>2, <3>1
    <3> QED
      BY <3>2, <3>3
  <2>3. CASE i > Len(x) + Len(y)
    <3> DEFINE k == i - (Len(x) + Len(y))
    <3>1. k \in 1..Len(z) /\ i - Len(x) \in 1..Len(y \o z) /\ (i - Len(x)) - Len(y) = k
          /\ i - Len(x) > Len(y) /\ i > Len(x)
      BY <1>1, <2>3
    <3>2. l[i] = z[k]
      BY <1>1, <2>3, <3>1
    <3>3. r[i] = (y \o z)[i - Len(x)]
      BY <1>1, <3>1
    <3>4. (y \o z)[i - Len(x)] = z[k]
      BY <1>1, <3>1
    <3> QED
      BY <3>2, <3>3, <3>4
  <2> QED
    BY <1>1, <2>1, <2>2, <2>3
<1> HIDE DEF l, r
<1>4. l = r
  BY <1>2, <1>3
<1> QED
  BY <1>4 DEF l, r

LEMMA EmitRoom ==
    ASSUME NEW d \in Seq(Code), NEW op \in Ops, NEW a \in Int, Len(d) < LowerCap
    PROVE  Emit([err |-> "OK", code |-> d], op, a)
             = [err |-> "OK", code |-> d \o <<[op |-> op, a |-> a]>>]
PROOF
<1> DEFINE i == [op |-> op, a |-> a]
           o == [err |-> "OK", code |-> d]
<1>1. i \in Code
  BY DEF Code
<1>2. Emit(o, op, a) = [o EXCEPT !.code = Append(@, i)]
  BY LimitsAssumption DEF Emit
<1> HIDE DEF i
<1>3. Append(d, i) = d \o <<i>>
  BY <1>1
<1>4. [o EXCEPT !.code = Append(@, i)] = [err |-> "OK", code |-> Append(d, i)]
  OBVIOUS
<1> QED
  BY <1>2, <1>3, <1>4 DEF i

LEMMA LoweredIs == Lowered = [err : {"OK", "UNDEF_VAR", "ARENA_OOM"}, code : Seq(Code)]
PROOF
  BY DEF Lowered, Code

\* Lowering node n adds the code c, where there is room for s instructions.
LoweredAs(n, c, err, s) ==
    \A out \in Lowered : (out.err = "OK" /\ Len(out.code) + s <= LowerCap) =>
        lower_emit[<<n, out>>] = [err |-> err, code |-> out.code \o c]

Translates(n, c, err, s) ==
    /\ c \in Seq(Code) /\ err \in {"OK", "UNDEF_VAR"} /\ Len(c) <= s
    /\ LoweredAs(n, c, err, s)
    /\ err = "OK" => \A b \in Seq(Word) : Outcome(env, c, ast_arena_eval[n], b, s + 1)

LEMMA OutOK ==
    ASSUME NEW out \in Lowered, out.err = "OK"
    PROVE  out.code \in Seq(Code) /\ Len(out.code) \in Nat /\ out = [err |-> "OK", code |-> out.code]
PROOF
<1>1. out \in [err : {"OK", "UNDEF_VAR", "ARENA_OOM"}, code : Seq(Code)]
  BY LoweredIs
<1>2. out.code \in Seq(Code)
  BY <1>1
<1>3. out = [err |-> "OK", code |-> out.code]
  BY <1>1
<1> QED
  BY <1>2, <1>3

\* One instruction that leaves x, lowered by Emit.
LEMMA LeafTranslates ==
    ASSUME Backward, EnvOK, NEW n \in Nodes, NEW op \in Ops, NEW a \in Int, NEW x \in Word,
           NEW s \in Nat, 1 <= s,
           \A out \in Lowered : out.err = "OK" => lower_emit[<<n, out>>] = Emit(out, op, a),
           ast_arena_eval[n] = Value(x),
           \A b \in Seq(Word) : StackStep(env, [op |-> op, a |-> a], b, Append(b, x))
    PROVE  Translates(n, <<[op |-> op, a |-> a]>>, "OK", s)
PROOF
<1> DEFINE i == [op |-> op, a |-> a]
<1>1. i \in Code
  BY DEF Code
<1>2. ASSUME NEW out \in Lowered, out.err = "OK", Len(out.code) + s <= LowerCap
      PROVE  lower_emit[<<n, out>>] = [err |-> "OK", code |-> out.code \o <<i>>]
  <2>1. out.code \in Seq(Code) /\ Len(out.code) \in Nat /\ out = [err |-> "OK", code |-> out.code]
    BY <1>2, OutOK
  <2>2. Len(out.code) < LowerCap
    BY <1>2, <2>1, LimitsAssumption
  <2>3. Emit([err |-> "OK", code |-> out.code], op, a) = [err |-> "OK", code |-> out.code \o <<i>>]
    BY <2>1, <2>2, EmitRoom
  <2>4. lower_emit[<<n, out>>] = Emit(out, op, a)
    BY <1>2
  <2> QED
    BY <2>1, <2>3, <2>4
<1>3. LoweredAs(n, <<i>>, "OK", s)
  BY <1>2 DEF LoweredAs
<1>4. ASSUME NEW b \in Seq(Word) PROVE Outcome(env, <<i>>, ast_arena_eval[n], b, s + 1)
  <2>1. s + 1 \in Nat /\ 2 <= s + 1 /\ StackStep(env, i, b, Append(b, x))
    OBVIOUS
  <2> HIDE DEF i
  <2> QED
    BY <2>1, PushOutcome
<1> HIDE DEF i
<1>5. <<i>> \in Seq(Code) /\ Len(<<i>>) = 1
  BY <1>1
<1>6. Translates(n, <<i>>, "OK", s)
  BY <1>3, <1>4, <1>5 DEF Translates
<1> QED
  BY <1>6 DEF i

\* A node that stops the lowerer.
LEMMA UndefTranslates ==
    ASSUME NEW n \in Nodes, NEW s \in Nat,
           \A out \in Lowered : out.err = "OK" =>
               lower_emit[<<n, out>>] = [out EXCEPT !.err = "UNDEF_VAR"]
    PROVE  Translates(n, <<>>, "UNDEF_VAR", s)
PROOF
<1>1. ASSUME NEW out \in Lowered, out.err = "OK"
      PROVE  lower_emit[<<n, out>>] = [err |-> "UNDEF_VAR", code |-> out.code \o <<>>]
  <2>1. out.code \in Seq(Code) /\ out = [err |-> "OK", code |-> out.code]
    BY <1>1, OutOK
  <2>2. out.code \o <<>> = out.code
    BY <2>1
  <2>3. [out EXCEPT !.err = "UNDEF_VAR"] = [err |-> "UNDEF_VAR", code |-> out.code]
    BY <2>1
  <2> QED
    BY <1>1, <2>2, <2>3
<1>2. LoweredAs(n, <<>>, "UNDEF_VAR", s)
  BY <1>1 DEF LoweredAs
<1>3. <<>> \in Seq(Code) /\ Len(<<>>) = 0
  OBVIOUS
<1> QED
  BY <1>2, <1>3 DEF Translates

LEMMA PosTranslates ==
    ASSUME NEW n \in Nodes, NEW l, NEW c, NEW err, NEW r \in Nat, NEW s \in Nat, r <= s,
           Translates(l, c, err, r),
           \A out \in Lowered : out.err = "OK" => lower_emit[<<n, out>>] = lower_emit[<<l, out>>],
           ast_arena_eval[n] = ast_arena_eval[l]
    PROVE  Translates(n, c, err, s)
PROOF
<1>1. /\ c \in Seq(Code) /\ err \in {"OK", "UNDEF_VAR"} /\ Len(c) <= r
      /\ LoweredAs(l, c, err, r)
      /\ err = "OK" => \A b \in Seq(Word) : Outcome(env, c, ast_arena_eval[l], b, r + 1)
  BY DEF Translates
<1>2. ASSUME NEW out \in Lowered, out.err = "OK", Len(out.code) + s <= LowerCap
      PROVE  lower_emit[<<n, out>>] = [err |-> err, code |-> out.code \o c]
  <2>1. Len(out.code) \in Nat
    BY <1>2, OutOK
  <2>2. Len(out.code) + r <= LowerCap
    BY <1>2, <2>1, LimitsAssumption
  <2> QED
    BY <1>1, <1>2, <2>2 DEF LoweredAs
<1>3. LoweredAs(n, c, err, s)
  BY <1>2 DEF LoweredAs
<1>4. ASSUME err = "OK", NEW b \in Seq(Word) PROVE Outcome(env, c, ast_arena_eval[n], b, s + 1)
  <2>1. r + 1 \in Nat /\ s + 1 \in Nat /\ r + 1 <= s + 1
    OBVIOUS
  <2>2. Outcome(env, c, ast_arena_eval[n], b, r + 1)
    BY <1>1, <1>4
  <2> QED
    BY <1>1, <2>1, <2>2, OutcomeMore
<1>5. Len(c) <= s
  BY <1>1
<1> QED
  BY <1>1, <1>3, <1>4, <1>5 DEF Translates

LEMMA NegTranslates ==
    ASSUME NEW n \in Nodes, NEW l, NEW c, NEW err, NEW r \in Nat, NEW s \in Nat, r + 1 <= s,
           1 <= r, Translates(l, c, err, r), ast_arena_eval[l] \in Values,
           \A out \in Lowered : out.err = "OK" =>
               lower_emit[<<n, out>>] = Emit(lower_emit[<<l, out>>], "neg", 0),
           LET v == ast_arena_eval[l]
           IN  ast_arena_eval[n] = IF v.err = "OK" THEN Value(Wrap(-v.val)) ELSE v
    PROVE  \E x : Translates(n, x, err, s)
PROOF
<1> DEFINE i == [op |-> "neg", a |-> 0]
           x == IF err = "OK" THEN c \o <<i>> ELSE c
<1>0. "neg" \in Ops /\ i \in Code
  BY DEF Code, Ops, UnaryOps
<1>1. /\ c \in Seq(Code) /\ err \in {"OK", "UNDEF_VAR"} /\ Len(c) <= r
      /\ LoweredAs(l, c, err, r)
      /\ err = "OK" => \A b \in Seq(Word) : Outcome(env, c, ast_arena_eval[l], b, r + 1)
  BY DEF Translates
<1>2. x \in Seq(Code) /\ Len(x) <= s
  <2> HIDE DEF i
  <2>1. <<i>> \in Seq(Code) /\ Len(<<i>>) = 1 /\ Len(c) \in Nat
    BY <1>0, <1>1
  <2>2. c \o <<i>> \in Seq(Code) /\ Len(c \o <<i>>) = Len(c) + 1
    BY <1>1, <2>1
  <2> QED
    BY <1>1, <2>1, <2>2
<1>3. ASSUME NEW out \in Lowered, out.err = "OK", Len(out.code) + s <= LowerCap
      PROVE  lower_emit[<<n, out>>] = [err |-> err, code |-> out.code \o x]
  <2>1. out.code \in Seq(Code) /\ Len(out.code) \in Nat
    BY <1>3, OutOK
  <2>2. Len(out.code) + r <= LowerCap
    BY <1>3, <2>1, LimitsAssumption
  <2> DEFINE d == out.code \o c
  <2>3. lower_emit[<<l, out>>] = [err |-> err, code |-> d]
    BY <1>1, <1>3, <2>2 DEF LoweredAs
  <2>4. lower_emit[<<n, out>>] = Emit([err |-> err, code |-> d], "neg", 0)
    BY <1>3, <2>3
  <2>5. CASE err # "OK"
    BY <2>4, <2>5 DEF Emit
  <2>6. CASE err = "OK"
    <3>1. d \in Seq(Code) /\ Len(d) = Len(out.code) + Len(c) /\ Len(c) \in Nat
      BY <1>1, <2>1
    <3>2. Len(d) < LowerCap
      BY <1>1, <1>3, <2>1, <3>1, LimitsAssumption
    <3> HIDE DEF d
    <3>3. lower_emit[<<n, out>>] = [err |-> "OK", code |-> d \o <<i>>]
      BY <1>0, <2>4, <2>6, <3>1, <3>2, EmitRoom
    <3> HIDE DEF i
    <3>4. d \o <<i>> = out.code \o (c \o <<i>>)
      <4>1. <<i>> \in Seq(Code)
        BY <1>0
      <4> QED
        BY <1>1, <2>1, <4>1, Associative DEF d
    <3> QED
      BY <2>6, <3>3, <3>4
  <2> QED
    BY <2>5, <2>6
<1>4. LoweredAs(n, x, err, s)
  BY <1>3 DEF LoweredAs
<1>5. ASSUME err = "OK", NEW b \in Seq(Word) PROVE Outcome(env, x, ast_arena_eval[n], b, s + 1)
  <2>1. r + 1 \in Nat /\ s + 1 \in Nat /\ r + 1 <= s + 1 /\ 2 <= s + 1
    OBVIOUS
  <2>2. Outcome(env, c, ast_arena_eval[l], b, r + 1)
    BY <1>1, <1>5
  <2>3. Outcome(env, c \o <<i>>, ast_arena_eval[n], b, s + 1)
    BY <1>1, <2>1, <2>2, NegOutcome
  <2> QED
    BY <1>5, <2>3
<1>6. Translates(n, x, err, s)
  <2> HIDE DEF x
  <2> QED
    BY <1>1, <1>2, <1>4, <1>5 DEF Translates
<1> QED
  BY <1>6

LEMMA ErrorKept ==
    ASSUME Backward, EnvOK, NEW n \in Nodes, NEW out \in Lowered, out.err # "OK"
    PROVE  lower_emit[<<n, out>>] = out
PROOF
  BY LowerDef DEF LowerBody

\* Node n applies tag to the nodes l and r, in the evaluator and in the lowerer.
Joins(n, l, r, tag) ==
    /\ n \in Nodes /\ l \in Nodes /\ r \in Nodes /\ tag \in BinaryTags
    /\ ast_arena_eval[n] = Apply2(tag, ast_arena_eval[l], ast_arena_eval[r])
    /\ \A out \in Lowered : out.err = "OK" =>
          lower_emit[<<n, out>>] = Emit(lower_emit[<<r, lower_emit[<<l, out>>]>>], OpOf(tag), 0)

\* The sizes of two subtrees and of the tree they are part of.
Sizes(h, j, s) ==
    h \in Nat /\ j \in Nat /\ s \in Nat /\ 1 <= h /\ 1 <= j /\ h + j + 1 <= s

LEMMA BinaryTranslates ==
    ASSUME Backward, EnvOK, NEW n, NEW l, NEW r, NEW tag, Joins(n, l, r, tag),
           NEW c, NEW err, NEW h, NEW x, NEW bad, NEW j, NEW s, Sizes(h, j, s),
           Translates(l, c, err, h), Translates(r, x, bad, j)
    PROVE  \E y, e : Translates(n, y, e, s)
PROOF
<1>a. /\ n \in Nodes /\ l \in Nodes /\ r \in Nodes /\ tag \in BinaryTags
      /\ h \in Nat /\ j \in Nat /\ s \in Nat /\ 1 <= h /\ 1 <= j /\ h + j + 1 <= s
  BY DEF Joins, Sizes
<1>b. ast_arena_eval[n] = Apply2(tag, ast_arena_eval[l], ast_arena_eval[r])
  BY DEF Joins
<1>c. \A out \in Lowered : out.err = "OK" =>
         lower_emit[<<n, out>>] = Emit(lower_emit[<<r, lower_emit[<<l, out>>]>>], OpOf(tag), 0)
  BY DEF Joins
<1> USE <1>a, <1>b, <1>c
<1> DEFINE i == [op |-> OpOf(tag), a |-> 0]
           y == IF err # "OK" THEN c ELSE IF bad # "OK" THEN c \o x ELSE (c \o x) \o <<i>>
           e == IF err # "OK" THEN err ELSE bad
<1>0. OpOf(tag) \in Ops /\ i \in Code
  BY OpOfOK DEF Code
<1> HIDE DEF i
<1>1. /\ c \in Seq(Code) /\ err \in {"OK", "UNDEF_VAR"} /\ Len(c) <= h
      /\ LoweredAs(l, c, err, h)
      /\ err = "OK" => \A b \in Seq(Word) : Outcome(env, c, ast_arena_eval[l], b, h + 1)
  BY DEF Translates
<1>2. /\ x \in Seq(Code) /\ bad \in {"OK", "UNDEF_VAR"} /\ Len(x) <= j
      /\ LoweredAs(r, x, bad, j)
      /\ bad = "OK" => \A b \in Seq(Word) : Outcome(env, x, ast_arena_eval[r], b, j + 1)
  BY DEF Translates
<1>3. /\ <<i>> \in Seq(Code) /\ Len(<<i>>) = 1 /\ Len(c) \in Nat /\ Len(x) \in Nat
      /\ c \o x \in Seq(Code) /\ Len(c \o x) = Len(c) + Len(x)
  BY <1>0, <1>1, <1>2
<1>4. y \in Seq(Code) /\ Len(y) <= s
  <2> DEFINE cx == c \o x
  <2>1. cx \in Seq(Code) /\ Len(cx) = Len(c) + Len(x)
    BY <1>3
  <2> HIDE DEF cx
  <2>2. cx \o <<i>> \in Seq(Code) /\ Len(cx \o <<i>>) = Len(cx) + 1
    BY <1>3, <2>1
  <2>3. y = c \/ y = cx \/ y = cx \o <<i>>
    BY DEF cx
  <2>4. Len(c) <= s /\ Len(cx) <= s /\ Len(cx \o <<i>>) <= s
    BY <1>1, <1>2, <1>3, <2>1, <2>2
  <2> HIDE DEF y
  <2> QED
    BY <1>1, <2>1, <2>2, <2>3, <2>4, Zenon
<1>5. ASSUME NEW out \in Lowered, out.err = "OK", Len(out.code) + s <= LowerCap
      PROVE  lower_emit[<<n, out>>] = [err |-> e, code |-> out.code \o y]
  <2>1. out.code \in Seq(Code) /\ Len(out.code) \in Nat
    BY <1>5, OutOK
  <2>2. Len(out.code) + h <= LowerCap
    BY <1>5, <2>1, LimitsAssumption
  <2> DEFINE d == out.code \o c
             left == [err |-> err, code |-> d]
  <2>3. lower_emit[<<l, out>>] = left
    BY <1>1, <1>5, <2>2 DEF LoweredAs
  <2>4. lower_emit[<<n, out>>] = Emit(lower_emit[<<r, left>>], OpOf(tag), 0)
    BY <1>5, <2>3
  <2>5. left \in Lowered /\ left.err = err /\ left.code = d
    BY <1>5, <2>3, LowerDef
  <2>6. CASE err # "OK"
    <3>1. lower_emit[<<r, left>>] = left
      BY <2>5, <2>6, ErrorKept
    <3>2. Emit(left, OpOf(tag), 0) = left
      BY <2>6 DEF Emit
    <3> QED
      BY <2>4, <2>6, <3>1, <3>2
  <2>7. CASE err = "OK"
    <3>1. d \in Seq(Code) /\ Len(d) = Len(out.code) + Len(c)
      BY <1>1, <2>1
    <3>2. Len(left.code) + j <= LowerCap
      BY <1>1, <1>3, <1>5, <2>1, <2>5, <3>1, LimitsAssumption
    <3> HIDE DEF d, left
    <3> DEFINE dx == d \o x
    <3>3. lower_emit[<<r, left>>] = [err |-> bad, code |-> dx]
      BY <1>2, <2>5, <2>7, <3>2 DEF LoweredAs
    <3>4. dx = out.code \o (c \o x)
      BY <1>1, <1>2, <2>1, Associative DEF d
    <3>5. dx \in Seq(Code) /\ Len(dx) = Len(d) + Len(x)
      BY <1>2, <3>1
    <3> HIDE DEF dx
    <3>6. CASE bad # "OK"
      <4>1. Emit([err |-> bad, code |-> dx], OpOf(tag), 0) = [err |-> bad, code |-> dx]
        BY <3>6 DEF Emit
      <4> QED
        BY <2>4, <2>7, <3>3, <3>4, <3>6, <4>1
    <3>7. CASE bad = "OK"
      <4>1. Len(dx) < LowerCap
        BY <1>1, <1>2, <1>3, <1>5, <2>1, <3>1, <3>5, LimitsAssumption
      <4>2. lower_emit[<<n, out>>] = [err |-> "OK", code |-> dx \o <<i>>]
        <5>1. Emit([err |-> "OK", code |-> dx], OpOf(tag), 0)
                = [err |-> "OK", code |-> dx \o <<i>>]
          BY <1>0, <3>5, <4>1, EmitRoom DEF i
        <5> QED
          BY <2>4, <3>3, <3>7, <5>1
      <4>3. dx \o <<i>> = out.code \o ((c \o x) \o <<i>>)
        BY <1>3, <2>1, <3>4, Associative
      <4> QED
        BY <2>7, <3>7, <4>2, <4>3
    <3> QED
      BY <3>6, <3>7
  <2> QED
    BY <2>6, <2>7
<1>6. LoweredAs(n, y, e, s)
  BY <1>5 DEF LoweredAs
<1>7. ASSUME e = "OK", NEW b \in Seq(Word) PROVE Outcome(env, y, ast_arena_eval[n], b, s + 1)
  <2>1. err = "OK" /\ bad = "OK"
    BY <1>7
  <2>2. ast_arena_eval[l] \in Values /\ ast_arena_eval[r] \in Values
    BY EvalOK
  <2>3. /\ h + 1 \in Nat /\ j + 1 \in Nat /\ s + 1 \in Nat
        /\ h + 1 <= s + 1 /\ (j + 1) + 2 <= s + 1 /\ 4 <= s + 1
    OBVIOUS
  <2>4. /\ Outcome(env, c, ast_arena_eval[l], b, h + 1)
        /\ \A q \in Seq(Word) : Outcome(env, x, ast_arena_eval[r], q, j + 1)
    BY <1>1, <1>2, <2>1
  <2>5. Outcome(env, (c \o x) \o <<i>>, ast_arena_eval[n], b, s + 1)
    BY <1>1, <1>2, <2>2, <2>3, <2>4, BinaryOutcome DEF i
  <2> QED
    BY <2>1, <2>5
<1>8. e \in {"OK", "UNDEF_VAR"}
  BY <1>1, <1>2
<1>9. Translates(n, y, e, s)
  <2> HIDE DEF y, e
  <2> QED
    BY <1>4, <1>6, <1>7, <1>8 DEF Translates
<1> QED
  BY <1>9

Size(lo, n) == n - lo[n] + 1

LEMMA ShapedBackward ==
    ASSUME Len(arena) \in Nat, NEW lo, Shaped(arena, lo)
    PROVE  Backward
PROOF
<1> SUFFICES ASSUME NEW n \in Nodes
             PROVE  LET a == arena[n + 1] IN
                    /\ a.tag \in UnaryTags \cup BinaryTags => a.lhs \in 0..n - 1
                    /\ a.tag \in BinaryTags => a.rhs \in 0..n - 1
                    /\ a.tag = "lit" => a.text \in Seq(DOMAIN Digit)
  BY DEF Backward
<1>1. n \in 0..Len(arena) - 1 /\ n \in Nat
  BY DEF Nodes
<1>2. ShapedNode(arena[n + 1], n, lo)
  BY <1>1 DEF Shaped
<1> QED
  BY <1>1, <1>2 DEF ShapedNode

LEMMA TreeTranslates ==
    ASSUME Len(arena) \in Nat, EnvOK, NEW lo, Shaped(arena, lo), NEW n \in Nodes
    PROVE  \E c, err : Translates(n, c, err, Size(lo, n))
PROOF
<1> DEFINE Done(k) == \E c, err : Translates(k, c, err, Size(lo, k))
           Bad == {k \in Nat : k < Len(arena) /\ ~Done(k)}
<1> HIDE DEF Done
<1>0. Backward /\ n \in Nat /\ n < Len(arena)
  BY ShapedBackward DEF Nodes
<1> SUFFICES ASSUME Bad # {} PROVE FALSE
  BY <1>0 DEF Done
<1>1. PICK k \in Bad : \A j \in Bad : k <= j
  BY LeastOf
<1>2. k \in Nat /\ k \in Nodes /\ k \in 0..Len(arena) - 1 /\ ~Done(k)
  BY <1>1 DEF Nodes
<1>3. ASSUME NEW j \in 0..k - 1 PROVE Done(j) /\ j \in Nodes
  <2>1. j \in Nat /\ j < Len(arena) /\ ~(k <= j) /\ j \in Nodes
    BY <1>2 DEF Nodes
  <2>2. j \notin Bad
    <3> HIDE DEF Bad
    <3> QED
      BY <1>1, <2>1
  <2> QED
    BY <2>1, <2>2
<1> HIDE DEF Bad
<1> DEFINE a == arena[k + 1]
           s == Size(lo, k)
<1>4. /\ \A j \in 0..Len(arena) - 1 : lo[j] \in Nat /\ lo[j] <= j
      /\ ShapedNode(a, k, lo)
  BY <1>2 DEF Shaped, ShapedNode
<1>5. \A j \in 0..Len(arena) - 1 : Size(lo, j) \in Nat /\ Size(lo, j) >= 1
  BY <1>4 DEF Size
<1>6. EvalsAs(ast_arena_eval, k) /\ ast_arena_eval[k] = EvalBody(ast_arena_eval, k)
  BY <1>0, <1>2, EvalDef
<1>7. \A out \in Lowered : out.err = "OK" =>
         /\ LowersAs(lower_emit, k, out)
         /\ lower_emit[<<k, out>>] = LowerBody(lower_emit, k, out)
  BY <1>0, <1>2, LowerDef
<1>s. s \in Nat /\ 1 <= s
  BY <1>2, <1>5
<1> HIDE DEF s
<1> SUFFICES \E c, err : Translates(k, c, err, s)
  BY <1>2 DEF Done, s
<1>8. CASE a.tag = "lit"
  <2> DEFINE x == Wrap(Number(a.text))
  <2>1. x \in Word
    <3>1. Number(a.text) \in Int
      BY <1>0, <1>2, <1>8, NumberOK DEF Backward
    <3> QED
      BY <3>1, WrapFacts
  <2>2. x \in Int
    BY <2>1, WordAssumption DEF Word
  <2>3. ast_arena_eval[k] = Value(x)
    BY <1>6, <1>8 DEF EvalsAs
  <2>4. \A out \in Lowered : out.err = "OK" => lower_emit[<<k, out>>] = Emit(out, "push", x)
    BY <1>7, <1>8 DEF LowersAs
  <2> HIDE DEF x
  <2>5. \A b \in Seq(Word) : StackStep(env, [op |-> "push", a |-> x], b, Append(b, x))
    BY DEF StackStep
  <2>6. "push" \in Ops
    BY DEF Ops
  <2> QED
    BY <1>0, <1>2, <1>s, <2>1, <2>2, <2>3, <2>4, <2>5, <2>6, LeafTranslates
<1>9. CASE a.tag = "var_ref"
  <2> DEFINE B == Binding(a.text)
  <2>0. Len(env) \in Nat
    BY DEF EnvOK
  <2>1. B \in 0..Len(env) /\ (B # 0 => env[B].val \in Word)
    BY BindingOK
  <2>2. ast_arena_eval[k] = IF B = 0 THEN Failed("UNDEF_VAR") ELSE Value(env[B].val)
    BY <1>6, <1>9 DEF EvalsAs
  <2>3. \A out \in Lowered : out.err = "OK" =>
           lower_emit[<<k, out>>] = IF B = 0 THEN [out EXCEPT !.err = "UNDEF_VAR"]
                                    ELSE Emit(out, "load", B - 1)
    BY <1>7, <1>9 DEF LowersAs
  <2> HIDE DEF B
  <2>4. CASE B = 0
    <3>1. \A out \in Lowered : out.err = "OK" =>
             lower_emit[<<k, out>>] = [out EXCEPT !.err = "UNDEF_VAR"]
      BY <2>3, <2>4
    <3> QED
      BY <1>2, <1>s, <3>1, UndefTranslates
  <2>5. CASE B # 0
    <3> DEFINE x == env[B].val
               m == B - 1
    <3>1. x \in Word /\ m \in Int /\ m \in 0..Len(env) - 1 /\ m + 1 = B
      BY <2>0, <2>1, <2>5
    <3>2. ast_arena_eval[k] = Value(x)
      BY <2>2, <2>5
    <3>3. \A out \in Lowered : out.err = "OK" => lower_emit[<<k, out>>] = Emit(out, "load", m)
      BY <2>3, <2>5
    <3>4. x = env[m + 1].val
      BY <3>1
    <3> HIDE DEF x, m
    <3>5. \A b \in Seq(Word) : StackStep(env, [op |-> "load", a |-> m], b, Append(b, x))
      BY <3>1, <3>4 DEF StackStep
    <3>6. "load" \in Ops
      BY DEF Ops, LocalOps
    <3> QED
      BY <1>0, <1>2, <1>s, <3>1, <3>2, <3>3, <3>5, <3>6, LeafTranslates
  <2> QED
    BY <2>4, <2>5
<1>10. CASE a.tag \in UnaryTags
  <2>1. a.lhs \in 0..k - 1 /\ a.lhs \in Nodes
    BY <1>0, <1>2, <1>3, <1>10 DEF Backward
  <2> DEFINE l == a.lhs
             r == Size(lo, l)
  <2>2. PICK c, err : Translates(l, c, err, r)
    BY <1>3, <2>1 DEF Done
  <2>3. r \in Nat /\ 1 <= r /\ r + 1 <= s
    <3>1. l \in 0..Len(arena) - 1 /\ l \in Nat /\ lo[l] \in Nat /\ lo[k] \in Nat
          /\ l < k /\ lo[k] <= lo[l]
      BY <1>2, <1>4, <1>10, <2>1 DEF ShapedNode
    <3>2. lo[l] <= l /\ k \in Nat
      BY <1>2, <1>4, <3>1
    <3>3. r = l - lo[l] + 1 /\ s = k - lo[k] + 1
      BY DEF Size, s
    <3> DEFINE u == lo[l]
               w == lo[k]
    <3>4. u \in Nat /\ w \in Nat /\ w <= u /\ u <= l /\ r = l - u + 1 /\ s = k - w + 1
          /\ l \in Nat /\ k \in Nat /\ l < k
      BY <3>1, <3>2, <3>3
    <3> HIDE DEF u, w, l, r
    <3> QED
      BY <3>4
  <2> HIDE DEF r
  <2>4. CASE a.tag = "unary_pos"
    <3>1. ast_arena_eval[k] = ast_arena_eval[l]
      BY <1>6, <2>4 DEF EvalsAs
    <3>2. \A out \in Lowered : out.err = "OK" => lower_emit[<<k, out>>] = lower_emit[<<l, out>>]
      BY <1>7, <2>4 DEF LowersAs
    <3>3. r <= s
      BY <1>s, <2>3
    <3> HIDE DEF l
    <3> QED
      BY <1>2, <1>s, <2>2, <2>3, <3>1, <3>2, <3>3, PosTranslates
  <2>5. CASE a.tag = "unary_neg"
    <3> DEFINE v == ast_arena_eval[l]
    <3>1. ast_arena_eval[k] = IF v.err = "OK" THEN Value(Wrap(-v.val)) ELSE v
      BY <1>6, <2>5 DEF EvalsAs
    <3>2. \A out \in Lowered : out.err = "OK" =>
             lower_emit[<<k, out>>] = Emit(lower_emit[<<l, out>>], "neg", 0)
      BY <1>7, <2>5 DEF LowersAs
    <3>3. v \in Values
      BY <1>0, <2>1, EvalOK
    <3> HIDE DEF l
    <3> QED
      BY <1>2, <1>s, <2>2, <2>3, <3>1, <3>2, <3>3, NegTranslates
  <2> QED
    BY <1>10, <2>4, <2>5, TagsDiffer
<1>11. CASE a.tag \in BinaryTags
  <2>1. a.lhs \in 0..k - 1 /\ a.lhs \in Nodes /\ a.rhs \in 0..k - 1 /\ a.rhs \in Nodes
    BY <1>0, <1>2, <1>3, <1>11 DEF Backward
  <2> DEFINE l == a.lhs
             r == a.rhs
             h == Size(lo, l)
             j == Size(lo, r)
  <2>2. PICK c, err : Translates(l, c, err, h)
    BY <1>3, <2>1 DEF Done
  <2>3. PICK x, bad : Translates(r, x, bad, j)
    BY <1>3, <2>1 DEF Done
  <2>4. h \in Nat /\ j \in Nat /\ 1 <= h /\ 1 <= j /\ h + j + 1 <= s
    <3>1. /\ l \in 0..Len(arena) - 1 /\ l \in Nat /\ lo[l] \in Nat /\ lo[k] \in Nat
          /\ r \in 0..Len(arena) - 1 /\ r \in Nat /\ lo[r] \in Nat
          /\ r < k /\ lo[k] <= lo[l] /\ l < lo[r]
      BY <1>2, <1>4, <1>11, <2>1 DEF ShapedNode
    <3>2. h \in Nat /\ j \in Nat /\ 1 <= h /\ 1 <= j
      BY <1>5, <3>1
    <3>3. h = l - lo[l] + 1 /\ j = r - lo[r] + 1 /\ s = k - lo[k] + 1
      BY DEF Size, s
    <3> DEFINE u == lo[l]
               w == lo[k]
               y == lo[r]
    <3>4. /\ u \in Nat /\ w \in Nat /\ y \in Nat /\ l \in Nat /\ k \in Nat /\ r \in Nat
          /\ h = l - u + 1 /\ j = r - y + 1 /\ s = k - w + 1
          /\ h \in Nat /\ j \in Nat /\ 1 <= h /\ 1 <= j
          /\ r < k /\ w <= u /\ l < y
      BY <1>2, <3>1, <3>2, <3>3
    <3> HIDE DEF u, w, y, l, r, h, j
    <3> QED
      BY <3>4
  <2>5. ast_arena_eval[k] = Apply2(a.tag, ast_arena_eval[l], ast_arena_eval[r])
    BY <1>6, <1>11 DEF EvalsAs
  <2>6. \A out \in Lowered : out.err = "OK" =>
           lower_emit[<<k, out>>] = Emit(lower_emit[<<r, lower_emit[<<l, out>>]>>], OpOf(a.tag), 0)
    BY <1>7, <1>11 DEF LowersAs
  <2>7. l \in Nodes /\ r \in Nodes
    BY <2>1
  <2>8. Joins(k, l, r, a.tag)
    BY <1>2, <1>11, <2>5, <2>6, <2>7 DEF Joins
  <2>9. Sizes(h, j, s)
    BY <1>s, <2>4 DEF Sizes
  <2> HIDE DEF l, r, h, j
  <2> QED
    BY <1>0, <2>2, <2>3, <2>8, <2>9, BinaryTranslates
<1>12. CASE a.tag \notin Leaf \cup UnaryTags \cup BinaryTags
  <2>1. \A out \in Lowered : out.err = "OK" =>
           lower_emit[<<k, out>>] = [out EXCEPT !.err = "UNDEF_VAR"]
    BY <1>7, <1>12 DEF LowersAs
  <2> QED
    BY <1>2, <1>s, <2>1, UndefTranslates
<1> QED
  BY <1>8, <1>9, <1>10, <1>11, <1>12 DEF Leaf


-----------------------------------------------------------------------------
(***************************************************************************)
(* The machine on the lowered code.  e is the environment, v the value of  *)
(* the evaluator.                                                          *)
(***************************************************************************)
RetIns == [op |-> "ret", a |-> 0]

\* The function that Lower makes of the code c.
Fun(e, c) ==
    [ok |-> TRUE, nparams |-> Len(e), nlocals |-> Len(e),
     arr |-> [i \in 0..MaxLocals - 1 |-> 0], code |-> Append(c, RetIns)]

\* The d instructions of c that run before the ret, or before the division by zero.
Plan(e, v, c, d, st) ==
    /\ c \in Seq(Code) /\ Len(c) <= ArenaCap
    /\ Trace(e, c, <<>>, d, st, ArenaCap + 1)
    /\ v.err = "OK" => d = Len(c) /\ st[d] = <<v.val>>
    /\ v.err # "OK" => d \in 0..Len(c) - 1 /\ Stuck(c[d + 1], st[d])

FrameAt(e, f, pc, s) ==
    /\ f = [fn |-> 0, pc |-> pc, stack |-> s, locals |-> f.locals, len |-> f.len, pool |-> f.pool]
    /\ \A i \in 0..Len(e) - 1 : f.locals[i] = e[i + 1].val

RunsBy(e, v, c, d, st) ==
    /\ module = <<Fun(e, c)>>
    /\ status \in {"running", "ok", "ARENA_OOM", "DIV_ZERO"}
    /\ status = "running" =>
          \E pc \in 0..d : \E f : frames = <<f>> /\ FrameAt(e, f, pc, st[pc]) /\ steps = pc
    /\ status = "ok" =>
          v.err = "OK" /\ result = [val |-> v.val, sp |-> 1] /\ steps = Len(c) + 1
    /\ status = "DIV_ZERO" => v.err # "OK"

LEMMA LoadedCode ==
    ASSUME NEW c \in Seq(Code)
    PROVE  /\ Append(c, RetIns) \in Seq(Code)
           /\ Len(Append(c, RetIns)) = Len(c) + 1 /\ Len(c) \in Nat
           /\ \A i \in 1..Len(c) : Append(c, RetIns)[i] = c[i] /\ c[i] \in Code
           /\ Append(c, RetIns)[Len(c) + 1] = RetIns
PROOF
<1>1. RetIns \in Code
  BY DEF RetIns, Code, Ops
<1> HIDE DEF RetIns
<1> QED
  BY <1>1

\* Where the machine stands between two instructions.
LEMMA MachineAt ==
    ASSUME NEW e, NEW v, NEW c, NEW d, NEW st, Plan(e, v, c, d, st), RunsBy(e, v, c, d, st),
           NEW pc \in 0..d, NEW f, frames = <<f>>, FrameAt(e, f, pc, st[pc]), steps = pc
    PROVE  /\ d \in Nat /\ d <= Len(c) /\ Len(c) \in Nat
           /\ Depth = 1 /\ top = f /\ top.stack = st[pc] /\ sp = Len(st[pc]) /\ top.pc = pc
           /\ st[pc] \in Seq(Word) /\ 2 * sp <= ArenaCap + 1 /\ sp \in Nat
           /\ InCode /\ steps < StepLimit
           /\ ins = IF pc < Len(c) THEN c[pc + 1] ELSE RetIns
PROOF
<1>1. c \in Seq(Code) /\ Len(c) \in Nat /\ Len(c) <= ArenaCap
  BY DEF Plan
<1>2. d \in Nat /\ d <= Len(c)
  BY <1>1 DEF Plan
<1>3. /\ st[pc] \in Seq(Word) /\ Len(st[pc]) \in Nat
      /\ 2 * (Len(st[pc]) - Len(<<>>)) <= ArenaCap + 1
  BY DEF Plan, Trace
<1>4. 2 * Len(st[pc]) <= ArenaCap + 1
  <2>1. Len(<<>>) = 0
    OBVIOUS
  <2> DEFINE h == Len(st[pc])
  <2>2. h \in Nat /\ 2 * (h - 0) <= ArenaCap + 1
    BY <1>3, <2>1
  <2> HIDE DEF h
  <2>3. 2 * h <= ArenaCap + 1
    BY <2>2, ParserAssumption
  <2> QED
    BY <2>3 DEF h
<1>5. Depth = 1 /\ top = f
  BY DEF Depth, top
<1>6. f.fn = 0 /\ f.pc = pc /\ f.stack = st[pc]
  BY DEF FrameAt
<1>7. module = <<Fun(e, c)>> /\ fn = Fun(e, c)
  BY <1>5, <1>6 DEF RunsBy, fn
<1>8. fn.code = Append(c, RetIns)
  BY <1>7 DEF Fun
<1>9. InCode /\ ins = Append(c, RetIns)[pc + 1] /\ pc < Len(c) + 1
  <2>1. Len(fn.code) = Len(c) + 1
    BY <1>1, <1>8, LoadedCode
  <2> QED
    BY <1>1, <1>2, <1>5, <1>6, <1>8, <2>1 DEF InCode, ins
<1>10. steps < StepLimit
  BY <1>1, <1>2, LimitsAssumption, VmAssumption, ParserAssumption
<1>11. pc >= Len(c) => pc = Len(c)
  BY <1>1, <1>2
<1> QED
  BY <1>1, <1>2, <1>3, <1>4, <1>5, <1>6, <1>9, <1>10, <1>11, LoadedCode DEF sp

LoweredOps == {"push", "load", "neg", "ret"} \cup BinaryOps

\* Lowered code makes the machine take these steps only.
LEMMA LoweredSteps ==
    ASSUME VmStep, InCode, steps < StepLimit, steps \in Nat, ins.op \in LoweredOps
    PROVE  \/ StackUnderflow
           \/ StackOverflow
           \/ ins.op = "push" /\ PushConst
           \/ ins.op = "load" /\ LoadLocal
           \/ ins.op = "neg" /\ Unary
           \/ ins.op \in BinaryOps /\ Binary
           \/ DivZero
           \/ ins.op = "ret" /\ Ret
PROOF
<1> DEFINE o == ins.op
<1>1. o \in LoweredOps
  OBVIOUS
<1>2. ~StepLimitHit /\ ~FallOff
  BY VmAssumption DEF StepLimitHit, FallOff
<1>3. ~StoreLocal /\ ~Pop /\ ~Jump /\ ~LoadIndex /\ ~StoreIndex /\ ~ArrLen /\ ~Call /\ ~AbiCall
  <2>1. o \notin {"store"} /\ o \notin {"pop"} /\ o \notin JumpOps /\ o \notin {"load_index"}
        /\ o \notin {"store_index"} /\ o \notin {"arr_len"} /\ o \notin {"call"}
        /\ o \notin {"abi_call"}
    BY <1>1 DEF LoweredOps, BinaryOps, JumpOps
  <2>2. \A S : Executing(S) => o \in S
    BY DEF Executing
  <2> HIDE DEF o
  <2>3. ~StoreLocal /\ ~Pop
    BY <2>1, <2>2 DEF StoreLocal, Pop
  <2>4. ~Jump
    BY <2>1, <2>2 DEF Jump
  <2>5. ~LoadIndex /\ ~StoreIndex
    BY <2>1, <2>2 DEF LoadIndex, StoreIndex
  <2>6. ~ArrLen
    BY <2>1, <2>2 DEF ArrLen
  <2>7. ~Call /\ ~AbiCall
    BY <2>1, <2>2 DEF Call, AbiCall
  <2> QED
    BY <2>3, <2>4, <2>5, <2>6, <2>7
<1>4. PushConst => o = "push"
  BY DEF PushConst, Executing
<1>5. LoadLocal => o = "load"
  BY DEF LoadLocal, Executing
<1>6. Unary => o = "neg"
  <2>1. Unary => o \in UnaryOps
    BY DEF Unary, Executing
  <2> QED
    BY <1>1, <2>1 DEF LoweredOps, UnaryOps, BinaryOps
<1>7. Binary => o \in BinaryOps
  BY DEF Binary, Executing
<1>8. Ret => o = "ret"
  BY DEF Ret, Executing
<1> HIDE DEF o
<1> QED
  BY <1>2, <1>3, <1>4, <1>5, <1>6, <1>7, <1>8 DEF VmStep, o

\* One instruction of the plan: the machine leaves the next stack.
LEMMA StepOfPlan ==
    ASSUME VmStep, InCode, steps < StepLimit, steps \in Nat,
           NEW e, NEW s \in Seq(Word), NEW t \in Seq(Word), StackStep(e, ins, s, t),
           top.stack = s, sp = Len(s), 2 * Len(t) <= ArenaCap + 1,
           \A i \in 0..Len(e) - 1 : top.locals[i] = e[i + 1].val
    PROVE  Leave(t) /\ Tick
PROOF
<1> DEFINE i == ins
<1>0. StackStep(e, i, s, t) /\ sp \in Nat /\ Len(t) \in Nat
  OBVIOUS
<1>1. CASE i.op = "push" /\ t = Append(s, i.a)
  <2>1. Len(t) = sp + 1
    BY <1>1
  <2>2. sp < MaxStack
    BY <1>0, <2>1, LimitsAssumption, VmAssumption, ParserAssumption
  <2>3. ~StackOverflow
    BY <1>0, <2>2, VmAssumption DEF StackOverflow
  <2>4. ~StackUnderflow
    <3>1. Needs("push") = 0
      BY DEF Needs, BinaryOps, UnaryOps, JumpOps
    <3> QED
      BY <1>0, <1>1, <3>1 DEF StackUnderflow
  <2>5. ~DivZero
    BY <1>1 DEF DivZero, Executing
  <2>6. "push" \in LoweredOps /\ "push" \notin BinaryOps /\ "push" \notin {"load", "neg", "ret"}
    BY DEF LoweredOps, BinaryOps
  <2>7. PushConst
    BY <1>1, <2>3, <2>4, <2>5, <2>6, LoweredSteps
  <2> QED
    BY <1>1, <2>7 DEF PushConst
<1>2. CASE i.op = "load" /\ i.a \in 0..Len(e) - 1 /\ t = Append(s, e[i.a + 1].val)
  <2>1. Len(t) = sp + 1
    BY <1>2
  <2>2. sp < MaxStack
    BY <1>0, <2>1, LimitsAssumption, VmAssumption, ParserAssumption
  <2>3. ~StackOverflow
    BY <1>0, <2>2, VmAssumption DEF StackOverflow
  <2>4. ~StackUnderflow
    <3>1. Needs("load") = 0
      BY DEF Needs, BinaryOps, UnaryOps, JumpOps
    <3> QED
      BY <1>0, <1>2, <3>1 DEF StackUnderflow
  <2>5. ~DivZero
    BY <1>2 DEF DivZero, Executing
  <2>6. "load" \in LoweredOps /\ "load" \notin BinaryOps /\ "load" \notin {"push", "neg", "ret"}
    BY DEF LoweredOps, BinaryOps
  <2>7. LoadLocal
    BY <1>2, <2>3, <2>4, <2>5, <2>6, LoweredSteps
  <2>8. top.locals[i.a] = e[i.a + 1].val
    BY <1>2
  <2> QED
    BY <1>2, <2>7, <2>8 DEF LoadLocal
<1>3. CASE i.op = "neg" /\ Len(s) >= 1 /\ t = Append(SubSeq(s, 1, Len(s) - 1), Wrap(-s[Len(s)]))
  <2>3. ~StackOverflow
    BY <1>3 DEF StackOverflow, Executing, PushingOps
  <2>4. ~StackUnderflow
    <3>1. Needs("neg") = 1
      BY DEF Needs, BinaryOps, UnaryOps, JumpOps
    <3> QED
      BY <1>0, <1>3, <3>1 DEF StackUnderflow
  <2>5. ~DivZero
    BY <1>3 DEF DivZero, Executing
  <2>6. "neg" \in LoweredOps /\ "neg" \notin BinaryOps /\ "neg" \notin {"push", "load", "ret"}
    BY DEF LoweredOps, BinaryOps
  <2>7. Unary
    BY <1>3, <2>3, <2>4, <2>5, <2>6, LoweredSteps
  <2>8. PICK r \in UnaryResults("neg", top.stack[sp]) : Leave(Append(Below(1), r))
    BY <1>3, <2>7 DEF Unary
  <2>9. r = Wrap(-s[Len(s)])
    BY <2>8 DEF UnaryResults, Negates
  <2>10. Append(Below(1), r) = t
    BY <1>3, <2>9 DEF Below
  <2> QED
    BY <2>7, <2>8, <2>10 DEF Unary
<1>4. CASE /\ i.op \in BinaryOps /\ Len(s) >= 2
           /\ \E r : /\ Results(i.op, s[Len(s) - 1], s[Len(s)]) = {r}
                     /\ t = Append(SubSeq(s, 1, Len(s) - 2), r)
  <2>1. PICK r : /\ Results(i.op, s[Len(s) - 1], s[Len(s)]) = {r}
                 /\ t = Append(SubSeq(s, 1, Len(s) - 2), r)
    BY <1>4
  <2>3. ~StackOverflow
    <3>1. i.op \notin PushingOps
      BY <1>4 DEF BinaryOps, PushingOps
    <3> QED
      BY <3>1 DEF StackOverflow, Executing
  <2>4. ~StackUnderflow
    <3>1. Needs(i.op) = 2
      BY <1>4 DEF Needs, BinaryOps, UnaryOps, JumpOps
    <3> QED
      BY <1>0, <1>4, <3>1 DEF StackUnderflow
  <2>5. ~DivZero
    <3>1. ASSUME i.op \in {"div", "mod"}, s[Len(s)] = 0 PROVE FALSE
      <4>1. Computes(i.op, s[Len(s) - 1], s[Len(s)], r)
        BY <2>1 DEF Results
      <4> QED
        BY <3>1, <4>1 DEF Computes
    <3> QED
      BY <3>1 DEF DivZero, Executing
  <2>6. i.op \in LoweredOps /\ i.op \notin {"push", "load", "neg", "ret"}
    BY <1>4 DEF LoweredOps, BinaryOps
  <2>7. Binary
    BY <2>3, <2>4, <2>5, <2>6, LoweredSteps
  <2>8. PICK w \in Results(i.op, top.stack[sp - 1], top.stack[sp]) : Leave(Append(Below(2), w))
    BY <2>7 DEF Binary
  <2>9. w = r
    BY <2>1, <2>8
  <2>10. Append(Below(2), w) = t
    BY <2>1, <2>9 DEF Below
  <2> QED
    BY <2>7, <2>8, <2>10 DEF Binary
<1> HIDE DEF i
<1> QED
  BY <1>0, <1>1, <1>2, <1>3, <1>4 DEF StackStep

LEMMA RunAdvances ==
    ASSUME NEW e, NEW v, NEW c, NEW d, NEW st, Plan(e, v, c, d, st), RunsBy(e, v, c, d, st),
           VmStep
    PROVE  RunsBy(e, v, c, d, st)'
PROOF
<1>1. status = "running"
  BY DEF VmStep, StepLimitHit, StackUnderflow, StackOverflow, PushConst, LoadLocal, StoreLocal,
     Pop, Unary, Binary, DivZero, Jump, LoadIndex, StoreIndex, ArrLen, Call, Ret, FallOff,
     AbiCall, Executing
<1>a. PICK pc \in 0..d : \E f : frames = <<f>> /\ FrameAt(e, f, pc, st[pc]) /\ steps = pc
  BY <1>1 DEF RunsBy
<1>2. PICK f : frames = <<f>> /\ FrameAt(e, f, pc, st[pc]) /\ steps = pc
  BY <1>a
<1>3. /\ d \in Nat /\ d <= Len(c) /\ Len(c) \in Nat
      /\ Depth = 1 /\ top = f /\ top.stack = st[pc] /\ sp = Len(st[pc]) /\ top.pc = pc
      /\ st[pc] \in Seq(Word) /\ 2 * sp <= ArenaCap + 1 /\ sp \in Nat
      /\ InCode /\ steps < StepLimit
      /\ ins = IF pc < Len(c) THEN c[pc + 1] ELSE RetIns
  BY <1>2, MachineAt
<1>4. steps \in Nat
  BY <1>2, <1>3
<1>5. CASE pc < d
  <2>1. pc \in 0..d - 1 /\ pc + 1 \in 0..d /\ pc < Len(c)
    BY <1>3, <1>5
  <2>2. /\ StackStep(e, c[pc + 1], st[pc], st[pc + 1]) /\ st[pc + 1] \in Seq(Word)
        /\ 2 * (Len(st[pc + 1]) - Len(<<>>)) <= ArenaCap + 1
    BY <2>1 DEF Plan, Trace
  <2> DEFINE t == st[pc + 1]
             m == Len(t)
  <2>3. 2 * Len(t) <= ArenaCap + 1
    <3>1. Len(<<>>) = 0
      OBVIOUS
    <3>2. m \in Nat /\ 2 * (m - 0) <= ArenaCap + 1
      BY <2>2, <3>1
    <3> HIDE DEF m
    <3>3. 2 * m <= ArenaCap + 1
      BY <3>2, ParserAssumption
    <3> QED
      BY <3>3 DEF m
  <2>4. \A i \in 0..Len(e) - 1 : top.locals[i] = e[i + 1].val
    BY <1>2, <1>3 DEF FrameAt
  <2>5. StackStep(e, ins, st[pc], t) /\ t \in Seq(Word)
    BY <1>3, <2>1, <2>2
  <2> HIDE DEF t
  <2>6. Leave(t) /\ Tick
    BY <1>3, <1>4, <2>3, <2>4, <2>5, StepOfPlan
  <2> DEFINE g == [f EXCEPT !.stack = t, !.pc = @ + 1]
  <2>7. frames' = <<g>> /\ UNCHANGED <<module, ctx, status, result>> /\ steps' = pc + 1
    <3>1. frames' = [frames EXCEPT ![1] = g]
      BY <1>3, <2>6 DEF Leave, Continue
    <3> HIDE DEF g
    <3>2. [frames EXCEPT ![1] = g] = <<g>>
      BY <1>2
    <3> QED
      BY <1>2, <2>6, <3>1, <3>2 DEF Leave, Continue, Tick
  <2>8. FrameAt(e, g, pc + 1, st[pc + 1])
    <3>1. f = [fn |-> 0, pc |-> pc, stack |-> st[pc], locals |-> f.locals, len |-> f.len, pool |-> f.pool]
      BY <1>2 DEF FrameAt
    <3>a. PICK x, y, z : f = [fn |-> 0, pc |-> pc, stack |-> st[pc], locals |-> x, len |-> y, pool |-> z]
      BY <3>1
    <3>b. g = [fn |-> 0, pc |-> pc + 1, stack |-> t, locals |-> x, len |-> y, pool |-> z]
      <4> DEFINE w == [f EXCEPT !.stack = t]
      <4>1. w = [fn |-> 0, pc |-> pc, stack |-> t, locals |-> x, len |-> y, pool |-> z]
        BY <3>a
      <4>2. g = [w EXCEPT !.pc = f.pc + 1] /\ f.pc = pc
        BY <3>a
      <4> HIDE DEF w, g
      <4> QED
        BY <4>1, <4>2
    <3>2. g = [fn |-> 0, pc |-> pc + 1, stack |-> t, locals |-> f.locals, len |-> f.len, pool |-> f.pool]
      <4> HIDE DEF g
      <4> QED
        BY <3>a, <3>b
    <3>3. g.locals = f.locals /\ g.len = f.len /\ g.pool = f.pool
      BY <3>2
    <3> HIDE DEF g
    <3> QED
      BY <1>2, <3>2, <3>3 DEF FrameAt, t
  <2> HIDE DEF g
  <2> QED
    BY <1>1, <2>1, <2>7, <2>8 DEF RunsBy
<1>6. CASE pc = d /\ v.err = "OK"
  <2>1. d = Len(c) /\ st[pc] = <<v.val>> /\ ins = RetIns
    BY <1>3, <1>6 DEF Plan
  <2>2. sp = 1 /\ ins.op = "ret" /\ top.stack[sp] = v.val
    BY <1>3, <2>1 DEF RetIns
  <2>3. ~StackOverflow /\ ~DivZero
    BY <2>2 DEF StackOverflow, DivZero, Executing, PushingOps
  <2>4. ~StackUnderflow
    <3>1. Needs("ret") = 1
      BY DEF Needs, BinaryOps, UnaryOps, JumpOps
    <3> QED
      BY <2>2, <3>1 DEF StackUnderflow
  <2>5. "ret" \in LoweredOps /\ "ret" \notin BinaryOps
    BY DEF LoweredOps, BinaryOps
  <2>6. Ret
    BY <1>3, <1>4, <2>2, <2>3, <2>4, <2>5, LoweredSteps
  <2>7. status' = "ok" /\ result' = [val |-> v.val, sp |-> 1] /\ steps' = pc + 1 /\ module' = module
    BY <1>2, <1>3, <2>2, <2>6 DEF Ret, Return, Tick
  <2> QED
    BY <1>6, <2>1, <2>7 DEF RunsBy
<1>7. CASE pc = d /\ v.err # "OK"
  <2>1. pc < Len(c) /\ Stuck(ins, top.stack)
    BY <1>3, <1>7 DEF Plan
  <2>2. ins.op \in {"div", "mod"} /\ sp >= 2 /\ top.stack[sp] = 0
    BY <2>1 DEF Stuck, sp
  <2>3. ins.op \in LoweredOps /\ ins.op \notin {"push", "load", "neg", "ret"} /\ ins.op \in BinaryOps
    BY <2>2 DEF LoweredOps, BinaryOps
  <2>4. ~StackOverflow
    BY <2>2 DEF StackOverflow, Executing, PushingOps
  <2>5. ~StackUnderflow
    <3>1. Needs(ins.op) = 2
      BY <2>3 DEF Needs, BinaryOps, UnaryOps, JumpOps
    <3> QED
      BY <1>3, <2>2, <3>1 DEF StackUnderflow
  <2>6. ~Binary
    <3>1. \A r : ~Computes(ins.op, top.stack[sp - 1], top.stack[sp], r)
      BY <2>2 DEF Computes
    <3> QED
      BY <3>1 DEF Binary, Results
  <2>7. DivZero
    BY <1>3, <1>4, <2>3, <2>4, <2>5, <2>6, LoweredSteps
  <2>8. status' = "DIV_ZERO" /\ module' = module
    BY <2>7 DEF DivZero, Fail
  <2> QED
    BY <1>7, <2>8 DEF RunsBy
<1> QED
  BY <1>3, <1>5, <1>6, <1>7

\* lower_arena never fills its buffer, and its code follows a plan.
LEMMA LowerGives ==
    ASSUME ParseInv, ShapeInv, EnvOK, node \in Nodes
    PROVE  /\ lower_arena(node).err \in {"OK", "UNDEF_VAR"}
           /\ ast_arena_eval[node] \in Values
           /\ lower_arena(node).err = "OK" =>
                 \E c, d, st : /\ Plan(env, ast_arena_eval[node], c, d, st)
                               /\ lower_arena(node).code = Append(c, RetIns)
PROOF
<1> DEFINE v == ast_arena_eval[node]
           empty == [err |-> "OK", code |-> <<>>]
<1>1. PICK lo : Shaped(arena, lo)
  BY DEF ShapeInv, ShapeAt
<1>2. Len(arena) \in Nat /\ Len(arena) <= ArenaCap
  BY Counted DEF ShapeInv
<1>3. PICK c, err : Translates(node, c, err, Size(lo, node))
  BY <1>1, <1>2, TreeTranslates
<1> DEFINE s == Size(lo, node)
<1>4. s \in Nat /\ s <= ArenaCap
  <2>1. node \in 0..Len(arena) - 1 /\ lo[node] \in Nat /\ ShapedNode(arena[node + 1], node, lo)
    BY <1>1, <1>2 DEF Nodes, Shaped
  <2> DEFINE u == lo[node]
  <2>2. u \in Nat /\ u <= node /\ s = node - u + 1
    BY <2>1 DEF ShapedNode, Size
  <2> HIDE DEF u, s
  <2> QED
    BY <1>2, <2>1, <2>2, ParserAssumption
<1>5. v \in Values
  BY <1>1, <1>2, ShapedBackward, EvalOK
<1> HIDE DEF s, v
<1>6. /\ c \in Seq(Code) /\ err \in {"OK", "UNDEF_VAR"} /\ Len(c) <= s /\ Len(c) \in Nat
      /\ LoweredAs(node, c, err, s)
      /\ err = "OK" => \A b \in Seq(Word) : Outcome(env, c, v, b, s + 1)
  BY <1>3 DEF Translates, s, v
<1>7. lower_emit[<<node, empty>>] = [err |-> err, code |-> c]
  <2>1. empty \in Lowered /\ empty.err = "OK" /\ Len(empty.code) = 0 /\ empty.code = <<>>
    BY LoweredIs
  <2>2. Len(empty.code) + s <= LowerCap
    BY <1>4, <2>1, LimitsAssumption, ParserAssumption
  <2>3. <<>> \o c = c
    BY <1>6
  <2>4. lower_emit[<<node, empty>>] = [err |-> err, code |-> empty.code \o c]
    BY <1>6, <2>1, <2>2 DEF LoweredAs
  <2> QED
    BY <2>1, <2>3, <2>4
<1>8. lower_arena(node) = Emit([err |-> err, code |-> c], "ret", 0)
  BY <1>7 DEF lower_arena
<1>9. CASE err = "UNDEF_VAR"
  BY <1>5, <1>8, <1>9 DEF Emit, v
<1>10. CASE err = "OK"
  <2>1. lower_arena(node) = [err |-> "OK", code |-> Append(c, RetIns)]
    <3>1. Len(c) < LowerCap
      BY <1>4, <1>6, LimitsAssumption, ParserAssumption
    <3>2. "ret" \in Ops /\ 0 \in Int
      BY DEF Ops
    <3>3. lower_arena(node) = [err |-> "OK", code |-> c \o <<RetIns>>]
      BY <1>6, <1>8, <1>10, <3>1, <3>2, EmitRoom DEF RetIns
    <3>4. RetIns \in Code
      BY DEF Code, RetIns, Ops
    <3> HIDE DEF RetIns
    <3>5. Append(c, RetIns) = c \o <<RetIns>>
      BY <1>6, <3>4
    <3> QED
      BY <3>3, <3>5
  <2>2. Outcome(env, c, v, <<>>, ArenaCap + 1)
    <3>a. <<>> \in Seq(Word)
      OBVIOUS
    <3>1. Outcome(env, c, v, <<>>, s + 1)
      BY <1>6, <1>10, <3>a
    <3>2. s + 1 \in Nat /\ ArenaCap + 1 \in Nat /\ s + 1 <= ArenaCap + 1
      BY <1>4, ParserAssumption
    <3> QED
      BY <1>6, <3>a, <3>1, <3>2, OutcomeMore
  <2>3. \E d, st : Plan(env, v, c, d, st)
    <3>1. Len(c) <= ArenaCap
      BY <1>4, <1>6, ParserAssumption
    <3>2. CASE v.err = "OK"
      <4>1. PICK st : Trace(env, c, <<>>, Len(c), st, ArenaCap + 1) /\ st[Len(c)] = Append(<<>>, v.val)
        BY <2>2, <3>2 DEF Outcome
      <4>2. Append(<<>>, v.val) = <<v.val>>
        OBVIOUS
      <4>3. Plan(env, v, c, Len(c), st)
        BY <1>6, <3>1, <3>2, <4>1, <4>2 DEF Plan
      <4> QED
        BY <4>3
    <3>3. CASE v.err # "OK"
      <4>a. PICK d \in 0..Len(c) - 1 : \E st :
                 Trace(env, c, <<>>, d, st, ArenaCap + 1) /\ Stuck(c[d + 1], st[d])
        BY <2>2, <3>3 DEF Outcome
      <4>1. PICK st : Trace(env, c, <<>>, d, st, ArenaCap + 1) /\ Stuck(c[d + 1], st[d])
        BY <4>a
      <4>2. Plan(env, v, c, d, st)
        BY <1>6, <3>1, <3>3, <4>1 DEF Plan
      <4> QED
        BY <4>2
    <3> QED
      BY <3>2, <3>3
  <2>4. lower_arena(node).err = "OK" /\ lower_arena(node).code = Append(c, RetIns)
    BY <2>1
  <2> QED
    BY <1>5, <2>3, <2>4 DEF v
<1> QED
  BY <1>6, <1>9, <1>10

\* vm_exec enters the function, unless it has no memory for its frames.
LEMMA StartRuns ==
    ASSUME NEW v, NEW c, NEW d, NEW st, EnvOK, Plan(env, v, c, d, st),
           module = <<Fun(env, c)>>, steps = 0, env' = env,
           Start(0, [i \in DOMAIN env |-> env[i].val])
    PROVE  RunsBy(env, v, c, d, st)'
PROOF
<1> DEFINE args == [i \in DOMAIN env |-> env[i].val]
           F == Fun(env, c)
<1>1. env \in Seq([name : Seq(STRING), val : Word]) /\ Len(env) \in Nat /\ Len(env) <= MaxLocals
  BY DEF EnvOK
<1>2. DOMAIN env = 1..Len(env)
  BY <1>1
<1>3. args \in Seq(Word) /\ Len(args) = Len(env) /\ \A i \in 1..Len(env) : args[i] = env[i].val
  <2>1. ASSUME NEW i \in 1..Len(env) PROVE env[i].val \in Word
    <3> DEFINE S == [name : Seq(STRING), val : Word]
    <3>1. env \in Seq(S)
      BY <1>1
    <3> HIDE DEF S
    <3>2. env[i] \in S
      BY <1>2, <3>1
    <3> QED
      BY <3>2 DEF S
  <2>2. args \in [1..Len(env) -> Word]
    BY <1>2, <2>1
  <2> QED
    BY <1>1, <1>2, <2>2
<1>4. /\ F.ok = TRUE /\ F.nparams = Len(env)
      /\ F.arr = [i \in 0..MaxLocals - 1 |-> 0]
  BY DEF Fun
<1>5. Len(module) = 1 /\ module[1] = F
  OBVIOUS
<1> HIDE DEF F, args
<1>6. \A i \in 0..MaxLocals - 1 : F.arr[i] = 0
  BY <1>4
<1>7. {i \in 0..MaxLocals - 1 : F.arr[i] > 0} = {}
  BY <1>6
<1>8. EntryError(0, Len(args), 0) = "OK"
  <2>1. Cardinality({i \in 0..MaxLocals - 1 : F.arr[i] > 0}) = 0
    BY <1>7, FS_EmptySet
  <2> QED
    <3>1. module[0 + 1] = F /\ ~(0 > MaxDepth) /\ ~(0 >= Len(module)) /\ ~(0 > MaxArrs)
      BY <1>5, VmAssumption, WordAssumption
    <3> QED
      BY <1>3, <1>4, <2>1, <3>1 DEF EntryError
<1>9. Start(0, args)
  BY DEF args
<1>10. CASE Fail("ARENA_OOM")
  BY <1>10 DEF Fail, RunsBy, F
<1>11. CASE frames' = <<NewFrame(0, args)>> /\ status' = "running" /\ UNCHANGED module /\ UNCHANGED steps
  <2> DEFINE f == NewFrame(0, args)
  <2>1. f.fn = 0 /\ f.pc = 0 /\ f.stack = <<>>
        /\ f = [fn |-> 0, pc |-> 0, stack |-> <<>>, locals |-> f.locals, len |-> f.len, pool |-> f.pool]
    BY DEF NewFrame
  <2>2. f.locals = [i \in 0..MaxLocals - 1 |->
                       CASE F.arr[i] > 0 -> SlotOf(F, i)
                         [] F.arr[i] = 0 /\ i < F.nparams -> args[i + 1]
                         [] OTHER -> 0]
    BY <1>5 DEF NewFrame
  <2> HIDE DEF f
  <2>3. ASSUME NEW i \in 0..Len(env) - 1 PROVE f.locals[i] = env[i + 1].val
    <3>1. i \in 0..MaxLocals - 1 /\ i < F.nparams /\ i + 1 \in 1..Len(env) /\ F.arr[i] = 0
      BY <1>1, <1>4, <1>6, VmAssumption
    <3> QED
      BY <1>3, <2>2, <3>1
  <2>4. st[0] = <<>> /\ 0 \in 0..d
    <3>1. c \in Seq(Code) /\ Len(c) \in Nat
      BY DEF Plan
    <3> QED
      BY <3>1 DEF Plan, Trace
  <2>5. FrameAt(env, f, 0, st[0])
    BY <2>1, <2>3, <2>4 DEF FrameAt
  <2>6. frames' = <<f>> /\ status' = "running" /\ steps' = 0 /\ module' = <<Fun(env, c)>>
    BY <1>11 DEF f
  <2> QED
    BY <2>4, <2>5, <2>6 DEF RunsBy
<1> QED
  BY <1>8, <1>9, <1>10, <1>11 DEF Start

-----------------------------------------------------------------------------
(***************************************************************************)
(* The tools                                                               *)
(***************************************************************************)
Verdict == ast_arena_eval[node]

Ran == \E c, d, st : Plan(env, Verdict, c, d, st) /\ RunsBy(env, Verdict, c, d, st)

\* The receipt as it was printed.
Printed ==
    [artifact |-> source_code, input |-> env[1].val, output |-> result.val,
     steps |-> steps, sp |-> result.sp, root |-> <<>>]

\* Editing changes neither the artifact nor the root.
FileOK ==
    /\ DOMAIN file = {"artifact", "input", "output", "steps", "sp", "root"}
    /\ file.root = Root(Printed)

Parsed == {"eval", "lower", "start", "run", "EVALUATED", "printed", "PASS", "TAMPERED"}

ToolInv ==
    /\ tool \in {"xver", "create"}
    /\ EnvOK
    /\ stage \in {"parse", "REJECTED"} \cup Parsed
    /\ stage \in Parsed => node \in Nodes
    /\ stage \in {"parse", "eval", "lower", "start"} => steps = 0
    /\ (tool = "xver" /\ stage \in {"lower", "start", "run", "EVALUATED"}) =>
          ast_val = Verdict /\ ast_val.err = "OK"
    /\ stage = "start" =>
          \E c, d, st : Plan(env, Verdict, c, d, st) /\ module = <<Fun(env, c)>>
    /\ stage \in {"run", "EVALUATED", "printed", "PASS"} => Ran
    /\ stage \in {"EVALUATED", "printed", "PASS"} => status = "ok"
    /\ stage \in {"printed", "PASS"} => FileOK
    /\ stage = "PASS" => Root(file) = file.root

ExprInv == ParseInv /\ ShapeInv /\ ToolInv

LEMMA LeadingOK ==
    ASSUME NEW T, NEW s \in Seq(T), NEW S
    PROVE  Leading(s, S) \in 0..Len(s)
PROOF
<1> DEFINE L == Len(s)
           Ends == {q \in Nat : q <= L /\ (q < L => s[q + 1] \notin S)}
<1>1. L \in Nat /\ L \in Ends
  OBVIOUS
<1>2. PICK q \in Ends : \A r \in Ends : q <= r
  <2> HIDE DEF Ends
  <2>1. Ends \in SUBSET Nat
    BY DEF Ends
  <2> QED
    BY <1>1, <2>1, LeastOf
<1>3. q \in 0..L /\ (q < L => s[q + 1] \notin S)
  BY <1>1, <1>2
<1>4. ASSUME NEW i \in 1..q PROVE s[i] \in S
  <2>1. i - 1 \in Nat /\ i - 1 <= L /\ i - 1 < q /\ (i - 1) + 1 = i
    BY <1>1, <1>3
  <2>2. i - 1 \notin Ends
    <3> HIDE DEF Ends
    <3> QED
      BY <1>2, <2>1, <1>3
  <2> QED
    BY <2>1, <2>2
<1>5. \E r \in 0..Len(s) : /\ \A i \in 1..r : s[i] \in S
                           /\ r < Len(s) => s[r + 1] \notin S
  BY <1>3, <1>4
<1> HIDE DEF Ends, L
<1> QED
  BY <1>5 DEF Leading

LEMMA KeptOK ==
    ASSUME NEW T, NEW s \in Seq(T), NEW S
    PROVE  Kept(s, S) \in 0..Len(s)
PROOF
<1> DEFINE L == Len(s)
           Ends == {q \in Nat : q <= L /\ \A i \in q + 1..L : s[i] \in S}
<1>1. L \in Nat /\ L \in Ends
  OBVIOUS
<1>2. PICK q \in Ends : \A r \in Ends : q <= r
  <2> HIDE DEF Ends
  <2>1. Ends \in SUBSET Nat
    BY DEF Ends
  <2> QED
    BY <1>1, <2>1, LeastOf
<1>3. q \in 0..L /\ \A i \in q + 1..L : s[i] \in S
  BY <1>1, <1>2
<1>4. q > 0 => s[q] \notin S
  <2> SUFFICES ASSUME q > 0, s[q] \in S PROVE FALSE
    OBVIOUS
  <2>1. q - 1 \in Nat /\ q - 1 <= L /\ (q - 1) + 1 = q
    BY <1>1, <1>3
  <2>2. \A i \in (q - 1) + 1..L : s[i] \in S
    BY <1>1, <1>3, <2>1
  <2>3. q - 1 \in Ends
    BY <2>1, <2>2
  <2> HIDE DEF Ends
  <2> QED
    BY <1>2, <1>3, <2>3
<1>5. \E r \in 0..Len(s) : /\ \A i \in r + 1..Len(s) : s[i] \in S
                           /\ r > 0 => s[r] \notin S
  BY <1>3, <1>4
<1> HIDE DEF Ends, L
<1> QED
  BY <1>5 DEF Kept

\* What create cuts out of a text is a text.
LEMMA ExprCleanOK ==
    ASSUME NEW s \in Seq(STRING)
    PROVE  expr_clean(s) \in Seq(STRING)
PROOF
<1> DEFINE skipped == SubSeq(s, Leading(s, Space) + 1, Len(s))
           expr == IF Len(skipped) >= 7 /\ SubSeq(skipped, 1, 7) = ReturnWord
                   THEN SubSeq(skipped, 8, Len(skipped)) ELSE skipped
           held == IF Len(expr) > MaxExpr THEN SubSeq(expr, 1, MaxExpr) ELSE expr
<1>0. ASSUME NEW u \in Seq(STRING), NEW m \in 1..Len(u) + 1, NEW n \in Nat, n <= Len(u)
      PROVE  SubSeq(u, m, n) \in Seq(STRING)
  BY <1>0
<1>1. skipped \in Seq(STRING)
  <2>1. Leading(s, Space) \in 0..Len(s) /\ Len(s) \in Nat
    BY LeadingOK
  <2> QED
    BY <1>0, <2>1
<1> HIDE DEF skipped
<1>2. expr \in Seq(STRING)
  <2>1. Len(skipped) \in Nat
    BY <1>1
  <2>2. Len(skipped) >= 7 => SubSeq(skipped, 8, Len(skipped)) \in Seq(STRING)
    BY <1>0, <1>1, <2>1
  <2> QED
    BY <1>1, <2>2
<1> HIDE DEF expr
<1>3. held \in Seq(STRING)
  <2>1. Len(expr) \in Nat /\ MaxExpr \in Nat
    BY <1>2, ToolAssumption
  <2>2. Len(expr) > MaxExpr => SubSeq(expr, 1, MaxExpr) \in Seq(STRING)
    BY <1>0, <1>2, <2>1
  <2> QED
    BY <1>2, <2>2
<1> HIDE DEF held
<1>4. ASSUME NEW S PROVE SubSeq(held, 1, Kept(held, S)) \in Seq(STRING)
  <2>1. Kept(held, S) \in 0..Len(held) /\ Len(held) \in Nat
    BY <1>3, KeptOK
  <2>2. Kept(held, S) \in Nat /\ Kept(held, S) <= Len(held) /\ 1 \in 1..Len(held) + 1
    BY <2>1
  <2> HIDE DEF Kept
  <2> QED
    BY <1>0, <1>3, <2>2
<1> QED
  BY <1>4 DEF expr_clean, skipped, expr, held

LEMMA ExprInitOK ==
    ASSUME Init
    PROVE  ExprInv
PROOF
<1>1. ParseInv
  BY ParserInitOK DEF Init
<1>2. ShapeInv
  <2> DEFINE lo == [k \in 0..-1 |-> 0]
  <2>1. src \in Seq(STRING) /\ pos = 0 /\ arena = <<>> /\ parsing = "primary" /\ Len(arena) = 0
        /\ calls = <<[wait |-> "operand", min |-> 0, op |-> "none", left |-> 0,
                      text |-> <<>>, args |-> <<>>, depth |-> 0]>>
    BY ToolAssumption, ExprCleanOK DEF Init, ParserInit
  <2>2. pos \in 0..Len(src) /\ Len(arena) <= ArenaCap
    BY <2>1, ParserAssumption
  <2>3. Shaped(arena, lo)
    BY <2>1 DEF Shaped
  <2>4. Len(calls) = 1 /\ calls[1].wait = "operand"
    BY <2>1
  <2>5. Pending(calls, lo, Len(arena))
    BY <2>4 DEF Pending, LeftsInOrder, SignsWait
  <2>6. ShapeAt(lo)
    BY <2>1, <2>3, <2>5 DEF ShapeAt
  <2> QED
    BY <2>1, <2>2, <2>6 DEF ShapeInv
<1>3. ToolInv
  BY ToolAssumption DEF Init, Idle, ToolInv, EnvOK, Parsed
<1> QED
  BY <1>1, <1>2, <1>3 DEF ExprInv

\* The evaluator and the lowerer depend on the arena and the bindings only.
LEMMA SameVerdict ==
    ASSUME UNCHANGED <<parseVars, env>>
    PROVE  /\ Verdict' = Verdict /\ Nodes' = Nodes
           /\ ParseInv => ParseInv'
           /\ ShapeInv => ShapeInv'
           /\ EnvOK => EnvOK'
PROOF
<1>1. arena' = arena /\ env' = env /\ node' = node
  BY DEF parseVars
<1>2. ast_arena_eval' = ast_arena_eval
  BY <1>1 DEF ast_arena_eval, Nodes, Binding
<1>3. Verdict' = Verdict /\ Nodes' = Nodes
  BY <1>1, <1>2 DEF Verdict, Nodes
<1>4. ParseInv => ParseInv'
  BY DEF parseVars, ParseInv, top_call
<1>5. ShapeInv => ShapeInv'
  BY DEF parseVars, ShapeInv, ShapeAt, Nodes
<1> QED
  BY <1>1, <1>3, <1>4, <1>5 DEF EnvOK

LEMMA ParseKeeps ==
    ASSUME ExprInv, Parse \/ ParseDone
    PROVE  ExprInv'
PROOF
<1>1. stage = "parse" /\ EnvOK' /\ UNCHANGED <<vmVars, tool, env>> /\ steps' = 0
  BY DEF ExprInv, ToolInv, Parse, ParseDone, Rest, vmVars, EnvOK
<1>2. CASE stage' = "parse"
  <2>0. tool' \in {"xver", "create"}
    BY <1>1 DEF ExprInv, ToolInv
  <2>1. ToolInv'
    BY <2>0, <1>1, <1>2 DEF ToolInv, Parsed
  <2>2. ParseStep \/ ParseFullEnd
    BY <1>2 DEF Parse, ParseDone
  <2> QED
    BY <2>1, <2>2, ParserNextOK, ShapeStep DEF ExprInv
<1>3. CASE stage' # "parse"
  <2>1. /\ UNCHANGED parseVars
        /\ \/ tool = "create" /\ parsing = "return" /\ stage' = "lower"
           \/ parsing = "OK" /\ stage' = "eval"
           \/ stage' = "REJECTED"
    BY <1>1, <1>3 DEF Parse, ParseDone
  <2>2. ParseInv' /\ ShapeInv' /\ Nodes' = Nodes /\ node' = node
    BY <1>1, <2>1, SameVerdict DEF ExprInv, parseVars
  <2>3. stage' \in Parsed => node' \in Nodes'
    BY <2>1, <2>2 DEF ExprInv, ShapeInv, Parsed
  <2>0. tool' \in {"xver", "create"}
    BY <1>1 DEF ExprInv, ToolInv
  <2>4. ToolInv'
    BY <2>0, <1>1, <2>1, <2>3 DEF ToolInv, Parsed
  <2> QED
    BY <2>2, <2>4 DEF ExprInv
<1> QED
  BY <1>2, <1>3

LEMMA EvalKeeps ==
    ASSUME ExprInv, Eval
    PROVE  ExprInv'
PROOF
<1>1. stage = "eval" /\ UNCHANGED <<parseVars, vmVars, tool, env>> /\ steps = 0 /\ steps' = 0
      /\ ast_val' = Verdict /\ stage' = IF ast_val'.err = "OK" THEN "lower" ELSE "REJECTED"
  BY DEF Eval, Rest, vmVars, Verdict, ExprInv, ToolInv
<1>2. ParseInv' /\ ShapeInv' /\ EnvOK' /\ Nodes' = Nodes /\ node' = node /\ Verdict' = Verdict
  BY <1>1, SameVerdict DEF ExprInv, ToolInv, parseVars
<1>3. node \in Nodes
  BY <1>1 DEF ExprInv, ToolInv, Parsed
<1>0. tool' \in {"xver", "create"}
  BY <1>1 DEF ExprInv, ToolInv
<1>4. ToolInv'
  BY <1>0, <1>1, <1>2, <1>3 DEF ToolInv, Parsed
<1> QED
  BY <1>2, <1>4 DEF ExprInv

LEMMA LowerKeeps ==
    ASSUME ExprInv, Lower
    PROVE  ExprInv'
PROOF
<1>1. stage = "lower" /\ UNCHANGED <<parseVars, tool, env, ast_val, steps>> /\ steps = 0
      /\ stage' \in {"start", "REJECTED"}
  BY DEF Lower, Rest, ExprInv, ToolInv
<1>2. ParseInv' /\ ShapeInv' /\ EnvOK' /\ Nodes' = Nodes /\ node' = node /\ Verdict' = Verdict
  BY <1>1, SameVerdict DEF ExprInv, ToolInv, parseVars
<1>3. node \in Nodes /\ EnvOK
  BY <1>1 DEF ExprInv, ToolInv, Parsed
<1>4. stage' = "start" =>
         \E c, d, st : Plan(env, Verdict, c, d, st) /\ module' = <<Fun(env, c)>>
  <2> HAVE stage' = "start"
  <2> DEFINE out == lower_arena(node)
  <2>1. /\ out.err = "OK"
        /\ module' = <<[ok |-> TRUE, nparams |-> Len(env), nlocals |-> Len(env),
                        arr |-> [i \in 0..MaxLocals - 1 |-> 0], code |-> out.code]>>
    BY DEF Lower
  <2>2. PICK c, d, st : Plan(env, Verdict, c, d, st) /\ out.code = Append(c, RetIns)
    BY <1>3, <2>1, LowerGives DEF ExprInv, Verdict
  <2> HIDE DEF out
  <2>3. module' = <<Fun(env, c)>>
    BY <2>1, <2>2 DEF Fun
  <2> QED
    BY <2>2, <2>3
<1>5. ToolInv'
  <2>2. stage' = "start" => (\E c, d, st : Plan(env, Verdict, c, d, st) /\ module = <<Fun(env, c)>>)'
    BY <1>1, <1>2, <1>4
  <2>3. (tool' = "xver" /\ stage' \in {"lower", "start", "run", "EVALUATED"}) =>
            ast_val' = Verdict' /\ ast_val'.err = "OK"
    BY <1>1, <1>2 DEF ExprInv, ToolInv
  <2>0. tool' \in {"xver", "create"}
    BY <1>1 DEF ExprInv, ToolInv
  <2> QED
    BY <2>0, <1>1, <1>2, <1>3, <2>2, <2>3 DEF ToolInv, Parsed
<1> QED
  BY <1>2, <1>5 DEF ExprInv

LEMMA ExecKeeps ==
    ASSUME ExprInv, Exec
    PROVE  ExprInv'
PROOF
<1>1. UNCHANGED <<parseVars, tool, env, ast_val>> /\ stage \in {"start", "run"} /\ stage' = "run"
  BY DEF Exec, Rest
<1>2. ParseInv' /\ ShapeInv' /\ EnvOK' /\ Nodes' = Nodes /\ node' = node /\ Verdict' = Verdict
  BY <1>1, SameVerdict DEF ExprInv, ToolInv, parseVars
<1>3. node \in Nodes /\ EnvOK
  BY <1>1 DEF ExprInv, ToolInv, Parsed
<1>4. (tool' = "xver" /\ stage' \in {"lower", "start", "run", "EVALUATED"}) =>
         ast_val' = Verdict' /\ ast_val'.err = "OK"
  BY <1>1, <1>2 DEF ExprInv, ToolInv
<1>5. Ran'
  <2>1. PICK v : v = Verdict
    OBVIOUS
  <2>2. CASE stage = "start"
    <3>1. steps = 0 /\ Start(0, [i \in DOMAIN env |-> env[i].val])
      BY <2>2 DEF Exec, ExprInv, ToolInv
    <3>2. PICK c, d, st : Plan(env, v, c, d, st) /\ module = <<Fun(env, c)>>
      BY <2>1, <2>2 DEF ExprInv, ToolInv
    <3>3. RunsBy(env, v, c, d, st)'
      BY <1>1, <1>3, <3>1, <3>2, StartRuns
    <3>4. Plan(env, v, c, d, st)'
      BY <1>1, <3>2
    <3> QED
      BY <1>2, <2>1, <3>3, <3>4 DEF Ran
  <2>3. CASE stage = "run"
    <3>1. VmStep
      BY <2>3 DEF Exec
    <3>2. PICK e : e = env
      OBVIOUS
    <3>3. PICK c, d, st : Plan(e, v, c, d, st) /\ RunsBy(e, v, c, d, st)
      BY <2>1, <2>3, <3>2 DEF ExprInv, ToolInv, Ran
    <3>4. RunsBy(e, v, c, d, st)'
      BY <3>1, <3>3, RunAdvances
    <3>5. env' = e /\ Verdict' = v
      BY <1>1, <1>2, <2>1, <3>2
    <3> QED
      BY <3>3, <3>4, <3>5 DEF Ran
  <2> QED
    BY <1>1, <2>2, <2>3
<1>0. tool' \in {"xver", "create"}
  BY <1>1 DEF ExprInv, ToolInv
<1>6. ToolInv'
  BY <1>0, <1>1, <1>2, <1>3, <1>4, <1>5 DEF ToolInv, Parsed
<1> QED
  BY <1>2, <1>6 DEF ExprInv

\* Steps that leave the parser, the machine and the bindings alone.
LEMMA SameRun ==
    ASSUME ExprInv, UNCHANGED <<parseVars, vmVars, tool, source_code, env, ast_val>>
    PROVE  /\ ParseInv' /\ ShapeInv' /\ EnvOK' /\ Nodes' = Nodes /\ node' = node
           /\ Verdict' = Verdict /\ Printed' = Printed
           /\ Ran => Ran'
PROOF
<1>1. /\ ParseInv' /\ ShapeInv' /\ EnvOK' /\ Nodes' = Nodes /\ Verdict' = Verdict
      /\ source_code' = source_code /\ node' = node
      /\ UNCHANGED <<module, frames, steps, status, result>>
  BY SameVerdict DEF ExprInv, ToolInv, parseVars, vmVars
<1>2. Printed' = Printed
  BY <1>1 DEF Printed
<1>3. Ran => Ran'
  BY <1>1 DEF Ran, RunsBy
<1> QED
  BY <1>1, <1>2, <1>3

LEMMA ReportKeeps ==
    ASSUME ExprInv, Report
    PROVE  ExprInv'
PROOF
<1>1. UNCHANGED <<parseVars, vmVars, tool, source_code, env, ast_val>> /\ stage = "run"
      /\ stage' = (IF status # "ok" THEN "REJECTED"
                   ELSE IF tool = "xver" THEN "EVALUATED" ELSE "printed")
      /\ status' = status /\ tool' = tool
  BY DEF Report, vmVars
<1>2. /\ ParseInv' /\ ShapeInv' /\ EnvOK' /\ Nodes' = Nodes /\ node' = node
      /\ Verdict' = Verdict /\ Printed' = Printed /\ Ran'
  BY <1>1, SameRun DEF ExprInv, ToolInv
<1>3. node \in Nodes
  BY <1>1 DEF ExprInv, ToolInv, Parsed
<1>4. (tool' = "xver" /\ stage' \in {"lower", "start", "run", "EVALUATED"}) =>
         ast_val' = Verdict' /\ ast_val'.err = "OK"
  BY <1>1, <1>2 DEF ExprInv, ToolInv
<1>5. stage' = "printed" => FileOK'
  <2> HAVE stage' = "printed"
  <2>1. file' = [Printed EXCEPT !.root = Root(Printed)] /\ status = "ok"
    <3>1. status = "ok" /\ tool # "xver"
      BY <1>1
    <3>2. tool = "create"
      BY <3>1 DEF ExprInv, ToolInv
    <3> QED
      BY <3>1, <3>2 DEF Report, Printed
  <2>2. DOMAIN Printed = {"artifact", "input", "output", "steps", "sp", "root"}
    BY DEF Printed
  <2> HIDE DEF Root
  <2>3. DOMAIN file' = DOMAIN Printed /\ file'.root = Root(Printed)
    BY <2>1, <2>2
  <2>4. Root(Printed)' = Root(Printed)
    BY <1>2 DEF Root
  <2> QED
    BY <2>2, <2>3, <2>4 DEF FileOK
<1>0. tool' \in {"xver", "create"}
  BY <1>1 DEF ExprInv, ToolInv
<1>6. ToolInv'
  BY <1>0, <1>1, <1>2, <1>3, <1>4, <1>5 DEF ToolInv, Parsed
<1> QED
  BY <1>2, <1>6 DEF ExprInv

LEMMA ReceiptKeeps ==
    ASSUME ExprInv, Edit \/ VerifyReceipt \/ Finished \/ UNCHANGED exprVars
    PROVE  ExprInv'
PROOF
<1>1. UNCHANGED <<parseVars, vmVars, tool, source_code, env, ast_val>> /\ status' = status /\ steps' = steps
  BY DEF Edit, VerifyReceipt, Finished, Rest, exprVars, vmVars
<1>2. /\ ParseInv' /\ ShapeInv' /\ EnvOK' /\ Nodes' = Nodes /\ node' = node
      /\ Verdict' = Verdict /\ Printed' = Printed /\ (Ran => Ran')
  BY <1>1, SameRun
<1>3. Root(Printed)' = Root(Printed)
  BY <1>2 DEF Root
<1>4. ToolInv
  BY DEF ExprInv
<1>5. CASE Edit
  <2>1. stage = "printed" /\ stage' = "printed"
    BY <1>5 DEF Edit
  <2>2. PICK x \in {0, 1}, g \in {"input", "output", "steps", "sp"} : file' = [file EXCEPT ![g] = x]
    BY <1>5 DEF Edit
  <2>3. FileOK
    BY <1>4, <2>1 DEF ToolInv
  <2>4. DOMAIN file' = DOMAIN file /\ file'.root = file.root
    BY <2>2, <2>3 DEF FileOK
  <2>5. FileOK'
    BY <1>3, <2>3, <2>4 DEF FileOK
  <2>6. ToolInv'
    BY <1>1, <1>2, <1>4, <2>1, <2>5 DEF ToolInv, Parsed
  <2> QED
    BY <1>2, <2>6 DEF ExprInv
<1>6. CASE VerifyReceipt
  <2>1. stage = "printed" /\ stage' = (IF Root(file) = file.root THEN "PASS" ELSE "TAMPERED")
        /\ file' = file /\ tool' = tool
    BY <1>6 DEF VerifyReceipt, Rest
  <2>2. FileOK' /\ Root(file)' = Root(file)
    BY <1>3, <1>4, <2>1 DEF ToolInv, FileOK, Root
  <2>3. Ran'
    BY <1>2, <1>4, <2>1 DEF ToolInv
  <2> HIDE DEF Root
  <2>4. ToolInv'
    BY <1>1, <1>2, <1>4, <2>1, <2>2, <2>3 DEF ToolInv, Parsed
  <2> QED
    BY <1>2, <2>4 DEF ExprInv
<1>7. CASE Finished \/ UNCHANGED exprVars
  <2>1. UNCHANGED <<stage, file, tool, env, module, ast_val, steps, status, result, source_code>>
    BY <1>7 DEF Finished, exprVars, vmVars, parseVars
  <2>2. FileOK' = FileOK /\ Root(file)' = Root(file)
    BY <1>3, <2>1 DEF FileOK, Root
  <2>3. stage = "start" =>
           (\E c, d, st : Plan(env, Verdict, c, d, st) /\ module = <<Fun(env, c)>>)'
    BY <1>2, <1>4, <2>1 DEF ToolInv
  <2>4. stage \in {"run", "EVALUATED", "printed", "PASS"} => Ran'
    BY <1>2, <1>4 DEF ToolInv
  <2> HIDE DEF Root
  <2>5. ToolInv'
    BY <1>1, <1>2, <1>4, <2>1, <2>2, <2>3, <2>4 DEF ToolInv, Parsed
  <2> QED
    BY <1>2, <2>5 DEF ExprInv
<1> QED
  BY <1>5, <1>6, <1>7

LEMMA ExprInvariant == Spec => []ExprInv
PROOF
<1>1. Init => ExprInv
  BY ExprInitOK
<1>2. ExprInv /\ [Next]_exprVars => ExprInv'
  BY ParseKeeps, EvalKeeps, LowerKeeps, ExecKeeps, ReportKeeps, ReceiptKeeps DEF Next
<1> QED
  BY <1>1, <1>2, PTL DEF Spec

-----------------------------------------------------------------------------
(***************************************************************************)
(* Theorems                                                                *)
(***************************************************************************)

\* The recursion of parse_expression and parse_primary, which only the latter
\* counts, is bounded by LIN_PARSER_MAX_DEPTH, whatever the text.
THEOREM ParserRecursionBounded == Spec => []RecursionBounded
PROOF
<1>1. ParseInv => RecursionBounded
  <2> SUFFICES ASSUME ParseInv PROVE RecursionBounded
    OBVIOUS
  <2>1. CASE calls = <<>>
    BY <2>1, ParserAssumption DEF RecursionBounded
  <2>2. CASE calls # <<>>
    <3>1. Len(calls) \in Nat /\ CallOK(top_call, Len(calls), Len(arena))
      BY <2>2, StackPop, Counted DEF ParseInv, top_call
    <3>2. CASE top_call.wait \in Inside
      <4>1. Len(calls) <= 5 * top_call.depth + 5 /\ top_call.depth + 1 <= ParserMaxDepth + 1
              /\ top_call.depth \in Nat
        BY <3>1, <3>2 DEF CallOK, Rank, DepthIn
      <4> QED
        BY <4>1, <3>1, ParserAssumption DEF RecursionBounded
    <3>3. CASE top_call.wait \notin Inside
      <4>1. Len(calls) <= 5 * top_call.depth + (top_call.min + 1) /\ top_call.min \in 0..3
              /\ top_call.depth <= ParserMaxDepth + 1 /\ top_call.depth \in Nat
        BY <3>1, <3>3 DEF CallOK, Rank, DepthIn
      <4> QED
        BY <4>1, <3>1, ParserAssumption DEF RecursionBounded
    <3> QED
      BY <3>2, <3>3
  <2> QED
    BY <2>1, <2>2
<1> QED
  BY <1>1, ExprInvariant, PTL DEF ExprInv

\* A node of the arena refers to earlier nodes only, so that evaluator and
\* lowerer, which follow references without a bound, end for every text.
THEOREM ArenaInOrder == Spec => []ChildrenComeFirst
PROOF
<1>1. ParseInv => ChildrenComeFirst
  <2> SUFFICES ASSUME ParseInv, NEW i \in DOMAIN arena PROVE NodeOK(arena[i], i)
    BY DEF ChildrenComeFirst, NodeOK
  <2>1. PICK S : arena \in Seq(S)
    BY DEF ParseInv, ArenaOK, IsSeq
  <2>2. i \in 1..Len(arena)
    BY <2>1
  <2> QED
    BY <2>2 DEF ParseInv, ArenaOK
<1> QED
  BY <1>1, ExprInvariant, PTL DEF ExprInv

\* What lower_arena makes of an expression that ast_arena_eval has a value for
\* runs on vm_exec to that value, with one operand left on the stack: no operand
\* is missing, no stack too small, no step too many and nothing divided by zero.
THEOREM CompiledAgrees == Spec => []VmAgreesWithEval
PROOF
<1>1. ExprInv => VmAgreesWithEval
  <2> SUFFICES ASSUME ExprInv, tool = "xver", stage \in {"run", "EVALUATED"}
               PROVE  /\ status \in {"running", "ok", "ARENA_OOM"}
                      /\ status = "ok" => result = [val |-> ast_val.val, sp |-> 1]
    BY DEF VmAgreesWithEval
  <2>1. Ran /\ ast_val = Verdict /\ ast_val.err = "OK"
    BY DEF ExprInv, ToolInv
  <2> QED
    BY <2>1 DEF Ran, RunsBy
<1> QED
  BY <1>1, ExprInvariant, PTL

\* The code of an arena that is at most full always fits LIN_LOWER_CAP: a node
\* gives one instruction, and the operands of a node are not shared.
THEOREM LoweringFits == Spec => []LowerNeverFull
PROOF
<1>1. ExprInv => LowerNeverFull
  <2> SUFFICES ASSUME ExprInv, stage = "lower" PROVE lower_arena(node).err # "ARENA_OOM"
    BY DEF LowerNeverFull
  <2>1. ParseInv /\ ShapeInv /\ EnvOK /\ node \in Nodes
    BY DEF ExprInv, ToolInv, Parsed
  <2>2. lower_arena(node).err \in {"OK", "UNDEF_VAR"}
    BY <2>1, LowerGives
  <2> QED
    BY <2>2
<1> QED
  BY <1>1, ExprInvariant, PTL

\* A receipt that lin_c0 receipt verify passes states the value ast_arena_eval
\* gives for the expression and its input, with the steps of the whole code,
\* whichever field of the file was edited before.
THEOREM PassedReceiptTrue == Spec => []PassingReceiptIsTrue
PROOF
<1>1. ExprInv => PassingReceiptIsTrue
  <2> SUFFICES ASSUME ExprInv, stage = "PASS"
               PROVE  /\ ast_arena_eval[node] = Value(file.output)
                      /\ file.input = env[1].val
                      /\ file.steps = Len(module[1].code)
                      /\ file.sp = 1
    BY DEF PassingReceiptIsTrue
  <2>1. Ran /\ status = "ok" /\ FileOK /\ Root(file) = file.root
    BY DEF ExprInv, ToolInv
  <2>2. ParseInv /\ ShapeInv /\ EnvOK /\ node \in Nodes
    BY DEF ExprInv, ToolInv, Parsed
  <2>3. Verdict \in Values
    BY <2>2, LowerGives DEF Verdict
  <2>4. Root(file) = Root(Printed)
    BY <2>1 DEF FileOK
  <2>5. /\ file.output = result.val /\ file.steps = steps /\ file.sp = result.sp
        /\ file.input = env[1].val
    BY <2>4 DEF Root, Printed
  <2>6. PICK c, d, st : Plan(env, Verdict, c, d, st) /\ RunsBy(env, Verdict, c, d, st)
    BY <2>1 DEF Ran
  <2>7. Verdict.err = "OK" /\ result = [val |-> Verdict.val, sp |-> 1] /\ steps = Len(c) + 1
        /\ module = <<Fun(env, c)>>
    BY <2>1, <2>6 DEF RunsBy
  <2>8. Verdict = Value(Verdict.val)
    BY <2>3, <2>7 DEF Values, Value
  <2>9. Len(module[1].code) = Len(c) + 1
    <3>1. c \in Seq(Code)
      BY <2>6 DEF Plan
    <3>2. module[1].code = Append(c, RetIns)
      BY <2>7 DEF Fun
    <3> QED
      BY <3>1, <3>2, LoadedCode
  <2> QED
    BY <2>5, <2>7, <2>8, <2>9 DEF Verdict
<1> QED
  BY <1>1, ExprInvariant, PTL
=============================================================================
