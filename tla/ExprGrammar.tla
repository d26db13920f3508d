---------------------------- MODULE ExprGrammar ----------------------------
(***************************************************************************)
(* Reference: the grammar of expressions, without a parser, and what the   *)
(* parser owes to it.  It is recursive over data, so it is for TLC.        *)
(***************************************************************************)
EXTENDS ExprReceipt

RECURSIVE TokensFrom(_)
TokensFrom(p) ==
    LET t == NextToken(p)
    IN  IF t.kind = "EOF" THEN <<>> ELSE <<t>> \o TokensFrom(t.end)

\* How many parentheses are open in front of token i.
Level(toks, i) ==
    LET count(k) == Cardinality({j \in 1..i - 1 : toks[j].kind = k})
    IN  count("(") - count(")")

\* Operators that stand between two operands outside parentheses.
Infix(toks) ==
    {i \in 2..Len(toks) : /\ toks[i].kind \in BinaryTags
                          /\ toks[i - 1].kind \in {"INT_LIT", "IDENT", ")"}
                          /\ Level(toks, i) = 0}

NoTree == <<"none">>

\* The tree of an expression: the last of its loosest operators is applied last,
\* a sign binds tighter than any of them, and calls take a list of expressions.
RECURSIVE Tree(_), ArgTrees(_)
Tree(toks) ==
    LET n == Len(toks)
        inner == SubSeq(toks, 2, n - 1)
        kind(i) == toks[i].kind
        loosest == {i \in Infix(toks) : \A j \in Infix(toks) :
                       get_precedence(kind(i)) <= get_precedence(kind(j))}
        k == CHOOSE i \in loosest : \A j \in loosest : j <= i
        made(tag, kids) == IF \E i \in DOMAIN kids : kids[i] = NoTree THEN NoTree
                           ELSE <<tag>> \o kids
        args == IF n = 3 THEN <<>> ELSE ArgTrees(SubSeq(toks, 3, n - 1))
    IN  IF n = 0 THEN NoTree
        ELSE IF n = 1 /\ kind(1) = "INT_LIT" THEN <<"lit", toks[1].text>>
        ELSE IF n = 1 /\ kind(1) = "IDENT" THEN <<"var_ref", toks[1].text>>
        ELSE IF loosest # {} THEN
            made(kind(k), <<Tree(SubSeq(toks, 1, k - 1)), Tree(SubSeq(toks, k + 1, n))>>)
        ELSE IF kind(1) = "+" THEN made("unary_pos", <<Tree(Tail(toks))>>)
        ELSE IF kind(1) = "-" THEN made("unary_neg", <<Tree(Tail(toks))>>)
        ELSE IF kind(1) = "(" /\ kind(n) = ")" THEN Tree(inner)
        ELSE IF n >= 3 /\ kind(1) = "IDENT" /\ kind(2) = "(" /\ kind(n) = ")"
        THEN IF \E i \in DOMAIN args : args[i] = NoTree THEN NoTree
             ELSE <<"call", toks[1].text, args>>
        ELSE NoTree

\* The trees of expressions with commas between them.
ArgTrees(toks) ==
    LET commas == {i \in DOMAIN toks : toks[i].kind = "," /\ Level(toks, i) = 0}
        c == CHOOSE i \in commas : \A j \in commas : i <= j
    IN  IF commas = {} THEN <<Tree(toks)>>
        ELSE <<Tree(SubSeq(toks, 1, c - 1))>> \o ArgTrees(SubSeq(toks, c + 1, Len(toks)))

\* The tree the arena holds under node n, and the arguments up to call_arg n:
\* node 0 is never a call_arg, so a zero ends the chain.
RECURSIVE ArenaTree(_), ArenaArgs(_)
ArenaTree(n) ==
    LET a == arena[n + 1]
    IN  CASE a.tag \in Leaf -> <<a.tag, a.text>>
          [] a.tag \in UnaryTags -> <<a.tag, ArenaTree(a.lhs)>>
          [] a.tag \in BinaryTags -> <<a.tag, ArenaTree(a.lhs), ArenaTree(a.rhs)>>
          [] a.tag = "call" -> <<"call", a.text, ArenaArgs(a.lhs)>>

ArenaArgs(n) ==
    IF n = 0 THEN <<>>
    ELSE ArenaArgs(arena[n + 1].rhs) \o <<ArenaTree(arena[n + 1].lhs)>>

-----------------------------------------------------------------------------
\* The parser accepts exactly the expressions of the grammar, limits aside, and
\* the arena holds the tree of the grammar: 100 - 20 - 10 groups to the left and
\* a product inside a comparison stays whole, whatever signs, parentheses and
\* calls stand between (lin_parse.c:4).
ParsesTheGrammar ==
    (tool = "xver" /\ parsing \notin {"primary", "return", "ARENA_OOM", "PARSE_TOO_DEEP"}) =>
        LET tree == Tree(TokensFrom(0))
        IN  IF parsing = "OK" THEN ArenaTree(node) = tree ELSE tree = NoTree
=============================================================================
