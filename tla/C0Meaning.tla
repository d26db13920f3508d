----------------------------- MODULE C0Meaning -----------------------------
(***************************************************************************)
(* What a LIN function means, said without a compiler: a reference for the *)
(* code that Compiler0 makes.  Expressions are split at the operator that  *)
(* is applied last; statements are carried out on values by name.  A call  *)
(* that does not end has no meaning here, so this is asked only of runs    *)
(* that ended.  The definitions are recursive: this module is for TLC.     *)
(***************************************************************************)
EXTENDS Compiler0Tool

Ok(v) == [err |-> "OK", val |-> v]
Error(e) == [err |-> e, val |-> 0]

IsPunct(t, S) == t[1] = "punct" /\ t[2] \in S

\* Brackets open in front of token i.
Nesting(ts, i) ==
    Cardinality({j \in 1..i - 1 : IsPunct(ts[j], {"(", "[", "{"})})
      - Cardinality({j \in 1..i - 1 : IsPunct(ts[j], {")", "]", "}"})})

\* The bracket that closes the one at i.
Partner(ts, i) ==
    FirstOf({j \in i + 1..Len(ts) : Nesting(ts, j + 1) = Nesting(ts, i)})

From(ts, i) == SubSeq(ts, i, Len(ts))
Between(ts, i, j) == SubSeq(ts, i + 1, j - 1)

\* Places of t outside brackets.
Outer(ts, t) == {i \in DOMAIN ts : IsPunct(ts[i], {t}) /\ Nesting(ts, i) = 0}

RECURSIVE Pieces(_)
Pieces(ts) ==
    IF ts = <<>> THEN <<>>
    ELSE IF Outer(ts, ",") = {} THEN <<ts>>
    ELSE LET c == FirstOf(Outer(ts, ","))
         IN  <<SubSeq(ts, 1, c - 1)>> \o Pieces(From(ts, c + 1))

AllOps == {"||", "&&", "==", "!=", "<=", ">=", "<", ">", "<<", ">>", "|", "^", "&",
           "+", "-", "*", "%", "/"}

\* Operators that have an operand on both sides, outside brackets.
InfixOps(ts) ==
    {i \in 2..Len(ts) :
        /\ IsPunct(ts[i], AllOps)
        /\ ts[i - 1][1] # "punct" \/ IsPunct(ts[i - 1], {")", "]"})
        /\ Nesting(ts, i) = 0}

\* The last of the loosest.
LastApplied(ts) ==
    CHOOSE i \in InfixOps(ts) : \A j \in InfixOps(ts) :
        \/ Level(ts[i][2]) < Level(ts[j][2])
        \/ Level(ts[i][2]) = Level(ts[j][2]) /\ j <= i

The(S) == CHOOSE x \in S : TRUE

Computed(op, l, r) ==
    IF l.err # "OK" THEN l
    ELSE IF r.err # "OK" THEN r
    ELSE IF Results(op, l.val, r.val) = {} THEN Error("DIV_ZERO")
    ELSE Ok(The(Results(op, l.val, r.val)))

\* A function's variables: scalars and array elements, all 0 at first.
Fresh(f, args) ==
    [vars |-> [n \in {f.names[i] : i \in DOMAIN f.names} |->
                 LET own == {p \in 1..f.nparams : f.names[p] = n}
                 IN  IF own = {} THEN 0 ELSE args[The(own)]],
     elems |-> [i \in DOMAIN f.names |-> [k \in 0..f.arr_n[i] - 1 |-> 0]],
     names |-> f.names, err |-> "OK", done |-> FALSE, val |-> 0]

ArrayOf(s, name) == FirstOf({i \in DOMAIN s.names : s.names[i] = name})

\* Operands are looked at from the left, the second one of || and && only if needed.
Infix(op, l, r) ==
    CASE op = "||" -> IF l.err # "OK" \/ l.val # 0 THEN l ELSE r
      [] op = "&&" -> IF l.err # "OK" \/ l.val = 0 THEN l ELSE r
      [] OTHER -> Computed(Instr(op), l, r)

Signed(sign, v) ==
    IF v.err # "OK" THEN v ELSE Ok(The(UnaryResults(SignInstr(sign), v.val)))

\* Reading outside an array gives 0, writing changes nothing.
ElementAt(array, i) ==
    IF i.err # "OK" THEN i ELSE Ok(IF i.val \in DOMAIN array THEN array[i.val] ELSE 0)

Put(s, name, i, v) ==
    LET a == ArrayOf(s, name)
    IN  IF i \in DOMAIN s.elems[a] THEN [s EXCEPT !.elems[a][i] = v] ELSE s

\* What is done to s with a value, if there is one.
SetVar(s, name, v) ==
    IF v.err # "OK" THEN [s EXCEPT !.err = v.err] ELSE [s EXCEPT !.vars[name] = v.val]
SetElement(s, name, i, v) ==
    IF i.err # "OK" THEN [s EXCEPT !.err = i.err]
    ELSE IF v.err # "OK" THEN [s EXCEPT !.err = v.err]
    ELSE Put(s, name, i.val, v.val)
Answered(s, v) ==
    IF v.err # "OK" THEN [s EXCEPT !.err = v.err] ELSE [s EXCEPT !.done = TRUE, !.val = v.val]

Halts(s) == s.done \/ s.err # "OK"

RECURSIVE Meaning(_, _), ValueOf(_, _), CallValue(_, _), Run(_, _), Repeat(_, _, _, _),
          Round(_, _, _, _, _), Assign(_, _), Fill(_, _, _, _), Branch(_, _, _)

\* The value of the expression ts when the variables are s.
ValueOf(ts, s) ==
    LET n == Len(ts)
        k == LastApplied(ts)
        array == s.elems[ArrayOf(s, ts[1][2])]
        inside == Between(ts, 2, n)
    IN  IF InfixOps(ts) # {}
        THEN Infix(ts[k][2], ValueOf(SubSeq(ts, 1, k - 1), s), ValueOf(From(ts, k + 1), s))
        ELSE IF ts[1][1] = "number" THEN Ok(ts[1][2])
        ELSE IF IsPunct(ts[1], {"("}) THEN ValueOf(Between(ts, 1, n), s)
        ELSE IF ts[1][1] = "punct" THEN Signed(ts[1][2], ValueOf(Tail(ts), s))
        ELSE IF n = 1
        THEN Ok(IF ts[1][2] \in {"true", "false"} THEN Truth(ts[1][2] = "true") ELSE s.vars[ts[1][2]])
        ELSE IF IsPunct(ts[2], {"."}) THEN Ok(Cardinality(DOMAIN array))
        ELSE IF IsPunct(ts[2], {"["}) THEN ElementAt(array, ValueOf(inside, s))
        ELSE LET pieces == Pieces(inside)
             IN  CallValue(ts[1][2], [a \in DOMAIN pieces |-> ValueOf(pieces[a], s)])

\* A call with the values args.
CallValue(name, args) ==
    LET failed == {a \in DOMAIN args : args[a].err # "OK"}
    IN  IF failed # {} THEN args[FirstOf(failed)]
        ELSE IF name \in Intrinsics THEN Computed(IntrinsicInstr(name), args[1], args[2])
        ELSE Meaning(FirstOf(Callable(name)), [a \in DOMAIN args |-> args[a].val])

\* What function i returns.
Meaning(i, args) ==
    LET s == Run(fns[i].text, Fresh(fns[i], args))
    IN  [err |-> s.err, val |-> s.val]

\* The elements of a literal from the k-th on.
Fill(s, name, items, k) ==
    IF k > Len(items) \/ s.err # "OK" THEN s
    ELSE Fill(SetElement(s, name, Ok(k - 1), ValueOf(items[k], s)), name, items, k + 1)

Assign(ts, s) ==
    LET name == ts[1][2]
        eq == FirstOf(Outer(ts, "="))
    IN  IF Outer(ts, "=") = {} THEN s
        ELSE IF IsPunct(ts[eq + 1], {"["})
        THEN Fill(s, name, Pieces(Between(ts, eq + 1, Len(ts))), 1)
        ELSE IF IsPunct(ts[2], {"["})
        THEN SetElement(s, name, ValueOf(Between(ts, 2, Partner(ts, 2)), s),
                        ValueOf(From(ts, eq + 1), s))
        ELSE SetVar(s, name, ValueOf(From(ts, eq + 1), s))

\* While cond holds, block and then step; no condition holds always.
Repeat(cond, block, step, s) ==
    IF Halts(s) THEN s
    ELSE Round(cond, block, step, s, IF cond = <<>> THEN Ok(1) ELSE ValueOf(cond, s))

Round(cond, block, step, s, c) ==
    IF c.err # "OK" THEN [s EXCEPT !.err = c.err]
    ELSE IF c.val = 0 THEN s
    ELSE LET once == Run(block, s)
         IN  Repeat(cond, block, step,
                    IF step = <<>> \/ Halts(once) THEN once ELSE Assign(step, once))

\* The last token of an if chain whose block ends at e.
RECURSIVE ChainEnd(_, _)
ChainEnd(ts, e) ==
    IF e = Len(ts) \/ ~IsPunct(ts[e + 1], {":"}) THEN e
    ELSE IF IsPunct(ts[e + 2], {"("}) THEN ChainEnd(ts, Partner(ts, Partner(ts, e + 2) + 1))
    ELSE Partner(ts, e + 2)

\* An if, when its condition gives c, and what follows its chain.
Branch(ts, s, c) ==
    LET m == Partner(ts, 2)
        e == Partner(ts, m + 1)
        chain == ChainEnd(ts, e)
    IN  IF c.err # "OK" THEN [s EXCEPT !.err = c.err]
        ELSE IF c.val = 0 /\ chain # e /\ IsPunct(ts[e + 2], {"("})
        THEN Run(<<ts[1]>> \o From(ts, e + 2), s)
        ELSE Run(From(ts, chain + 1),
                 Run(IF c.val # 0 THEN Between(ts, m + 1, e)
                     ELSE IF chain = e THEN <<>> ELSE Between(ts, e + 2, chain), s))

\* The statements ts carried out on s.
Run(ts, s) ==
    LET m == Partner(ts, 2)          \* end of the parentheses after ? while for
        e == Partner(ts, m + 1)      \* end of the block behind them
        head == Between(ts, 2, m)    \* of a for: init ; cond ; { block } step
        s1 == FirstOf(Outer(head, ";"))
        s2 == FirstOf(Outer(head, ";") \ {s1})
        b == Partner(head, s2 + 1)
        semi == FirstOf(Outer(ts, ";"))
    IN  IF ts = <<>> \/ Halts(s) THEN s
        ELSE IF IsPunct(ts[1], {"^"}) THEN Answered(s, ValueOf(Between(ts, 1, semi), s))
        ELSE IF IsPunct(ts[1], {"?"}) THEN Branch(ts, s, ValueOf(head, s))
        ELSE IF ts[1] = Ident("while")
        THEN Run(From(ts, e + 1), Repeat(head, Between(ts, m + 1, e), <<>>, s))
        ELSE IF ts[1] = Ident("for")
        THEN Run(From(ts, m + 1),
                 Repeat(Between(head, s1, s2), Between(head, s2 + 1, b), From(head, b + 1),
                        Assign(SubSeq(head, 1, s1 - 1), s)))
        ELSE Run(From(ts, semi + 1), Assign(SubSeq(ts, 1, semi - 1), s))

-----------------------------------------------------------------------------
(***************************************************************************)
(* The property                                                            *)
(***************************************************************************)

\* No local is a scalar in one place and an array in another, and no two
\* parameters have one name.
Plain(i) ==
    /\ \A k \in DOMAIN fns[i].code : fns[i].code[k].op \in {"load", "store"} =>
          fns[i].arr_n[fns[i].code[k].a + 1] = 0
    /\ \A p, q \in DOMAIN sigs[i].params :
          sigs[i].params[p].name = sigs[i].params[q].name => p = q

\* The answer of the machine is the meaning of the source: precedence, short
\* circuits, chains, loops, arrays, calls and the order in which an error comes.
CompiledMeansSource ==
    (/\ stage = "source" /\ status \in {"ok", "DIV_ZERO"}
     /\ \A i \in Accepted : Plain(i)) =>
        Meaning(FirstOf(Asking(query.name)), query.args)
            = IF status = "ok" THEN Ok(result.val) ELSE Error("DIV_ZERO")
=============================================================================
