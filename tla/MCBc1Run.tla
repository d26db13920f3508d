------------------------------ MODULE MCBc1Run ------------------------------
(***************************************************************************)
(* Images for Bc1Run: a few that are whole, and every one that differs from*)
(* one of them in a single field.                                          *)
(***************************************************************************)
EXTENDS Bc1Run

I(op, a) == [op |-> op, a |-> a]

F(name, nparams, arrs, code) ==
    [name |-> name, nparams |-> nparams, nlocals |-> 2, arrs |-> arrs, code |-> code]

Arr(l, n) == [local |-> l, len |-> n]

Whole(fns) ==
    [short |-> FALSE, magic |-> TRUE, version |-> 1, profile |-> 1, flags |-> 0,
     strings |-> <<[text |-> "main", len |-> 1], [text |-> "aux", len |-> 1]>>,
     regions |-> <<>>, abis |-> <<0, 8>>, fns |-> fns, cut |-> "none", hash |-> TRUE]

\* Loops with an array, a call with an argument, and recursion.
Looping == F(0, 0, <<Arr(0, 2)>>,
             <<I("push", 1), I("push", 5), I("store_index", 0), I("jump", 0)>>)
Calling == F(0, 1, <<Arr(1, 1)>>,
             <<I("load", 0), I("call", 1), I("load_index", 1), I("ret", 0)>>)
Callee == F(1, 1, <<Arr(1, 2)>>,
            <<I("load", 0), I("jump_if_false", 3), I("arr_len", 1), I("load", 0)>>)
Recursing == F(1, 1, <<>>, <<I("load", 0), I("call", 1), I("ret", 0)>>)

Bases == {Whole(<<Looping>>), Whole(<<Calling, Callee>>), Whole(<<Calling, Recursing>>)}

\* One field of the header or of a table is off.
HeaderDefects(img) ==
    {[img EXCEPT !.short = TRUE], [img EXCEPT !.magic = FALSE],
     [img EXCEPT !.version = 2], [img EXCEPT !.profile = 3],
     [img EXCEPT !.flags = 1], [img EXCEPT !.hash = FALSE],
     [img EXCEPT !.abis = <<9>>], [img EXCEPT !.abis = [i \in 1..10 |-> 0]],
     [img EXCEPT !.regions = <<[id |-> 0, cells |-> 1]>>],
     [img EXCEPT !.strings[1].len = MaxStrBytes],
     [img EXCEPT !.fns = [i \in 1..MaxFns + 1 |-> img.fns[1]]]}
      \cup {[img EXCEPT !.cut = c] : c \in Sections \cup {"trailing"}}
      \cup {[img EXCEPT !.profile = 2, !.regions = rs] :
              rs \in {<<[id |-> 0, cells |-> c]>> : c \in {MaxC0Cells, MaxC0Cells + 1}}
                       \cup {<<[id |-> 1, cells |-> 0]>>}}

\* One field of the first function is off.
FunctionDefects(img) ==
    {[img EXCEPT !.fns[1].name = 2], [img EXCEPT !.fns[1].code = <<>>],
     [img EXCEPT !.fns[1].nparams = 3], [img EXCEPT !.fns[1].nlocals = 3],
     [img EXCEPT !.fns[1].nlocals = 1], [img EXCEPT !.fns[1].nlocals = 0]}
      \cup {[img EXCEPT !.fns[1].arrs = arrs] :
              arrs \in {<<Arr(0, 0)>>, <<Arr(0, MaxArrLen + 1)>>, <<Arr(2, 1)>>,
                        <<Arr(0, 1), Arr(0, 1)>>, <<Arr(0, 1), Arr(1, 1)>>}}

\* One instruction of the first function is another one.
CodeDefects(img) ==
    UNION {{[img EXCEPT !.fns[1].code[i] = I(op, a)] :
              i \in DOMAIN img.fns[1].code, op \in Ops \cup {Unknown}, a \in -1..4}}

MCImages ==
    UNION {{img} \cup HeaderDefects(img) \cup FunctionDefects(img) \cup CodeDefects(img) :
             img \in Bases}

\* A function without parameters is called when the stack is full.
FullStackCall ==
    {Whole(<<F(0, 0, <<>>, <<I("push", 1), I("push", 1), I("call", 1), I("ret", 0)>>),
             F(1, 0, <<>>, <<I("push", 1), I("ret", 0)>>)>>)}

MCTexts == {"main", "nobody"}
MCArgs == {<<>>, <<1>>, <<1, 1, 1>>}
=============================================================================
