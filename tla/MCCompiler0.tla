---------------------------- MODULE MCCompiler0 ----------------------------
(***************************************************************************)
(* Instances of Compiler0Tool: sources over several parts of the language, *)
(* each up to a number of tokens, closing ones aside.                      *)
(***************************************************************************)
EXTENDS C0Meaning, TLC

P(name, type) == [name |-> name, type |-> type]
Sig(name, params) == [name |-> name, ret |-> IntType, params |-> params]

Main == Sig("main", <<P("a", IntType)>>)

Nothing == [size |-> 0, names |-> {"a"}, calls |-> {}, numbers |-> {1}, lengths |-> {},
            ops |-> {}, signs |-> {}, forms |-> {}, stmts |-> {"return"}]

\* Operators of several levels, a sign and parentheses.
Expressions ==
    [Nothing EXCEPT !.size = 7, !.ops = {"||", "&&", "<", "-", "*"}, !.signs = {"!"},
                    !.forms = {"paren"}, !.numbers = {2}]

\* Chains and loops, nested.
Control ==
    [Nothing EXCEPT !.size = 12, !.ops = {"-"},
                    !.stmts = {"assign", "return", "if", "while", "for"}]

\* Arrays of every length, as parameters and locals.
Arrays ==
    [Nothing EXCEPT !.size = 9, !.names = {"a", "b"}, !.lengths = {0, 2, MaxArrLen + 1},
                    !.forms = {"index", "member"},
                    !.stmts = {"assign", "return", "declare", "index", "literal"}]

\* Calls, with recursion, from bodies that may fail to compile.
Calls ==
    [Nothing EXCEPT !.size = 4, !.calls = {"main", "g"}, !.ops = {"/"}, !.numbers = {0}]

\* The forms that are rejected or stand for a single instruction.
Forms ==
    [Nothing EXCEPT !.size = 6, !.calls = {"_lia_shr", "@rem", "nobody"}, !.ops = {"<<", "%", "|"},
                    !.signs = {"~", "-"}, !.forms = {"range", "bool", "string"},
                    !.stmts = {"return", "hash"}]

Source(sigs_, l) == [sigs |-> sigs_, full |-> FALSE, lang |-> l]

ArrayParam == <<Sig("main", <<P("a", <<"array", 1>>)>>)>>
G(params) == Sig("g", params)
Two(params) == <<Main, G(params)>>

MCSources ==
    {Source(<<Main>>, Expressions), Source(<<Main>>, Control), Source(<<Main>>, Forms),
     Source(<<Main>>, Arrays), Source(ArrayParam, [Arrays EXCEPT !.size = 12, !.names = {"a"}, !.lengths = {2}]),
     Source(Two(<<>>), Calls), Source(Two(<<P("a", IntType)>>), Calls),
     [Source(<<Main>>, Forms) EXCEPT !.full = TRUE]}
      \cup {Source(Two(params), [Calls EXCEPT !.size = 3]) :
              params \in {<<P("a", <<"other">>)>>, <<P("a", <<"array", 0>>)>>,
                          <<P("a", IntType), P("a", IntType)>>,
                          <<P("a", IntType), P("b", IntType), P("c", IntType)>>}}
      \cup {Source(<<Main, g, Sig("h", <<>>)>>, [Calls EXCEPT !.size = 3, !.calls = {"g", "h"}]) :
              g \in {G(<<>>), [G(<<>>) EXCEPT !.ret = <<"other">>]}}
      \cup {Source(<<Main, Sig("nobody", <<>>)>>, [Calls EXCEPT !.size = 3, !.calls = {"nobody"}])}

\* Only arrays.
ArraySources == {Source(<<Main>>, Arrays)}

MCSafe == [n \in {"main", "g", "h", "nobody"} |-> IF n = "h" THEN "g" ELSE n]

MCNameLen == [n \in {"main", "g", "h", "nobody"} |->
                CASE n = "main" -> 4 [] n = "nobody" -> 6 [] OTHER -> 1]

Line(c, name, args) == [cmd |-> c, name |-> name, args |-> args]

MCCommandLines ==
    {Line(c, "main", <<n>>) : c \in {"roundtrip", "roundtrip-jit"}, n \in {0, 3}}
      \cup {Line(c, "main", <<3>>) : c \in {"vmfull", "image", "jit", "jit-verify"}}
      \cup {Line("vm", "main", <<>>), Line("vm", "nobody", <<>>),
            Line("roundtrip-jit", "nobody", <<>>)}
=============================================================================
