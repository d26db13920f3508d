----------------------------- MODULE Compiler0 -----------------------------
(***************************************************************************)
(* c0_build (transpile/c/tool/lin_c0_front.c): LIN functions compiled to   *)
(* LinVM code in one pass, with jumps patched later.                       *)
(*                                                                         *)
(* The compiler is recursive descent; "work" is what its activations have  *)
(* still to do, the next thing first:                                      *)
(*   unary, rest      an operand, then the operator loops of levels a..n   *)
(*   emit, patch      one instruction; the jumps in "ends" get their target*)
(*   close, semi      a token that must be there, or may be                *)
(*   args, elem, more the argument list of a call, an array literal        *)
(*   body, block      the statement loops of a function and of { }         *)
(*   assign, store    an assignment, and its end when it is to a scalar    *)
(*   if, then         an if chain after its condition and after its block  *)
(*   while, cond, for, step, loop   loops, likewise                        *)
(* The source is not given beforehand: an action reads the tokens that make*)
(* the parser take its branch, any that "lang" has, and "text" is what was *)
(* read so far, in the order of reading (the step of a for after its       *)
(* block).  Memory does not run out.  Code positions and locals count from *)
(* 0, as in the code.                                                      *)
(***************************************************************************)
EXTENDS LinVM

CONSTANTS
    Sources,     \* [sigs, full, lang]: the signatures of a module, its profile and
                 \* what bodies may hold: [size, names, calls, numbers, lengths, ops, signs,
                 \* forms, stmts], size being a bound on their tokens
    NoName       \* no identifier

VARIABLES
    sigs,      \* C0FnInfo of the functions
    lang,      \* what bodies are made of
    full,      \* allow_shift: the command is vmfull
    fns,       \* VmFn of the functions, with the names of locals and the text
    cur,       \* functions whose bodies are done
    text,      \* tokens read
    code,      \* comp.code
    locals,    \* comp.locals
    arr_n,     \* comp.arr_n
    work,      \* what is left to do
    reject,    \* comp.reject
    building   \* "next" between functions, "body" in one, "built" at the end

compVars == <<text, code, locals, arr_n, work, reject>>
buildVars == <<sigs, lang, full, fns, cur, compVars, building>>

-----------------------------------------------------------------------------
(***************************************************************************)
(* Tokens, operators and work                                              *)
(***************************************************************************)
Punct(t) == <<"punct", t>>
Ident(name) == <<"ident", name>>
Num(n) == <<"number", n>>

\* Levels of the operator loops, c0_e_or outermost.
Levels == 0..8

Level(op) ==
    CASE op = "||" -> 0
      [] op = "&&" -> 1
      [] op \in {"==", "!=", "<=", ">=", "<", ">"} -> 2
      [] op \in {"<<", ">>"} -> 3
      [] op = "|" -> 4
      [] op = "^" -> 5
      [] op = "&" -> 6
      [] op \in {"+", "-"} -> 7
      [] op \in {"*", "%", "/"} -> 8

Operators == {"||", "&&", "==", "!=", "<=", ">=", "<", ">", "<<", ">>", "|", "^", "&",
              "+", "-", "*", "%", "/"}
Signs == {"~", "-", "!"}
Shifts == {"<<", ">>"}

\* A lexed source: lists of functions and of parameters, numbers that fit in a
\* word, and operators that c0_e_or and the rest know.
ASSUME CompilerAssumption ==
    \A s \in Sources :
        /\ Len(s.sigs) \in Nat /\ DOMAIN s.sigs = 1..Len(s.sigs)
        /\ \A i \in DOMAIN s.sigs :
              /\ Len(s.sigs[i].params) \in Nat
              /\ DOMAIN s.sigs[i].params = 1..Len(s.sigs[i].params)
        /\ s.full \in BOOLEAN
        /\ s.lang.numbers \subseteq Word
        /\ s.lang.ops \subseteq Operators
        /\ s.lang.signs \subseteq Signs

Instr(op) ==
    CASE op = "==" -> "eq" [] op = "!=" -> "ne" [] op = "<=" -> "le"
      [] op = ">=" -> "ge" [] op = "<" -> "lt" [] op = ">" -> "gt"
      [] op = "<<" -> "shl" [] op = ">>" -> "shr"
      [] op = "|" -> "or" [] op = "^" -> "xor" [] op = "&" -> "and"
      [] op = "+" -> "add" [] op = "-" -> "sub"
      [] op = "*" -> "mul" [] op = "%" -> "mod" [] op = "/" -> "div"
      [] op = "||" -> "jump_if_true_keep" [] op = "&&" -> "jump_if_false_keep"

SignInstr(sign) ==
    CASE sign = "~" -> "not" [] sign = "-" -> "neg" [] sign = "!" -> "lognot"

\* Calls that are one instruction.
Intrinsics == {"_lia_shl", "_lia_shr", "_lia_ushr", "_lia_mod", "@rem"}

IntrinsicInstr(name) ==
    CASE name = "_lia_shl" -> "shl" [] name = "_lia_shr" -> "shr"
      [] name = "_lia_ushr" -> "ushr" [] OTHER -> "mod"

Ins(op, a) == [op |-> op, a |-> a]

Item(kind) == [kind |-> kind, op |-> "none", a |-> 0, n |-> 0, name |-> NoName, ends |-> {}]
Do(kind, a, n) == [Item(kind) EXCEPT !.a = a, !.n = n]
Emit(op, a) == [Item("emit") EXCEPT !.op = op, !.a = a]
Close(t) == [Item("close") EXCEPT !.op = t]
PatchAt(S) == [Item("patch") EXCEPT !.ends = S]
Operand(from) == <<Item("unary"), Do("rest", from, 8)>>
c0_expr == Operand(0)

c0_here == Len(code)

-----------------------------------------------------------------------------
(***************************************************************************)
(* How an action reads, rejects, emits and goes on                         *)
(***************************************************************************)
At(kinds) == building = "body" /\ work # <<>> /\ Head(work).kind \in kinds

item == Head(work)

\* The next tokens are toks.  What closes something may pass the bound on the
\* size of a source.
Accept(toks) == text' = text \o toks
Read(toks) == Len(text) < lang.size /\ Accept(toks)

\* c0_fail: everything unwinds.
c0_fail(why) ==
    /\ reject' = why
    /\ work' = <<>>
    /\ UNCHANGED <<code, locals, arr_n>>

\* The item in hand is replaced by items, after instrs were emitted.
EmitThen(instrs, items) ==
    /\ code' = code \o instrs
    /\ work' = items \o Tail(work)
    /\ UNCHANGED <<locals, arr_n, reject>>

Then(items) == EmitThen(<<>>, items)

Outside == UNCHANGED <<sigs, lang, full, fns, cur, building>>

\* c0_find_local, c0_local_arr_n, c0_find_fn.
Found(name) == \E i \in DOMAIN locals : locals[i] = name
Slot(name) == (CHOOSE i \in DOMAIN locals : locals[i] = name) - 1
IsArray(name) == Found(name) /\ arr_n[Slot(name) + 1] > 0
IsScalar(name) == Found(name) /\ arr_n[Slot(name) + 1] = 0
Callable(name) == {i \in DOMAIN fns : fns[i].sig_ok /\ fns[i].name = name}
FirstOf(S) == CHOOSE i \in S : \A j \in S : i <= j

\* Mutant: one local too many.
FullLate(name) == ~Found(name) /\ Len(locals) > MaxLocals

\* c0_local_idx: the local is added when it is new and there is room.
Full(name) == ~Found(name) /\ Len(locals) >= MaxLocals
SlotAfter(name) == IF Found(name) THEN Slot(name) ELSE Len(locals)
LocalsWith(name) == IF Found(name) THEN locals ELSE Append(locals, name)
ArraysWith(name) == IF Found(name) THEN arr_n ELSE Append(arr_n, 0)

-----------------------------------------------------------------------------
(***************************************************************************)
(* Expressions                                                             *)
(***************************************************************************)

\* No token fits: an operand is missing, or the tokens have come to an end.
Unexpected ==
    /\ At({"unary", "close", "args", "literal", "more", "assign", "block",
           "if", "while", "cond", "for"})
    /\ c0_fail("VM_REJ_PARSE")
    /\ UNCHANGED text
    /\ Outside

Sign ==
    /\ At({"unary"})
    /\ \E sign \in lang.signs :
          /\ Read(<<Punct(sign)>>)
          /\ Then(<<Item("unary"), Emit(SignInstr(sign), 0)>>)
    /\ Outside

\* A literal past the largest word is rejected.
Number ==
    /\ At({"unary"})
    /\ \/ \E n \in lang.numbers : Read(<<Num(n)>>) /\ EmitThen(<<Ins("push", n)>>, <<>>)
       \/ /\ "range" \in lang.forms
          /\ Read(<<Num(Half)>>)
          /\ c0_fail("VM_REJ_LITERAL_RANGE")
       \/ /\ "bool" \in lang.forms
          /\ \E b \in {"true", "false"} :
                /\ Read(<<Ident(b)>>)
                /\ EmitThen(<<Ins("push", Truth(b = "true"))>>, <<>>)
       \/ /\ "string" \in lang.forms
          /\ Read(<<Punct("string")>>)
          /\ c0_fail("VM_REJ_STRING_LITERAL")
    /\ Outside

Paren ==
    /\ At({"unary"})
    /\ "paren" \in lang.forms
    /\ Read(<<Punct("(")>>)
    /\ Then(c0_expr \o <<Close(")")>>)
    /\ Outside

CloseTokens(t) == IF t = "]=" THEN <<Punct("]"), Punct("=")>> ELSE <<Punct(t)>>

\* The token that has to be there is there.
Closed ==
    /\ At({"close"})
    /\ Accept(CloseTokens(item.op))
    /\ Then(<<>>)
    /\ Outside

LocalRef ==
    /\ At({"unary"})
    /\ \E name \in lang.names :
          /\ Read(<<Ident(name)>>)
          /\ \/ IsScalar(name) /\ EmitThen(<<Ins("load", Slot(name))>>, <<>>)
             \/ IsArray(name) /\ c0_fail("VM_REJ_ARRAY_AS_SCALAR")
             \/ ~Found(name) /\ c0_fail("VM_REJ_UNBOUND_IDENT")
    /\ Outside

IndexRef ==
    /\ At({"unary"})
    /\ "index" \in lang.forms
    /\ \E name \in lang.names :
          /\ Read(<<Ident(name), Punct("[")>>)
          /\ \/ /\ IsArray(name)
                /\ Then(c0_expr \o <<Close("]"), Emit("load_index", Slot(name))>>)
             \/ IsScalar(name) /\ c0_fail("VM_REJ_INDEX_NOT_ARRAY")
             \/ ~Found(name) /\ c0_fail("VM_REJ_UNBOUND_IDENT")
    /\ Outside

Member ==
    /\ At({"unary"})
    /\ "member" \in lang.forms
    /\ \E name \in lang.names :
          \/ /\ Read(<<Ident(name), Punct("."), Ident("length")>>)
             /\ \/ IsArray(name) /\ EmitThen(<<Ins("arr_len", Slot(name))>>, <<>>)
                \/ IsScalar(name) /\ c0_fail("VM_REJ_LENGTH_NOT_ARRAY")
                \/ ~Found(name) /\ c0_fail("VM_REJ_UNBOUND_IDENT")
          \/ Read(<<Ident(name), Punct(".")>>) /\ c0_fail("VM_REJ_MEMBER_ACCESS")
    /\ Outside

\* The end of a call with argc arguments.
CallOf(name, argc) ==
    \/ /\ name \in Intrinsics /\ argc = 2
       /\ EmitThen(<<Ins(IntrinsicInstr(name), 0)>>, <<>>)
    \/ /\ name \in Intrinsics /\ argc # 2
       /\ c0_fail("VM_REJ_ARITY")
    \/ /\ name \notin Intrinsics /\ Callable(name) # {}
       /\ LET fi == FirstOf(Callable(name)) IN
          \/ fns[fi].nparams = argc /\ EmitThen(<<Ins("call", fi - 1)>>, <<>>)
          \/ fns[fi].nparams # argc /\ c0_fail("VM_REJ_ARITY")
    \/ /\ name \notin Intrinsics /\ Callable(name) = {}
       /\ c0_fail("VM_REJ_UNKNOWN_CALL")

CallBegin ==
    /\ At({"unary"})
    /\ \E name \in lang.calls :
          \/ /\ Read(<<Ident(name), Punct("("), Punct(")")>>)
             /\ CallOf(name, 0)
          \/ /\ Read(<<Ident(name), Punct("(")>>)
             /\ Then(c0_expr \o <<[Do("args", 0, 1) EXCEPT !.name = name]>>)
    /\ Outside

\* After an argument.
Argument ==
    /\ At({"args"})
    /\ \/ /\ Read(<<Punct(",")>>)
          /\ Then(c0_expr \o <<[item EXCEPT !.n = @ + 1]>>)
       \/ /\ Accept(<<Punct(")")>>)
          /\ CallOf(item.name, item.n)
    /\ Outside

\* Mutant: the left operand stays on the stack.
ShortCircuitWithoutPop(op) == <<Ins(Instr(op), 0)>>

\* || and && jump over their right operand, which replaces the left one.
ShortCircuit(op) == <<Ins(Instr(op), 0), Ins("pop", 0)>>

\* Mutant: the right operand takes operators of the same level.
RightOfFlat(op) == Operand(Level(op))

\* The right operand is compiled one level further in.
RightOf(op) == Operand(Level(op) + 1)

\* An operand has been compiled and an operator of levels a..n follows: the loop
\* of its level takes it, compiles the right operand and looks again.
Operator ==
    /\ At({"rest"})
    /\ \E op \in {o \in lang.ops : Level(o) \in item.a..item.n} :
          /\ Read(<<Punct(op)>>)
          /\ LET again == Do("rest", item.a, Level(op)) IN
             \/ /\ Level(op) < 2
                /\ EmitThen(ShortCircuit(op), RightOf(op) \o <<PatchAt({c0_here}), again>>)
             \/ /\ Level(op) >= 2 /\ (op \in Shifts => full)
                /\ Then(RightOf(op) \o <<Emit(Instr(op), 0), again>>)
             \/ op \in Shifts /\ ~full /\ c0_fail("VM_REJ_SHIFT")
    /\ Outside

\* No operator of these levels follows: the loops end.
NoOperator ==
    /\ At({"rest"})
    /\ Then(<<>>)
    /\ UNCHANGED text
    /\ Outside

c0_emit ==
    /\ At({"emit"})
    /\ EmitThen(<<Ins(item.op, item.a)>>, <<>>)
    /\ UNCHANGED text
    /\ Outside

Patched(c, S, to) ==
    [i \in DOMAIN c |-> IF i - 1 \in S THEN [c[i] EXCEPT !.a = to] ELSE c[i]]

c0_patch ==
    /\ At({"patch"})
    /\ code' = Patched(code, item.ends, c0_here)
    /\ work' = Tail(work)
    /\ UNCHANGED <<text, locals, arr_n, reject>>
    /\ Outside
-----------------------------------------------------------------------------
(***************************************************************************)
(* Assignments                                                             *)
(***************************************************************************)
AssignIndex ==
    /\ At({"assign"})
    /\ "index" \in lang.stmts
    /\ \E name \in lang.names :
          /\ Read(<<Ident(name), Punct("[")>>)
          /\ \/ /\ IsArray(name)
                /\ Then(c0_expr \o <<Close("]=")>> \o c0_expr
                           \o <<Emit("store_index", Slot(name))>>)
             \/ IsScalar(name) /\ c0_fail("VM_REJ_INDEX_NOT_ARRAY")
             \/ ~Found(name) /\ c0_fail("VM_REJ_UNBOUND_IDENT")
    /\ Outside

\* name : [n] int.  The local becomes an array even when it was a scalar.
Declare ==
    /\ At({"assign"})
    /\ "declare" \in lang.stmts
    /\ \E name \in lang.names, n \in lang.lengths :
          \/ /\ n \notin 1..MaxArrLen
             /\ Read(<<Ident(name), Punct(":"), Num(n)>>)
             /\ c0_fail("VM_REJ_ARRAY_TOO_LARGE")
          \/ /\ n \in 1..MaxArrLen
             /\ Read(<<Ident(name), Punct(":"), Num(n)>>)
             /\ \/ c0_fail("VM_REJ_ARRAY_ELEM_NOT_INT")
                \/ Full(name) /\ c0_fail("VM_REJ_TOO_MANY_LOCALS")
                \/ /\ ~Full(name)
                   /\ locals' = LocalsWith(name)
                   /\ arr_n' = [ArraysWith(name) EXCEPT ![SlotAfter(name) + 1] = n]
                   /\ \E literal \in {<<>>, <<Do("literal", SlotAfter(name), 0)>>} :
                         work' = literal \o Tail(work)
                   /\ UNCHANGED <<code, reject>>
    /\ Outside

\* name = [ ... ]
AssignLiteral ==
    /\ At({"assign"})
    /\ "literal" \in lang.stmts
    /\ \E name \in lang.names :
          /\ Read(<<Ident(name)>>)
          /\ \/ IsArray(name) /\ Then(<<Do("literal", Slot(name), 0)>>)
             \/ Full(name) /\ c0_fail("VM_REJ_TOO_MANY_LOCALS")
             \/ ~IsArray(name) /\ ~Full(name) /\ c0_fail("VM_REJ_INDEX_NOT_ARRAY")
    /\ Outside

\* c0_emit_arr_lit opens, with no element or a first one.
Literal ==
    /\ At({"literal"})
    /\ \/ Accept(<<Punct("="), Punct("["), Punct("]")>>) /\ Then(<<>>)
       \/ Read(<<Punct("="), Punct("[")>>) /\ Then(<<[item EXCEPT !.kind = "elem"]>>)
    /\ Outside

\* The n-th element of the literal for local a.
ArrayElement ==
    /\ At({"elem"})
    /\ \/ /\ item.n >= arr_n[item.a + 1]
          /\ c0_fail("VM_REJ_ARRAY_LIT_LEN")
       \/ /\ item.n < arr_n[item.a + 1]
          /\ EmitThen(<<Ins("push", item.n)>>,
                      c0_expr \o <<Emit("store_index", item.a), [item EXCEPT !.kind = "more"]>>)
    /\ UNCHANGED text
    /\ Outside

MoreElements ==
    /\ At({"more"})
    /\ \/ /\ Read(<<Punct(",")>>)
          /\ Then(<<[item EXCEPT !.kind = "elem", !.n = @ + 1]>>)
       \/ Accept(<<Punct("]")>>) /\ Then(<<>>)
    /\ Outside

AssignScalar ==
    /\ At({"assign"})
    /\ \E name \in lang.names :
          /\ Read(<<Ident(name), Punct("=")>>)
          /\ Then(c0_expr \o <<[Item("store") EXCEPT !.name = name]>>)
    /\ Outside

\* The local of the left side is looked for, or added, after the right side.
StoreScalar ==
    /\ At({"store"})
    /\ \/ Full(item.name) /\ c0_fail("VM_REJ_TOO_MANY_LOCALS")
       \/ IsArray(item.name) /\ c0_fail("VM_REJ_ARRAY_AS_SCALAR")
       \/ /\ ~Full(item.name) /\ ~IsArray(item.name)
          /\ locals' = LocalsWith(item.name)
          /\ arr_n' = ArraysWith(item.name)
          /\ code' = Append(code, Ins("store", SlotAfter(item.name)))
          /\ work' = Tail(work)
          /\ UNCHANGED reject
    /\ UNCHANGED text
    /\ Outside

\* The left side is not a name, or something else than an assignment follows it.
Unsupported ==
    /\ At({"assign", "close"})
    /\ item.kind = "close" => item.op = "]="
    /\ c0_fail("VM_REJ_UNSUPPORTED_STMT")
    /\ UNCHANGED text
    /\ Outside

-----------------------------------------------------------------------------
(***************************************************************************)
(* Statements                                                              *)
(***************************************************************************)
Statement(items) == Then(items \o <<item>>)

AssignStmt ==
    /\ At({"body", "block"})
    /\ "assign" \in lang.stmts
    /\ Statement(<<Item("assign"), Close(";")>>)
    /\ UNCHANGED text
    /\ Outside

ReturnStmt ==
    /\ At({"body", "block"})
    /\ "return" \in lang.stmts
    /\ Read(<<Punct("^")>>)
    /\ Statement(c0_expr \o <<Item("semi"), Emit("ret", 0)>>)
    /\ Outside

\* A semicolon that may be left out: text has one in any case.
OptionalSemicolon ==
    /\ At({"semi"})
    /\ Accept(<<Punct(";")>>)
    /\ Then(<<>>)
    /\ Outside

\* An increment loop of the older syntax.
HashLoop ==
    /\ At({"body", "block"})
    /\ "hash" \in lang.stmts
    /\ Read(<<Punct("#")>>)
    /\ c0_fail("VM_REJ_FOR_LOOP")
    /\ Outside

If ==
    /\ At({"body", "block"})
    /\ "if" \in lang.stmts
    /\ Read(<<Punct("?"), Punct("(")>>)
    /\ Statement(c0_expr \o <<Item("if")>>)
    /\ Outside

\* After the condition of an if: the jump over its block.
IfBlock ==
    /\ At({"if"})
    /\ Accept(<<Punct(")"), Punct("{")>>)
    /\ EmitThen(<<Ins("jump_if_false", 0)>>,
                <<Item("block"), [Do("then", c0_here, 0) EXCEPT !.ends = item.ends]>>)
    /\ Outside

\* After the block of an if: a jump to the end of the chain, behind which a failed
\* condition goes on; then the next test, the else block, or the end.
ThenEnd ==
    LET ends == item.ends \cup {c0_here} IN
    /\ At({"then"})
    /\ code' = Append(Patched(code, {item.a}, c0_here + 1), Ins("jump", 0))
    /\ \/ /\ Read(<<Punct(":"), Punct("(")>>)
          /\ work' = c0_expr \o <<[Item("if") EXCEPT !.ends = ends]>> \o Tail(work)
       \/ /\ Read(<<Punct(":"), Punct("{")>>)
          /\ work' = <<Item("block"), PatchAt(ends)>> \o Tail(work)
       \/ /\ UNCHANGED text
          /\ work' = <<PatchAt(ends)>> \o Tail(work)
    /\ UNCHANGED <<locals, arr_n, reject>>
    /\ Outside

While ==
    /\ At({"body", "block"})
    /\ "while" \in lang.stmts
    /\ Read(<<Ident("while"), Punct("(")>>)
    /\ Statement(c0_expr \o <<Do("while", 0, c0_here)>>)
    /\ Outside

WhileBlock ==
    /\ At({"while"})
    /\ Accept(<<Punct(")"), Punct("{")>>)
    /\ EmitThen(<<Ins("jump_if_false", 0)>>,
                <<Item("block"), Do("loop", c0_here, item.n)>>)
    /\ Outside

For ==
    /\ At({"body", "block"})
    /\ "for" \in lang.stmts
    /\ Read(<<Ident("for"), Punct("(")>>)
    /\ \E init \in {<<>>, <<Item("assign")>>} : Statement(init \o <<Item("cond")>>)
    /\ Outside

\* The condition of a for; none at all is 1.
ForCond ==
    /\ At({"cond"})
    /\ Accept(<<Punct(";")>>)
    /\ \/ Then(c0_expr \o <<Do("for", 0, c0_here)>>)
       \/ EmitThen(<<Ins("push", 1)>>, <<Do("for", 0, c0_here)>>)
    /\ Outside

\* The step is skipped and compiled after the block.
ForBlock ==
    /\ At({"for"})
    /\ Accept(<<Punct(";"), Punct("{")>>)
    /\ EmitThen(<<Ins("jump_if_false", 0)>>,
                <<Item("block"), Do("step", c0_here, item.n)>>)
    /\ Outside

ForStep ==
    /\ At({"step"})
    /\ \E step \in {<<>>, <<Item("assign")>>} :
          Then(step \o <<Close(")"), Do("loop", item.a, item.n)>>)
    /\ UNCHANGED text
    /\ Outside

\* The jump back to the condition, whose own jump goes behind it.
LoopEnd ==
    /\ At({"loop"})
    /\ code' = Append(Patched(code, {item.a}, c0_here + 1), Ins("jump", item.n))
    /\ work' = Tail(work)
    /\ UNCHANGED <<text, locals, arr_n, reject>>
    /\ Outside

\* } for a block, the last token for a body.
BlockEnd ==
    /\ At({"body", "block"})
    /\ Accept(IF item.kind = "block" THEN <<Punct("}")>> ELSE <<>>)
    /\ Then(<<>>)
    /\ Outside

-----------------------------------------------------------------------------
(***************************************************************************)
(* c0_build                                                                *)
(***************************************************************************)

\* Types: <<"int">>, <<"array", n>>, <<"other">>.
IntType == <<"int">>

\* c0_sig_eligible; the first parameter at fault decides.
c0_sig_eligible(sig) ==
    LET fault(ty) == IF ty = IntType THEN "none"
                     ELSE IF ty[1] # "array" THEN "VM_REJ_PARAM_NOT_INT"
                     ELSE IF ty[2] \notin 1..MaxArrLen THEN "VM_REJ_ARRAY_TOO_LARGE"
                     ELSE "none"
        bad == {p \in DOMAIN sig.params : fault(sig.params[p].type) # "none"}
    IN  IF sig.ret # IntType THEN "VM_REJ_RETURN_NOT_INT"
        ELSE IF bad = {} THEN "none" ELSE fault(sig.params[FirstOf(bad)].type)

NewFn(sig) ==
    [name |-> sig.name, nparams |-> Len(sig.params), nlocals |-> 0, code |-> <<>>,
     arr_n |-> <<>>, sig_ok |-> c0_sig_eligible(sig) = "none", ok |-> FALSE,
     reject |-> c0_sig_eligible(sig), names |-> <<>>, text |-> <<>>]

Resting ==
    /\ text = <<>> /\ code = <<>> /\ locals = <<>> /\ arr_n = <<>>
    /\ work = <<>> /\ reject = "none"

BuildInit ==
    /\ \E s \in Sources : sigs = s.sigs /\ full = s.full /\ lang = s.lang
    /\ fns = [i \in DOMAIN sigs |-> NewFn(sigs[i])]
    /\ cur = 0
    /\ Resting
    /\ building = "next"

\* The next function: its parameters, then its body.  One whose signature was
\* refused has no body.
NextFn ==
    /\ building = "next"
    /\ cur < Len(fns)
    /\ \/ /\ ~fns[cur + 1].sig_ok
          /\ cur' = cur + 1
          /\ UNCHANGED <<building, work>>
       \/ /\ fns[cur + 1].sig_ok
          /\ building' = "body"
          /\ work' = [p \in DOMAIN sigs[cur + 1].params |-> Do("param", 0, p)]
                       \o <<Item("body")>>
          /\ UNCHANGED cur
    /\ UNCHANGED <<sigs, lang, full, fns, text, code, locals, arr_n, reject>>

\* A parameter becomes a local; one that repeats a name does not.
Param ==
    LET p == sigs[cur + 1].params[item.n] IN
    /\ At({"param"})
    /\ \/ Full(p.name) /\ c0_fail("VM_REJ_TOO_MANY_LOCALS")
       \/ /\ ~Full(p.name)
          /\ locals' = LocalsWith(p.name)
          /\ arr_n' = IF p.type = IntType THEN ArraysWith(p.name)
                      ELSE [ArraysWith(p.name) EXCEPT ![SlotAfter(p.name) + 1] = p.type[2]]
          /\ work' = Tail(work)
          /\ UNCHANGED <<code, reject>>
    /\ UNCHANGED text
    /\ Outside

\* A body that ends without a return returns 0.
FnCode == code \o <<Ins("push", 0), Ins("ret", 0)>>

FnEnd ==
    /\ building = "body"
    /\ work = <<>>
    /\ fns' = [fns EXCEPT ![cur + 1] =
                 IF reject # "none" THEN [@ EXCEPT !.reject = reject, !.text = text]
                 ELSE [@ EXCEPT !.code = FnCode, !.nlocals = Len(locals), !.arr_n = arr_n,
                                !.ok = TRUE, !.names = locals, !.text = text]]
    /\ cur' = cur + 1
    /\ building' = "next"
    /\ text' = <<>> /\ code' = <<>> /\ locals' = <<>> /\ arr_n' = <<>>
    /\ work' = <<>> /\ reject' = "none"
    /\ UNCHANGED <<sigs, lang, full>>

\* Functions that f calls.
Callees(f) == {f.code[k].a + 1 : k \in {j \in DOMAIN f.code : f.code[j].op = "call"}}

\* Mutant: only functions that were rejected themselves count.
BrokenDirectly == {i \in DOMAIN fns : fns[i].ok /\ \E j \in Callees(fns[i]) :
                                          j \in DOMAIN fns => fns[j].code = <<>>}

\* Accepted functions that call one that is not, or is not there.
Broken == {i \in DOMAIN fns : fns[i].ok /\ \E j \in Callees(fns[i]) :
                                  j \in DOMAIN fns => ~fns[j].ok}

\* One function is given up in the loop of c0_resolve_deps.  The order in which
\* the loop meets them makes no difference to where it ends.
c0_resolve_deps ==
    /\ building = "next"
    /\ cur = Len(fns)
    /\ \E i \in Broken :
          fns' = [fns EXCEPT ![i].ok = FALSE, ![i].reject = "VM_REJ_DEP_REJECTED"]
    /\ UNCHANGED <<sigs, lang, full, cur, compVars, building>>

\* VmFn as the interpreter reads it.
FnOf(f) ==
    [ok |-> f.ok, nparams |-> f.nparams, nlocals |-> f.nlocals,
     arr |-> [l \in 0..MaxLocals - 1 |-> IF l < Len(f.arr_n) THEN f.arr_n[l + 1] ELSE 0],
     code |-> f.code]

Built ==
    /\ building = "next"
    /\ cur = Len(fns)
    /\ Broken = {}
    /\ building' = "built"
    /\ UNCHANGED <<sigs, lang, full, fns, cur, compVars>>

Compile ==
    \/ Unexpected \/ Sign \/ Number \/ Paren \/ Closed \/ LocalRef \/ IndexRef \/ Member
    \/ CallBegin \/ Argument \/ Operator \/ NoOperator \/ c0_emit \/ c0_patch
    \/ AssignIndex \/ Declare \/ AssignLiteral \/ Literal \/ ArrayElement \/ MoreElements
    \/ AssignScalar \/ StoreScalar \/ Unsupported \/ AssignStmt \/ ReturnStmt \/ OptionalSemicolon
    \/ HashLoop
    \/ If \/ IfBlock \/ ThenEnd \/ While \/ WhileBlock \/ For \/ ForCond \/ ForBlock
    \/ ForStep \/ LoopEnd \/ BlockEnd \/ Param

Build == Compile \/ NextFn \/ FnEnd \/ c0_resolve_deps \/ Built

\* c0_build by itself; Compiler0Tool goes on from what it built.
BuildSpec == BuildInit /\ [][Build]_buildVars

-----------------------------------------------------------------------------
(***************************************************************************)
(* Properties                                                              *)
(***************************************************************************)

\* Nothing an instruction of f refers to is missing from f or from the module.
Declared(f) ==
    /\ f.nlocals <= MaxLocals
    /\ \A k \in DOMAIN f.code :
          /\ f.code[k].op \in LocalOps => f.code[k].a \in 0..f.nlocals - 1
          /\ f.code[k].op \in JumpOps => f.code[k].a \in 0..Len(f.code) - 1
          /\ f.code[k].op = "call" => f.code[k].a \in 0..Len(fns) - 1

\* Every jump of an accepted function was patched to a place inside its code,
\* however conditions, chains and loops are nested, and every local and callee
\* it names is there: vm_exec, which checks none of this, may run it.
CompiledIsDeclared == \A i \in DOMAIN fns : fns[i].ok => Declared(fns[i])

Compiled == {i \in DOMAIN fns : fns[i].code # <<>>}
Accepted == {i \in DOMAIN fns : fns[i].ok}
ClosedSet(S) == \A i \in S : Callees(fns[i]) \subseteq S

\* The fixed point of c0_resolve_deps: the functions left are the most that can
\* run without any of them reaching, through whatever calls, one that was
\* rejected.  Recursion does not keep a function alive or kill it.
ExactlyRunnable ==
    building = "built" =>
        /\ ClosedSet(Accepted)
        /\ \A S \in SUBSET Compiled : ClosedSet(S) => S \subseteq Accepted
=============================================================================
