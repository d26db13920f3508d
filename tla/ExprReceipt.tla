---------------------------- MODULE ExprReceipt ----------------------------
(***************************************************************************)
(* An expression from its source text to a receipt.                        *)
(*   xver    tool/lin_c_receipt.c: parse_full, ast_arena_eval, lower_arena *)
(*           and vm_exec, then the root over source, environment, code and *)
(*           execution.                                                    *)
(*   create  lin_c0 receipt create: parse_expression, lower_arena, vm_exec *)
(*           on the expression cut out of the source, with x bound to the  *)
(*           input.                                                        *)
(*   verify  lin_c0 receipt verify, on a file that may have been edited.   *)
(* SHA-256 is taken to be injective: a digest is what was hashed.  The     *)
(* evaluator and the lowerer recurse over the nodes of the arena.          *)
(***************************************************************************)
EXTENDS ExprParse, LinVM

CONSTANTS
    LowerCap,    \* LIN_LOWER_CAP
    MaxExpr,     \* the characters that expr_clean holds
    Sources,     \* source texts
    Envs         \* environments: sequences of bindings [name, val]

\* The limits of lin_ast.h, lin_lower.h and lin_vm.h: a full arena fits the
\* code and the operand stack, and the code the step limit.
ASSUME LimitsAssumption ==
    /\ LowerCap \in Nat
    /\ ArenaCap + 1 <= LowerCap
    /\ ArenaCap <= 2 * MaxStack
    /\ LowerCap <= StepLimit

ASSUME ToolAssumption ==
    /\ \A d \in DOMAIN Digit : Digit[d] \in Nat
    /\ MaxExpr \in Nat
    /\ Sources \subseteq Seq(STRING)
    /\ \A b \in Envs : b \in Seq([name : Seq(STRING), val : Word]) /\ Len(b) <= MaxLocals

VARIABLES
    tool,        \* "xver" or "create"
    source_code, \* the text on the command line
    env,         \* the bindings
    stage,       \* how far main has come, and how it ended
    ast_val,     \* what ast_arena_eval answered
    file,        \* the receipt that was printed, as it stands in the file
    edited       \* a field of the file was changed

exprVars == <<parseVars, vmVars, tool, source_code, env, stage, ast_val, file, edited>>

-----------------------------------------------------------------------------
(***************************************************************************)
(* ast_arena_eval and lower_arena                                          *)
(***************************************************************************)
Value(v) == [err |-> "OK", val |-> v]
Failed(e) == [err |-> e, val |-> 0]

\* The number a run of digits spells; the caller reduces it to a word.
Number(digits) ==
    LET first[k \in 0..Len(digits)] ==
          IF k = 0 THEN 0 ELSE 10 * first[k - 1] + Digit[digits[k]]
    IN  first[Len(digits)]

\* The first binding of a name, as both loops over env find it; 0 for none.
Binding(text) ==
    LET bound == {i \in DOMAIN env : env[i].name = text}
    IN  IF bound = {} THEN 0 ELSE CHOOSE i \in bound : \A j \in bound : i <= j

\* Mutant: two comparisons are mixed up.
OpOfMixed(tag) ==
    CASE tag = "+" -> "add" [] tag = "-" -> "sub" [] tag = "*" -> "mul"
      [] tag = "/" -> "div" [] tag = "%" -> "mod"
      [] tag = "==" -> "eq" [] tag = "!=" -> "ne" [] tag = "<" -> "le"
      [] tag = "<=" -> "lt" [] tag = ">" -> "gt" [] tag = ">=" -> "ge"

\* The instruction of each operator.
OpOf(tag) ==
    CASE tag = "+" -> "add" [] tag = "-" -> "sub" [] tag = "*" -> "mul"
      [] tag = "/" -> "div" [] tag = "%" -> "mod"
      [] tag = "==" -> "eq" [] tag = "!=" -> "ne" [] tag = "<" -> "lt"
      [] tag = "<=" -> "le" [] tag = ">" -> "gt" [] tag = ">=" -> "ge"

\* The evaluator's own arithmetic: the left operand first, then the right.
Apply2(tag, l, r) ==
    IF l.err # "OK" THEN l
    ELSE IF r.err # "OK" THEN r
    ELSE IF tag \in {"/", "%"} /\ r.val = 0 THEN Failed("DIV_ZERO")
    ELSE Value(CASE tag = "+" -> Wrap(l.val + r.val)
                 [] tag = "-" -> Wrap(l.val - r.val)
                 [] tag = "*" -> Wrap(l.val * r.val)
                 [] tag = "/" -> lin_wdiv(l.val, r.val)
                 [] tag = "%" -> lin_wrem(l.val, r.val)
                 [] tag = "==" -> Truth(l.val = r.val)
                 [] tag = "!=" -> Truth(l.val # r.val)
                 [] tag = "<" -> Truth(l.val < r.val)
                 [] tag = "<=" -> Truth(l.val <= r.val)
                 [] tag = ">" -> Truth(l.val > r.val)
                 [] tag = ">=" -> Truth(l.val >= r.val))

Nodes == 0..Len(arena) - 1

ast_arena_eval[n \in Nodes] ==
    LET a == arena[n + 1]
        l == ast_arena_eval[a.lhs]
    IN  CASE a.tag = "lit" -> Value(Wrap(Number(a.text)))
          [] a.tag = "var_ref" -> IF Binding(a.text) = 0 THEN Failed("UNDEF_VAR")
                                  ELSE Value(env[Binding(a.text)].val)
          [] a.tag = "unary_pos" -> l
          [] a.tag = "unary_neg" -> IF l.err = "OK" THEN Value(Wrap(-l.val)) ELSE l
          [] a.tag \in BinaryTags -> Apply2(a.tag, l, ast_arena_eval[a.rhs])
          [] OTHER -> Failed("UNDEF_VAR")

\* LinLowered: the instructions so far, and the error that stopped them.
Lowered == [err : {"OK", "UNDEF_VAR", "ARENA_OOM"}, code : Seq([op : Ops, a : Int])]

\* Mutant: the last cell is left unused.
EmitOffByOne(out, op, a) ==
    IF out.err # "OK" THEN out
    ELSE IF Len(out.code) + 1 >= LowerCap THEN [out EXCEPT !.err = "ARENA_OOM"]
    ELSE [out EXCEPT !.code = Append(@, [op |-> op, a |-> a])]

\* One more instruction in out, unless an error came before or out is full.
Emit(out, op, a) ==
    IF out.err # "OK" THEN out
    ELSE IF Len(out.code) >= LowerCap THEN [out EXCEPT !.err = "ARENA_OOM"]
    ELSE [out EXCEPT !.code = Append(@, [op |-> op, a |-> a])]

\* What is lowered so far, q[2], and then node q[1].
lower_emit[q \in Nodes \X Lowered] ==
    LET a == arena[q[1] + 1]
        out == q[2]
        left == lower_emit[<<a.lhs, out>>]
    IN  IF out.err # "OK" THEN out
        ELSE CASE a.tag = "lit" -> Emit(out, "push", Wrap(Number(a.text)))
               [] a.tag = "var_ref" -> IF Binding(a.text) = 0
                                       THEN [out EXCEPT !.err = "UNDEF_VAR"]
                                       ELSE Emit(out, "load", Binding(a.text) - 1)
               [] a.tag = "unary_pos" -> left
               [] a.tag = "unary_neg" -> Emit(left, "neg", 0)
               [] a.tag \in BinaryTags ->
                     Emit(lower_emit[<<a.rhs, left>>], OpOf(a.tag), 0)
               [] OTHER -> [out EXCEPT !.err = "UNDEF_VAR"]

lower_arena(root) ==
    Emit(lower_emit[<<root, [err |-> "OK", code |-> <<>>]>>], "ret", 0)

-----------------------------------------------------------------------------
(***************************************************************************)
(* The tools                                                               *)
(***************************************************************************)
ExprContext == [profile |-> 1, abiVersion |-> 1, enabled |-> {},
                regions |-> <<>>, store |-> FALSE]

NoFile == [artifact |-> <<>>, input |-> 0, output |-> 0, steps |-> 0, sp |-> 0,
           root |-> <<>>]

ReturnWord == <<"r", "e", "t", "u", "r", "n", " ">>

\* How many characters of S text starts with, and how many it keeps when those of
\* S are taken off its end.
Leading(text, S) ==
    CHOOSE n \in 0..Len(text) :
        /\ \A i \in 1..n : text[i] \in S
        /\ n < Len(text) => text[n + 1] \notin S

Kept(text, S) ==
    CHOOSE n \in 0..Len(text) :
        /\ \A i \in n + 1..Len(text) : text[i] \in S
        /\ n > 0 => text[n] \notin S

\* What create parses: without blanks and "return " in front, cut to the buffer,
\* without blanks and semicolons at the end.
expr_clean(text) ==
    LET skipped == SubSeq(text, Leading(text, Space) + 1, Len(text))
        expr == IF Len(skipped) >= 7 /\ SubSeq(skipped, 1, 7) = ReturnWord
                THEN SubSeq(skipped, 8, Len(skipped)) ELSE skipped
        held == IF Len(expr) > MaxExpr THEN SubSeq(expr, 1, MaxExpr) ELSE expr
    IN  SubSeq(held, 1, Kept(held, Space \cup {";"}))

Init ==
    /\ source_code \in Sources
    /\ tool \in {"xver", "create"}
    /\ src = IF tool = "create" THEN expr_clean(source_code) ELSE source_code
    /\ ParserInit
    /\ module = <<>>
    /\ ctx = ExprContext
    /\ Idle
    /\ env \in Envs
    /\ tool = "create" => Len(env) = 1
    /\ stage = "parse"
    /\ ast_val = Failed("none")
    /\ file = NoFile
    /\ edited = FALSE

Rest == <<tool, source_code, env, file, edited>>

Parse ==
    /\ stage = "parse"
    /\ ParseStep
    /\ UNCHANGED <<vmVars, stage, ast_val, Rest>>

\* Only lin_c_receipt asks that nothing follows the expression.
ParseDone ==
    /\ stage = "parse"
    /\ \/ tool = "xver" /\ ParseFullEnd /\ UNCHANGED stage
       \/ /\ tool = "create" /\ parsing = "return" /\ calls = <<>>
          /\ stage' = "lower"
          /\ UNCHANGED parseVars
       \/ parsing = "OK" /\ stage' = "eval" /\ UNCHANGED parseVars
       \/ parsing \in ParseErrors /\ stage' = "REJECTED" /\ UNCHANGED parseVars
    /\ UNCHANGED <<vmVars, ast_val, Rest>>

Eval ==
    /\ stage = "eval"
    /\ ast_val' = ast_arena_eval[node]
    /\ stage' = IF ast_val'.err = "OK" THEN "lower" ELSE "REJECTED"
    /\ UNCHANGED <<parseVars, vmVars, Rest>>

\* The one function of the module takes the environment as its parameters.
Lower ==
    LET out == lower_arena(node) IN
    /\ stage = "lower"
    /\ \/ /\ out.err = "OK"
          /\ module' = <<[ok |-> TRUE, nparams |-> Len(env), nlocals |-> Len(env),
                          arr |-> [i \in 0..MaxLocals - 1 |-> 0], code |-> out.code]>>
          /\ stage' = "start"
       \/ /\ out.err # "OK"
          /\ stage' = "REJECTED"
          /\ UNCHANGED module
    /\ UNCHANGED <<parseVars, ctx, frames, steps, status, result, ast_val, Rest>>

Exec ==
    /\ \/ /\ stage = "start"
          /\ Start(0, [i \in DOMAIN env |-> env[i].val])
          /\ stage' = "run"
       \/ stage = "run" /\ VmStep /\ UNCHANGED stage
    /\ UNCHANGED <<parseVars, ast_val, Rest>>

\* Mutant: the stack pointer is not part of the leaf.
RootWithoutSp(f) == <<f.artifact, f.output, f.steps, f.input>>

\* The Merkle root of a receipt of lin_c0.
Root(f) == <<f.artifact, f.output, f.steps, f.sp, f.input>>

\* The verdict of the machine is printed; lin_c0 prints a receipt with its root,
\* over the source as it was given, lin_c_receipt one that nobody reads back here.
Report ==
    LET f == [artifact |-> source_code, input |-> env[1].val, output |-> result.val,
              steps |-> steps, sp |-> result.sp, root |-> <<>>]
    IN
    /\ stage = "run"
    /\ status \notin {"running", "idle"}
    /\ stage' = IF status # "ok" THEN "REJECTED"
                ELSE IF tool = "xver" THEN "EVALUATED" ELSE "printed"
    /\ file' = IF status = "ok" /\ tool = "create"
               THEN [f EXCEPT !.root = Root(f)] ELSE file
    /\ UNCHANGED <<parseVars, vmVars, ast_val, tool, source_code, env, edited>>

\* One field of the file is changed, or is no longer there and reads as zero.
Edit ==
    /\ stage = "printed"
    /\ ~edited
    /\ edited' = TRUE
    /\ \E v \in {0, 1}, f \in {"input", "output", "steps", "sp"} :
          file' = [file EXCEPT ![f] = v]
    /\ UNCHANGED <<parseVars, vmVars, tool, source_code, env, stage, ast_val>>

VerifyReceipt ==
    /\ stage = "printed"
    /\ stage' = IF Root(file) = file.root THEN "PASS" ELSE "TAMPERED"
    /\ UNCHANGED <<parseVars, vmVars, ast_val, Rest>>

Finished ==
    /\ stage \in {"REJECTED", "EVALUATED", "PASS", "TAMPERED"}
    /\ UNCHANGED exprVars

Next ==
    Parse \/ ParseDone \/ Eval \/ Lower \/ Exec \/ Report \/ Edit \/ VerifyReceipt
      \/ Finished

Spec == Init /\ [][Next]_exprVars

-----------------------------------------------------------------------------
(***************************************************************************)
(* Properties                                                              *)
(***************************************************************************)

\* Code that lower_arena made from an expression the evaluator has a value for
\* runs to the same value, within every limit of the machine: no operand is
\* missing, the stack is deep enough, nothing is divided by zero.
VmAgreesWithEval ==
    (tool = "xver" /\ stage \in {"run", "EVALUATED"}) =>
        /\ status \in {"running", "ok", "ARENA_OOM"}
        /\ status = "ok" => result = [val |-> ast_val.val, sp |-> 1]

\* The lowered code always fits: a full arena gives less than LIN_LOWER_CAP.
LowerNeverFull ==
    stage = "lower" => lower_arena(node).err # "ARENA_OOM"

\* A receipt that passes says what the evaluator gives for the expression cut out of
\* its source and for its input, even when a field of the file was changed on the way.
PassingReceiptIsTrue ==
    stage = "PASS" =>
        /\ ast_arena_eval[node] = Value(file.output)
        /\ file.input = env[1].val
        /\ file.steps = Len(module[1].code)
        /\ file.sp = 1
=============================================================================
