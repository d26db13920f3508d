------------------------------- MODULE C0Jit -------------------------------
(***************************************************************************)
(* transpile/c/tool/lin_c0_jit.c: the module as a C program, compiled in   *)
(* memory by libtcc and run.  The C program is given by what it does: one  *)
(* C function for each function of the module, with its own stack, locals  *)
(* and array pool, a label for each instruction and gotos between them.    *)
(* Nothing counts steps or calls, and nothing checks the stack: a store    *)
(* outside of it is undefined.  A call that takes more than "fuel"         *)
(* instructions is taken to run on.                                        *)
(***************************************************************************)
EXTENDS LinVM

CONSTANT
    Safe     \* sanitize_fn_name: a C identifier for each function name

Outcome(kind, val, fuel) == [kind |-> kind, val |-> val, fuel |-> fuel]

\* The operators of the prelude: division by zero gives 0, and only the low bits
\* of a shift count are used.
JitResult(op, x, y) ==
    CASE op \in {"div", "mod"} /\ y = 0 -> 0
      [] op = "shl" -> Wrap(x * Pow2[y % Bits])
      [] op = "shr" -> x \div Pow2[y % Bits]
      [] op = "ushr" -> Wrap((x % (2 * Half)) \div Pow2[y % Bits])
      [] OTHER -> CHOOSE r \in Results(op, x, y) : TRUE

\* Mutant: the arguments are copied over the slots.
JitFrameArgsLast(f, args) ==
    LET used(l) == f.arr[l] > 0 /\ SlotOf(f, l) < MaxArrs
        holder(s) == {l \in 0..MaxLocals - 1 : used(l) /\ SlotOf(f, l) = s}
    IN  [pc |-> 0, stack |-> <<>>,
         locals |-> [l \in 0..MaxLocals - 1 |->
                       IF l < f.nparams THEN args[l + 1]
                       ELSE IF used(l) THEN SlotOf(f, l) ELSE 0],
         len |-> [s \in 0..MaxArrs - 1 |->
                    IF holder(s) = {} THEN 0 ELSE f.arr[CHOOSE l \in holder(s) : TRUE]],
         pool |-> [s \in 0..MaxArrs - 1 |-> [i \in 0..MaxArrLen - 1 |-> 0]]]

\* The head of a C function: arguments are copied first, then arrays get slots
\* as long as there are any.
JitFrame(f, args) ==
    LET used(l) == f.arr[l] > 0 /\ SlotOf(f, l) < MaxArrs
        holder(s) == {l \in 0..MaxLocals - 1 : used(l) /\ SlotOf(f, l) = s}
    IN  [pc |-> 0, stack |-> <<>>,
         locals |-> [l \in 0..MaxLocals - 1 |->
                       IF used(l) THEN SlotOf(f, l)
                       ELSE IF l < f.nparams THEN args[l + 1] ELSE 0],
         len |-> [s \in 0..MaxArrs - 1 |->
                    IF holder(s) = {} THEN 0 ELSE f.arr[CHOOSE l \in holder(s) : TRUE]],
         pool |-> [s \in 0..MaxArrs - 1 |-> [i \in 0..MaxArrLen - 1 |-> 0]]]

\* The statements of one instruction, calls and returns aside.
JitIns(j, ins_) ==
    LET n == Len(j.stack)
        x == j.stack[n - 1]
        y == j.stack[n]
        below(k) == SubSeq(j.stack, 1, n - k)
        next(stack) == [j EXCEPT !.pc = @ + 1, !.stack = stack]
        goto(taken, stack) ==
            [j EXCEPT !.pc = IF taken THEN ins_.a ELSE @ + 1, !.stack = stack]
        slot == j.locals[ins_.a]
        inside(i) == slot \in 0..MaxArrs - 1 /\ i \in 0..j.len[slot] - 1
    IN  CASE ins_.op = "push" -> next(Append(j.stack, ins_.a))
          [] ins_.op = "load" -> next(Append(j.stack, slot))
          [] ins_.op = "store" -> [next(below(1)) EXCEPT !.locals[ins_.a] = y]
          [] ins_.op = "pop" -> next(IF n > 0 THEN below(1) ELSE j.stack)
          [] ins_.op \in BinaryOps -> next(Append(below(2), JitResult(ins_.op, x, y)))
          [] ins_.op \in UnaryOps ->
                next(Append(below(1), CHOOSE r \in UnaryResults(ins_.op, y) : TRUE))
          [] ins_.op = "jump" -> goto(TRUE, j.stack)
          [] ins_.op = "jump_if_false" -> goto(y = 0, below(1))
          [] ins_.op = "jump_if_false_keep" -> goto(y = 0, j.stack)
          [] ins_.op = "jump_if_true_keep" -> goto(y # 0, j.stack)
          [] ins_.op = "load_index" ->
                next(Append(below(1), IF inside(y) THEN j.pool[slot][y] ELSE 0))
          [] ins_.op = "store_index" ->
                [next(below(2)) EXCEPT
                   !.pool = IF inside(x) THEN [@ EXCEPT ![slot][x] = y] ELSE @]
          [] ins_.op = "arr_len" ->
                next(Append(j.stack, IF slot \in 0..MaxArrs - 1 THEN j.len[slot] ELSE 0))

\* A C function under way: its locals, its arrays and its stack.
JitState ==
    [pc : Nat, stack : Seq(Int), locals : [0..MaxLocals - 1 -> Int],
     len : [0..MaxArrs - 1 -> Nat], pool : [0..MaxArrs - 1 -> [0..MaxArrLen - 1 -> Int]]]

\* The C function of module[q[1] + 1] from q[2] on, with fuel q[3].
JitRun[q \in Nat \X JitState \X Nat] ==
    LET j == q[2]
        fuel == q[3]
        f == module[q[1] + 1]
        i == f.code[j.pc + 1]
        n == Len(j.stack)
        value == Outcome("value", IF n > 0 THEN j.stack[n] ELSE 0, fuel)
        np == module[i.a + 1].nparams
        callee == JitFrame(module[i.a + 1], SubSeq(j.stack, n - np + 1, n))
        answer == JitRun[<<i.a, callee, fuel - 1>>]
    IN  IF fuel = 0 THEN Outcome("runs on", 0, 0)
        ELSE IF n > MaxStack THEN Outcome("undefined", 0, fuel)
        ELSE IF j.pc = Len(f.code) \/ i.op = "ret" THEN value
        ELSE IF (i.op # "pop" /\ n < Needs(i.op)) \/ (i.op = "call" /\ n < np)
             THEN Outcome("undefined", 0, fuel)
        ELSE IF i.op # "call" THEN JitRun[<<q[1], JitIns(j, i), fuel - 1>>]
        ELSE IF answer.kind # "value" THEN answer
        ELSE JitRun[<<q[1], [j EXCEPT !.pc = @ + 1,
                                      !.stack = Append(SubSeq(@, 1, n - np), answer.val)],
                      answer.fuel>>]

\* c0_jit_exec for the functions called names: arguments that are missing are 0
\* and those too many are dropped.  Two C functions of one name do not compile.
c0_jit_exec(names, name, args, fuel) ==
    LET emitted == {i \in DOMAIN module : module[i].ok}
        named == {i \in emitted : Safe[names[i]] = Safe[name]}
        f == CHOOSE i \in named : TRUE
        padded == [p \in 1..MaxLocals |-> IF p <= Len(args) THEN args[p] ELSE 0]
    IN  IF module = <<>> THEN Outcome("C11_EMIT_FAILED", 0, 0)
        ELSE IF \E i, k \in emitted : i # k /\ Safe[names[i]] = Safe[names[k]]
        THEN Outcome("TCC_COMPILE_FAILED", 0, 0)
        ELSE IF named = {} THEN Outcome("SYMBOL_NOT_FOUND", 0, 0)
        ELSE JitRun[<<f - 1, JitFrame(module[f], padded), fuel>>]
=============================================================================
