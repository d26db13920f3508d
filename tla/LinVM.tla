------------------------------- MODULE LinVM -------------------------------
(***************************************************************************)
(* vm_exec_ctx (transpile/c/lin_c/lin_vm.c): the LinVM interpreter.        *)
(*                                                                         *)
(* The recursion of vm_exec_ctx is the sequence "frames", the newest call  *)
(* last; the frame at position d uses frames[d - 1] of the VmFrameStore.   *)
(* That store is not cleared between calls, so a cell the prologue does    *)
(* not write holds Junk: whatever an earlier call at the same depth left.  *)
(* The operand stack of a frame is the sequence of its live cells.  Local, *)
(* slot, program counter and array indices count from 0, as in the code.   *)
(*                                                                         *)
(* An error unwinds every call at once.  A store past the end of a frame's *)
(* stack is undefined behaviour: the status becomes "undefined", the frames*)
(* stay as the store left them, and nothing is said of what follows.       *)
(***************************************************************************)
EXTENDS LinWord, FiniteSets

CONSTANTS
    MaxStack,    \* LIN_VM_MAX_STACK
    MaxDepth,    \* LIN_VM_MAX_DEPTH
    MaxLocals,   \* LIN_VM_MAX_LOCALS
    MaxArrs,     \* LIN_VM_MAX_ARRS
    MaxArrLen,   \* LIN_VM_MAX_ARR_LEN
    StepLimit,   \* ctx->step_limit
    Junk         \* a cell nobody has written in this call

ASSUME VmAssumption ==
    /\ MaxStack \in Nat \ {0}
    /\ MaxDepth \in Nat
    /\ MaxLocals \in Nat \ {0}
    /\ MaxArrs \in 0..Half
    /\ MaxArrLen \in 0..Half - 1
    /\ StepLimit \in Nat
    /\ Junk \notin Word

VARIABLES
    module,   \* ctx->module: its functions, none before a module is loaded
    ctx,      \* the rest of LinVmContext: profile, ABI, regions, frame store
    frames,   \* the calls under way
    steps,    \* *ctx->steps, shared by the whole call tree
    status,   \* LinErr of the execution, "idle" before and "running" during it
    result    \* VmExecResult of the outermost call

vmVars == <<module, ctx, frames, steps, status, result>>

LocalOps == {"load", "store", "load_index", "store_index", "arr_len"}
JumpOps == {"jump", "jump_if_false", "jump_if_false_keep", "jump_if_true_keep"}
Ops == BinaryOps \cup UnaryOps \cup LocalOps \cup JumpOps
           \cup {"push", "pop", "call", "ret", "abi_call"}

Instruction == [op : Ops, a : Word]

\* VmFn.  arr[i] is the length of the array that local i names, 0 for none.
Function == [ok : BOOLEAN, nparams : 0..MaxLocals, nlocals : 0..MaxLocals,
             arr : [0..MaxLocals - 1 -> 0..MaxArrLen], code : Seq(Instruction)]

\* The interpreter takes the local an operand names from locals[] unseen.
LocalsInFrame(f) ==
    \A i \in DOMAIN f.code : f.code[i].op \in LocalOps => f.code[i].a \in 0..MaxLocals - 1

\* Modules that an assembler, or the LINBC1 loader, gives the interpreter.
SoundModules == {m \in Seq(Function) : \A k \in DOMAIN m : LocalsInFrame(m[k])}

VmFrame == [fn : Nat, pc : Int, stack : Seq(Word),
            locals : [0..MaxLocals - 1 -> Word],
            len : [0..MaxArrs - 1 -> 0..MaxArrLen],
            pool : [0..MaxArrs - 1 -> [0..MaxArrLen - 1 -> Word \cup {Junk}]]]

\* Frames in which Junk lies past the end of every array.
Frame == {f \in VmFrame :
            \A s \in 0..MaxArrs - 1 : \A i \in 0..f.len[s] - 1 : f.pool[s][i] \in Word}

Errors == {"BAD_FN", "ARITY", "DEPTH", "STEP_LIMIT", "STACK_OVERFLOW",
           "STACK_UNDERFLOW", "DIV_ZERO", "ARENA_OOM"}

Depth == Len(frames)
top == frames[Depth]
fn == module[top.fn + 1]
sp == Len(top.stack)
InCode == top.pc \in 0..Len(fn.code) - 1
ins == fn.code[top.pc + 1]

\* The last n operands, oldest first, and what is left below them.
Operands(n) == SubSeq(top.stack, sp - n + 1, sp)
Below(n) == SubSeq(top.stack, 1, sp - n)

-----------------------------------------------------------------------------
(***************************************************************************)
(* Calls                                                                   *)
(***************************************************************************)

\* Why vm_exec_ctx refuses to run function fi with n arguments at this depth.
EntryError(fi, n, depth) ==
    IF depth > MaxDepth THEN "DEPTH"
    ELSE IF fi >= Len(module) \/ ~module[fi + 1].ok THEN "BAD_FN"
    ELSE IF n # module[fi + 1].nparams THEN "ARITY"
    ELSE IF Cardinality({i \in 0..MaxLocals - 1 : module[fi + 1].arr[i] > 0}) > MaxArrs
         THEN "BAD_FN"
    ELSE "OK"

\* Arrays get slots in the order of their locals.
SlotOf(f, i) == Cardinality({j \in 0..i - 1 : f.arr[j] > 0})

\* The prologue: locals are cleared, arrays allotted and cleared up to their
\* length, and the arguments stored except where the local names an array.
NewFrame(fi, args) ==
    LET f == module[fi + 1]
        holder(s) == {i \in 0..MaxLocals - 1 : f.arr[i] > 0 /\ SlotOf(f, i) = s}
        len == [s \in 0..MaxArrs - 1 |->
                  IF holder(s) = {} THEN 0 ELSE f.arr[CHOOSE i \in holder(s) : TRUE]]
    IN  [fn |-> fi, pc |-> 0, stack |-> <<>>,
         locals |-> [i \in 0..MaxLocals - 1 |->
                       CASE f.arr[i] > 0 -> SlotOf(f, i)
                         [] f.arr[i] = 0 /\ i < f.nparams -> args[i + 1]
                         [] OTHER -> 0],
         len |-> len,
         pool |-> [s \in 0..MaxArrs - 1 |->
                     [i \in 0..MaxArrLen - 1 |-> IF i < len[s] THEN 0 ELSE Junk]]]

\* Every call under way returns the error e.
Fail(e) ==
    /\ status' = e
    /\ frames' = <<>>
    /\ UNCHANGED <<module, ctx, result>>

\* vm_exec(_ctx) on an idle machine.  A host that brings no frame store has one
\* allocated, before the arrays are counted.
Start(fi, args) ==
    LET e == EntryError(fi, Len(args), 0) IN
    /\ status = "idle"
    /\ \/ /\ e # "OK"
          /\ Fail(e)
       \/ /\ e \notin {"DEPTH", "ARITY"} /\ fi < Len(module) /\ module[fi + 1].ok
          /\ ~ctx.store
          /\ Fail("ARENA_OOM")
       \/ /\ e = "OK"
          /\ frames' = <<NewFrame(fi, args)>>
          /\ status' = "running"
          /\ UNCHANGED <<module, ctx, result>>
    /\ UNCHANGED steps

-----------------------------------------------------------------------------
(***************************************************************************)
(* The interpreter loop                                                    *)
(***************************************************************************)

\* Mutant: one instruction more than the limit.
ExecutingPastLimit(S) ==
    /\ status = "running"
    /\ InCode
    /\ steps <= StepLimit
    /\ ins.op \in S

\* The step counter has been raised without passing the limit, and the
\* instruction at pc is one of S.
Executing(S) ==
    /\ status = "running"
    /\ InCode
    /\ steps < StepLimit
    /\ ins.op \in S

\* Mutant: a step is not counted.
TickForgotten == UNCHANGED steps

Tick == steps' = steps + 1

Continue(f) ==
    /\ frames' = [frames EXCEPT ![Depth] = f]
    /\ UNCHANGED <<module, ctx, status, result>>

\* Replace the operand stack and go on to the next instruction.
Leave(stack) == Continue([top EXCEPT !.stack = stack, !.pc = @ + 1])

StepLimitHit ==
    /\ status = "running"
    /\ InCode
    /\ steps >= StepLimit
    /\ Fail("STEP_LIMIT")
    /\ Tick

\* Operands an instruction takes off the stack, or reads there.
Needs(op) ==
    CASE op \in BinaryOps \cup {"store_index"} -> 2
      [] op \in UnaryOps \cup (JumpOps \ {"jump"})
                  \cup {"store", "pop", "ret", "load_index"} -> 1
      [] OTHER -> 0

StackUnderflow ==
    /\ Executing(Ops)
    /\ sp < Needs(ins.op)
    /\ Fail("STACK_UNDERFLOW")
    /\ Tick

PushingOps == {"push", "load", "arr_len"}

StackOverflow ==
    /\ Executing(PushingOps)
    /\ sp >= MaxStack
    /\ Fail("STACK_OVERFLOW")
    /\ Tick

\* Mutant: no look at the room that is left.
PushConstUnchecked ==
    /\ Executing({"push"})
    /\ Leave(Append(top.stack, ins.a))
    /\ Tick

PushConst ==
    /\ Executing({"push"})
    /\ sp < MaxStack
    /\ Leave(Append(top.stack, ins.a))
    /\ Tick

LoadLocal ==
    /\ Executing({"load"})
    /\ sp < MaxStack
    /\ Leave(Append(top.stack, top.locals[ins.a]))
    /\ Tick

StoreLocal ==
    /\ Executing({"store"})
    /\ sp >= 1
    /\ Continue([top EXCEPT !.stack = Below(1), !.pc = @ + 1,
                            !.locals[ins.a] = top.stack[sp]])
    /\ Tick

Pop ==
    /\ Executing({"pop"})
    /\ sp >= 1
    /\ Leave(Below(1))
    /\ Tick

Unary ==
    /\ Executing(UnaryOps)
    /\ sp >= 1
    /\ \E r \in UnaryResults(ins.op, top.stack[sp]) : Leave(Append(Below(1), r))
    /\ Tick

Binary ==
    /\ Executing(BinaryOps)
    /\ sp >= 2
    /\ \E r \in Results(ins.op, top.stack[sp - 1], top.stack[sp]) :
          Leave(Append(Below(2), r))
    /\ Tick

DivZero ==
    /\ Executing({"div", "mod"})
    /\ sp >= 2
    /\ top.stack[sp] = 0
    /\ Fail("DIV_ZERO")
    /\ Tick

\* A conditional jump tests the operand; only jump_if_false consumes it.
Jump ==
    /\ Executing(JumpOps)
    /\ sp >= Needs(ins.op)
    /\ LET taken ==
             \/ ins.op = "jump"
             \/ ins.op \in {"jump_if_false", "jump_if_false_keep"} /\ top.stack[sp] = 0
             \/ ins.op = "jump_if_true_keep" /\ top.stack[sp] # 0
       IN  Continue([top EXCEPT
               !.pc = IF taken THEN ins.a ELSE @ + 1,
               !.stack = IF ins.op = "jump_if_false" THEN Below(1) ELSE @])
    /\ Tick

\* The element a value of a local and an index lead to, if there is one: any
\* word may be a slot, and an array may be reached through any local.
Element(slot, i) == slot \in 0..MaxArrs - 1 /\ i \in 0..top.len[slot] - 1

\* Mutant: the index is compared with the room an array has.
LoadIndexPastEnd ==
    /\ Executing({"load_index"})
    /\ sp >= 1
    /\ LET slot == top.locals[ins.a]
           i == top.stack[sp]
       IN  Leave(Append(Below(1),
               IF slot \in 0..MaxArrs - 1 /\ i \in 0..MaxArrLen - 1
               THEN top.pool[slot][i] ELSE 0))
    /\ Tick

LoadIndex ==
    /\ Executing({"load_index"})
    /\ sp >= 1
    /\ LET slot == top.locals[ins.a]
           i == top.stack[sp]
       IN  Leave(Append(Below(1),
               IF Element(slot, i) THEN top.pool[slot][i] ELSE 0))
    /\ Tick

StoreIndex ==
    /\ Executing({"store_index"})
    /\ sp >= 2
    /\ LET slot == top.locals[ins.a]
           i == top.stack[sp - 1]
       IN  Continue([top EXCEPT
               !.stack = Below(2), !.pc = @ + 1,
               !.pool = IF Element(slot, i)
                        THEN [@ EXCEPT ![slot][i] = top.stack[sp]] ELSE @])
    /\ Tick

ArrLen ==
    /\ Executing({"arr_len"})
    /\ sp < MaxStack
    /\ LET slot == top.locals[ins.a]
       IN  Leave(Append(top.stack, IF slot \in 0..MaxArrs - 1 THEN top.len[slot] ELSE 0))
    /\ Tick

\* Mutant: the arguments stay on the caller's stack.
CallKeepsArgs ==
    LET n == module[ins.a + 1].nparams
        e == EntryError(ins.a, n, Depth)
    IN
    /\ Executing({"call"})
    /\ \/ ins.a \notin 0..Len(module) - 1 /\ Fail("BAD_FN")
       \/ /\ ins.a \in 0..Len(module) - 1
          /\ \/ sp < n /\ Fail("STACK_UNDERFLOW")
             \/ sp >= n /\ e # "OK" /\ Fail(e)
             \/ /\ sp >= n /\ e = "OK"
                /\ frames' = Append([frames EXCEPT ![Depth] =
                                       [top EXCEPT !.pc = @ + 1]],
                                    NewFrame(ins.a, Operands(n)))
                /\ UNCHANGED <<module, ctx, status, result>>
    /\ Tick

\* OP_CALL takes the callee's arguments off and enters it.
Call ==
    LET n == module[ins.a + 1].nparams
        e == EntryError(ins.a, n, Depth)
    IN
    /\ Executing({"call"})
    /\ \/ ins.a \notin 0..Len(module) - 1 /\ Fail("BAD_FN")
       \/ /\ ins.a \in 0..Len(module) - 1
          /\ \/ sp < n /\ Fail("STACK_UNDERFLOW")
             \/ sp >= n /\ e # "OK" /\ Fail(e)
             \/ /\ sp >= n /\ e = "OK"
                /\ frames' = Append([frames EXCEPT ![Depth] =
                                       [top EXCEPT !.stack = Below(n), !.pc = @ + 1]],
                                    NewFrame(ins.a, Operands(n)))
                /\ UNCHANGED <<module, ctx, status, result>>
    /\ Tick

\* The newest call returns val.  Its caller stores it at stack[sp] and does
\* not look whether there is room.
Return(val) ==
    \/ /\ Depth = 1
       /\ status' = "ok"
       /\ result' = [val |-> val, sp |-> sp]
       /\ frames' = <<>>
    \/ /\ Depth > 1
       /\ LET caller == frames[Depth - 1] IN
          /\ frames' = [SubSeq(frames, 1, Depth - 1) EXCEPT
                          ![Depth - 1] = [caller EXCEPT !.stack = Append(@, val)]]
          /\ status' = IF Len(caller.stack) < MaxStack THEN status ELSE "undefined"
       /\ UNCHANGED result

Ret ==
    /\ Executing({"ret"})
    /\ sp >= 1
    /\ Return(top.stack[sp])
    /\ Tick
    /\ UNCHANGED <<module, ctx>>

\* Code that ends without a ret returns 0.
FallOff ==
    /\ status = "running"
    /\ ~InCode
    /\ Return(0)
    /\ UNCHANGED <<module, ctx, steps>>

-----------------------------------------------------------------------------
(***************************************************************************)
(* OP_ABI_CALL: the region intrinsics of lin_abi.c                         *)
(***************************************************************************)
RegionCapacity == 9
RegionCheckRange == 10
RegionLoadByte == 11

AbiParams(id) ==
    CASE id = RegionCapacity -> 1
      [] id = RegionCheckRange -> 3
      [] id = RegionLoadByte -> 2

\* vm_validate_abi_call_context; the ids enabled are among the three above.
AbiEnabled(id) ==
    /\ ctx.profile = 2
    /\ ctx.abiVersion = 2
    /\ id \in ctx.enabled

\* What a dispatch returns for args; nothing when it fails.
AbiReturns(id, args, r) ==
    /\ Gets(ctx.regions, args[1])
    /\ LET region == ctx.regions[args[1] + 1] IN
       \/ id = RegionCapacity /\ r = CapacityBytes(region)
       \/ /\ id = RegionCheckRange
          /\ args[2] >= 0 /\ args[3] >= 0
          /\ r = CheckRange(region, args[2], args[3])
       \/ id = RegionLoadByte /\ args[2] >= 0 /\ Loads(region, args[2], r)

AbiCall ==
    LET n == AbiParams(ins.a)
        values == {r \in Word : AbiReturns(ins.a, Operands(n), r)}
    IN
    /\ Executing({"abi_call"})
    /\ \/ ~AbiEnabled(ins.a) /\ Fail("BAD_FN")
       \/ AbiEnabled(ins.a) /\ sp < n /\ Fail("STACK_UNDERFLOW")
       \/ AbiEnabled(ins.a) /\ sp >= n /\ values = {} /\ Fail("BAD_FN")
       \/ /\ AbiEnabled(ins.a) /\ sp >= n
          /\ \E r \in values : Leave(Append(Below(n), r))
    /\ Tick

-----------------------------------------------------------------------------
VmStep ==
    \/ StepLimitHit \/ StackUnderflow \/ StackOverflow
    \/ PushConst \/ LoadLocal \/ StoreLocal \/ Pop \/ Unary \/ Binary \/ DivZero
    \/ Jump \/ LoadIndex \/ StoreIndex \/ ArrLen \/ Call \/ Ret \/ FallOff \/ AbiCall

Idle ==
    /\ frames = <<>>
    /\ steps = 0
    /\ status = "idle"
    /\ result = [val |-> 0, sp |-> 0]

-----------------------------------------------------------------------------
(***************************************************************************)
(* Properties                                                              *)
(***************************************************************************)

\* No cell of Junk is ever on a stack or in a local, so no answer depends on
\* what an earlier call left in the frame store: an array is cleared as far as
\* it can be read, through whichever local and with whichever index.
VmTypeOK ==
    /\ module \in SoundModules
    /\ ctx.enabled \subseteq {RegionCapacity, RegionCheckRange, RegionLoadByte}
    /\ frames \in Seq(Frame)
    /\ steps \in Nat
    /\ status \in {"idle", "running", "ok", "undefined"} \cup Errors
    /\ result \in [val : Word, sp : Nat]

\* The instruction about to run refers to nothing its function does not declare.
DeclaredOnly ==
    (status = "running" /\ InCode) =>
        /\ ins.op \in LocalOps => ins.a \in 0..fn.nlocals - 1
        /\ ins.op \in JumpOps => ins.a \in 0..Len(fn.code) - 1
        /\ ins.op = "call" => ins.a \in 0..Len(module) - 1

\* No call outgrows the frame store, and no frame's stack stack[LIN_VM_MAX_STACK],
\* with one exception: the result of a call, which OP_CALL stores unchecked, may land
\* in the one cell past the end, and behaviour is undefined from there on.
FramesBounded ==
    /\ Depth <= MaxDepth + 1
    /\ \A d \in 1..Depth :
          /\ frames[d].fn \in 0..Len(module) - 1
          /\ \/ Len(frames[d].stack) <= MaxStack
             \/ status = "undefined" /\ d = Depth /\ Len(frames[d].stack) = MaxStack + 1

\* Where that happens the instruction just executed is the call of a function
\* without parameters: a call with an argument leaves room for its answer.
UndefinedNeedsNullary ==
    status = "undefined" =>
        \E i \in DOMAIN fn.code :
            /\ i = top.pc
            /\ fn.code[i].op = "call"
            /\ module[fn.code[i].a + 1].nparams = 0

\* An execution of exactly StepLimit instructions, calls included, succeeds and
\* the next instruction fails: the counter never runs further.
StepsExact ==
    /\ steps <= StepLimit + 1
    /\ status = "STEP_LIMIT" <=> steps = StepLimit + 1

\* Two's complement arithmetic always has one answer: no operator is undefined
\* on any operands, and dividing is coherent with its remainder.
ArithmeticDefined ==
    /\ (status = "running" /\ InCode /\ ins.op \in UnaryOps /\ sp >= 1) =>
          Cardinality(UnaryResults(ins.op, top.stack[sp])) = 1
    /\ (status = "running" /\ InCode /\ ins.op \in BinaryOps /\ sp >= 2) =>
          LET x == top.stack[sp - 1]
              y == top.stack[sp]
          IN  IF ins.op \in {"div", "mod"} /\ y = 0
              THEN Results(ins.op, x, y) = {}
              ELSE /\ Cardinality(Results(ins.op, x, y)) = 1
                   /\ ins.op = "mod" =>
                        \A q \in Results("div", x, y), r \in Results("mod", x, y) :
                            Wrap(q * y + r) = x

\* Frame f stands behind its call of function fi, for whose parameters its stack has
\* given up the cells.
Awaits(f, fi) ==
    LET code == module[f.fn + 1].code IN
    /\ Len(f.stack) + module[fi + 1].nparams <= MaxStack
    /\ f.pc \in DOMAIN code
    /\ code[f.pc].op = "call" /\ code[f.pc].a = fi

\* What keeps the above: a machine has frames while it runs and where it overran a
\* stack, and every caller awaits its callee.
CallersHaveRoom ==
    \A d \in 1..Depth - 1 : Awaits(frames[d], frames[d + 1].fn)

VmInv ==
    /\ VmTypeOK
    /\ FramesBounded
    /\ StepsExact
    /\ UndefinedNeedsNullary
    /\ CallersHaveRoom
    /\ status \in {"running", "undefined"} <=> frames # <<>>

\* Every execution ends: loops and recursion run into a limit.
Finishes == status = "running" ~> status # "running"
=============================================================================
