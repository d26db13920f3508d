---------------------------- MODULE LinVMProofs ----------------------------
(***************************************************************************)
(* Every step of the interpreter keeps VmInv, for modules of any size and  *)
(* for every value of the limits, and on words of every width an operator  *)
(* has one result.                                                         *)
(***************************************************************************)
EXTENDS LinVM, FiniteSetTheorems, SequenceTheorems, NaturalsInduction,
        WellFoundedInduction, TLAPS

\* What VmInv says of a machine that runs.
LEMMA Running ==
    ASSUME VmInv, status = "running"
    PROVE  /\ Depth \in Nat /\ Depth >= 1
           /\ top \in Frame
           /\ top.fn \in 0..Len(module) - 1
           /\ fn \in Function
           /\ LocalsInFrame(fn)
           /\ sp \in Nat /\ sp <= MaxStack
           /\ top.stack \in Seq(Word)
PROOF
<1>1. frames # <<>> /\ frames \in Seq(Frame)
  BY DEF VmInv, VmTypeOK
<1>2. Depth \in Nat /\ Depth >= 1 /\ top \in Frame
  BY <1>1 DEF Depth, top
<1>3. top.fn \in 0..Len(module) - 1 /\ sp <= MaxStack
  BY <1>2 DEF VmInv, FramesBounded, top, sp
<1>4. module \in Seq(Function) /\ \A k \in DOMAIN module : LocalsInFrame(module[k])
  BY DEF VmInv, VmTypeOK, SoundModules
<1>5. fn \in Function /\ LocalsInFrame(fn)
  BY <1>3, <1>4 DEF fn
<1>6. top.stack \in Seq(Word) /\ sp \in Nat
  BY <1>2 DEF Frame, VmFrame, sp
<1> QED
  BY <1>2, <1>3, <1>5, <1>6

\* The instruction at pc.
LEMMA Fetched ==
    ASSUME VmInv, NEW S, Executing(S)
    PROVE  /\ status = "running" /\ steps < StepLimit
           /\ ins \in Instruction /\ ins.op \in S /\ ins.a \in Word
           /\ top.pc + 1 \in DOMAIN fn.code /\ ins = fn.code[top.pc + 1]
           /\ ins.op \in LocalOps => ins.a \in 0..MaxLocals - 1
PROOF
<1>1. status = "running" /\ InCode /\ steps < StepLimit /\ ins.op \in S
  BY DEF Executing
<1>2. fn \in Function /\ LocalsInFrame(fn) /\ top \in Frame
  BY <1>1, Running
<1>3. fn.code \in Seq(Instruction) /\ top.pc \in Int
  BY <1>2 DEF Function, Frame, VmFrame
<1>4. top.pc + 1 \in DOMAIN fn.code
  BY <1>1, <1>3 DEF InCode
<1>5. ins \in Instruction
  BY <1>3, <1>4 DEF ins
<1>6. ins.op \in LocalOps => ins.a \in 0..MaxLocals - 1
  BY <1>2, <1>4 DEF LocalsInFrame, ins
<1> QED
  BY <1>1, <1>4, <1>5, <1>6 DEF Instruction, ins

\* The lower part of the stack, the operands above it, and a result on top.
LEMMA Stacks ==
    ASSUME VmInv, status = "running", NEW n \in Nat, n <= sp
    PROVE  /\ Below(n) \in Seq(Word) /\ Len(Below(n)) = sp - n
           /\ Operands(n) \in Seq(Word) /\ Len(Operands(n)) = n
           /\ \A r \in Word : /\ Append(Below(n), r) \in Seq(Word)
                              /\ Len(Append(Below(n), r)) = sp - n + 1
PROOF
<1>1. top.stack \in Seq(Word) /\ sp = Len(top.stack) /\ sp \in Nat
  BY Running DEF sp
<1>2. Below(n) \in Seq(Word) /\ Len(Below(n)) = sp - n
  <2>1. \A i \in 1..sp - n : top.stack[i] \in Word
    BY <1>1
  <2> QED
    BY <1>1, <2>1 DEF Below
<1>3. Operands(n) \in Seq(Word) /\ Len(Operands(n)) = n
  <2>1. \A i \in sp - n + 1..sp : top.stack[i] \in Word
    BY <1>1
  <2> QED
    BY <1>1, <2>1 DEF Operands
<1>4. \A r \in Word : /\ Append(Below(n), r) \in Seq(Word)
                      /\ Len(Append(Below(n), r)) = sp - n + 1
  BY <1>1, <1>2
<1> QED
  BY <1>2, <1>3, <1>4

\* A step that only rewrites the newest frame, within its bounds.
LEMMA ContinueKeeps ==
    ASSUME VmInv, status = "running", steps < StepLimit,
           NEW f \in Frame, f.fn = top.fn, Len(f.stack) <= MaxStack,
           Continue(f), Tick
    PROVE  VmInv'
PROOF
<1>1. Depth \in Nat /\ Depth >= 1 /\ frames \in Seq(Frame) /\ Depth = Len(frames)
  BY Running DEF VmInv, VmTypeOK, Depth
<1>2. /\ frames' \in Seq(Frame) /\ Len(frames') = Depth
      /\ frames'[Depth] = f
      /\ \A d \in 1..Depth - 1 : frames'[d] = frames[d]
  BY <1>1, ExceptSeq DEF Continue
<1>3. UNCHANGED <<module, ctx, status, result>> /\ steps' = steps + 1
  BY DEF Continue, Tick
<1>4. steps \in Nat /\ StepLimit \in Nat
  BY VmAssumption DEF VmInv, VmTypeOK
<1>5. VmTypeOK'
  BY <1>2, <1>3, <1>4 DEF VmInv, VmTypeOK
<1>6. FramesBounded'
  <2>1. \A d \in 1..Depth : Len(frames'[d].stack) <= MaxStack
                              /\ frames'[d].fn \in 0..Len(module) - 1
    BY <1>1, <1>2 DEF VmInv, FramesBounded, top
  <2> QED
    BY <1>2, <1>3, <2>1 DEF VmInv, FramesBounded, Depth
<1>7. StepsExact'
  BY <1>3, <1>4 DEF StepsExact
<1>8. UndefinedNeedsNullary'
  BY <1>3 DEF VmInv, UndefinedNeedsNullary
<1>9. CallersHaveRoom'
  <2>1. \A d \in 1..Depth - 1 : frames'[d + 1].fn = frames[d + 1].fn
    BY <1>1, <1>2 DEF top
  <2> QED
    BY <1>1, <1>2, <1>3, <2>1 DEF VmInv, CallersHaveRoom, Awaits, Depth
<1>10. (status \in {"running", "undefined"} <=> frames # <<>>)'
  BY <1>1, <1>2, <1>3
<1> QED
  BY <1>5, <1>6, <1>7, <1>8, <1>9, <1>10 DEF VmInv

\* The stack rewritten and pc raised.
LEMMA FrameLeft ==
    ASSUME NEW f \in Frame, NEW s \in Seq(Word)
    PROVE  /\ [f EXCEPT !.stack = s, !.pc = @ + 1] \in Frame
           /\ [f EXCEPT !.stack = s, !.pc = @ + 1].fn = f.fn
           /\ [f EXCEPT !.stack = s, !.pc = @ + 1].stack = s
           /\ [f EXCEPT !.stack = s, !.pc = @ + 1].pc = f.pc + 1
PROOF
<1> DEFINE g == [f EXCEPT !.stack = s, !.pc = @ + 1]
<1>1. f \in VmFrame /\ f.pc + 1 \in Int
  BY DEF Frame, VmFrame
<1>2. g \in VmFrame /\ g.fn = f.fn /\ g.stack = s /\ g.len = f.len /\ g.pool = f.pool
      /\ g.pc = f.pc + 1
  BY <1>1 DEF VmFrame
<1> HIDE DEF g
<1>3. g \in Frame
  BY <1>2 DEF Frame
<1> QED
  BY <1>2, <1>3 DEF g

LEMMA LeaveKeeps ==
    ASSUME VmInv, status = "running", steps < StepLimit,
           NEW s \in Seq(Word), Len(s) <= MaxStack, Leave(s), Tick
    PROVE  VmInv'
PROOF
<1> DEFINE f == [top EXCEPT !.stack = s, !.pc = @ + 1]
<1>1. f \in Frame /\ f.fn = top.fn /\ f.stack = s
  BY Running, FrameLeft
<1>2. Continue(f)
  BY DEF Leave
<1> HIDE DEF f
<1> QED
  BY <1>1, <1>2, ContinueKeeps

\* An error drops every frame; only the limit's own error passes the limit.
LEMMA FailKeeps ==
    ASSUME VmInv, NEW e \in Errors, Fail(e),
           steps' \in Nat, steps' <= StepLimit + 1,
           e = "STEP_LIMIT" <=> steps' = StepLimit + 1
    PROVE  VmInv'
PROOF
<1>1. frames' = <<>> /\ status' = e /\ UNCHANGED <<module, ctx, result>>
  BY DEF Fail
<1>2. Len(frames') = 0 /\ frames' \in Seq(Frame)
  BY <1>1
<1>3. e \notin {"idle", "running", "ok", "undefined"}
  BY DEF Errors
<1>4. VmTypeOK'
  BY <1>1, <1>2 DEF VmInv, VmTypeOK
<1>5. FramesBounded' /\ CallersHaveRoom'
  <2>1. Depth' = 0
    BY <1>2 DEF Depth
  <2> QED
    BY <2>1, VmAssumption DEF FramesBounded, CallersHaveRoom
<1>6. StepsExact' /\ UndefinedNeedsNullary'
  BY <1>1, <1>3 DEF StepsExact, UndefinedNeedsNullary
<1>7. (status \in {"running", "undefined"} <=> frames # <<>>)'
  BY <1>1, <1>3
<1> QED
  BY <1>4, <1>5, <1>6, <1>7 DEF VmInv

\* An error raised by an instruction that was within the limit.
LEMMA FailInstruction ==
    ASSUME VmInv, steps < StepLimit, NEW e \in Errors \ {"STEP_LIMIT"}, Fail(e), Tick
    PROVE  VmInv'
PROOF
<1>1. steps \in Nat /\ StepLimit \in Nat /\ steps' = steps + 1
  BY VmAssumption DEF VmInv, VmTypeOK, Tick
<1> QED
  BY <1>1, FailKeeps

-----------------------------------------------------------------------------
\* The prologue gives a callee a whole frame: its arrays have slots that a
\* word can hold, and are cleared as far as they reach.
LEMMA SlotsFit ==
    ASSUME NEW f \in Function, NEW i \in 0..MaxLocals - 1, f.arr[i] > 0,
           Cardinality({j \in 0..MaxLocals - 1 : f.arr[j] > 0}) <= MaxArrs
    PROVE  SlotOf(f, i) \in Word
PROOF
<1> DEFINE all == {j \in 0..MaxLocals - 1 : f.arr[j] > 0}
           low == {j \in 0..i - 1 : f.arr[j] > 0}
<1>1. MaxLocals \in Nat /\ MaxArrs \in 0..Half /\ Half \in Nat /\ i \in Nat
  BY VmAssumption, WordAssumption
<1>2. IsFiniteSet(0..MaxLocals - 1)
  BY <1>1, FS_Interval
<1>3. IsFiniteSet(all) /\ Cardinality(all) \in Nat
  BY <1>2, FS_Subset, FS_CardinalityType
<1>4. low \cup {i} \in SUBSET all /\ low \in SUBSET all /\ i \notin low
  BY <1>1
<1> HIDE DEF all, low
<1>5. IsFiniteSet(low) /\ Cardinality(low) \in Nat
  BY <1>3, <1>4, FS_Subset, FS_CardinalityType
<1>6. Cardinality(low \cup {i}) = Cardinality(low) + 1
  BY <1>4, <1>5, FS_AddElement
<1>7. Cardinality(low \cup {i}) <= Cardinality(all)
  BY <1>3, <1>4, FS_Subset
<1>8. Cardinality(all) <= MaxArrs
  BY DEF all
<1>9. Cardinality(low) \in Word
  BY <1>1, <1>3, <1>5, <1>6, <1>7, <1>8 DEF Word
<1> QED
  BY <1>9 DEF SlotOf, low

LEMMA Prologue ==
    ASSUME VmInv, NEW fi \in Int, NEW args \in Seq(Word), NEW d \in Nat,
           fi >= 0, EntryError(fi, Len(args), d) = "OK"
    PROVE  /\ NewFrame(fi, args) \in Frame
           /\ NewFrame(fi, args).fn = fi
           /\ NewFrame(fi, args).stack = <<>>
           /\ fi \in 0..Len(module) - 1
           /\ d <= MaxDepth
           /\ Len(args) = module[fi + 1].nparams
PROOF
<1> DEFINE f == module[fi + 1]
           holder(s) == {i \in 0..MaxLocals - 1 : f.arr[i] > 0 /\ SlotOf(f, i) = s}
           len == [s \in 0..MaxArrs - 1 |->
                     IF holder(s) = {} THEN 0 ELSE f.arr[CHOOSE i \in holder(s) : TRUE]]
           locals == [i \in 0..MaxLocals - 1 |->
                       CASE f.arr[i] > 0 -> SlotOf(f, i)
                         [] f.arr[i] = 0 /\ i < f.nparams -> args[i + 1]
                         [] OTHER -> 0]
           pool == [s \in 0..MaxArrs - 1 |->
                     [i \in 0..MaxArrLen - 1 |-> IF i < len[s] THEN 0 ELSE Junk]]
<1>1. /\ d <= MaxDepth
      /\ ~(fi >= Len(module))
      /\ Len(args) = f.nparams
      /\ Cardinality({i \in 0..MaxLocals - 1 : f.arr[i] > 0}) <= MaxArrs
  <2>1. ~(d > MaxDepth) /\ ~(fi >= Len(module)) /\ ~(Len(args) # f.nparams)
        /\ ~(Cardinality({i \in 0..MaxLocals - 1 : f.arr[i] > 0}) > MaxArrs)
    BY Zenon DEF EntryError
  <2>2. Cardinality({i \in 0..MaxLocals - 1 : f.arr[i] > 0}) \in Nat
    <3>1. IsFiniteSet(0..MaxLocals - 1)
      BY VmAssumption, FS_Interval
    <3> QED
      BY <3>1, FS_Subset, FS_CardinalityType
  <2> QED
    BY <2>1, <2>2, VmAssumption
<1>2. fi \in 0..Len(module) - 1 /\ f \in Function
  BY <1>1 DEF VmInv, VmTypeOK, SoundModules
<1>3. /\ f.arr \in [0..MaxLocals - 1 -> 0..MaxArrLen] /\ f.nparams \in Nat
      /\ 0 \in Word /\ MaxLocals \in Nat /\ MaxArrLen \in Nat /\ MaxArrs \in Nat
  <2>1. 0 \in Word /\ MaxLocals \in Nat /\ MaxArrLen \in Nat /\ MaxArrs \in Nat
    BY VmAssumption, WordAssumption DEF Word
  <2>2. f.arr \in [0..MaxLocals - 1 -> 0..MaxArrLen] /\ f.nparams \in 0..MaxLocals
    BY <1>2 DEF Function
  <2> QED
    BY <2>1, <2>2
<1>4. \A i \in 0..MaxLocals - 1 : f.arr[i] > 0 => SlotOf(f, i) \in Word
  BY <1>1, <1>2, SlotsFit
<1>5. NewFrame(fi, args) = [fn |-> fi, pc |-> 0, stack |-> <<>>,
                            locals |-> locals, len |-> len, pool |-> pool]
  BY DEF NewFrame
<1> HIDE DEF f
<1>6. locals \in [0..MaxLocals - 1 -> Word]
  <2> SUFFICES ASSUME NEW i \in 0..MaxLocals - 1
               PROVE  (CASE f.arr[i] > 0 -> SlotOf(f, i)
                         [] f.arr[i] = 0 /\ i < f.nparams -> args[i + 1]
                         [] OTHER -> 0) \in Word
    OBVIOUS
  <2>1. CASE f.arr[i] > 0
    BY <1>3, <1>4, <2>1
  <2>2. CASE f.arr[i] = 0 /\ i < f.nparams
    BY <1>1, <1>3, <2>2
  <2>3. CASE ~(f.arr[i] > 0) /\ ~(f.arr[i] = 0 /\ i < f.nparams)
    BY <1>3, <2>3
  <2> QED
    BY <1>3, <2>1, <2>2, <2>3
<1>7. len \in [0..MaxArrs - 1 -> 0..MaxArrLen]
  <2> SUFFICES ASSUME NEW s \in 0..MaxArrs - 1
               PROVE  (IF holder(s) = {} THEN 0
                       ELSE f.arr[CHOOSE i \in holder(s) : TRUE]) \in 0..MaxArrLen
    OBVIOUS
  <2>1. CASE holder(s) = {}
    BY <1>3, <2>1
  <2>2. CASE holder(s) # {}
    <3>1. (CHOOSE i \in holder(s) : TRUE) \in holder(s)
      BY <2>2
    <3>2. holder(s) \subseteq 0..MaxLocals - 1
      OBVIOUS
    <3> HIDE DEF holder
    <3> QED
      BY <1>3, <2>2, <3>1, <3>2
  <2> QED
    BY <2>1, <2>2
<1> HIDE DEF len, locals
<1>8. pool \in [0..MaxArrs - 1 -> [0..MaxArrLen - 1 -> Word \cup {Junk}]]
  BY <1>3
<1>9. \A s \in 0..MaxArrs - 1 : \A i \in 0..len[s] - 1 : pool[s][i] \in Word
  <2> SUFFICES ASSUME NEW s \in 0..MaxArrs - 1, NEW i \in 0..len[s] - 1
               PROVE  pool[s][i] \in Word
    OBVIOUS
  <2>1. len[s] \in 0..MaxArrLen
    BY <1>7
  <2>2. i \in 0..MaxArrLen - 1 /\ i < len[s]
    BY <1>3, <2>1
  <2> QED
    BY <1>3, <2>2
<1> HIDE DEF pool
<1>10. NewFrame(fi, args) \in VmFrame
  BY <1>2, <1>5, <1>6, <1>7, <1>8 DEF VmFrame
<1>11. NewFrame(fi, args) \in Frame
  BY <1>5, <1>9, <1>10 DEF Frame
<1> QED
  BY <1>1, <1>2, <1>5, <1>11 DEF f

\* A call is entered: an outermost one, or one on top of a caller that has
\* given up its arguments.
LEMMA StartKeeps ==
    ASSUME VmInv, NEW fi \in Nat, NEW args \in Seq(Word), Start(fi, args)
    PROVE  VmInv'
PROOF
<1> DEFINE e == EntryError(fi, Len(args), 0)
<1>1. status = "idle" /\ steps' = steps /\ steps \in Nat /\ StepLimit \in Nat
      /\ steps <= StepLimit + 1 /\ steps # StepLimit + 1
  BY VmAssumption DEF Start, VmInv, VmTypeOK, StepsExact
<1>2. CASE e # "OK" /\ Fail(e)
  <2>1. e \in Errors /\ e # "STEP_LIMIT"
    BY <1>2 DEF EntryError, Errors
  <2> HIDE DEF e
  <2> QED
    BY <1>1, <1>2, <2>1, FailKeeps
<1>3. CASE e = "OK" /\ frames' = <<NewFrame(fi, args)>> /\ status' = "running"
           /\ UNCHANGED <<module, ctx, result>>
  <2> DEFINE new == NewFrame(fi, args)
  <2>1. new \in Frame /\ new.fn = fi /\ new.stack = <<>> /\ fi \in 0..Len(module) - 1
    <3>1. EntryError(fi, Len(args), 0) = "OK" /\ fi \in Int /\ fi >= 0
      BY <1>3
    <3> QED
      BY <3>1, Prologue
  <2> HIDE DEF new
  <2>2. frames' = <<new>> /\ frames' \in Seq(Frame) /\ Depth' = 1 /\ frames'[1] = new
    BY <1>3, <2>1 DEF new, Depth
  <2>3. VmTypeOK'
    BY <1>1, <1>3, <2>2 DEF VmInv, VmTypeOK
  <2>4. FramesBounded' /\ CallersHaveRoom'
    BY <1>3, <2>1, <2>2, VmAssumption DEF FramesBounded, CallersHaveRoom
  <2>5. StepsExact' /\ UndefinedNeedsNullary'
    BY <1>1, <1>3 DEF StepsExact, UndefinedNeedsNullary
  <2> QED
    BY <1>3, <2>2, <2>3, <2>4, <2>5 DEF VmInv
<1>4. CASE Fail("ARENA_OOM")
  <2>1. "ARENA_OOM" \in Errors
    BY DEF Errors
  <2> QED
    BY <1>1, <1>4, <2>1, FailKeeps
<1> QED
  BY <1>2, <1>3, <1>4 DEF Start

LEMMA CallKeeps ==
    ASSUME VmInv, Call
    PROVE  VmInv'
PROOF
<1> DEFINE n == module[ins.a + 1].nparams
           e == EntryError(ins.a, n, Depth)
<1>1. /\ Executing({"call"}) /\ status = "running" /\ steps < StepLimit
      /\ ins.a \in Int /\ Tick
  BY Fetched DEF Call, Word
<1>2. ASSUME NEW x \in Errors \ {"STEP_LIMIT"}, Fail(x) PROVE VmInv'
  BY <1>1, <1>2, FailInstruction
<1>3. CASE Fail("BAD_FN") \/ Fail("STACK_UNDERFLOW")
  BY <1>2, <1>3 DEF Errors
<1>4. CASE e # "OK" /\ Fail(e)
  <2>1. e \in Errors \ {"STEP_LIMIT"}
    BY <1>4 DEF EntryError, Errors
  <2> HIDE DEF e
  <2> QED
    BY <1>2, <1>4, <2>1
<1>5. CASE /\ ins.a \in 0..Len(module) - 1 /\ sp >= n /\ e = "OK"
           /\ frames' = Append([frames EXCEPT ![Depth] =
                                   [top EXCEPT !.stack = Below(n), !.pc = @ + 1]],
                               NewFrame(ins.a, Operands(n)))
           /\ UNCHANGED <<module, ctx, status, result>>
  <2> DEFINE new == NewFrame(ins.a, Operands(n))
             old == [top EXCEPT !.stack = Below(n), !.pc = @ + 1]
  <2>1. /\ Depth \in Nat /\ Depth >= 1 /\ Depth = Len(frames) /\ frames \in Seq(Frame)
        /\ top \in Frame /\ top.fn \in 0..Len(module) - 1 /\ sp \in Nat /\ sp <= MaxStack
    BY <1>1, Running DEF VmInv, VmTypeOK, Depth
  <2>2. n \in Nat
    <3>1. module[ins.a + 1] \in Function
      BY <1>1, <1>5 DEF VmInv, VmTypeOK, SoundModules
    <3>2. module[ins.a + 1].nparams \in 0..MaxLocals
      BY <3>1 DEF Function
    <3> QED
      BY <3>2, VmAssumption
  <2> HIDE DEF n
  <2>3. /\ Below(n) \in Seq(Word) /\ Len(Below(n)) = sp - n
        /\ Operands(n) \in Seq(Word) /\ Len(Operands(n)) = n
    BY <1>1, <1>5, <2>2, Stacks
  <2>4. /\ new \in Frame /\ new.fn = ins.a /\ new.stack = <<>> /\ Depth <= MaxDepth
    BY <1>1, <1>5, <2>1, <2>3, Prologue
  <2>5. old \in Frame /\ old.fn = top.fn /\ old.stack = Below(n) /\ old.pc = top.pc + 1
    BY <2>1, <2>3, FrameLeft
  <2>6. frames' = Append([frames EXCEPT ![Depth] = old], new)
    BY <1>5
  <2> HIDE DEF new, old
  <2>7. /\ frames' \in Seq(Frame) /\ Len(frames') = Depth + 1
        /\ frames'[Depth + 1] = new /\ frames'[Depth] = old
        /\ \A d \in 1..Depth - 1 : frames'[d] = frames[d]
    <3> DEFINE mid == [frames EXCEPT ![Depth] = old]
    <3>1. /\ mid \in Seq(Frame) /\ Len(mid) = Depth /\ mid[Depth] = old
          /\ \A d \in 1..Depth - 1 : mid[d] = frames[d]
      BY <2>1, <2>5, ExceptSeq
    <3> HIDE DEF mid
    <3>2. frames' = Append(mid, new)
      BY <2>6 DEF mid
    <3>3. /\ frames' \in Seq(Frame) /\ Len(frames') = Len(mid) + 1
          /\ frames'[Len(mid) + 1] = new
          /\ \A d \in 1..Len(mid) : frames'[d] = mid[d]
      BY <2>4, <3>1, <3>2, AppendProperties
    <3>4. Len(frames') = Depth + 1 /\ frames'[Depth + 1] = new
      BY <3>1, <3>3
    <3>5. \A d \in 1..Depth : frames'[d] = mid[d]
      BY <3>1, <3>3
    <3>6. frames'[Depth] = old
      BY <2>1, <3>1, <3>5
    <3>7. \A d \in 1..Depth - 1 : frames'[d] = frames[d]
      BY <2>1, <3>1, <3>5
    <3> QED
      BY <3>3, <3>4, <3>6, <3>7
  <2>8. Depth' = Depth + 1
    BY <2>7 DEF Depth
  <2>9. VmTypeOK'
    BY <1>1, <1>5, <2>7 DEF VmInv, VmTypeOK, Tick
  <2>10. FramesBounded'
    <3>1. \A d \in 1..Depth - 1 : Len(frames[d].stack) <= MaxStack
                                   /\ frames[d].fn \in 0..Len(module) - 1
      BY <2>1 DEF VmInv, FramesBounded
    <3>2. Len(old.stack) <= MaxStack /\ Len(new.stack) <= MaxStack
      BY <2>1, <2>2, <2>3, <2>4, <2>5, VmAssumption
    <3>3. \A d \in 1..Depth + 1 : Len(frames'[d].stack) <= MaxStack
                                   /\ frames'[d].fn \in 0..Len(module) - 1
      BY <1>5, <2>1, <2>4, <2>5, <2>7, <3>1, <3>2
    <3>4. Depth + 1 <= MaxDepth + 1
      BY <2>1, <2>4, VmAssumption
    <3> QED
      BY <1>5, <2>8, <3>3, <3>4 DEF FramesBounded
  <2>11. CallersHaveRoom'
    <3>1. ASSUME NEW d \in 1..Depth
          PROVE  Awaits(frames'[d], frames'[d + 1].fn)
      <4>1. CASE d = Depth
        <5>1. /\ frames'[d] = old /\ old.fn = top.fn /\ old.pc = top.pc + 1
              /\ Len(old.stack) = sp - n /\ frames'[d + 1].fn = ins.a
          BY <2>3, <2>4, <2>5, <2>7, <4>1
        <5>2. module[ins.a + 1].nparams = n
          BY DEF n
        <5>3. sp - n + n <= MaxStack
          BY <2>1, <2>2
        <5>4. /\ top.pc + 1 \in DOMAIN fn.code
              /\ fn.code[top.pc + 1].op = "call" /\ fn.code[top.pc + 1].a = ins.a
          BY <1>1, Fetched
        <5>5. fn.code = module[old.fn + 1].code
          BY <5>1 DEF fn
        <5> QED
          BY <5>1, <5>2, <5>3, <5>4, <5>5 DEF Awaits
      <4>2. CASE d # Depth
        <5>1. frames'[d] = frames[d] /\ frames'[d + 1].fn = frames[d + 1].fn
          BY <2>1, <2>5, <2>7, <4>2 DEF top
        <5>2. d \in 1..Depth - 1
          BY <2>1, <4>2
        <5> QED
          BY <5>1, <5>2 DEF VmInv, CallersHaveRoom
      <4> QED
        BY <4>1, <4>2
    <3>2. module' = module /\ Depth' - 1 = Depth
      BY <1>5, <2>1, <2>8
    <3> QED
      BY <3>1, <3>2 DEF CallersHaveRoom, Awaits
  <2>12. StepsExact' /\ UndefinedNeedsNullary'
    BY <1>1, <1>5, VmAssumption
       DEF VmInv, VmTypeOK, StepsExact, UndefinedNeedsNullary, Tick
  <2>13. frames' # <<>> /\ status' = "running"
    BY <1>1, <1>5, <2>1, <2>7
  <2> QED
    BY <2>9, <2>10, <2>11, <2>12, <2>13 DEF VmInv
<1> QED
  BY <1>3, <1>4, <1>5, Zenon DEF Call

\* A call returns.  Its caller gave up as many cells as the callee has
\* parameters, so only a callee without any can find the stack full.
LEMMA ReturnKeeps ==
    ASSUME VmInv, status = "running", NEW val \in Word, Return(val),
           UNCHANGED <<module, ctx>>, steps' \in Nat, steps' <= StepLimit
    PROVE  VmInv'
PROOF
<1>1. /\ Depth \in Nat /\ Depth >= 1 /\ Depth = Len(frames) /\ frames \in Seq(Frame)
      /\ sp \in Nat /\ StepLimit \in Nat /\ MaxStack \in Nat /\ MaxDepth \in Nat
  BY Running, VmAssumption DEF VmInv, VmTypeOK, Depth
<1>2. ASSUME frames' = <<>>, status' = "ok", result' \in [val : Word, sp : Nat]
      PROVE  VmInv'
  <2>1. Depth' = 0 /\ frames' \in Seq(Frame)
    BY <1>2 DEF Depth
  <2>2. VmTypeOK'
    BY <1>2, <2>1 DEF VmInv, VmTypeOK
  <2>3. FramesBounded' /\ CallersHaveRoom'
    BY <1>1, <2>1 DEF FramesBounded, CallersHaveRoom
  <2>4. StepsExact' /\ UndefinedNeedsNullary'
    BY <1>1, <1>2 DEF StepsExact, UndefinedNeedsNullary
  <2> QED
    BY <1>2, <2>2, <2>3, <2>4 DEF VmInv
<1>3. CASE Depth = 1 /\ status' = "ok" /\ result' = [val |-> val, sp |-> sp] /\ frames' = <<>>
  BY <1>1, <1>2, <1>3
<1>4. CASE /\ Depth > 1
           /\ frames' = [SubSeq(frames, 1, Depth - 1) EXCEPT
                           ![Depth - 1] = [frames[Depth - 1] EXCEPT !.stack = Append(@, val)]]
           /\ status' = IF Len(frames[Depth - 1].stack) < MaxStack THEN status ELSE "undefined"
           /\ result' = result
  <2> DEFINE caller == frames[Depth - 1]
             new == [caller EXCEPT !.stack = Append(@, val)]
             low == SubSeq(frames, 1, Depth - 1)
  <2>1. caller \in Frame /\ Depth - 1 \in 1..Depth - 1
    BY <1>1, <1>4
  <2>2. caller.stack \in Seq(Word) /\ Append(caller.stack, val) \in Seq(Word)
        /\ Len(Append(caller.stack, val)) = Len(caller.stack) + 1
    <3>1. caller.stack \in Seq(Word)
      BY <2>1 DEF Frame, VmFrame
    <3> QED
      BY <3>1
  <2> HIDE DEF caller
  <2>3. /\ new \in Frame /\ new.fn = caller.fn /\ new.pc = caller.pc
        /\ Len(new.stack) = Len(caller.stack) + 1
    <3>1. caller \in VmFrame
      BY <2>1 DEF Frame
    <3>2. new \in VmFrame /\ new.fn = caller.fn /\ new.pc = caller.pc /\ new.stack = Append(caller.stack, val)
          /\ new.len = caller.len /\ new.pool = caller.pool
      BY <2>2, <3>1 DEF VmFrame
    <3> HIDE DEF new
    <3> QED
      BY <2>1, <2>2, <3>2 DEF Frame
  <2>4. /\ low \in Seq(Frame) /\ Len(low) = Depth - 1
        /\ \A d \in 1..Depth - 1 : low[d] = frames[d]
    <3>1. \A d \in 1..Depth - 1 : frames[d] \in Frame
      BY <1>1
    <3> QED
      BY <1>1, <3>1
  <2>5. frames' = [low EXCEPT ![Depth - 1] = new]
    BY <1>4 DEF caller
  <2> HIDE DEF low, new
  <2>6. /\ frames' \in Seq(Frame) /\ Len(frames') = Depth - 1
        /\ frames'[Depth - 1] = new
        /\ \A d \in 1..Depth - 2 : frames'[d] = frames[d]
    BY <1>1, <2>1, <2>3, <2>4, <2>5, ExceptSeq
  <2>7. Depth' = Depth - 1
    BY <2>6 DEF Depth
  <2>8. VmTypeOK'
    BY <1>4, <2>6 DEF VmInv, VmTypeOK
  <2>9. \A d \in 1..Depth - 1 : frames'[d].fn = frames[d].fn
    <3>1. frames'[Depth - 1].fn = frames[Depth - 1].fn
      BY <2>3, <2>6 DEF caller
    <3>2. \A d \in 1..Depth - 2 : frames'[d].fn = frames[d].fn
      BY <2>6
    <3>3. \A d \in 1..Depth - 1 : d = Depth - 1 \/ d \in 1..Depth - 2
      BY <1>1
    <3> QED
      BY <3>1, <3>2, <3>3
  <2>a. Awaits(caller, frames[Depth].fn) /\ Len(caller.stack) \in Nat
    <3>1. Depth - 1 \in 1..Depth - 1 /\ (Depth - 1) + 1 = Depth
      BY <1>1, <2>1
    <3> QED
      BY <2>2, <3>1 DEF VmInv, CallersHaveRoom, caller
  <2>b. module[frames[Depth].fn + 1].nparams \in Nat
    <3>1. module[frames[Depth].fn + 1] \in Function
      BY <1>1, Running DEF top, VmInv, VmTypeOK, SoundModules
    <3>2. module[frames[Depth].fn + 1].nparams \in 0..MaxLocals
      BY <3>1 DEF Function
    <3> QED
      BY <3>2, VmAssumption
  <2>c. Len(caller.stack) <= MaxStack
    BY <1>1, <2>a, <2>b DEF Awaits
  <2>10. FramesBounded'
    <3>1. \A d \in 1..Depth : Len(frames[d].stack) <= MaxStack
                               /\ frames[d].fn \in 0..Len(module) - 1
      BY DEF VmInv, FramesBounded
    <3>2. \/ Len(new.stack) <= MaxStack
          \/ status' = "undefined" /\ Len(new.stack) = MaxStack + 1
      BY <1>1, <1>4, <2>3, <2>a, <2>c DEF caller
    <3>3. \A d \in 1..Depth - 2 : Len(frames'[d].stack) <= MaxStack
      <4>1. \A d \in 1..Depth - 2 : d \in 1..Depth
        BY <1>1
      <4> QED
        BY <2>6, <3>1, <4>1
    <3>4. \A d \in 1..Depth - 1 : frames'[d].fn \in 0..Len(module) - 1
      BY <1>1, <2>9, <3>1
    <3>5. Depth - 1 <= MaxDepth + 1
      BY <1>1 DEF VmInv, FramesBounded
    <3>6. \A d \in 1..Depth - 1 : d = Depth - 1 \/ d \in 1..Depth - 2
      BY <1>1
    <3>7. \A d \in 1..Depth - 1 :
            \/ Len(frames'[d].stack) <= MaxStack
            \/ status' = "undefined" /\ d = Depth - 1 /\ Len(frames'[d].stack) = MaxStack + 1
      BY <2>6, <3>2, <3>3, <3>6
    <3> QED
      BY <2>7, <3>4, <3>5, <3>7 DEF FramesBounded
  <2>11. CallersHaveRoom'
    <3>1. ASSUME NEW d \in 1..Depth - 2
          PROVE  Awaits(frames'[d], frames'[d + 1].fn)
      <4>1. frames'[d] = frames[d] /\ frames'[d + 1].fn = frames[d + 1].fn
        BY <1>1, <2>6, <2>9
      <4>2. d \in 1..Depth - 1
        BY <1>1
      <4> QED
        BY <4>1, <4>2 DEF VmInv, CallersHaveRoom
    <3>2. Depth' - 1 = Depth - 2
      BY <1>1, <2>7
    <3> QED
      BY <3>1, <3>2 DEF CallersHaveRoom, Awaits
  <2>12. StepsExact'
    BY <1>1, <1>4 DEF StepsExact
  <2>13. frames' # <<>> /\ status' \in {"running", "undefined"}
    BY <1>1, <1>4, <2>6
  <2>14. UndefinedNeedsNullary'
    <3>1. SUFFICES ASSUME status' = "undefined"
                   PROVE  \E i \in DOMAIN fn'.code :
                             /\ i = top'.pc
                             /\ fn'.code[i].op = "call"
                             /\ module'[fn'.code[i].a + 1].nparams = 0
      BY DEF UndefinedNeedsNullary
    <3>2. module[frames[Depth].fn + 1].nparams = 0
      BY <1>1, <1>4, <2>a, <2>b, <3>1 DEF Awaits, caller
    <3>3. top' = new
      BY <2>6, <2>7 DEF top
    <3>4. fn'.code = module[caller.fn + 1].code
      BY <2>3, <3>3 DEF fn
    <3> QED
      BY <2>3, <2>a, <3>2, <3>3, <3>4 DEF Awaits
  <2> QED
    BY <2>8, <2>10, <2>11, <2>12, <2>13, <2>14 DEF VmInv
<1> QED
  BY <1>3, <1>4 DEF Return

-----------------------------------------------------------------------------
\* One step per instruction.
LEMMA StackOpsKeep ==
    ASSUME VmInv, PushConst \/ LoadLocal \/ Pop \/ Unary \/ Binary
    PROVE  VmInv'
PROOF
<1>1. PICK S : Executing(S)
  BY DEF PushConst, LoadLocal, Pop, Unary, Binary
<1>2. /\ status = "running" /\ steps < StepLimit /\ ins.a \in Word
      /\ ins.op \in LocalOps => ins.a \in 0..MaxLocals - 1
  BY <1>1, Fetched
<1>3. /\ top \in Frame /\ sp \in Nat /\ sp <= MaxStack /\ sp = Len(top.stack)
      /\ top.stack \in Seq(Word) /\ MaxStack \in Nat
  BY <1>2, Running, VmAssumption DEF sp
<1>4. ASSUME NEW r \in Word, sp < MaxStack, Leave(Append(top.stack, r)), Tick
      PROVE  VmInv'
  <2>1. Append(top.stack, r) \in Seq(Word) /\ Len(Append(top.stack, r)) <= MaxStack
    BY <1>3, <1>4
  <2> QED
    BY <1>2, <1>4, <2>1, LeaveKeeps
<1>5. ASSUME NEW n \in {1, 2}, sp >= n, NEW r \in Word, Leave(Append(Below(n), r)), Tick
      PROVE  VmInv'
  <2>1. Append(Below(n), r) \in Seq(Word) /\ Len(Append(Below(n), r)) = sp - n + 1
    BY <1>2, <1>3, <1>5, Stacks
  <2>2. sp - n + 1 <= MaxStack
    BY <1>3
  <2> QED
    BY <1>2, <1>5, <2>1, <2>2, LeaveKeeps
<1>6. CASE PushConst
  BY <1>2, <1>4, <1>6 DEF PushConst
<1>7. CASE LoadLocal
  <2>1. ins.op = "load" /\ Leave(Append(top.stack, top.locals[ins.a])) /\ Tick /\ sp < MaxStack
    BY <1>7 DEF LoadLocal, Executing
  <2>2. top.locals[ins.a] \in Word
    BY <1>2, <1>3, <2>1 DEF LocalOps, Frame, VmFrame
  <2> QED
    BY <1>4, <2>1, <2>2
<1>8. CASE Pop
  <2>1. Leave(Below(1)) /\ Tick /\ sp >= 1
    BY <1>8 DEF Pop
  <2>2. Below(1) \in Seq(Word) /\ Len(Below(1)) = sp - 1
    BY <1>2, <1>3, <2>1, Stacks
  <2>3. sp - 1 <= MaxStack
    BY <1>3
  <2> QED
    BY <1>2, <2>1, <2>2, <2>3, LeaveKeeps
<1>9. CASE Unary
  BY <1>5, <1>9 DEF Unary, UnaryResults
<1>10. CASE Binary
  BY <1>5, <1>10 DEF Binary, Results
<1> QED
  BY <1>6, <1>7, <1>8, <1>9, <1>10

LEMMA ArrayReadsKeep ==
    ASSUME VmInv, LoadIndex \/ ArrLen
    PROVE  VmInv'
PROOF
<1> DEFINE slot == top.locals[ins.a]
<1>1. PICK S : Executing(S) /\ S \subseteq {"load_index", "arr_len"}
  BY DEF LoadIndex, ArrLen
<1>2. status = "running" /\ steps < StepLimit /\ ins.a \in 0..MaxLocals - 1
  BY <1>1, Fetched DEF LocalOps
<1>3. /\ top \in Frame /\ sp \in Nat /\ sp <= MaxStack /\ sp = Len(top.stack)
      /\ top.stack \in Seq(Word) /\ MaxStack \in Nat
  BY <1>2, Running, VmAssumption DEF sp
<1>4. /\ slot \in Word /\ top.len \in [0..MaxArrs - 1 -> 0..MaxArrLen]
      /\ \A s \in 0..MaxArrs - 1 : \A i \in 0..top.len[s] - 1 : top.pool[s][i] \in Word
  BY <1>2, <1>3 DEF Frame, VmFrame
<1>5. 0 \in Word /\ 0..MaxArrLen \subseteq Word
  BY VmAssumption, WordAssumption DEF Word
<1> HIDE DEF slot
<1>6. CASE LoadIndex
  <2> DEFINE i == top.stack[sp]
             v == IF Element(slot, i) THEN top.pool[slot][i] ELSE 0
  <2>1. Leave(Append(Below(1), v)) /\ Tick /\ sp >= 1
    BY <1>6 DEF LoadIndex, slot
  <2>2. v \in Word
    BY <1>4, <1>5 DEF Element
  <2> HIDE DEF v
  <2>3. Append(Below(1), v) \in Seq(Word) /\ Len(Append(Below(1), v)) = sp - 1 + 1
    BY <1>2, <1>3, <2>1, <2>2, Stacks
  <2>4. sp - 1 + 1 <= MaxStack
    BY <1>3
  <2> QED
    BY <1>2, <2>1, <2>3, <2>4, LeaveKeeps
<1>7. CASE ArrLen
  <2> DEFINE v == IF slot \in 0..MaxArrs - 1 THEN top.len[slot] ELSE 0
  <2>1. Leave(Append(top.stack, v)) /\ Tick /\ sp < MaxStack
    BY <1>7 DEF ArrLen, slot
  <2>2. v \in Word
    BY <1>4, <1>5
  <2> HIDE DEF v
  <2>3. Append(top.stack, v) \in Seq(Word) /\ Len(Append(top.stack, v)) <= MaxStack
    BY <1>3, <2>1, <2>2
  <2> QED
    BY <1>2, <2>1, <2>3, LeaveKeeps
<1> QED
  BY <1>6, <1>7

LEMMA StoreLocalKeeps ==
    ASSUME VmInv, StoreLocal
    PROVE  VmInv'
PROOF
<1> DEFINE f == [top EXCEPT !.stack = Below(1), !.pc = @ + 1, !.locals[ins.a] = top.stack[sp]]
<1>1. Executing({"store"}) /\ sp >= 1 /\ Continue(f) /\ Tick
  BY DEF StoreLocal
<1>2. status = "running" /\ steps < StepLimit /\ ins.a \in 0..MaxLocals - 1
  BY <1>1, Fetched DEF LocalOps
<1>3. /\ top \in Frame /\ sp \in Nat /\ sp <= MaxStack /\ sp = Len(top.stack)
      /\ top.stack \in Seq(Word) /\ MaxStack \in Nat
  BY <1>2, Running, VmAssumption DEF sp
<1>4. Below(1) \in Seq(Word) /\ Len(Below(1)) = sp - 1
  BY <1>1, <1>2, <1>3, Stacks
<1>5. top.stack[sp] \in Word
  BY <1>1, <1>3
<1>6. top \in VmFrame /\ top.pc + 1 \in Int
  BY <1>3 DEF Frame, VmFrame
<1>7. [top.locals EXCEPT ![ins.a] = top.stack[sp]] \in [0..MaxLocals - 1 -> Word]
  BY <1>2, <1>5, <1>6 DEF VmFrame
<1>8. f \in VmFrame /\ f.fn = top.fn /\ f.stack = Below(1) /\ f.len = top.len /\ f.pool = top.pool
  BY <1>4, <1>6, <1>7 DEF VmFrame
<1> HIDE DEF f
<1>9. f \in Frame
  BY <1>3, <1>8 DEF Frame
<1>10. Len(f.stack) <= MaxStack
  BY <1>3, <1>4, <1>8
<1> QED
  BY <1>1, <1>2, <1>8, <1>9, <1>10, ContinueKeeps

LEMMA JumpKeeps ==
    ASSUME VmInv, Jump
    PROVE  VmInv'
PROOF
<1>1. Executing(JumpOps) /\ sp >= Needs(ins.op) /\ Tick
  BY DEF Jump
<1>2. status = "running" /\ steps < StepLimit /\ ins.op \in JumpOps /\ ins.a \in Word
  BY <1>1, Fetched
<1>3. /\ top \in Frame /\ sp \in Nat /\ sp <= MaxStack /\ sp = Len(top.stack)
      /\ top.stack \in Seq(Word) /\ MaxStack \in Nat
  BY <1>2, Running, VmAssumption DEF sp
<1>4. PICK taken \in BOOLEAN :
        Continue([top EXCEPT
               !.pc = IF taken THEN ins.a ELSE @ + 1,
               !.stack = IF ins.op = "jump_if_false" THEN Below(1) ELSE @])
  BY DEF Jump
<1> DEFINE p == IF taken THEN ins.a ELSE top.pc + 1
           s == IF ins.op = "jump_if_false" THEN Below(1) ELSE top.stack
           f == [top EXCEPT !.pc = p, !.stack = s]
<1>5. Continue(f)
  BY <1>4
<1>6. s \in Seq(Word) /\ Len(s) <= MaxStack
  <2>1. CASE ins.op = "jump_if_false"
    <3>1. sp >= 1
      BY <1>1, <2>1 DEF Needs, JumpOps, UnaryOps, BinaryOps
    <3>2. Below(1) \in Seq(Word) /\ Len(Below(1)) = sp - 1
      BY <1>2, <1>3, <3>1, Stacks
    <3> QED
      BY <1>3, <2>1, <3>2
  <2>2. CASE ins.op # "jump_if_false"
    BY <1>3, <2>2
  <2> QED
    BY <2>1, <2>2
<1>7. top \in VmFrame /\ p \in Int
  <2>1. top \in VmFrame
    BY <1>3 DEF Frame
  <2>2. top.pc \in Int /\ ins.a \in Int
    BY <1>2, <2>1, WordAssumption DEF VmFrame, Word
  <2> QED
    BY <2>1, <2>2
<1> HIDE DEF p, s
<1>8. f \in VmFrame /\ f.fn = top.fn /\ f.stack = s /\ f.len = top.len /\ f.pool = top.pool
  BY <1>6, <1>7 DEF VmFrame
<1> HIDE DEF f
<1>9. f \in Frame
  BY <1>3, <1>8 DEF Frame
<1> QED
  BY <1>1, <1>2, <1>5, <1>6, <1>8, <1>9, ContinueKeeps

LEMMA StoreIndexKeeps ==
    ASSUME VmInv, StoreIndex
    PROVE  VmInv'
PROOF
<1> DEFINE slot == top.locals[ins.a]
           i == top.stack[sp - 1]
           v == top.stack[sp]
           pool == IF Element(slot, i) THEN [top.pool EXCEPT ![slot][i] = v] ELSE top.pool
           f == [top EXCEPT !.stack = Below(2), !.pc = @ + 1, !.pool = pool]
<1>1. Executing({"store_index"}) /\ sp >= 2 /\ Continue(f) /\ Tick
  BY DEF StoreIndex
<1>2. status = "running" /\ steps < StepLimit /\ ins.a \in 0..MaxLocals - 1
  BY <1>1, Fetched DEF LocalOps
<1>3. /\ top \in Frame /\ sp \in Nat /\ sp <= MaxStack /\ sp = Len(top.stack)
      /\ top.stack \in Seq(Word) /\ MaxStack \in Nat
  BY <1>2, Running, VmAssumption DEF sp
<1>4. Below(2) \in Seq(Word) /\ Len(Below(2)) = sp - 2
  BY <1>1, <1>2, <1>3, Stacks
<1>5. v \in Word /\ i \in Word
  BY <1>1, <1>3
<1>6. /\ top \in VmFrame /\ top.pc + 1 \in Int
      /\ top.pool \in [0..MaxArrs - 1 -> [0..MaxArrLen - 1 -> Word \cup {Junk}]]
      /\ top.len \in [0..MaxArrs - 1 -> 0..MaxArrLen]
      /\ \A s \in 0..MaxArrs - 1 : \A j \in 0..top.len[s] - 1 : top.pool[s][j] \in Word
  BY <1>3 DEF Frame, VmFrame
<1> HIDE DEF v, i, slot
<1>7. /\ pool \in [0..MaxArrs - 1 -> [0..MaxArrLen - 1 -> Word \cup {Junk}]]
      /\ \A s \in 0..MaxArrs - 1 : \A j \in 0..top.len[s] - 1 : pool[s][j] \in Word
  <2>1. CASE Element(slot, i)
    <3>1. slot \in 0..MaxArrs - 1 /\ i \in 0..MaxArrLen - 1
      BY <1>6, <2>1, VmAssumption, WordAssumption DEF Element
    <3>2. pool = [top.pool EXCEPT ![slot] = [top.pool[slot] EXCEPT ![i] = v]]
      BY <2>1
    <3> HIDE DEF pool
    <3>3. [top.pool[slot] EXCEPT ![i] = v] \in [0..MaxArrLen - 1 -> Word \cup {Junk}]
      BY <1>5, <1>6, <3>1
    <3>4. pool \in [0..MaxArrs - 1 -> [0..MaxArrLen - 1 -> Word \cup {Junk}]]
      BY <1>6, <3>2, <3>3
    <3>5. ASSUME NEW s \in 0..MaxArrs - 1, NEW j \in 0..top.len[s] - 1
          PROVE  pool[s][j] \in Word
      <4>1. j \in 0..MaxArrLen - 1
        BY <1>6, VmAssumption, WordAssumption
      <4>2. CASE s = slot /\ j = i
        BY <1>5, <1>6, <3>1, <3>2, <4>1, <4>2
      <4>3. CASE s = slot /\ j # i
        BY <1>6, <3>1, <3>2, <4>1, <4>3
      <4>4. CASE s # slot
        BY <1>6, <3>1, <3>2, <4>4
      <4> QED
        BY <4>2, <4>3, <4>4
    <3> QED
      BY <3>4, <3>5
  <2>2. CASE ~Element(slot, i)
    BY <1>6, <2>2
  <2> QED
    BY <2>1, <2>2
<1> HIDE DEF pool
<1>8. f \in VmFrame /\ f.fn = top.fn /\ f.stack = Below(2) /\ f.len = top.len /\ f.pool = pool
  BY <1>4, <1>6, <1>7 DEF VmFrame
<1> HIDE DEF f
<1>9. f \in Frame
  BY <1>7, <1>8 DEF Frame
<1>10. Len(f.stack) <= MaxStack
  BY <1>3, <1>4, <1>8
<1> QED
  BY <1>1, <1>2, <1>8, <1>9, <1>10, ContinueKeeps

LEMMA AbiCallKeeps ==
    ASSUME VmInv, AbiCall
    PROVE  VmInv'
PROOF
<1> DEFINE n == AbiParams(ins.a)
           values == {r \in Word : AbiReturns(ins.a, Operands(n), r)}
<1>1. Executing({"abi_call"}) /\ Tick
  BY DEF AbiCall
<1>2. status = "running" /\ steps < StepLimit
  BY <1>1, Fetched
<1>3. sp \in Nat /\ sp <= MaxStack /\ MaxStack \in Nat
  BY <1>2, Running, VmAssumption
<1>4. CASE Fail("BAD_FN") \/ Fail("STACK_UNDERFLOW")
  BY <1>1, <1>2, <1>4, FailInstruction DEF Errors
<1>5. ASSUME AbiEnabled(ins.a), sp >= n, NEW r \in values, Leave(Append(Below(n), r))
      PROVE  VmInv'
  <2>1. ins.a \in {RegionCapacity, RegionCheckRange, RegionLoadByte}
    BY <1>5 DEF AbiEnabled, VmInv, VmTypeOK
  <2>2. n \in {1, 2, 3}
    BY <2>1 DEF AbiParams, RegionCapacity, RegionCheckRange, RegionLoadByte
  <2>3. r \in Word
    BY <1>5
  <2> HIDE DEF n
  <2>4. Append(Below(n), r) \in Seq(Word) /\ Len(Append(Below(n), r)) = sp - n + 1
    BY <1>2, <1>3, <1>5, <2>2, <2>3, Stacks
  <2>5. sp - n + 1 <= MaxStack
    BY <1>3, <2>2
  <2> QED
    BY <1>1, <1>2, <1>5, <2>4, <2>5, LeaveKeeps
<1> QED
  BY <1>4, <1>5, Zenon DEF AbiCall

LEMMA ReturnsKeep ==
    ASSUME VmInv, Ret \/ FallOff
    PROVE  VmInv'
PROOF
<1>1. steps \in Nat /\ StepLimit \in Nat /\ 0 \in Word
  BY VmAssumption, WordAssumption DEF VmInv, VmTypeOK, Word
<1>2. CASE Ret
  <2>1. /\ Executing({"ret"}) /\ sp >= 1 /\ Return(top.stack[sp]) /\ Tick
        /\ UNCHANGED <<module, ctx>>
    BY <1>2 DEF Ret
  <2>2. status = "running" /\ steps < StepLimit
    BY <2>1, Fetched
  <2>3. top.stack[sp] \in Word
    BY <2>1, <2>2, Running DEF sp
  <2>4. steps' \in Nat /\ steps' <= StepLimit
    BY <1>1, <2>1, <2>2 DEF Tick
  <2> QED
    BY <2>1, <2>2, <2>3, <2>4, ReturnKeeps
<1>3. CASE FallOff
  <2>1. status = "running" /\ Return(0) /\ UNCHANGED <<module, ctx, steps>>
    BY <1>3 DEF FallOff
  <2>2. steps <= StepLimit
    BY <1>1, <2>1 DEF VmInv, StepsExact
  <2> QED
    BY <1>1, <2>1, <2>2, ReturnKeeps
<1> QED
  BY <1>2, <1>3

LEMMA ErrorsKeep ==
    ASSUME VmInv, StepLimitHit \/ StackUnderflow \/ StackOverflow \/ DivZero
    PROVE  VmInv'
PROOF
<1>1. CASE StepLimitHit
  <2>1. status = "running" /\ steps >= StepLimit /\ Fail("STEP_LIMIT") /\ steps' = steps + 1
    BY <1>1 DEF StepLimitHit, Tick
  <2>2. steps' = StepLimit + 1 /\ steps' \in Nat
    BY <2>1, VmAssumption DEF VmInv, VmTypeOK, StepsExact
  <2>3. "STEP_LIMIT" \in Errors
    BY DEF Errors
  <2> QED
    BY <2>1, <2>2, <2>3, VmAssumption, FailKeeps
<1>2. CASE StackUnderflow \/ StackOverflow \/ DivZero
  <2>1. PICK S : Executing(S)
    BY <1>2 DEF StackUnderflow, StackOverflow, DivZero
  <2>2. steps < StepLimit
    BY <2>1 DEF Executing
  <2>3. PICK e \in Errors \ {"STEP_LIMIT"} : Fail(e) /\ Tick
    BY <1>2 DEF StackUnderflow, StackOverflow, DivZero, Errors
  <2> QED
    BY <2>2, <2>3, FailInstruction
<1> QED
  BY <1>1, <1>2

-----------------------------------------------------------------------------
\* Whatever instruction the interpreter executes (lin_vm.c, the loop of
\* vm_exec_ctx), the machine stays as VmInv describes it.
THEOREM StepsKeepInvariant ==
    ASSUME VmInv, VmStep
    PROVE  VmInv'
PROOF
  BY StackOpsKeep, ArrayReadsKeep, StoreLocalKeeps, JumpKeeps, StoreIndexKeeps,
     AbiCallKeeps, ReturnsKeep, ErrorsKeep, CallKeeps, Zenon DEF VmStep

-----------------------------------------------------------------------------
(***************************************************************************)
(* Words.  A fact about every bit is shown to have no least position at    *)
(* which it fails.                                                         *)
(***************************************************************************)
LEMMA LeastOf ==
    ASSUME NEW S \in SUBSET Nat, S # {}
    PROVE  \E i \in S : \A j \in S : i <= j
<1> DEFINE R == OpToRel(<, Nat)
<1>1. PICK i \in S : \A j \in S : ~(<<j, i>> \in R)
  BY NatLessThanWellFounded, WFMin
<1>2. \A j \in S : ~(j < i)
  BY <1>1 DEF OpToRel
<1> QED  BY <1>2

\* Quotients by a positive number.
LEMMA DivUnique ==
    ASSUME NEW x \in Int, NEW d \in Nat \ {0}, NEW q \in Int, NEW r \in 0..d - 1, x = d * q + r
    PROVE  x \div d = q /\ x % d = r
<1>1. PICK p \in Int, s \in 0..d - 1 : p = x \div d /\ s = x % d /\ x = d * p + s
  OBVIOUS
<1>2. d * q + r = d * p + s
  BY <1>1
<1>3. CASE p > q
  <2>1. d * p >= d * (q + 1)
    BY <1>1, <1>3
  <2>2. d * (q + 1) = d * q + d
    OBVIOUS
  <2> QED  BY <1>1, <1>2, <2>1, <2>2
<1>4. CASE p < q
  <2>1. d * q >= d * (p + 1)
    BY <1>1, <1>4
  <2>2. d * (p + 1) = d * p + d
    BY <1>1
  <2> QED  BY <1>1, <1>2, <2>1, <2>2
<1>5. CASE p = q
  BY <1>1, <1>2, <1>5
<1> QED  BY <1>1, <1>3, <1>4, <1>5

LEMMA DivFacts ==
    ASSUME NEW x \in Int, NEW d \in Nat \ {0}
    PROVE  x \div d \in Int /\ x % d \in 0..d - 1 /\ x = d * (x \div d) + (x % d)
OBVIOUS

LEMMA MinusOneOdd == (-1) % 2 = 1
<1>1. -1 = 2 * (-1) + 1 /\ 1 \in 0..2 - 1 /\ 2 \in Nat \ {0} /\ -1 \in Int
  OBVIOUS
<1> QED  BY <1>1, DivUnique

LEMMA DivHalves ==
    ASSUME NEW x \in Int, NEW d \in Nat \ {0}
    PROVE  /\ (x \div d) \div 2 = x \div (2 * d)
           /\ x \div d = 2 * (x \div (2 * d)) + ((x \div d) % 2)
<1>1. PICK q \in Int, r \in 0..d - 1 : q = x \div d /\ x = d * q + r
  BY DivFacts
<1>2. PICK p \in Int, b \in 0..1 : p = q \div 2 /\ b = q % 2 /\ q = 2 * p + b
  OBVIOUS
<1>3. x = (2 * d) * p + (d * b + r)
  <2>1. d * (2 * p + b) = 2 * (d * p) + d * b
    OBVIOUS
  <2>2. d * q = 2 * (d * p) + d * b
    BY <1>2, <2>1
  <2>3. (2 * d) * p = 2 * (d * p)
    OBVIOUS
  <2>4. d * p \in Int /\ d * b \in Int /\ d * q \in Int
    OBVIOUS
  <2> QED  BY <1>1, <2>2, <2>3, <2>4
<1>4. d * b + r \in 0..2 * d - 1 /\ 2 * d \in Nat \ {0}
  <2>1. CASE b = 0
    BY <1>1, <2>1
  <2>2. CASE b = 1
    BY <1>1, <2>2
  <2> QED  BY <2>1, <2>2
<1>5. x \div (2 * d) = p
  BY <1>3, <1>4, DivUnique
<1> QED  BY <1>1, <1>2, <1>5

LEMMA DivDoubled ==
    ASSUME NEW x \in Int, NEW b \in 0..1, NEW d \in Nat \ {0}
    PROVE  (2 * x + b) \div (2 * d) = x \div d
<1>1. PICK q \in Int, r \in 0..d - 1 : q = x \div d /\ x = d * q + r
  BY DivFacts
<1>2. 2 * x + b = (2 * d) * q + (2 * r + b)
  <2>1. (2 * d) * q = 2 * (d * q) /\ d * q \in Int
    OBVIOUS
  <2> QED  BY <1>1, <2>1
<1>3. 2 * r + b \in 0..2 * d - 1 /\ 2 * d \in Nat \ {0} /\ 2 * x + b \in Int
  OBVIOUS
<1> QED  BY <1>1, <1>2, <1>3, DivUnique

-----------------------------------------------------------------------------
\* f doubles from 1 up to the power n.
Doubles(f, n) == f = [i \in 0..n |-> IF i = 0 THEN 1 ELSE 2 * f[i - 1]]

LEMMA DoublesExists ==
    ASSUME NEW n \in Nat
    PROVE  \E f : Doubles(f, n)
<1> DEFINE None == {m \in Nat : ~\E f : Doubles(f, m)}
<1> SUFFICES ASSUME None # {} PROVE FALSE
  OBVIOUS
<1>1. PICK m \in None : \A j \in None : m <= j
  BY LeastOf
<1>2. m # 0
  <2> DEFINE f == [i \in 0..0 |-> 1]
  <2>1. Doubles(f, 0)
    BY DEF Doubles
  <2> QED  BY <2>1
<1>3. m - 1 \in Nat /\ m - 1 \notin None
  BY <1>1, <1>2
<1>4. PICK g : Doubles(g, m - 1)
  BY <1>3
<1> DEFINE f == [i \in 0..m |-> IF i < m THEN g[i] ELSE 2 * g[i - 1]]
           body(h) == [i \in 0..m |-> IF i = 0 THEN 1 ELSE 2 * h[i - 1]]
<1>5. ASSUME NEW i \in 0..m PROVE f[i] = body(f)[i]
  <2>1. \A j \in 0..m - 1 : f[j] = g[j]
    BY <1>2
  <2>2. CASE i = m
    <3>1. f[i - 1] = g[i - 1]
      BY <2>1, <2>2, <1>2
    <3> QED  BY <3>1, <2>2, <1>2
  <2>3. CASE i # m
    <3>1. i \in 0..m - 1 /\ f[i] = g[i] /\ i \in 0..m
      BY <2>1, <2>3
    <3>2. i # 0 => f[i - 1] = g[i - 1]
      BY <2>1, <3>1
    <3>3. g[i] = IF i = 0 THEN 1 ELSE 2 * g[i - 1]
      BY <1>4, <3>1 DEF Doubles
    <3> QED  BY <3>1, <3>2, <3>3
  <2> QED  BY <2>2, <2>3
<1>6. f = body(f)
  BY <1>5
<1>7. Doubles(f, m)
  BY <1>6 DEF Doubles
<1> QED  BY <1>7

\* The powers of two, up to that of the word's width.
LEMMA Pow2Facts ==
    /\ Pow2[0] = 1
    /\ \A n \in 0..Bits - 1 : Pow2[n + 1] = 2 * Pow2[n]
    /\ \A n \in 0..Bits : Pow2[n] \in Nat \ {0}
    /\ Half = Pow2[Bits - 1]
    /\ 2 * Half = Pow2[Bits]
    /\ Half >= 2
<1>1. Bits \in Nat /\ Bits >= 2 /\ Half = Pow2[Bits - 1]
  BY WordAssumption
<1>2. Doubles(Pow2, Bits)
  BY <1>1, DoublesExists DEF Pow2, Doubles
<1>3. Pow2[0] = 1 /\ \A n \in 1..Bits : Pow2[n] = 2 * Pow2[n - 1]
  <2> HIDE DEF Pow2
  <2>1. Pow2 = [i \in 0..Bits |-> IF i = 0 THEN 1 ELSE 2 * Pow2[i - 1]]
    BY <1>2 DEF Doubles
  <2>2. \A i \in 0..Bits : Pow2[i] = IF i = 0 THEN 1 ELSE 2 * Pow2[i - 1]
    BY <2>1
  <2> QED  BY <2>2, <1>1
<1>4. \A n \in 0..Bits - 1 : Pow2[n + 1] = 2 * Pow2[n]
  <2> TAKE n \in 0..Bits - 1
  <2>1. n + 1 \in 1..Bits /\ (n + 1) - 1 = n
    BY <1>1
  <2> QED  BY <2>1, <1>3
<1>5. \A n \in 0..Bits : Pow2[n] \in Nat \ {0}
  <2> DEFINE Bad == {n \in Nat : n <= Bits /\ Pow2[n] \notin Nat \ {0}}
  <2> SUFFICES ASSUME Bad # {} PROVE FALSE
    BY <1>1
  <2>1. PICK m \in Bad : \A j \in Bad : m <= j
    BY LeastOf
  <2>2. m # 0
    BY <1>3
  <2>3. m - 1 \in Nat /\ m - 1 \notin Bad /\ m - 1 <= Bits /\ m \in 1..Bits
    BY <2>1, <2>2, <1>1
  <2>4. Pow2[m - 1] \in Nat \ {0}
    BY <2>3
  <2> QED  BY <2>3, <2>4, <1>3
<1>6. Pow2[Bits] = 2 * Half /\ Half = 2 * Pow2[Bits - 2] /\ Pow2[Bits - 2] \in Nat \ {0}
  <2>1. Bits - 1 \in 0..Bits - 1 /\ Bits - 2 \in 0..Bits - 1 /\ (Bits - 1) + 1 = Bits
        /\ (Bits - 2) + 1 = Bits - 1 /\ Bits - 2 \in 0..Bits
    BY <1>1
  <2> QED  BY <2>1, <1>1, <1>4, <1>5
<1> QED  BY <1>1, <1>3, <1>4, <1>5, <1>6

\* The top bit of a word is its sign.
LEMMA SignBit ==
    ASSUME NEW z \in Word
    PROVE  /\ z \div Half = IF z < 0 THEN -1 ELSE 0
           /\ (z \div Half) % 2 = IF z < 0 THEN 1 ELSE 0
<1>0. Half \in Nat \ {0} /\ z \in Int
  BY WordAssumption DEF Word
<1>1. CASE z < 0
  <2> DEFINE r == z + Half
  <2>1. z = Half * (-1) + r /\ r \in 0..Half - 1 /\ -1 \in Int
    BY <1>0, <1>1 DEF Word
  <2> HIDE DEF r
  <2>2. z \div Half = -1
    BY <1>0, <2>1, DivUnique
  <2> QED  BY <1>1, <2>2, MinusOneOdd
<1>2. CASE ~(z < 0)
  <2>1. z = Half * 0 + z /\ z \in 0..Half - 1 /\ 0 \in Int
    BY <1>0, <1>2 DEF Word
  <2>2. z \div Half = 0
    BY <1>0, <2>1, DivUnique
  <2> QED  BY <1>2, <2>2
<1> QED  BY <1>1, <1>2

\* A word is decided by its bits.
LEMMA OnesUnique ==
    ASSUME NEW x \in Word, NEW y \in Word, Ones(x) = Ones(y)
    PROVE  x = y
<1> DEFINE N == Bits - 1
           Bad == {n \in Nat : n <= N /\ x \div Pow2[N - n] # y \div Pow2[N - n]}
<1>1. N \in Nat /\ Bits \in Nat /\ Bits >= 2 /\ x \in Int /\ y \in Int /\ Half \in Nat
  BY WordAssumption DEF Word
<1>2. ASSUME NEW i \in 0..N
      PROVE  /\ x \div Pow2[i] \in Int /\ y \div Pow2[i] \in Int
             /\ (x \div Pow2[i]) % 2 = (y \div Pow2[i]) % 2
  <2>1. Pow2[i] \in Nat \ {0}
    BY <1>1, Pow2Facts
  <2>2. x \div Pow2[i] \in Int /\ y \div Pow2[i] \in Int
    BY <1>1, <2>1, DivFacts
  <2>3. (x \div Pow2[i]) % 2 = 1 <=> (y \div Pow2[i]) % 2 = 1
    BY <1>1 DEF Ones
  <2>4. (x \div Pow2[i]) % 2 \in 0..1 /\ (y \div Pow2[i]) % 2 \in 0..1
    BY <2>2
  <2> QED  BY <2>2, <2>3, <2>4
<1>3. Bad = {}
  <2> SUFFICES ASSUME Bad # {} PROVE FALSE
    OBVIOUS
  <2>1. PICK m \in Bad : \A j \in Bad : m <= j
    BY LeastOf
  <2>2. m # 0
    <3> SUFFICES ASSUME m = 0 PROVE FALSE
      OBVIOUS
    <3>1. Pow2[N] = Half /\ Half \in Nat \ {0} /\ N \in 0..N
      BY <1>1, Pow2Facts, WordAssumption
    <3>3. (x \div Half) % 2 = (y \div Half) % 2
      BY <1>2, <3>1
    <3>5. x \div Half = y \div Half
      BY <3>3, SignBit
    <3>6. x \div Pow2[N - 0] # y \div Pow2[N - 0] /\ N - 0 = N
      BY <2>1, <1>1
    <3> QED  BY <3>5, <3>6, <3>1
  <2>3. m - 1 \in Nat /\ m - 1 \notin Bad /\ m <= N
    BY <2>1, <2>2
  <2> DEFINE i == N - m
  <2>4. i \in 0..N /\ i + 1 = N - (m - 1) /\ i \in 0..Bits - 1 /\ i \in 0..Bits
    BY <2>3, <1>1
  <2>5. x \div Pow2[i + 1] = y \div Pow2[i + 1]
    BY <2>3, <2>4, <1>1
  <2> HIDE DEF i
  <2>6. Pow2[i + 1] = 2 * Pow2[i] /\ Pow2[i] \in Nat \ {0}
    BY <2>4, Pow2Facts
  <2>7. x \div Pow2[i] = 2 * (x \div Pow2[i + 1]) + ((x \div Pow2[i]) % 2)
    BY <1>1, <2>6, DivHalves
  <2>8. y \div Pow2[i] = 2 * (y \div Pow2[i + 1]) + ((y \div Pow2[i]) % 2)
    BY <1>1, <2>6, DivHalves
  <2>9. x \div Pow2[i] = y \div Pow2[i]
    BY <2>5, <2>7, <2>8, <1>2, <2>4
  <2> QED  BY <2>9, <2>1 DEF i
<1>4. N \notin Bad
  <2> HIDE DEF Bad
  <2> QED  BY <1>3
<1>5. x \div Pow2[N - N] = y \div Pow2[N - N]
  <2>1. N \in Nat /\ N <= N
    BY <1>1
  <2> HIDE DEF N
  <2> QED  BY <1>4, <2>1
<1>6. N - N = 0
  BY <1>1
<1>7. x \div 1 = y \div 1
  BY <1>5, <1>6, Pow2Facts
<1> QED  BY <1>7, <1>1

\* Every set of bit positions is the bits of a word.
LEMMA OnesExist ==
    ASSUME NEW S \in SUBSET (0..Bits - 1)
    PROVE  \E z \in Word : Ones(z) = S
<1> DEFINE N == Bits - 1
           Top(j, z) == \A i \in 0..j : (z \div Pow2[i]) % 2 = 1 <=> i + (N - j) \in S
           Bad == {j \in Nat : j <= N /\ ~\E z \in -Pow2[j] .. Pow2[j] - 1 : Top(j, z)}
<1>1. N \in Nat /\ Bits \in Nat /\ Bits >= 2 /\ N + 1 = Bits
  BY WordAssumption
<1>2. Bad = {}
  <2> SUFFICES ASSUME Bad # {} PROVE FALSE
    OBVIOUS
  <2>1. PICK m \in Bad : \A j \in Bad : m <= j
    BY LeastOf
  <2>2. m # 0
    <3> SUFFICES ASSUME m = 0 PROVE FALSE
      OBVIOUS
    <3> DEFINE z == IF N \in S THEN -1 ELSE 0
    <3>1. Pow2[0] = 1 /\ z \in -1..0
      BY Pow2Facts
    <3>2. z \div 1 = z
      BY <3>1
    <3>3. z % 2 = 1 <=> N \in S
      BY MinusOneOdd
    <3> HIDE DEF z
    <3>4. Top(0, z)
      <4> SUFFICES ASSUME NEW i \in 0..0
                   PROVE  (z \div Pow2[i]) % 2 = 1 <=> i + (N - 0) \in S
        OBVIOUS
      <4>1. i = 0 /\ i + (N - 0) = N
        BY <1>1
      <4> QED  BY <4>1, <3>1, <3>2, <3>3
    <3>5. z \in -Pow2[0] .. Pow2[0] - 1
      BY <3>1
    <3> QED  BY <3>4, <3>5
  <2> DEFINE k == m - 1
  <2>3. k \in Nat /\ k \notin Bad /\ k <= N /\ m <= N /\ m = k + 1
    <3> HIDE DEF Top
    <3> QED  BY <2>1, <2>2, <1>1
  <2>4. PICK z \in -Pow2[k] .. Pow2[k] - 1 : Top(k, z)
    BY <2>3
  <2> HIDE DEF k
  <2> DEFINE b == IF N - m \in S THEN 1 ELSE 0
             w == 2 * z + b
  <2>5. Pow2[m] = 2 * Pow2[k] /\ Pow2[k] \in Nat \ {0} /\ Pow2[0] = 1
    <3>1. k \in 0..Bits - 1 /\ k \in 0..Bits
      BY <2>3, <1>1
    <3> QED  BY <3>1, <2>3, Pow2Facts
  <2>6. b \in 0..1 /\ z \in Int /\ w \in Int /\ w \in -Pow2[m] .. Pow2[m] - 1
    BY <2>5
  <2> HIDE DEF b
  <2>7. ASSUME NEW i \in 0..m
        PROVE  (w \div Pow2[i]) % 2 = 1 <=> i + (N - m) \in S
    <3>1. CASE i = 0
      <4>1. w \div Pow2[i] = w
        BY <3>1, <2>5, <2>6
      <4>2. w % 2 = b
        BY <2>6
      <4>3. i + (N - m) = N - m
        BY <3>1, <1>1, <2>3
      <4> QED  BY <4>1, <4>2, <4>3 DEF b
    <3>2. CASE i # 0
      <4> DEFINE h == i - 1
      <4>1. h \in 0..k /\ i = h + 1 /\ h \in 0..Bits - 1 /\ h \in 0..Bits
            /\ i + (N - m) = h + (N - k)
        BY <3>2, <2>3, <1>1
      <4> HIDE DEF h
      <4>2. Pow2[i] = 2 * Pow2[h] /\ Pow2[h] \in Nat \ {0}
        BY <4>1, Pow2Facts
      <4>3. w \div Pow2[i] = z \div Pow2[h]
        BY <4>2, <2>6, DivDoubled
      <4>4. (z \div Pow2[h]) % 2 = 1 <=> h + (N - k) \in S
        BY <2>4, <4>1
      <4> QED  BY <4>1, <4>3, <4>4
    <3> QED  BY <3>1, <3>2
  <2>8. Top(m, w)
    BY <2>7
  <2> QED  BY <2>1, <2>6, <2>8
<1>3. N \notin Bad
  <2> HIDE DEF Bad
  <2> QED  BY <1>2
<1>4. PICK z \in -Pow2[N] .. Pow2[N] - 1 : Top(N, z)
  <2>1. N \in Nat /\ N <= N
    BY <1>1
  <2> HIDE DEF N
  <2> QED  BY <1>3, <2>1
<1>5. z \in Word
  BY <1>4, Pow2Facts DEF Word
<1>6. \A i \in 0..N : (z \div Pow2[i]) % 2 = 1 <=> i \in S
  <2> TAKE i \in 0..N
  <2>1. i + (N - N) = i
    BY <1>1
  <2> QED  BY <1>4, <2>1
<1>7. Ones(z) = S
  BY <1>6, <1>1 DEF Ones
<1> QED  BY <1>5, <1>7

-----------------------------------------------------------------------------
LEMMA WrapFacts ==
    /\ \A n \in Int : Wrap(n) \in Word
    /\ \A x \in Word : Wrap(x) = x
    /\ Wrap(Half) = -Half
<1> DEFINE d == 2 * Half
<1>0. Half \in Nat \ {0} /\ d \in Nat \ {0}
  BY WordAssumption
<1>1. ASSUME NEW n \in Int PROVE Wrap(n) \in Word
  <2>1. n + Half \in Int
    BY <1>0
  <2>2. (n + Half) % d \in 0..d - 1
    BY <1>0, <2>1, DivFacts
  <2> QED  BY <1>0, <2>2 DEF Wrap, Word
<1>2. ASSUME NEW x \in Word PROVE Wrap(x) = x
  <2> DEFINE s == x + Half
  <2>1. s \in 0..d - 1 /\ s \in Int /\ s = d * 0 + s /\ 0 \in Int /\ x \in Int
    BY <1>0 DEF Word
  <2>2. s % d = s
    <3> HIDE DEF s, d
    <3> QED  BY <1>0, <2>1, DivUnique
  <2> QED  BY <1>0, <2>1, <2>2 DEF Wrap
<1>3. Wrap(Half) = -Half
  <2>1. d = d * 1 + 0 /\ 0 \in 0..d - 1 /\ d \in Int /\ 1 \in Int /\ Half + Half = d
    BY <1>0
  <2>2. d % d = 0
    <3> HIDE DEF d
    <3> QED  BY <1>0, <2>1, DivUnique
  <2> QED  BY <1>0, <2>1, <2>2 DEF Wrap
<1> QED  BY <1>1, <1>2, <1>3

\* Division of words: the quotient and the remainder are words, whatever the
\* signs, and belong together.
LEMMA Division ==
    ASSUME NEW x \in Word, NEW y \in Word, y # 0
    PROVE  /\ lin_wdiv(x, y) \in Word
           /\ lin_wrem(x, y) \in Word
           /\ Wrap(lin_wdiv(x, y) * y + lin_wrem(x, y)) = x
<1>0. Half \in Nat /\ Half >= 2 /\ x \in -Half..Half - 1 /\ y \in -Half..Half - 1
      /\ x \in Int /\ y \in Int
  BY WordAssumption, Pow2Facts DEF Word
<1>1. CASE x = -Half /\ y = -1
  <2>1. lin_wdiv(x, y) = -Half /\ lin_wrem(x, y) = 0 /\ (-Half) * (-1) + 0 = Half
    BY <1>0, <1>1 DEF lin_wdiv, lin_wrem
  <2> QED  BY <1>0, <1>1, <2>1, WrapFacts DEF Word
<1>2. CASE ~(x = -Half /\ y = -1)
  <2> DEFINE X == Magnitude(x)
             Y == Magnitude(y)
             q == X \div Y
             r == X % Y
             Q == Quotient(x, y)
  <2>1. X \in 0..Half /\ Y \in 1..Half /\ X \in Int /\ Y \in Nat \ {0}
    BY <1>0 DEF Magnitude
  <2>2. q \in Int /\ r \in 0..Y - 1 /\ X = Y * q + r
    <3> HIDE DEF X, Y
    <3> QED  BY <2>1, DivFacts
  <2>4. /\ (x < 0 /\ X = -x) \/ (x >= 0 /\ X = x)
        /\ (y < 0 /\ Y = -y) \/ (y >= 0 /\ Y = y)
        /\ Q = IF (x < 0) <=> (y < 0) THEN q ELSE -q
    BY <1>0 DEF Magnitude, Quotient
  <2> HIDE DEF X, Y, q, r, Q
  <2>6. q >= 0 /\ q <= X
    <3>1. q >= 0
      <4> SUFFICES ASSUME q <= -1 PROVE FALSE
        BY <2>2
      <4>1. Y * q <= Y * (-1)
        BY <2>1, <2>2
      <4> QED  BY <2>1, <2>2, <4>1
    <3>2. Y * q >= 1 * q
      BY <2>1, <2>2, <3>1
    <3>3. Y * q \in Int
      BY <2>1, <2>2
    <3> QED  BY <2>1, <2>2, <3>1, <3>2, <3>3
  <2>7. Y >= 2 => 2 * q <= X
    <3> SUFFICES ASSUME Y >= 2 PROVE 2 * q <= X
      OBVIOUS
    <3>1. Y * q >= 2 * q /\ Y * q \in Int
      BY <2>1, <2>2, <2>6
    <3> QED  BY <2>1, <2>2, <3>1
  <2>8. Q \in Word /\ Q \in Int
    <3>1. CASE (x < 0) <=> (y < 0)
      <4>1. Q = q
        BY <2>4, <3>1
      <4>2. q <= Half - 1
        <5>1. CASE Y >= 2
          BY <5>1, <2>7, <2>1, <2>2, <1>0
        <5>2. CASE Y = 1
          BY <5>2, <2>4, <3>1, <2>6, <2>1, <2>2, <1>0, <1>2
        <5> QED  BY <5>1, <5>2, <2>1
      <4> QED  BY <4>1, <4>2, <2>2, <2>6, <1>0 DEF Word
    <3>2. CASE ~((x < 0) <=> (y < 0))
      BY <3>2, <2>4, <2>6, <2>2, <2>1, <1>0 DEF Word
    <3> QED  BY <3>1, <3>2
  <2>9. x - y * Q = IF x < 0 THEN -r ELSE r
    <3>1. CASE x < 0 /\ y < 0
      <4>1. y * q = -(Y * q)
        BY <3>1, <2>4, <2>2, <2>1, <1>0
      <4> QED  BY <3>1, <4>1, <2>4, <2>2, <2>1, <1>0
    <3>2. CASE x < 0 /\ y >= 0
      <4>1. y * (-q) = -(Y * q)
        BY <3>2, <2>4, <2>2, <2>1, <1>0
      <4> QED  BY <3>2, <4>1, <2>4, <2>2, <2>1, <1>0
    <3>3. CASE x >= 0 /\ y < 0
      <4>1. y * (-q) = Y * q
        BY <3>3, <2>4, <2>2, <2>1, <1>0
      <4> QED  BY <3>3, <4>1, <2>4, <2>2, <2>1, <1>0
    <3>4. CASE x >= 0 /\ y >= 0
      BY <3>4, <2>4, <2>2, <2>1, <1>0
    <3> QED  BY <3>1, <3>2, <3>3, <3>4, <1>0
  <2>10. lin_wdiv(x, y) = Q /\ lin_wrem(x, y) = x - y * Q
    BY <1>2 DEF lin_wdiv, lin_wrem, Q
  <2>11. x - y * Q \in Word
    BY <2>9, <2>1, <2>2, <1>0 DEF Word
  <2>12. Q * y + (x - y * Q) = x
    <3>1. Q * y = y * Q /\ y * Q \in Int
      BY <2>8, <1>0
    <3> QED  BY <3>1, <1>0
  <2> QED  BY <2>8, <2>10, <2>11, <2>12, WrapFacts
<1> QED  BY <1>1, <1>2

LEMMA ShiftsAreWords ==
    ASSUME NEW x \in Word, NEW y \in Word, NEW left \in BOOLEAN
    PROVE  vm_shift(x, y, left) \in Word /\ vm_ushr(x, y) \in Word
<1>0. Half \in Nat /\ Half >= 2 /\ x \in -Half..Half - 1 /\ x \in Int /\ Bits \in Nat
  BY WordAssumption, Pow2Facts DEF Word
<1>1. CASE y \notin 0..Bits - 1
  BY <1>0, <1>1 DEF vm_shift, vm_ushr, Word
<1>2. CASE y \in 0..Bits - 1
  <2> DEFINE d == Pow2[y]
             q == x \div d
  <2>1. d \in Nat \ {0}
    <3>1. y \in 0..Bits
      BY <1>0, <1>2
    <3> QED  BY <3>1, Pow2Facts
  <2>2. q \in Int /\ x % d \in 0..d - 1 /\ x = d * q + (x % d)
    <3> HIDE DEF d
    <3> QED  BY <1>0, <2>1, DivFacts
  <2> HIDE DEF d, q
  <2>3. q \in Word
    <3>1. q >= -Half
      <4> SUFFICES ASSUME q <= -Half - 1 PROVE FALSE
        BY <2>2, <1>0
      <4>1. d * q <= d * (-Half - 1)
        BY <2>1, <2>2, <1>0
      <4>2. d * (-Half - 1) = -(d * Half) - d /\ d * Half >= Half /\ d * Half \in Int
        BY <2>1, <1>0
      <4>3. d * q \in Int /\ d * q <= -Half - d
        BY <4>1, <4>2, <2>1, <2>2, <1>0
      <4> QED  BY <4>3, <2>1, <2>2, <1>0
    <3>2. q <= Half - 1
      <4> SUFFICES ASSUME q >= Half PROVE FALSE
        BY <2>2, <1>0
      <4>1. d * q >= q /\ d * q \in Int
        BY <2>1, <2>2, <1>0
      <4> QED  BY <4>1, <2>1, <2>2, <1>0
    <3> QED  BY <3>1, <3>2, <2>2, <1>0 DEF Word
  <2>4. vm_shift(x, y, left) \in Word
    <3>1. CASE left
      <4>1. x * d \in Int
        BY <2>1, <1>0
      <4>2. vm_shift(x, y, left) = Wrap(x * d)
        BY <1>2, <3>1 DEF vm_shift, d
      <4> QED  BY <4>1, <4>2, WrapFacts
    <3>2. CASE ~left
      <4>1. vm_shift(x, y, left) = q
        BY <1>2, <3>2 DEF vm_shift, d, q
      <4> QED  BY <4>1, <2>3
    <3> QED  BY <3>1, <3>2
  <2>5. vm_ushr(x, y) \in Word
    <3> DEFINE u == x % (2 * Half)
    <3>1. u \in Int /\ 2 * Half \in Nat \ {0}
      BY <1>0
    <3>2. u \div d \in Int
      <4> HIDE DEF u
      <4> QED  BY <3>1, <2>1, DivFacts
    <3>3. vm_ushr(x, y) = Wrap(u \div d)
      BY <1>2 DEF vm_ushr, d
    <3> QED  BY <3>2, <3>3, WrapFacts
  <2> QED  BY <2>4, <2>5
<1> QED  BY <1>1, <1>2

\* One word has given bits.
LEMMA OneWithOnes ==
    ASSUME NEW S \in SUBSET (0..Bits - 1)
    PROVE  \E e \in Word : {r \in Word : Ones(r) = S} = {e}
<1>1. PICK e \in Word : Ones(e) = S
  BY OnesExist
<1>2. \A r \in Word : Ones(r) = S => r = e
  BY <1>1, OnesUnique
<1> QED  BY <1>1, <1>2

\* An operator has one result, except a division by zero, which has none.
LEMMA OneResult ==
    ASSUME NEW op \in BinaryOps, NEW x \in Word, NEW y \in Word
    PROVE  /\ (op \in {"div", "mod"} /\ y = 0) => Results(op, x, y) = {}
           /\ ~(op \in {"div", "mod"} /\ y = 0) =>
                 \E e \in Word : Results(op, x, y) = {e}
<1>1. CASE op \in {"div", "mod"}
  <2>1. y = 0 => Results(op, x, y) = {}
    BY <1>1 DEF Results, Computes
  <2>2. ASSUME y # 0, op = "div" PROVE Results(op, x, y) = {lin_wdiv(x, y)}
    <3>1. \A r \in Word : Computes(op, x, y, r) <=> r = lin_wdiv(x, y)
      BY <2>2 DEF Computes
    <3> QED  BY <2>2, <3>1, Division DEF Results
  <2>3. ASSUME y # 0, op = "mod" PROVE Results(op, x, y) = {lin_wrem(x, y)}
    <3>1. \A r \in Word : Computes(op, x, y, r) <=> r = lin_wrem(x, y)
      BY <2>3 DEF Computes
    <3> QED  BY <2>3, <3>1, Division DEF Results
  <2> QED  BY <1>1, <2>1, <2>2, <2>3, Division
<1>2. CASE op \in {"and", "or", "xor"}
  <2>1. Ones(x) \in SUBSET (0..Bits - 1) /\ Ones(y) \in SUBSET (0..Bits - 1)
    BY DEF Ones
  <2>2. PICK S \in SUBSET (0..Bits - 1) : \A r \in Word : Computes(op, x, y, r) <=> Ones(r) = S
    <3>1. CASE op = "and"
      <4>1. \A r \in Word : Computes(op, x, y, r) <=> Ones(r) = Ones(x) \cap Ones(y)
        BY <3>1 DEF Computes
      <4> QED  BY <4>1, <2>1
    <3>2. CASE op = "or"
      <4>1. \A r \in Word : Computes(op, x, y, r) <=> Ones(r) = Ones(x) \cup Ones(y)
        BY <3>2 DEF Computes
      <4> QED  BY <4>1, <2>1
    <3>3. CASE op = "xor"
      <4>1. \A r \in Word : Computes(op, x, y, r) <=>
                Ones(r) = (Ones(x) \ Ones(y)) \cup (Ones(y) \ Ones(x))
        BY <3>3 DEF Computes
      <4> QED  BY <4>1, <2>1
    <3> QED  BY <1>2, <3>1, <3>2, <3>3
  <2>3. Results(op, x, y) = {r \in Word : Ones(r) = S}
    BY <2>2 DEF Results
  <2> QED  BY <1>2, <2>3, OneWithOnes
<1>3. CASE op \in {"eq", "ne", "lt", "gt", "le", "ge"}
  <2>0. 0 \in Word /\ 1 \in Word
    BY Pow2Facts, WordAssumption DEF Word
  <2>1. PICK e \in {0, 1} : \A r \in Word : Computes(op, x, y, r) <=> r = e
    <3>1. CASE op = "eq"
      <4>1. \A r \in Word : Computes(op, x, y, r) <=> r = Truth(x = y)
        BY <3>1 DEF Computes
      <4> QED  BY <4>1 DEF Truth
    <3>2. CASE op = "ne"
      <4>1. \A r \in Word : Computes(op, x, y, r) <=> r = Truth(x # y)
        BY <3>2 DEF Computes
      <4> QED  BY <4>1 DEF Truth
    <3>3. CASE op = "lt"
      <4>1. \A r \in Word : Computes(op, x, y, r) <=> r = Truth(x < y)
        BY <3>3 DEF Computes
      <4> QED  BY <4>1 DEF Truth
    <3>4. CASE op = "gt"
      <4>1. \A r \in Word : Computes(op, x, y, r) <=> r = Truth(x > y)
        BY <3>4 DEF Computes
      <4> QED  BY <4>1 DEF Truth
    <3>5. CASE op = "le"
      <4>1. \A r \in Word : Computes(op, x, y, r) <=> r = Truth(x <= y)
        BY <3>5 DEF Computes
      <4> QED  BY <4>1 DEF Truth
    <3>6. CASE op = "ge"
      <4>1. \A r \in Word : Computes(op, x, y, r) <=> r = Truth(x >= y)
        BY <3>6 DEF Computes
      <4> QED  BY <4>1 DEF Truth
    <3> QED  BY <1>3, <3>1, <3>2, <3>3, <3>4, <3>5, <3>6
  <2>2. Results(op, x, y) = {e}
    BY <2>0, <2>1 DEF Results
  <2> QED  BY <1>3, <2>0, <2>2
<1>4. CASE op \in {"add", "sub", "mul", "shl", "shr", "ushr"}
  <2>0. x \in Int /\ y \in Int
    BY WordAssumption DEF Word
  <2>1. PICK e \in Word : \A r \in Word : Computes(op, x, y, r) <=> r = e
    <3>1. CASE op = "add"
      <4>1. \A r \in Word : Computes(op, x, y, r) <=> r = Wrap(x + y)
        BY <3>1 DEF Computes
      <4>2. x + y \in Int
        BY <2>0
      <4>3. Wrap(x + y) \in Word
        BY <4>2, WrapFacts
      <4> QED  BY <4>1, <4>3
    <3>2. CASE op = "sub"
      <4>1. \A r \in Word : Computes(op, x, y, r) <=> r = Wrap(x - y)
        BY <3>2 DEF Computes
      <4>2. x - y \in Int
        BY <2>0
      <4>3. Wrap(x - y) \in Word
        BY <4>2, WrapFacts
      <4> QED  BY <4>1, <4>3
    <3>3. CASE op = "mul"
      <4>1. \A r \in Word : Computes(op, x, y, r) <=> r = Wrap(x * y)
        BY <3>3 DEF Computes
      <4>2. x * y \in Int
        BY <2>0
      <4>3. Wrap(x * y) \in Word
        BY <4>2, WrapFacts
      <4> QED  BY <4>1, <4>3
    <3>4. CASE op = "shl"
      <4>1. \A r \in Word : Computes(op, x, y, r) <=> r = vm_shift(x, y, TRUE)
        BY <3>4 DEF Computes
      <4> QED  BY <4>1, ShiftsAreWords
    <3>5. CASE op = "shr"
      <4>1. \A r \in Word : Computes(op, x, y, r) <=> r = vm_shift(x, y, FALSE)
        BY <3>5 DEF Computes
      <4> QED  BY <4>1, ShiftsAreWords
    <3>6. CASE op = "ushr"
      <4>1. \A r \in Word : Computes(op, x, y, r) <=> r = vm_ushr(x, y)
        BY <3>6 DEF Computes
      <4> QED  BY <4>1, ShiftsAreWords
    <3> QED  BY <1>4, <3>1, <3>2, <3>3, <3>4, <3>5, <3>6
  <2>2. Results(op, x, y) = {e}
    BY <2>1 DEF Results
  <2> QED  BY <1>4, <2>2
<1> QED  BY <1>1, <1>2, <1>3, <1>4 DEF BinaryOps

LEMMA OneUnaryResult ==
    ASSUME NEW op \in UnaryOps, NEW x \in Word
    PROVE  \E e \in Word : UnaryResults(op, x) = {e}
<1>0. x \in Int /\ -x \in Int
  BY WordAssumption DEF Word
<1>1. CASE op = "not"
  <2>1. \A r \in Word : Negates(op, x, r) <=> Ones(r) = (0..Bits - 1) \ Ones(x)
    BY <1>1 DEF Negates
  <2>2. UnaryResults(op, x) = {r \in Word : Ones(r) = (0..Bits - 1) \ Ones(x)}
    BY <2>1 DEF UnaryResults
  <2> QED  BY <2>2, OneWithOnes
<1>2. CASE op = "neg"
  <2>1. \A r \in Word : Negates(op, x, r) <=> r = Wrap(-x)
    BY <1>2 DEF Negates
  <2> QED  BY <1>0, <2>1, WrapFacts DEF UnaryResults
<1>3. CASE op = "lognot"
  <2>1. \A r \in Word : Negates(op, x, r) <=> r = Truth(x = 0)
    BY <1>3 DEF Negates
  <2>2. Truth(x = 0) \in Word
    BY Pow2Facts, WordAssumption DEF Truth, Word
  <2> QED  BY <2>1, <2>2 DEF UnaryResults
<1> QED  BY <1>1, <1>2, <1>3 DEF UnaryOps
=============================================================================
