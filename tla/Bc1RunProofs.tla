--------------------------- MODULE Bc1RunProofs ---------------------------
(***************************************************************************)
(* What the loader checks suffices for the interpreter: for every image,   *)
(* an execution of what was accepted refers to nothing undeclared and never*)
(* ends in LIN_ERR_VM_BAD_FN.                                              *)
(***************************************************************************)
EXTENDS Bc1Run, LinVMProofs, WellFoundedInduction

\* A function that the static checks have passed, in a module of n functions.
Declared(f, n) ==
    /\ f.ok
    /\ Cardinality({l \in 0..MaxLocals - 1 : f.arr[l] > 0}) <= MaxArrs
    /\ \A i \in DOMAIN f.code :
          LET op == f.code[i].op
              a == f.code[i].a
          IN  /\ op # "abi_call"
              /\ op \in LocalOps => a \in 0..f.nlocals - 1
              /\ op \in JumpOps => a \in 0..Len(f.code) - 1
              /\ op = "call" => a \in 0..n - 1

RunInv ==
    /\ VmInv
    /\ \A k \in DOMAIN module : Declared(module[k], Len(module))
    /\ status # "BAD_FN"
    /\ stage = "read" => Idle /\ ctx = LegacyContext
    /\ stage = "loaded" =>
          image \in Image /\ LoadError(image) = "OK" /\ module = ModuleOf(image)

-----------------------------------------------------------------------------
LEMMA Least ==
    ASSUME NEW S \in SUBSET Nat, S # {}
    PROVE  \E i \in S : \A j \in S : i <= j
PROOF
<1> DEFINE R == OpToRel(<, Nat)
<1>1. IsWellFoundedOn(R, Nat)
  BY NatLessThanWellFounded
<1>2. PICK i \in S : \A j \in S : ~(<<j, i>> \in R)
  BY <1>1, WFMin
<1>3. \A j \in S : ~(j < i)
  BY <1>2 DEF OpToRel
<1> QED
  BY <1>3

\* A loop of checks that reports its first error reports every error.
LEMMA AllChecked ==
    ASSUME NEW errs, DOMAIN errs \subseteq Nat, FirstError(errs) = "OK"
    PROVE  \A i \in DOMAIN errs : errs[i] = "OK"
PROOF
<1> DEFINE bad == {i \in DOMAIN errs : errs[i] # "OK"}
<1>1. SUFFICES ASSUME bad # {} PROVE FALSE
  OBVIOUS
<1>2. \E i \in bad : \A j \in bad : i <= j
  BY <1>1, Least
<1>3. (CHOOSE i \in bad : \A j \in bad : i <= j) \in bad
  BY <1>2
<1>4. FirstError(errs) = errs[CHOOSE i \in bad : \A j \in bad : i <= j]
  BY <1>1 DEF FirstError
<1> QED
  BY <1>3, <1>4

LEMMA FunctionsChecked ==
    ASSUME NEW img \in Image, LoadError(img) = "OK"
    PROVE  \A n \in DOMAIN img.fns : FnError(img, n) = "OK"
PROOF
<1> DEFINE errs == [n \in DOMAIN img.fns |-> FnError(img, n)]
<1>1. img.fns \in Seq(ImageFunction)
  BY DEF Image
<1>2. DOMAIN errs \subseteq Nat
  BY <1>1
<1>3. FirstError(errs) = "OK"
  BY Zenon DEF LoadError
<1>4. \A n \in DOMAIN errs : errs[n] = "OK"
  BY <1>2, <1>3, AllChecked
<1> QED
  BY <1>4

\* What the checks on one function establish.
LEMMA FnChecked ==
    ASSUME NEW img \in Image, NEW n \in DOMAIN img.fns, FnError(img, n) = "OK"
    PROVE  LET f == img.fns[n] IN
           /\ f.nparams <= f.nlocals /\ f.nlocals <= MaxLocals
           /\ Len(f.arrs) <= MaxArrs
           /\ \A k \in DOMAIN f.arrs : ArrayError(f, k) = "OK"
           /\ \A i \in DOMAIN f.code : InsError(img, f, i) = "OK"
PROOF
<1> DEFINE f == img.fns[n]
           arrErrs == [k \in DOMAIN f.arrs |-> ArrayError(f, k)]
           insErrs == [i \in DOMAIN f.code |-> InsError(img, f, i)]
<1>1. f \in ImageFunction
  BY DEF Image
<1>2. /\ f.arrs \in Seq([local : Nat, len : Nat]) /\ f.nparams \in Nat /\ f.nlocals \in Nat
      /\ f.code \in Seq([op : Ops \cup {Unknown}, a : Word])
      /\ MaxLocals \in Nat /\ MaxArrs \in Nat
  <2>1. MaxLocals \in Nat /\ MaxArrs \in Nat
    BY VmAssumption, WordAssumption
  <2> QED
    BY <1>1, <2>1 DEF ImageFunction
<1>3. /\ ~(f.nparams > f.nlocals \/ f.nlocals > MaxLocals)
      /\ ~(Len(f.arrs) > MaxArrs)
      /\ FirstError(arrErrs) = "OK"
      /\ FirstError(insErrs) = "OK"
  BY Zenon DEF FnError
<1>4. DOMAIN arrErrs \subseteq Nat /\ DOMAIN insErrs \subseteq Nat
  BY <1>2
<1>5. \A k \in DOMAIN arrErrs : arrErrs[k] = "OK"
  BY <1>3, <1>4, AllChecked
<1>6. \A i \in DOMAIN insErrs : insErrs[i] = "OK"
  BY <1>3, <1>4, AllChecked
<1>7. f.nparams <= f.nlocals /\ f.nlocals <= MaxLocals /\ Len(f.arrs) <= MaxArrs
  BY <1>2, <1>3
<1> QED
  BY <1>5, <1>6, <1>7

\* The dense table has an entry for each array, so no more than there are slots.
LEMMA ArraysFit ==
    ASSUME NEW f \in ImageFunction, Len(f.arrs) <= MaxArrs,
           \A k \in DOMAIN f.arrs : ArrayError(f, k) = "OK"
    PROVE  /\ DenseArrays(f) \in [0..MaxLocals - 1 -> 0..MaxArrLen]
           /\ Cardinality({l \in 0..MaxLocals - 1 : DenseArrays(f)[l] > 0}) <= MaxArrs
PROOF
<1> DEFINE used == {l \in 0..MaxLocals - 1 : DenseArrays(f)[l] > 0}
           named == {l \in Nat : \E k \in DOMAIN f.arrs : f.arrs[k].local = l}
           M == [k \in 1..Len(f.arrs) |-> f.arrs[k].local]
<1>1. /\ f.arrs \in Seq([local : Nat, len : Nat]) /\ DOMAIN f.arrs = 1..Len(f.arrs)
      /\ Len(f.arrs) \in Nat /\ \A k \in DOMAIN f.arrs : f.arrs[k].local \in Nat
  <2>1. f.arrs \in Seq([local : Nat, len : Nat])
    BY DEF ImageFunction
  <2>2. DOMAIN f.arrs = 1..Len(f.arrs) /\ Len(f.arrs) \in Nat
    BY <2>1, LenProperties
  <2>3. \A k \in DOMAIN f.arrs : f.arrs[k] \in [local : Nat, len : Nat]
    BY <2>1, <2>2, ElementOfSeq
  <2> QED
    BY <2>1, <2>2, <2>3
<1>2. MaxArrs \in Nat /\ MaxArrLen \in Nat
  BY VmAssumption, WordAssumption
<1>3. \A k \in DOMAIN f.arrs : f.arrs[k].len \in 1..MaxArrLen
  BY Zenon DEF ArrayError
<1>4. DenseArrays(f) \in [0..MaxLocals - 1 -> 0..MaxArrLen]
  <2> SUFFICES ASSUME NEW l \in 0..MaxLocals - 1
               PROVE  (IF \E k \in DOMAIN f.arrs : f.arrs[k].local = l
                       THEN f.arrs[CHOOSE k \in DOMAIN f.arrs : f.arrs[k].local = l].len
                       ELSE 0) \in 0..MaxArrLen
    BY DEF DenseArrays
  <2>1. CASE \E k \in DOMAIN f.arrs : f.arrs[k].local = l
    <3>1. (CHOOSE k \in DOMAIN f.arrs : f.arrs[k].local = l) \in DOMAIN f.arrs
      BY <2>1
    <3> QED
      BY <1>2, <1>3, <2>1, <3>1
  <2>2. CASE ~\E k \in DOMAIN f.arrs : f.arrs[k].local = l
    BY <1>2, <2>2
  <2> QED
    BY <2>1, <2>2
<1>5. used \subseteq named
  BY DEF DenseArrays
<1>6. M \in Surjection(1..Len(f.arrs), named)
  BY <1>1 DEF Surjection
<1>7. IsFiniteSet(1..Len(f.arrs)) /\ Cardinality(1..Len(f.arrs)) = Len(f.arrs)
  BY <1>1, FS_Interval
<1> HIDE DEF used, named, M
<1>8. IsFiniteSet(named) /\ Cardinality(named) <= Len(f.arrs)
  BY <1>6, <1>7, FS_Surjection
<1>9. /\ Cardinality(used) <= Cardinality(named)
      /\ Cardinality(used) \in Nat /\ Cardinality(named) \in Nat
  BY <1>5, <1>8, FS_Subset, FS_CardinalityType
<1>10. Cardinality(used) <= MaxArrs
  BY <1>1, <1>2, <1>8, <1>9
<1> QED
  BY <1>4, <1>10 DEF used

\* The module an accepted image becomes is one the interpreter can take, and
\* every operand in it is declared.
LEMMA AcceptedIsSound ==
    ASSUME NEW img \in Image, LoadError(img) = "OK"
    PROVE  /\ ModuleOf(img) \in SoundModules
           /\ Len(ModuleOf(img)) = Len(img.fns)
           /\ \A k \in DOMAIN ModuleOf(img) : Declared(ModuleOf(img)[k], Len(ModuleOf(img)))
PROOF
<1> DEFINE m == ModuleOf(img)
<1>1. img.fns \in Seq(ImageFunction) /\ Len(img.fns) \in Nat
  BY DEF Image
<1>2. DOMAIN m = 1..Len(img.fns)
  BY <1>1 DEF ModuleOf
<1>3. ASSUME NEW n \in DOMAIN img.fns
      PROVE  m[n] \in Function /\ LocalsInFrame(m[n]) /\ Declared(m[n], Len(img.fns))
  <2> DEFINE f == img.fns[n]
  <2>1. f \in ImageFunction
    BY <1>1
  <2>2. FnError(img, n) = "OK"
    BY FunctionsChecked
  <2>3. /\ f.nparams <= f.nlocals /\ f.nlocals <= MaxLocals /\ Len(f.arrs) <= MaxArrs
        /\ \A k \in DOMAIN f.arrs : ArrayError(f, k) = "OK"
        /\ \A i \in DOMAIN f.code : InsError(img, f, i) = "OK"
    BY <2>2, FnChecked
  <2>4. m[n] = [ok |-> TRUE, nparams |-> f.nparams, nlocals |-> f.nlocals,
                arr |-> DenseArrays(f), code |-> f.code]
    BY DEF ModuleOf
  <2> HIDE DEF f, m
  <2>5. /\ DenseArrays(f) \in [0..MaxLocals - 1 -> 0..MaxArrLen]
        /\ Cardinality({l \in 0..MaxLocals - 1 : DenseArrays(f)[l] > 0}) <= MaxArrs
    BY <2>1, <2>3, ArraysFit
  <2>6. /\ f.code \in Seq([op : Ops \cup {Unknown}, a : Word])
        /\ f.nparams \in Nat /\ f.nlocals \in Nat
    BY <2>1 DEF ImageFunction
  <2>7. ASSUME NEW i \in DOMAIN f.code
        PROVE  /\ f.code[i] \in Instruction
               /\ f.code[i].op # "abi_call"
               /\ f.code[i].op \in LocalOps => f.code[i].a \in 0..f.nlocals - 1
               /\ f.code[i].op \in JumpOps => f.code[i].a \in 0..Len(f.code) - 1
               /\ f.code[i].op = "call" => f.code[i].a \in 0..Len(img.fns) - 1
    <3>1. InsError(img, f, i) = "OK"
      BY <2>3
    <3>2. /\ f.code[i].op \notin {"abi_call", Unknown}
          /\ ~(f.code[i].op \in JumpOps /\ f.code[i].a \notin 0..Len(f.code) - 1)
          /\ ~(f.code[i].op = "call" /\ f.code[i].a \notin 0..Len(img.fns) - 1)
          /\ ~(f.code[i].op \in LocalOps /\ f.code[i].a \notin 0..f.nlocals - 1)
      BY <3>1, Zenon DEF InsError
    <3>3. f.code[i] \in [op : Ops \cup {Unknown}, a : Word]
      BY <2>6, LenProperties, ElementOfSeq
    <3>4. f.code[i] \in Instruction
      BY <3>2, <3>3 DEF Instruction
    <3> QED
      BY <3>2, <3>4
  <2>8. f.code \in Seq(Instruction)
    BY <2>6, <2>7
  <2>9. f.nparams \in 0..MaxLocals /\ f.nlocals \in 0..MaxLocals
    BY <2>3, <2>6, VmAssumption
  <2>10. m[n] \in Function
    BY <2>4, <2>5, <2>8, <2>9 DEF Function
  <2>11. LocalsInFrame(m[n])
    <3>1. 0..f.nlocals - 1 \subseteq 0..MaxLocals - 1
      BY <2>9, VmAssumption
    <3> QED
      BY <2>4, <2>7, <3>1 DEF LocalsInFrame
  <2>12. Declared(m[n], Len(img.fns))
    <3> DEFINE g == m[n]
    <3>1. g.ok = TRUE /\ g.nlocals = f.nlocals /\ g.arr = DenseArrays(f) /\ g.code = f.code
      BY <2>4
    <3>2. Cardinality({l \in 0..MaxLocals - 1 : g.arr[l] > 0}) <= MaxArrs
      BY <2>5, <3>1
    <3> HIDE DEF g
    <3>3. Declared(g, Len(img.fns))
      BY <2>7, <3>1, <3>2 DEF Declared
    <3> QED
      BY <3>3 DEF g
  <2> QED
    BY <2>10, <2>11, <2>12
<1> HIDE DEF m
<1>4. m \in Seq(Function) /\ Len(m) = Len(img.fns)
  <2>1. m \in [1..Len(img.fns) -> Function]
    <3>1. m = [n \in DOMAIN img.fns |-> m[n]]
      BY DEF m, ModuleOf
    <3>2. DOMAIN img.fns = 1..Len(img.fns)
      BY <1>1, LenProperties
    <3>3. \A n \in 1..Len(img.fns) : m[n] \in Function
      BY <1>3, <3>2
    <3> QED
      BY <3>1, <3>2, <3>3
  <2> QED
    BY <1>1, <2>1
<1>5. DOMAIN img.fns = 1..Len(img.fns)
  BY <1>1
<1>6. m \in SoundModules
  BY <1>2, <1>3, <1>4, <1>5 DEF SoundModules
<1>7. \A k \in DOMAIN m : Declared(m[k], Len(m))
  BY <1>2, <1>3, <1>4, <1>5
<1> QED
  BY <1>4, <1>6, <1>7 DEF m

-----------------------------------------------------------------------------
\* The function that runs, and the instruction it is at, passed the checks.
LEMMA CurrentIsDeclared ==
    ASSUME RunInv, status = "running"
    PROVE  /\ Declared(fn, Len(module))
           /\ InCode => /\ ins.op # "abi_call"
                        /\ ins.op \in LocalOps => ins.a \in 0..fn.nlocals - 1
                        /\ ins.op \in JumpOps => ins.a \in 0..Len(fn.code) - 1
                        /\ ins.op = "call" => ins.a \in 0..Len(module) - 1
PROOF
<1>1. top.fn \in 0..Len(module) - 1 /\ fn \in Function /\ top \in Frame
  BY Running DEF RunInv
<1>2. module \in Seq(Function)
  BY DEF RunInv, VmInv, VmTypeOK, SoundModules
<1>3. Declared(fn, Len(module))
  BY <1>1, <1>2 DEF RunInv, fn
<1>4. fn.code \in Seq(Instruction) /\ top.pc \in Int
  BY <1>1 DEF Function, Frame, VmFrame
<1>5. InCode => top.pc + 1 \in DOMAIN fn.code
  BY <1>4 DEF InCode
<1> QED
  BY <1>3, <1>5 DEF Declared, ins

\* Entering a function of an accepted module fails only for want of depth or
\* for its number of arguments.
LEMMA EntryFails ==
    ASSUME RunInv, NEW fi \in 0..Len(module) - 1, NEW n, NEW d
    PROVE  EntryError(fi, n, d) # "BAD_FN"
PROOF
<1> DEFINE f == module[fi + 1]
<1>1. module \in Seq(Function)
  BY DEF RunInv, VmInv, VmTypeOK, SoundModules
<1>2. Declared(f, Len(module)) /\ ~(fi >= Len(module))
  BY <1>1 DEF RunInv
<1>3. Cardinality({i \in 0..MaxLocals - 1 : f.arr[i] > 0}) \in Nat
  <2>1. IsFiniteSet(0..MaxLocals - 1)
    BY VmAssumption, FS_Interval
  <2> QED
    BY <2>1, FS_Subset, FS_CardinalityType
<1>4. f.ok /\ ~(Cardinality({i \in 0..MaxLocals - 1 : f.arr[i] > 0}) > MaxArrs)
  <2> HIDE DEF f
  <2> DEFINE c == Cardinality({i \in 0..MaxLocals - 1 : f.arr[i] > 0})
  <2>1. f.ok /\ c <= MaxArrs
    BY <1>2 DEF Declared
  <2> HIDE DEF c
  <2>2. ~(c > MaxArrs)
    BY <1>3, <2>1, VmAssumption, WordAssumption DEF c
  <2> QED
    BY <2>1, <2>2 DEF c
<1> QED
  BY <1>2, <1>4 DEF EntryError

LEMMA StepStaysGood ==
    ASSUME RunInv, VmStep
    PROVE  status' # "BAD_FN" /\ module' = module
PROOF
<1>1. CASE StepLimitHit \/ StackUnderflow \/ StackOverflow \/ DivZero
  BY <1>1 DEF StepLimitHit, StackUnderflow, StackOverflow, DivZero, Fail
<1>2. CASE PushConst \/ LoadLocal \/ StoreLocal \/ Pop \/ Unary \/ Binary
           \/ Jump \/ LoadIndex \/ StoreIndex \/ ArrLen
  BY <1>2, Zenon DEF PushConst, LoadLocal, StoreLocal, Pop, Unary, Binary, Jump, LoadIndex,
     StoreIndex, ArrLen, Leave, Continue, RunInv
<1>3. CASE Ret \/ FallOff
  BY <1>3 DEF Ret, FallOff, Return, RunInv
<1>4. CASE Call
  <2>1. Executing({"call"})
    BY <1>4 DEF Call
  <2>2. status = "running" /\ InCode /\ ins.op = "call"
    BY <2>1 DEF Executing
  <2>3. ins.a \in 0..Len(module) - 1
    BY <2>2, CurrentIsDeclared
  <2>4. EntryError(ins.a, module[ins.a + 1].nparams, Depth) # "BAD_FN"
    BY <2>3, EntryFails
  <2> QED
    BY <1>4, <2>2, <2>3, <2>4, Zenon DEF Call, Fail
<1>5. CASE AbiCall
  <2>1. status = "running" /\ InCode /\ ins.op = "abi_call"
    BY <1>5 DEF AbiCall, Executing
  <2> QED
    BY <2>1, CurrentIsDeclared
<1> QED
  BY <1>1, <1>2, <1>3, <1>4, <1>5, Zenon DEF VmStep

\* A machine that has not started is as VmInv describes it with any module.
LEMMA IdleInv == Idle /\ module \in SoundModules /\ ctx = LegacyContext => VmInv
PROOF
<1> SUFFICES ASSUME Idle, module \in SoundModules, ctx = LegacyContext
             PROVE  VmInv
  OBVIOUS
<1>1. frames = <<>> /\ steps = 0 /\ status = "idle" /\ result = [val |-> 0, sp |-> 0]
  BY DEF Idle
<1>2. Depth = 0 /\ frames \in Seq(Frame)
  BY <1>1 DEF Depth
<1>3. 0 \in Word /\ StepLimit \in Nat /\ MaxDepth \in Nat
  BY VmAssumption, WordAssumption DEF Word
<1>4. VmTypeOK
  BY <1>1, <1>2, <1>3 DEF VmTypeOK, LegacyContext
<1>5. FramesBounded /\ CallersHaveRoom
  BY <1>2, <1>3 DEF FramesBounded, CallersHaveRoom, Awaits, fn, top
<1>6. StepsExact /\ UndefinedNeedsNullary
  BY <1>1, <1>3 DEF StepsExact, UndefinedNeedsNullary
<1> QED
  BY <1>1, <1>4, <1>5, <1>6 DEF VmInv

LEMMA RunInvInit ==
    ASSUME Init
    PROVE  RunInv
PROOF
<1>1. module = <<>> /\ ctx = LegacyContext /\ Idle /\ stage = "read"
  BY DEF Init
<1>2. module \in SoundModules /\ DOMAIN module = {}
  BY <1>1 DEF SoundModules
<1>3. VmInv
  BY <1>1, <1>2, IdleInv
<1> QED
  BY <1>1, <1>2, <1>3 DEF RunInv, Idle

\* lin_bc1_find_fn finds a function of the module.
LEMMA Found ==
    ASSUME NEW img \in Image, NEW text, FindFn(img, text) # -1
    PROVE  FindFn(img, text) \in 0..Len(img.fns) - 1
PROOF
<1> DEFINE named == {n \in DOMAIN img.fns : img.strings[img.fns[n].name + 1].text = text}
           first == CHOOSE n \in named : \A m \in named : n <= m
<1>1. img.fns \in Seq(ImageFunction)
  BY DEF Image
<1>2. DOMAIN img.fns = 1..Len(img.fns) /\ Len(img.fns) \in Nat
  BY <1>1, LenProperties
<1>3. named # {} /\ FindFn(img, text) = first - 1
  BY DEF FindFn
<1>4. named \subseteq 1..Len(img.fns)
  BY <1>2
<1> HIDE DEF named
<1>5. \E n \in named : \A m \in named : n <= m
  BY <1>2, <1>3, <1>4, Least
<1>6. first \in named
  BY <1>5
<1> HIDE DEF first
<1> QED
  BY <1>2, <1>3, <1>4, <1>6

LEMMA RunInvNext ==
    ASSUME RunInv, [Next]_runVars
    PROVE  RunInv'
PROOF
<1> USE DEF RunInv
<1>1. CASE UNCHANGED vmVars /\ image' = image /\ (stage' = stage \/ stage' \notin {"read", "loaded"})
  <2>1. VmInv'
    BY <1>1 DEF vmVars, VmInv, VmTypeOK, FramesBounded, StepsExact, UndefinedNeedsNullary,
                CallersHaveRoom, Awaits, Depth, fn, top
  <2> QED
    BY <1>1, <2>1 DEF vmVars, Idle
<1>2. CASE Load
  <2>1. PICK img \in Images :
          /\ image' = img
          /\ \/ LoadError(img) = "OK" /\ module' = ModuleOf(img) /\ stage' = "loaded"
             \/ LoadError(img) # "OK" /\ stage' = "REJECTED" /\ UNCHANGED module
    BY <1>2 DEF Load
  <2>2. stage = "read" /\ UNCHANGED <<ctx, frames, steps, status, result>>
    BY <1>2 DEF Load
  <2>3. Idle' /\ ctx' = LegacyContext /\ status' = "idle"
    BY <2>2 DEF Idle
  <2>4. img \in Image
    BY ImagesAssumption
  <2>5. CASE LoadError(img) = "OK" /\ module' = ModuleOf(img) /\ stage' = "loaded"
    <3>1. /\ module' \in SoundModules
          /\ \A k \in DOMAIN module' : Declared(module'[k], Len(module'))
      BY <2>4, <2>5, AcceptedIsSound
    <3>2. VmInv'
      <4>1. (Idle /\ module \in SoundModules /\ ctx = LegacyContext)'
        BY <2>3, <3>1
      <4> QED
        BY <4>1, IdleInv, PTL
    <3> QED
      BY <2>1, <2>3, <2>4, <2>5, <3>1, <3>2
  <2>6. CASE LoadError(img) # "OK" /\ stage' = "REJECTED" /\ UNCHANGED module
    <3>1. VmInv'
      BY <2>2, <2>6 DEF VmInv, VmTypeOK, FramesBounded, StepsExact, UndefinedNeedsNullary,
                CallersHaveRoom, Awaits, Depth, fn, top
    <3> QED
      BY <2>2, <2>3, <2>6, <3>1
  <2> QED
    BY <2>1, <2>5, <2>6
<1>3. CASE Exec
  <2>1. PICK text \in Texts, args \in Args :
          /\ FindFn(image, text) # -1
          /\ Start(FindFn(image, text),
                   SubSeq(args, 1, IF Len(args) < MaxLocals THEN Len(args) ELSE MaxLocals))
    BY <1>3 DEF Exec
  <2> DEFINE fi == FindFn(image, text)
             av == SubSeq(args, 1, IF Len(args) < MaxLocals THEN Len(args) ELSE MaxLocals)
  <2>2. stage = "loaded" /\ stage' = "exec" /\ image' = image
    BY <1>3 DEF Exec
  <2>3. image \in Image /\ LoadError(image) = "OK" /\ module = ModuleOf(image)
    BY <2>2
  <2>4. fi \in 0..Len(module) - 1
    <3>1. fi \in 0..Len(image.fns) - 1
      BY <2>1, <2>3, Found
    <3>2. Len(module) = Len(image.fns)
      BY <2>3, AcceptedIsSound
    <3> QED
      BY <3>1, <3>2
  <2>5. av \in Seq(Word)
    <3>1. args \in Seq(Word) /\ Len(args) \in Nat /\ MaxLocals \in Nat
      BY ImagesAssumption, VmAssumption
    <3> DEFINE k == IF Len(args) < MaxLocals THEN Len(args) ELSE MaxLocals
    <3>2. k \in 0..Len(args)
      BY <3>1
    <3>3. \A i \in 1..k : args[i] \in Word
      BY <3>1, <3>2
    <3> HIDE DEF k
    <3>4. SubSeq(args, 1, k) \in Seq(Word)
      BY <3>1, <3>2, <3>3
    <3> QED
      BY <3>4 DEF k
  <2>6. Start(fi, av)
    BY <2>1
  <2> HIDE DEF fi, av
  <2>7. VmInv'
    <3>1. fi \in Nat
      BY <2>4
    <3> QED
      BY <2>5, <2>6, <3>1, StartKeeps
  <2>8. status' # "BAD_FN" /\ module' = module
    <3>1. EntryError(fi, Len(av), 0) # "BAD_FN"
      BY <2>4, EntryFails
    <3> QED
      BY <2>6, <3>1 DEF Start, Fail
  <2> QED
    BY <2>2, <2>7, <2>8
<1>4. CASE Run
  <2>1. stage = "exec" /\ stage' = stage /\ VmStep
    BY <1>4 DEF Run
  <2>2. VmInv'
    BY <2>1, StepsKeepInvariant
  <2>3. status' # "BAD_FN" /\ module' = module
    BY <2>1, StepStaysGood
  <2> QED
    BY <2>1, <2>2, <2>3
<1>5. CASE ReadFails \/ Verify \/ UnknownFn \/ Report \/ Done \/ UNCHANGED runVars
  BY <1>1, <1>5 DEF ReadFails, Verify, UnknownFn, Report, Done, runVars
<1> QED
  BY <1>2, <1>3, <1>4, <1>5 DEF Next

LEMMA RunInvariant == Spec => []RunInv
PROOF
  BY RunInvInit, RunInvNext, PTL DEF Spec

\* The interpreter executes no operand that the image did not declare
\* (lin_linbc1.c, the checks on locals, jumps and calls).
THEOREM AcceptedIsDeclared == Spec => []DeclaredOnly
PROOF
<1>1. RunInv => DeclaredOnly
  BY CurrentIsDeclared DEF DeclaredOnly
<1> QED
  BY <1>1, RunInvariant, PTL

\* No execution of an accepted image ends in LIN_ERR_VM_BAD_FN.
THEOREM AcceptedHasGoodFunctions == Spec => []NoBadFunction
PROOF
<1>1. RunInv => NoBadFunction
  BY DEF RunInv, NoBadFunction
<1> QED
  BY <1>1, RunInvariant, PTL
=============================================================================
