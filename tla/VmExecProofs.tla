--------------------------- MODULE VmExecProofs ---------------------------
(***************************************************************************)
(* The safety properties of an execution, for every module, context and    *)
(* argument list a host may choose.                                        *)
(***************************************************************************)
EXTENDS VmExec, LinVMProofs

\* A context keeps the fields it was made with; only enabling changes the set of
\* intrinsics, and only to ids of the region intrinsics.
ContextInv ==
    /\ DOMAIN ctx = {"profile", "abiVersion", "enabled", "regions", "store"}
    /\ ctx.enabled \subseteq AbiIds

HostInv == VmInv /\ ContextInv

LEMMA InitOK ==
    ASSUME Init
    PROVE  HostInv
PROOF
<1>1. frames = <<>> /\ steps = 0 /\ status = "idle" /\ result = [val |-> 0, sp |-> 0]
  BY DEF Init, Idle
<1>2. Depth = 0 /\ frames \in Seq(Frame)
  BY <1>1 DEF Depth
<1>3. 0 \in Word /\ StepLimit \in Nat /\ MaxDepth \in Nat
  BY VmAssumption, WordAssumption DEF Word
<1>4. module \in SoundModules /\ ctx \in FreshContexts
  BY HostAssumption DEF Init
<1>5. ContextInv
  BY <1>4 DEF FreshContexts, ContextInv
<1>6. VmTypeOK
  BY <1>1, <1>2, <1>3, <1>4, <1>5 DEF VmTypeOK, ContextInv, AbiIds
<1>7. FramesBounded /\ CallersHaveRoom
  BY <1>2, <1>3 DEF FramesBounded, CallersHaveRoom, Awaits, fn, top
<1>8. StepsExact /\ UndefinedNeedsNullary
  BY <1>1, <1>3 DEF StepsExact, UndefinedNeedsNullary
<1> QED
  BY <1>1, <1>5, <1>6, <1>7, <1>8 DEF VmInv, HostInv

\* A step that leaves the machine alone and the context well-formed.
LEMMA ContextStep ==
    ASSUME HostInv, UNCHANGED <<module, frames, steps, status, result>>, ContextInv'
    PROVE  HostInv'
PROOF
<1>1. VmTypeOK'
  BY DEF HostInv, VmInv, VmTypeOK, ContextInv, AbiIds
<1> QED
  BY <1>1 DEF HostInv, VmInv, FramesBounded, StepsExact, UndefinedNeedsNullary,
              CallersHaveRoom, Awaits, Depth, fn, top

\* A program cannot change its context.
LEMMA RunKeepsContext ==
    ASSUME VmStep
    PROVE  UNCHANGED ctx
PROOF
<1> USE DEF Fail, Continue, Leave
<1>1. CASE StepLimitHit \/ StackUnderflow \/ StackOverflow \/ DivZero
  BY <1>1 DEF StepLimitHit, StackUnderflow, StackOverflow, DivZero
<1>2. CASE PushConst \/ LoadLocal \/ StoreLocal \/ Pop \/ Unary \/ Binary
  BY <1>2 DEF PushConst, LoadLocal, StoreLocal, Pop, Unary, Binary
<1>3. CASE Jump \/ LoadIndex \/ StoreIndex \/ ArrLen
  BY <1>3 DEF Jump, LoadIndex, StoreIndex, ArrLen
<1>4. CASE Call
  BY <1>4 DEF Call
<1>5. CASE Ret \/ FallOff
  BY <1>5 DEF Ret, FallOff, Return
<1>6. CASE AbiCall
  BY <1>6 DEF AbiCall
<1> QED
  BY <1>1, <1>2, <1>3, <1>4, <1>5, <1>6 DEF VmStep

LEMMA NextOK ==
    ASSUME HostInv, [Next]_hostVars
    PROVE  HostInv'
PROOF
<1>1. CASE UNCHANGED hostVars
  <2>1. ContextInv'
    BY <1>1 DEF hostVars, vmVars, HostInv, ContextInv
  <2> QED
    BY <1>1, <2>1, ContextStep DEF hostVars, vmVars
<1>2. ASSUME NEW fi \in 0..Len(module), NEW args \in Args, Start(fi, args) PROVE HostInv'
  <2>1. fi \in Nat /\ args \in Seq(Word)
    BY HostAssumption DEF HostInv, VmInv, VmTypeOK, SoundModules
  <2>2. VmInv'
    BY <1>2, <2>1, StartKeeps DEF HostInv
  <2>3. UNCHANGED ctx
    BY <1>2 DEF Start, Fail
  <2> QED
    BY <2>2, <2>3 DEF HostInv, ContextInv
<1>3. CASE Run
  <2>1. VmInv' /\ UNCHANGED ctx
    BY <1>3, StepsKeepInvariant, RunKeepsContext DEF Run, HostInv
  <2> QED
    BY <2>1 DEF HostInv, ContextInv
<1>4. CASE Prepare
  <2>1. Preparing /\ ContextInv'
    <3>1. ASSUME NEW b \in Bindings, BindRegion(b) PROVE Preparing /\ ContextInv'
      BY <3>1 DEF BindRegion, HostInv, ContextInv
    <3>2. ASSUME NEW r \in DOMAIN ctx.regions, NEW src \in Inputs, WriteRegion(r, src)
          PROVE  Preparing /\ ContextInv'
      BY <3>2 DEF WriteRegion, HostInv, ContextInv
    <3>3. CASE ClearRegions
      BY <3>3 DEF ClearRegions, HostInv, ContextInv
    <3>4. ASSUME NEW id \in AbiIds, EnableAbi(id) PROVE Preparing /\ ContextInv'
      BY <3>4 DEF EnableAbi, HostInv, ContextInv
    <3> QED
      BY <1>4, <3>1, <3>2, <3>3, <3>4 DEF Prepare
  <2> QED
    BY <2>1, ContextStep DEF Preparing
<1>5. CASE Halted
  BY <1>1, <1>5 DEF Halted
<1> QED
  BY <1>1, <1>2, <1>3, <1>4, <1>5 DEF Next

LEMMA MachineInvariant == Spec => []VmInv
PROOF
<1>1. HostInv => VmInv
  BY DEF HostInv
<1> QED
  BY InitOK, NextOK, <1>1, PTL DEF Spec

\* No call ever reads a cell that it, or its prologue, did not write: operand
\* stacks and locals hold words only, so an execution does not depend on what
\* earlier calls left in the frame store.
THEOREM NoJunkIsRead == Spec => []VmTypeOK
PROOF
<1>1. VmInv => VmTypeOK
  BY DEF VmInv
<1> QED
  BY <1>1, MachineInvariant, PTL

\* No stack and no call tree outgrows the frame store, but for the one cell that the
\* unchecked push of OP_CALL may write past the newest stack, where execution is
\* undefined from then on.
THEOREM StackAndDepthBounded == Spec => []FramesBounded
PROOF
<1>1. VmInv => FramesBounded
  BY DEF VmInv
<1> QED
  BY <1>1, MachineInvariant, PTL

\* The step counter that all calls share stops one past the limit, and only
\* with the error of the limit.
THEOREM StepLimitIsExact == Spec => []StepsExact
PROOF
<1>1. VmInv => StepsExact
  BY DEF VmInv
<1> QED
  BY <1>1, MachineInvariant, PTL

\* A returned value is stored out of bounds only by the call of a function without
\* parameters; with a parameter the callee has given back a cell.
THEOREM OnlyNullaryOverflows == Spec => []UndefinedNeedsNullary
PROOF
<1>1. VmInv => UndefinedNeedsNullary
  BY DEF VmInv
<1> QED
  BY <1>1, MachineInvariant, PTL

\* Whatever words a program computes with, every operator has exactly one
\* result on them, a division by zero none, and a remainder belongs to its
\* quotient: for words of every width.
THEOREM ArithmeticHasOneAnswer == Spec => []ArithmeticDefined
PROOF
<1>1. VmInv => ArithmeticDefined
  <2> SUFFICES ASSUME VmInv, status = "running", InCode
               PROVE  ArithmeticDefined
    BY DEF ArithmeticDefined
  <2>1. top.stack \in Seq(Word) /\ sp = Len(top.stack) /\ sp \in Nat
    BY Running DEF sp
  <2>2. \A e : Cardinality({e}) = 1
    BY FS_Singleton
  <2>3. ASSUME ins.op \in UnaryOps, sp >= 1
        PROVE  Cardinality(UnaryResults(ins.op, top.stack[sp])) = 1
    <3>1. top.stack[sp] \in Word
      BY <2>1, <2>3
    <3> QED
      BY <2>2, <2>3, <3>1, OneUnaryResult
  <2>4. ASSUME ins.op \in BinaryOps, sp >= 2,
               NEW x \in Word, NEW y \in Word
        PROVE  IF ins.op \in {"div", "mod"} /\ y = 0
               THEN Results(ins.op, x, y) = {}
               ELSE /\ Cardinality(Results(ins.op, x, y)) = 1
                    /\ ins.op = "mod" =>
                         \A q \in Results("div", x, y), r \in Results("mod", x, y) :
                             Wrap(q * y + r) = x
    <3>1. CASE ins.op \in {"div", "mod"} /\ y = 0
      BY <2>4, <3>1, OneResult
    <3>2. CASE ~(ins.op \in {"div", "mod"} /\ y = 0)
      <4>1. Cardinality(Results(ins.op, x, y)) = 1
        <5>1. PICK e \in Word : Results(ins.op, x, y) = {e}
          BY <2>4, <3>2, OneResult
        <5> QED
          BY <2>2, <5>1
      <4>2. ASSUME ins.op = "mod", NEW q \in Results("div", x, y), NEW r \in Results("mod", x, y)
            PROVE  Wrap(q * y + r) = x
        <5>1. y # 0
          BY <3>2, <4>2
        <5>2. q = lin_wdiv(x, y)
          BY DEF Results, Computes
        <5>3. r = lin_wrem(x, y)
          BY DEF Results, Computes
        <5> QED
          BY <5>1, <5>2, <5>3, Division
      <4> QED
        BY <3>2, <4>1, <4>2
    <3> QED
      BY <3>1, <3>2
  <2>5. sp >= 2 => top.stack[sp - 1] \in Word /\ top.stack[sp] \in Word
    BY <2>1
  <2> QED
    BY <2>3, <2>4, <2>5 DEF ArithmeticDefined
<1> QED
  BY <1>1, MachineInvariant, PTL

-----------------------------------------------------------------------------
(***************************************************************************)
(* Bytes in cells                                                          *)
(***************************************************************************)

LEMMA DivDiv ==
    ASSUME NEW x \in Int, NEW p \in Nat \ {0}, NEW q \in Nat \ {0}
    PROVE  p * q \in Nat \ {0} /\ (x \div p) \div q = x \div (p * q)
<1>1. PICK a \in Int, r \in 0..p - 1 : a = x \div p /\ x = p * a + r
  BY DivFacts
<1>2. PICK c \in Int, s \in 0..q - 1 : c = a \div q /\ a = q * c + s
  BY DivFacts
<1>3. p * q \in Nat \ {0}
  OBVIOUS
<1>4. p * a = (p * q) * c + p * s
  BY <1>2
<1>5. p * s \in Nat /\ p * s <= p * q - p
  <2>1. s \in Nat /\ s <= q - 1
    BY <1>2
  <2>2. p * s \in Nat
    BY <2>1
  <2>3. p * s <= p * (q - 1)
    BY <2>1
  <2>4. p * (q - 1) = p * q - p
    OBVIOUS
  <2> QED  BY <2>2, <2>3, <2>4
<1> DEFINE d == p * q
           t == p * s + r
<1>6. t \in 0..d - 1
  BY <1>1, <1>3, <1>5
<1>7. x = d * c + t
  <2>1. PICK u \in Int : u = (p * q) * c
    BY <1>3
  <2>2. PICK v \in Int : v = p * s
    BY <1>5
  <2>3. x = (u + v) + r /\ t = v + r
    BY <1>1, <1>4, <2>1, <2>2
  <2> QED  BY <2>1, <2>3
<1> HIDE DEF t
<1>8. d \in Nat \ {0}
  BY <1>3
<1> HIDE DEF d
<1>9. x \div d = c
  BY <1>2, <1>6, <1>7, <1>8, DivUnique
<1> QED  BY <1>1, <1>2, <1>3, <1>9 DEF d

LEMMA DivAdds ==
    ASSUME NEW x \in Int, NEW c \in Int, NEW d \in Nat \ {0}
    PROVE  (d * c + x) \div d = c + (x \div d)
<1>1. PICK a \in Int, r \in 0..d - 1 : a = x \div d /\ x = d * a + r
  BY DivFacts
<1>2. d * (c + a) = d * c + d * a /\ d * c \in Int /\ d * a \in Int
  BY <1>1
<1> DEFINE y == d * c + x
           e == c + a
<1>3. y \in Int /\ e \in Int /\ y = d * e + r
  BY <1>1, <1>2
<1> HIDE DEF y, e
<1>4. y \div d = e
  BY <1>1, <1>3, DivUnique
<1> QED  BY <1>1, <1>4 DEF y, e

LEMMA SameParity ==
    ASSUME NEW x \in Int, NEW c \in Int
    PROVE  (2 * c + x) % 2 = x % 2
OBVIOUS

LEMMA PowSum ==
    ASSUME NEW a \in Nat, NEW b \in Nat, a + b <= Bits
    PROVE  Pow2[a + b] = Pow2[a] * Pow2[b]
<1> DEFINE Bad == {n \in Nat : a + n <= Bits /\ Pow2[a + n] # Pow2[a] * Pow2[n]}
<1>0. Bits \in Nat /\ a \in 0..Bits
  BY WordAssumption
<1>1. Pow2[a] \in Nat \ {0}
  BY <1>0, Pow2Facts
<1>2. Bad = {}
  <2> SUFFICES ASSUME Bad # {} PROVE FALSE
    OBVIOUS
  <2>1. PICK m \in Bad : \A j \in Bad : m <= j
    BY LeastOf
  <2>2. m # 0
    BY <1>1, <2>1, Pow2Facts
  <2> DEFINE k == m - 1
  <2>3. k \in Nat /\ k \notin Bad /\ a + k <= Bits /\ m = k + 1 /\ a + m = (a + k) + 1
    BY <2>1, <2>2, <1>0
  <2>4. k \in 0..Bits - 1 /\ a + k \in 0..Bits - 1 /\ k \in 0..Bits
    BY <2>1, <2>3, <1>0
  <2>5. Pow2[a + k] = Pow2[a] * Pow2[k]
    BY <2>3
  <2> HIDE DEF k, Bad
  <2>6. Pow2[m] = 2 * Pow2[k] /\ Pow2[a + m] = 2 * Pow2[a + k] /\ Pow2[k] \in Nat
    BY <2>3, <2>4, Pow2Facts
  <2>7. Pow2[a] * (2 * Pow2[k]) = 2 * (Pow2[a] * Pow2[k])
    BY <1>1, <2>6
  <2>8. Pow2[a + m] = Pow2[a] * Pow2[m]
    BY <2>5, <2>6, <2>7
  <2> QED  BY <2>1, <2>8 DEF Bad
<1>3. b \notin Bad
  <2> HIDE DEF Bad
  <2> QED  BY <1>2
<1> QED  BY <1>3

\* A larger exponent, a larger power.
LEMMA PowGrows ==
    ASSUME NEW a \in 0..Bits, NEW b \in 0..Bits, a <= b
    PROVE  Pow2[a] <= Pow2[b]
<1>1. Bits \in Nat
  BY WordAssumption
<1>2. PICK c \in Nat : a + c = b /\ c \in 0..Bits
  <2>1. b - a \in Nat /\ a + (b - a) = b /\ b - a \in 0..Bits
    BY <1>1
  <2> QED  BY <2>1
<1>3. Pow2[b] = Pow2[a] * Pow2[c]
  BY <1>1, <1>2, PowSum
<1>4. Pow2[a] \in Nat \ {0} /\ Pow2[c] \in Nat \ {0}
  BY <1>2, Pow2Facts
<1>5. Pow2[a] * Pow2[c] >= Pow2[a]
  BY <1>4
<1> QED  BY <1>3, <1>4, <1>5

\* The widths of bytes and cells.
LEMMA ByteWidths ==
    /\ Bits \in Nat /\ ByteBits \in Nat /\ ByteBits >= 1 /\ ByteBits \in 0..Bits
    /\ CellBytes \in Nat /\ CellBytes >= 1
    /\ Pow2[ByteBits] \in Nat \ {0}
    /\ \A k \in 0..CellBytes - 1 : /\ ByteBits * k \in Nat
                                   /\ ByteBits * k + ByteBits <= Bits
                                   /\ ByteBits * k \in 0..Bits
                                   /\ Pow2[ByteBits * k] \in Nat \ {0}
<1>1. /\ Bits \in Nat /\ ByteBits \in Nat /\ ByteBits >= 1 /\ CellBytes \in Nat /\ CellBytes >= 1
      /\ ByteBits * CellBytes = Bits
  BY WordAssumption
<1>2. ASSUME NEW k \in 0..CellBytes - 1
      PROVE  ByteBits * k \in Nat /\ ByteBits * k + ByteBits <= Bits
  <2>1. k \in Nat /\ k + 1 <= CellBytes
    BY <1>1
  <2>2. ByteBits * k \in Nat
    BY <1>1, <2>1
  <2>3. ByteBits * (k + 1) <= ByteBits * CellBytes
    BY <1>1, <2>1
  <2>4. ByteBits * (k + 1) = ByteBits * k + ByteBits
    BY <1>1, <2>1
  <2> QED  BY <1>1, <2>2, <2>3, <2>4
<1>3. ByteBits \in 0..Bits
  <2>1. 0 \in 0..CellBytes - 1
    BY <1>1
  <2>2. ByteBits * 0 + ByteBits <= Bits /\ ByteBits * 0 = 0
    BY <1>1, <1>2, <2>1
  <2> QED  BY <1>1, <2>2
<1>4. \A k \in 0..CellBytes - 1 : ByteBits * k \in 0..Bits /\ Pow2[ByteBits * k] \in Nat \ {0}
  <2> TAKE k \in 0..CellBytes - 1
  <2>1. ByteBits * k \in 0..Bits
    <3>1. PICK m \in Nat : m = ByteBits * k /\ m + ByteBits <= Bits
      BY <1>2
    <3> QED  BY <1>1, <3>1
  <2> QED  BY <2>1, Pow2Facts
<1> QED  BY <1>1, <1>2, <1>3, <1>4, Pow2Facts

\* A bit of a byte is a bit of its cell.
LEMMA ByteBit ==
    ASSUME NEW w \in Int, NEW k \in 0..CellBytes - 1, NEW j \in 0..ByteBits - 1
    PROVE  /\ ByteOf(w, k) \in Byte
           /\ ByteBits * k + j \in 0..Bits - 1
           /\ (ByteOf(w, k) \div Pow2[j]) % 2 = (w \div Pow2[ByteBits * k + j]) % 2
<1> DEFINE m == ByteBits * k
           B == ByteBits
           v == w \div Pow2[m]
           y == v % Pow2[B]
           c == v \div Pow2[B]
<1>1. /\ B \in Nat /\ B >= 1 /\ Bits \in Nat /\ m \in Nat /\ m + B <= Bits /\ j \in Nat /\ j + 1 <= B
      /\ Pow2[B] \in Nat \ {0} /\ Pow2[m] \in Nat \ {0}
  BY ByteWidths
<1>2. v \in Int /\ y \in 0..Pow2[B] - 1 /\ c \in Int /\ v = Pow2[B] * c + y
  BY <1>1, DivFacts
<1>3. ByteOf(w, k) = y
  BY DEF ByteOf
<1> HIDE DEF v, y, c, m, B
<1>4. m + j \in 0..Bits - 1 /\ m + j <= Bits
  BY <1>1
<1>5. PICK h \in Nat : B = j + (h + 1)
  <2>1. B - (j + 1) \in Nat /\ B = j + ((B - (j + 1)) + 1)
    BY <1>1
  <2> QED  BY <2>1
<1>6. /\ j \in 0..Bits /\ h \in 0..Bits - 1 /\ h \in 0..Bits /\ j + (h + 1) <= Bits /\ h + 1 \in Nat
  BY <1>1, <1>5
<1>7. /\ Pow2[j] \in Nat \ {0} /\ Pow2[h] \in Nat \ {0} /\ Pow2[h + 1] = 2 * Pow2[h]
      /\ Pow2[B] = Pow2[j] * (2 * Pow2[h])
  BY <1>5, <1>6, Pow2Facts, PowSum
<1> DEFINE p == Pow2[j]
           e == Pow2[h] * c
<1>8. e \in Int /\ p \in Nat \ {0} /\ y \in Int
  BY <1>2, <1>7
<1>9. Pow2[B] * c = p * (2 * e)
  BY <1>2, <1>7
<1> HIDE DEF e
<1>10. v \div p = 2 * e + (y \div p) /\ y \div p \in Int
  <2> HIDE DEF p
  <2>1. v = p * (2 * e) + y /\ 2 * e \in Int
    BY <1>2, <1>8, <1>9
  <2> QED  BY <1>8, <2>1, DivAdds, DivFacts
<1>11. (v \div p) % 2 = (y \div p) % 2
  BY <1>8, <1>10, SameParity
<1>12. v \div p = w \div Pow2[m + j]
  <2>1. Pow2[m + j] = Pow2[m] * p
    BY <1>1, <1>4, PowSum
  <2> HIDE DEF p
  <2> QED  BY <1>1, <1>8, <2>1, DivDiv DEF v
<1> QED  BY <1>2, <1>3, <1>4, <1>11, <1>12 DEF m, B, Byte

\* The bits of a byte that was shifted to its place.
LEMMA ShiftedBits ==
    ASSUME NEW b \in Byte, NEW k \in 0..CellBytes - 1, NEW i \in 0..Bits - 1
    PROVE  i \in Ones(b * Pow2[ByteBits * k]) <=>
               \E j \in 0..ByteBits - 1 : i = ByteBits * k + j /\ (b \div Pow2[j]) % 2 = 1
<1> DEFINE m == ByteBits * k
           B == ByteBits
           x == b * Pow2[m]
<1>1. /\ B \in Nat /\ B >= 1 /\ Bits \in Nat /\ m \in Nat /\ m + B <= Bits /\ m \in 0..Bits
      /\ Pow2[B] \in Nat \ {0} /\ Pow2[m] \in Nat \ {0}
  BY ByteWidths
<1>2. b \in Nat /\ b <= Pow2[B] - 1 /\ x \in Nat /\ i \in Nat /\ i < Bits /\ i \in 0..Bits
  BY <1>1 DEF Byte
<1> HIDE DEF m, B
<1>3. i \in Ones(x) <=> (x \div Pow2[i]) % 2 = 1
  BY DEF Ones
<1>4. CASE i < m
  <2>1. PICK h \in Nat : m = i + (h + 1)
    <3>1. m - (i + 1) \in Nat /\ m = i + ((m - (i + 1)) + 1)
      BY <1>1, <1>2, <1>4
    <3> QED  BY <3>1
  <2>2. h \in 0..Bits - 1 /\ h \in 0..Bits /\ h + 1 \in Nat
    BY <1>1, <1>2, <2>1
  <2>3. /\ Pow2[i] \in Nat \ {0} /\ Pow2[h] \in Nat \ {0} /\ Pow2[h + 1] = 2 * Pow2[h]
        /\ Pow2[m] = Pow2[i] * (2 * Pow2[h])
    BY <1>1, <1>2, <2>1, <2>2, Pow2Facts, PowSum
  <2> DEFINE e == b * Pow2[h]
             p == Pow2[i]
  <2>4. e \in Int /\ 2 * e \in Int /\ x = p * (2 * e) + 0 /\ p \in Nat \ {0}
    BY <1>2, <2>3
  <2>5. 0 \in 0..p - 1
    BY <2>4
  <2> HIDE DEF e, p, x
  <2>6. x \div p = 2 * e
    BY <1>2, <2>4, <2>5, DivUnique
  <2>7. (2 * e) % 2 = 0
    BY <2>4
  <2>8. \A j \in 0..B - 1 : i # m + j
    BY <1>1, <1>2, <1>4
  <2> QED  BY <1>3, <2>6, <2>7, <2>8 DEF p, x, m, B
<1>5. CASE i >= m + B
  <2>1. x < Pow2[i] /\ Pow2[i] \in Nat \ {0}
    <3>1. m + B \in 0..Bits
      BY <1>1
    <3>2. Pow2[m + B] <= Pow2[i] /\ Pow2[i] \in Nat \ {0} /\ Pow2[m + B] \in Nat
      BY <1>2, <1>5, <3>1, PowGrows, Pow2Facts
    <3>3. Pow2[m + B] = Pow2[m] * Pow2[B]
      BY <1>1, PowSum
    <3>4. x <= Pow2[m] * (Pow2[B] - 1)
      BY <1>1, <1>2
    <3>5. Pow2[m] * (Pow2[B] - 1) = Pow2[m] * Pow2[B] - Pow2[m]
      BY <1>1
    <3> HIDE DEF x
    <3> QED  BY <1>1, <1>2, <3>2, <3>3, <3>4, <3>5
  <2> HIDE DEF x
  <2> DEFINE p == Pow2[i]
  <2>2. p \in Nat \ {0} /\ x \in 0..p - 1 /\ x = p * 0 + x
    BY <1>2, <2>1
  <2> HIDE DEF p
  <2>3. x \div p = 0
    BY <1>2, <2>2, DivUnique
  <2>4. \A j \in 0..B - 1 : i # m + j
    BY <1>1, <1>2, <1>5
  <2> QED  BY <1>3, <2>3, <2>4 DEF p, x, m, B
<1>6. CASE i >= m /\ i < m + B
  <2>1. PICK j \in 0..B - 1 : i = m + j
    <3>1. i - m \in 0..B - 1 /\ i = m + (i - m)
      BY <1>1, <1>2, <1>6
    <3> QED  BY <3>1
  <2>2. j \in Nat /\ j \in 0..Bits
    BY <1>1, <2>1
  <2>3. Pow2[i] = Pow2[m] * Pow2[j] /\ Pow2[j] \in Nat \ {0}
    BY <1>1, <1>2, <2>1, <2>2, PowSum, Pow2Facts
  <2>4. x \div Pow2[m] = b
    <3> DEFINE p == Pow2[m]
    <3>1. p \in Nat \ {0} /\ x = p * b + 0
      BY <1>1, <1>2
    <3>2. 0 \in 0..p - 1
      BY <3>1
    <3> HIDE DEF p, x
    <3>3. x \div p = b
      BY <1>2, <3>1, <3>2, DivUnique
    <3> QED  BY <3>3 DEF p
  <2> HIDE DEF x
  <2>5. x \div Pow2[i] = b \div Pow2[j]
    BY <1>1, <1>2, <2>3, <2>4, DivDiv
  <2>6. \A g \in 0..B - 1 : i = m + g => g = j
    BY <1>1, <2>1
  <2> QED  BY <1>3, <2>1, <2>5, <2>6 DEF x, m, B
<1> QED  BY <1>1, <1>2, <1>4, <1>5, <1>6

\* A byte is decided by its bits.
LEMMA BytesUnique ==
    ASSUME NEW y \in Byte, NEW b \in Byte,
           \A j \in 0..ByteBits - 1 : (y \div Pow2[j]) % 2 = 1 <=> (b \div Pow2[j]) % 2 = 1
    PROVE  y = b
<1>1. y \in Word /\ b \in Word
  BY HostAssumption
<1>2. Pow2[ByteBits] \in Nat /\ ByteBits \in 0..Bits /\ Bits \in Nat /\ ByteBits \in Nat
  BY ByteWidths
<1>3. ASSUME NEW z \in Byte, NEW i \in 0..Bits - 1, i >= ByteBits
      PROVE  (z \div Pow2[i]) % 2 = 0
  <2>1. i \in 0..Bits
    BY <1>2
  <2>2. Pow2[ByteBits] <= Pow2[i] /\ Pow2[i] \in Nat \ {0}
    BY <1>2, <1>3, <2>1, PowGrows, Pow2Facts
  <2> DEFINE p == Pow2[i]
  <2>3. z \in Int /\ p \in Nat \ {0} /\ z \in 0..p - 1 /\ z = p * 0 + z
    BY <1>2, <2>2 DEF Byte
  <2> HIDE DEF p
  <2>4. z \div p = 0
    BY <2>3, DivUnique
  <2> QED  BY <2>4 DEF p
<1>4. \A i \in 0..Bits - 1 : (y \div Pow2[i]) % 2 = 1 <=> (b \div Pow2[i]) % 2 = 1
  <2> TAKE i \in 0..Bits - 1
  <2>1. CASE i >= ByteBits
    BY <1>3, <2>1
  <2>2. CASE ~(i >= ByteBits)
    <3>1. i \in 0..ByteBits - 1
      BY <1>2, <2>2
    <3> QED  BY <3>1
  <2> QED  BY <2>1, <2>2
<1>5. Ones(y) = Ones(b)
  BY <1>4 DEF Ones
<1> QED  BY <1>1, <1>5, OnesUnique

\* Where byte i of an input is.
LEMMA Places ==
    ASSUME NEW i \in Nat
    PROVE  /\ i \div CellBytes \in Nat /\ i % CellBytes \in 0..CellBytes - 1
           /\ i = CellBytes * (i \div CellBytes) + (i % CellBytes)
           /\ \A n \in Nat : i < n * CellBytes => i \div CellBytes \in 0..n - 1
<1>1. CellBytes \in Nat \ {0}
  BY WordAssumption
<1>2. PICK q \in Int, r \in 0..CellBytes - 1 :
          q = i \div CellBytes /\ r = i % CellBytes /\ i = CellBytes * q + r
  BY <1>1, DivFacts
<1>3. q >= 0
  <2> SUFFICES ASSUME q <= -1 PROVE FALSE
    BY <1>2
  <2>1. CellBytes * q <= CellBytes * (-1)
    BY <1>1
  <2> QED  BY <1>1, <1>2, <2>1
<1>4. ASSUME NEW n \in Nat, i < n * CellBytes PROVE q <= n - 1
  <2> SUFFICES ASSUME q >= n PROVE FALSE
    BY <1>2
  <2>1. CellBytes * q >= CellBytes * n /\ CellBytes * n = n * CellBytes
    BY <1>1
  <2>2. CellBytes * q \in Int /\ n * CellBytes \in Int
    BY <1>1
  <2> QED  BY <1>2, <1>4, <2>1, <2>2
<1> QED  BY <1>2, <1>3, <1>4

\* Two bytes of one cell do not share a bit.
LEMMA ApartInCell ==
    ASSUME NEW k \in 0..CellBytes - 1, NEW h \in 0..CellBytes - 1,
           NEW j \in 0..ByteBits - 1, NEW g \in 0..ByteBits - 1,
           ByteBits * k + j = ByteBits * h + g
    PROVE  k = h /\ j = g
<1>1. CellBytes \in Nat /\ ByteBits \in Nat \ {0} /\ k \in Int /\ h \in Int
  BY WordAssumption
<1> DEFINE x == ByteBits * k + j
<1>2. x \in Int /\ x = ByteBits * k + j /\ x = ByteBits * h + g
  BY <1>1
<1> HIDE DEF x
<1>3. x \div ByteBits = k /\ x % ByteBits = j
  BY <1>1, <1>2, DivUnique
<1>4. x \div ByteBits = h /\ x % ByteBits = g
  BY <1>1, <1>2, DivUnique
<1> QED  BY <1>3, <1>4

LEMMA ZeroHasNoBits == Ones(0) = {}
<1>1. ASSUME NEW i \in 0..Bits - 1 PROVE (0 \div Pow2[i]) % 2 = 0
  <2>1. Pow2[i] \in Nat \ {0}
    <3>1. i \in 0..Bits
      BY ByteWidths
    <3> QED  BY <3>1, Pow2Facts
  <2> DEFINE p == Pow2[i]
  <2>2. p \in Nat \ {0} /\ 0 \in 0..p - 1 /\ 0 = p * 0 + 0
    BY <2>1
  <2> HIDE DEF p
  <2>3. 0 \div p = 0
    BY <2>2, DivUnique
  <2> QED  BY <2>3 DEF p
<1> QED  BY <1>1 DEF Ones

\* What lin_region_write_bytes puts into cleared cells is what lin_region_load_byte finds.
LEMMA FilledReads ==
    ASSUME NEW src \in Seq(Byte), NEW capacity \in Nat, Len(src) <= capacity * CellBytes,
           NEW i \in 0..Len(src) - 1
    PROVE  ByteOf(Filled([c \in 0..capacity - 1 |-> 0], src)[i \div CellBytes], i % CellBytes) = src[i + 1]
<1> DEFINE c == i \div CellBytes
           k == i % CellBytes
           here == {n \in 0..Len(src) - 1 : n \div CellBytes = c}
           S == UNION {Ones(src[n + 1] * Pow2[ByteBits * (n % CellBytes)]) : n \in here}
           w == CHOOSE z \in Word : Ones(z) = S
           b == src[i + 1]
<1>1. Len(src) \in Nat /\ i \in Nat /\ i < Len(src) /\ i + 1 \in 1..Len(src)
      /\ CellBytes \in Nat /\ CellBytes >= 1
  BY ByteWidths
<1>2. i < capacity * CellBytes
  <2>1. capacity * CellBytes \in Nat
    BY <1>1
  <2> QED  BY <1>1, <2>1
<1>3. c \in 0..capacity - 1 /\ c \in Nat /\ k \in 0..CellBytes - 1
  BY <1>1, <1>2, Places
<1>4. Filled([d \in 0..capacity - 1 |-> 0], src)[c] = w
  <2>1. Ones(0) \cup S = S
    BY ZeroHasNoBits
  <2> DEFINE zero == [d \in 0..capacity - 1 |-> 0]
  <2>2. DOMAIN zero = 0..capacity - 1 /\ zero[c] = 0
    BY <1>3
  <2> HIDE DEF zero
  <2>3. Filled(zero, src)[c] = CHOOSE z \in Word : Ones(z) = Ones(zero[c]) \cup S
    BY <1>3, <2>2 DEF Filled
  <2> QED  BY <2>1, <2>2, <2>3 DEF zero
<1>5. S \in SUBSET (0..Bits - 1)
  BY DEF Ones
<1>6. w \in Word /\ Ones(w) = S
  <2> HIDE DEF S
  <2>1. \E z \in Word : Ones(z) = S
    BY <1>5, OnesExist
  <2> QED  BY <2>1
<1> HIDE DEF w
<1>7. \A n \in here : src[n + 1] \in Byte /\ n \in Nat /\ n % CellBytes \in 0..CellBytes - 1
  <2> TAKE n \in here
  <2>1. n \in Nat /\ n + 1 \in 1..Len(src)
    BY <1>1
  <2> QED  BY <2>1, Places
<1>8. w \in Int /\ b \in Byte
  BY <1>1, <1>6, WordAssumption DEF Word
<1>9. ASSUME NEW j \in 0..ByteBits - 1
      PROVE  (ByteOf(w, k) \div Pow2[j]) % 2 = 1 <=> (b \div Pow2[j]) % 2 = 1
  <2> DEFINE at == ByteBits * k + j
  <2>1. at \in 0..Bits - 1 /\ (ByteOf(w, k) \div Pow2[j]) % 2 = (w \div Pow2[at]) % 2
    BY <1>3, <1>8, ByteBit
  <2>2. (w \div Pow2[at]) % 2 = 1 <=> at \in S
    <3> HIDE DEF at, S
    <3> QED  BY <1>6, <2>1 DEF Ones
  <2>3. at \in S <=> \E n \in here : at \in Ones(src[n + 1] * Pow2[ByteBits * (n % CellBytes)])
    OBVIOUS
  <2>4. ASSUME NEW n \in here
        PROVE  at \in Ones(src[n + 1] * Pow2[ByteBits * (n % CellBytes)]) <=>
                   \E g \in 0..ByteBits - 1 : /\ at = ByteBits * (n % CellBytes) + g
                                              /\ (src[n + 1] \div Pow2[g]) % 2 = 1
    BY <1>7, <2>1, ShiftedBits
  <2> HIDE DEF S
  <2>5. i \in here
    BY <1>1
  <2>6. ASSUME NEW n \in here, NEW g \in 0..ByteBits - 1, at = ByteBits * (n % CellBytes) + g
        PROVE  n = i /\ g = j
    <3>1. n % CellBytes = k /\ g = j
      BY <1>3, <1>7, <2>6, ApartInCell
    <3>2. n = CellBytes * (n \div CellBytes) + (n % CellBytes)
      BY <1>7, Places
    <3>3. i = CellBytes * c + k
      BY <1>1, Places
    <3>4. n \div CellBytes = c
      OBVIOUS
    <3> QED  BY <3>1, <3>2, <3>3, <3>4
  <2>7. at \in S <=> (b \div Pow2[j]) % 2 = 1
    <3>1. ASSUME at \in S PROVE (b \div Pow2[j]) % 2 = 1
      <4>1. PICK n \in here, g \in 0..ByteBits - 1 :
                at = ByteBits * (n % CellBytes) + g /\ (src[n + 1] \div Pow2[g]) % 2 = 1
        BY <2>3, <2>4, <3>1
      <4>2. n = i /\ g = j
        BY <2>6, <4>1
      <4> QED  BY <4>1, <4>2
    <3>2. ASSUME (b \div Pow2[j]) % 2 = 1 PROVE at \in S
      <4>1. at \in Ones(src[i + 1] * Pow2[ByteBits * (i % CellBytes)])
        BY <2>4, <2>5, <3>2
      <4> QED  BY <2>3, <2>5, <4>1
    <3> QED  BY <3>1, <3>2
  <2> QED  BY <2>1, <2>2, <2>7
<1>10. ByteOf(w, k) \in Byte
  <2>1. 0 \in 0..ByteBits - 1
    BY ByteWidths
  <2> QED  BY <1>3, <1>8, <2>1, ByteBit
<1>11. ByteOf(w, k) = b
  BY <1>8, <1>9, <1>10, BytesUnique
<1> QED  BY <1>4, <1>11

\* A region is in its place and holds an input.
RegionHolds(region, n, input) ==
    /\ DOMAIN region = {"id", "capacity", "payload", "cells"}
    /\ region.id = n /\ region.capacity \in Nat /\ region.payload = Len(input)
    /\ StructValid(region)
    /\ \A i \in 0..Len(input) - 1 :
          ByteOf(region.cells[i \div CellBytes], i % CellBytes) = input[i + 1]

InputInv ==
    /\ inputs \in Seq(Seq(Byte))
    /\ \E T : ctx.regions \in Seq(T)
    /\ Len(ctx.regions) = Len(inputs)
    /\ \A r \in 1..Len(inputs) : RegionHolds(ctx.regions[r], r - 1, inputs[r])

LEMMA InputsSame ==
    ASSUME InputInv, ctx'.regions = ctx.regions, inputs' = inputs
    PROVE  InputInv'
BY DEF InputInv

LEMMA InputsStart ==
    ASSUME Init
    PROVE  InputInv
<1>1. ctx.regions = <<>> /\ inputs = <<>>
  BY HostAssumption DEF Init, FreshContexts
<1>2. <<>> \in Seq(Seq(Byte)) /\ <<>> \in Seq({}) /\ Len(<<>>) = 0
  OBVIOUS
<1> QED  BY <1>1, <1>2 DEF InputInv

\* What is bound holds the bytes it was given with.
LEMMA BoundHolds ==
    ASSUME NEW b \in Bindings, NEW n \in Nat, NEW region,
           region = [id |-> n, capacity |-> b.capacity, payload |-> b.payload, cells |-> b.cells],
           StructValid(region)
    PROVE  Held(region) \in Seq(Byte) /\ RegionHolds(region, n, Held(region))
<1>1. /\ DOMAIN region = {"id", "capacity", "payload", "cells"} /\ region.id = n
      /\ region.capacity \in Nat /\ region.payload \in Nat
      /\ region.cells \in [0..region.capacity - 1 -> Word]
  BY HostAssumption
<1>2. region.payload <= region.capacity * CellBytes
  BY DEF StructValid, CapacityBytes
<1> DEFINE byte(i) == ByteOf(region.cells[(i - 1) \div CellBytes], (i - 1) % CellBytes)
<1>3. ASSUME NEW i \in 1..region.payload PROVE byte(i) \in Byte
  <2> DEFINE j == i - 1
  <2>1. j \in Nat /\ j < region.payload
    BY <1>1
  <2>2. region.capacity * CellBytes \in Nat
    BY <1>1, ByteWidths
  <2>3. j < region.capacity * CellBytes
    BY <1>1, <1>2, <2>1, <2>2
  <2> HIDE DEF j
  <2>4. j \div CellBytes \in 0..region.capacity - 1 /\ j % CellBytes \in 0..CellBytes - 1
    BY <1>1, <2>1, <2>3, Places
  <2>5. region.cells[j \div CellBytes] \in Int
    BY <1>1, <2>4, WordAssumption DEF Word
  <2>6. 0 \in 0..ByteBits - 1
    BY ByteWidths
  <2>7. ByteOf(region.cells[j \div CellBytes], j % CellBytes) \in Byte
    BY <2>4, <2>5, <2>6, ByteBit
  <2> QED  BY <2>7 DEF j
<1>4. Held(region) = [i \in 1..region.payload |-> byte(i)]
  BY DEF Held
<1> HIDE DEF byte
<1>5. Held(region) \in [1..region.payload -> Byte]
  BY <1>3, <1>4
<1>6. Held(region) \in Seq(Byte) /\ Len(Held(region)) = region.payload
  BY <1>1, <1>5
<1>7. ASSUME NEW i \in 0..region.payload - 1
      PROVE  ByteOf(region.cells[i \div CellBytes], i % CellBytes) = Held(region)[i + 1]
  <2>1. i + 1 \in 1..region.payload /\ (i + 1) - 1 = i
    BY <1>1
  <2> QED  BY <1>4, <2>1 DEF byte
<1> QED  BY <1>1, <1>6, <1>7 DEF RegionHolds

\* What is written holds the bytes written, whatever was there.
LEMMA WrittenHolds ==
    ASSUME NEW region, NEW n, NEW old, RegionHolds(region, n, old), NEW src \in Seq(Byte),
           Len(src) <= MaxInput, Len(src) <= CapacityBytes(region)
    PROVE  RegionHolds(Written(region, src), n, src)
<1> DEFINE cells == Filled([c \in 0..region.capacity - 1 |-> 0], src)
           now == [region EXCEPT !.cells = cells, !.payload = Len(src)]
<1>1. /\ DOMAIN region = {"id", "capacity", "payload", "cells"}
      /\ region.id = n /\ region.capacity \in Nat /\ region.capacity <= MaxCells
  BY DEF RegionHolds, StructValid
<1>2. now = Written(region, src)
  BY DEF Written
<1>3. \A i \in 0..Len(src) - 1 : ByteOf(cells[i \div CellBytes], i % CellBytes) = src[i + 1]
  BY <1>1, FilledReads DEF CapacityBytes
<1> HIDE DEF cells
<1>4. /\ DOMAIN now = {"id", "capacity", "payload", "cells"} /\ now.id = n
      /\ now.capacity = region.capacity /\ now.payload = Len(src) /\ now.cells = cells
  BY <1>1
<1> HIDE DEF now
<1>5. StructValid(now)
  BY <1>1, <1>4 DEF StructValid, CapacityBytes
<1> QED  BY <1>1, <1>2, <1>3, <1>4, <1>5 DEF RegionHolds

LEMMA InputsKept ==
    ASSUME HostInv, InputInv, [Next]_hostVars
    PROVE  InputInv'
<1>0. /\ inputs \in Seq(Seq(Byte)) /\ Len(inputs) \in Nat /\ DOMAIN inputs = 1..Len(inputs)
      /\ \A r \in 1..Len(inputs) : RegionHolds(ctx.regions[r], r - 1, inputs[r])
  BY DEF InputInv
<1>1. PICK T : ctx.regions \in Seq(T)
  BY DEF InputInv
<1>2. /\ DOMAIN ctx = {"profile", "abiVersion", "enabled", "regions", "store"}
      /\ Len(ctx.regions) = Len(inputs) /\ DOMAIN ctx.regions = 1..Len(inputs)
  BY <1>1 DEF InputInv, HostInv, ContextInv
<1>3. CASE UNCHANGED hostVars
  BY <1>3, InputsSame DEF hostVars, vmVars
<1>4. CASE \E fi \in 0..Len(module), args \in Args : Start(fi, args) /\ UNCHANGED inputs
  <2>1. UNCHANGED <<ctx, inputs>>
    BY <1>4 DEF Start, Fail
  <2> QED  BY <2>1, InputsSame
<1>5. CASE Run
  <2>1. UNCHANGED <<ctx, inputs>>
    BY <1>5, RunKeepsContext DEF Run
  <2> QED  BY <2>1, InputsSame
<1>6. ASSUME NEW b \in Bindings, BindRegion(b) PROVE InputInv'
  <2> DEFINE region == [id |-> Len(ctx.regions), capacity |-> b.capacity,
                        payload |-> b.payload, cells |-> b.cells]
             n == Len(inputs)
  <2>1. /\ StructValid(region) /\ ctx' = [ctx EXCEPT !.regions = Append(ctx.regions, region)]
        /\ inputs' = Append(inputs, Held(region))
    BY <1>6 DEF BindRegion
  <2>2. region = [id |-> n, capacity |-> b.capacity, payload |-> b.payload, cells |-> b.cells]
        /\ n \in Nat
    BY <1>0, <1>2
  <2> HIDE DEF region
  <2>3. Held(region) \in Seq(Byte) /\ RegionHolds(region, n, Held(region))
    BY <2>1, <2>2, BoundHolds
  <2>4. ctx'.regions = Append(ctx.regions, region)
    BY <1>2, <2>1
  <2>5. PICK U : U = T \cup {region}
    OBVIOUS
  <2>6. ctx.regions \in Seq(U) /\ region \in U
    BY <1>1, <2>5
  <2>7. /\ Append(ctx.regions, region) \in Seq(U) /\ Len(Append(ctx.regions, region)) = n + 1
        /\ Append(ctx.regions, region)[n + 1] = region
        /\ \A r \in 1..n : Append(ctx.regions, region)[r] = ctx.regions[r]
    BY <1>2, <2>6
  <2> DEFINE input == Held(region)
  <2> HIDE DEF input
  <2>8. /\ Append(inputs, input) \in Seq(Seq(Byte)) /\ Len(Append(inputs, input)) = n + 1
        /\ Append(inputs, input)[n + 1] = input
        /\ \A r \in 1..n : Append(inputs, input)[r] = inputs[r]
    BY <1>0, <2>3 DEF input
  <2>9. ASSUME NEW r \in 1..n + 1
        PROVE  RegionHolds(Append(ctx.regions, region)[r], r - 1, Append(inputs, input)[r])
    <3>1. CASE r = n + 1
      <4>1. r - 1 = n
        BY <2>2, <3>1
      <4> QED  BY <2>3, <2>7, <2>8, <3>1, <4>1 DEF input
    <3>2. CASE r # n + 1
      <4>1. r \in 1..n
        BY <2>2, <3>2
      <4> QED  BY <1>0, <2>7, <2>8, <4>1
    <3> QED  BY <3>1, <3>2
  <2> HIDE DEF n
  <2>10. inputs' = Append(inputs, input)
    BY <2>1 DEF input
  <2>11. Len(inputs') = n + 1 /\ inputs' \in Seq(Seq(Byte)) /\ Len(ctx'.regions) = n + 1 /\ ctx'.regions \in Seq(U)
    BY <2>4, <2>7, <2>8, <2>10
  <2>12. \A r \in 1..n + 1 : RegionHolds(ctx'.regions[r], r - 1, inputs'[r])
    BY <2>4, <2>9, <2>10
  <2> QED  BY <2>11, <2>12 DEF InputInv
<1>7. ASSUME NEW r \in DOMAIN ctx.regions, NEW src \in Inputs, WriteRegion(r, src) PROVE InputInv'
  <2> DEFINE region == ctx.regions[r]
             now == Written(region, src)
  <2>1. /\ Len(src) <= MaxInput /\ Len(src) <= CapacityBytes(region)
        /\ ctx' = [ctx EXCEPT !.regions[r] = now] /\ inputs' = [inputs EXCEPT ![r] = src]
    BY <1>7 DEF WriteRegion
  <2>2. r \in 1..Len(inputs) /\ src \in Seq(Byte) /\ RegionHolds(region, r - 1, inputs[r])
    BY <1>0, <1>2, HostAssumption
  <2>3. RegionHolds(now, r - 1, src)
    BY <2>1, <2>2, WrittenHolds
  <2> HIDE DEF now
  <2>4. ctx'.regions = [ctx.regions EXCEPT ![r] = now]
    BY <1>2, <2>1
  <2> HIDE DEF region
  <2>5. PICK U : U = T \cup {now}
    OBVIOUS
  <2>6. ctx.regions \in Seq(U) /\ now \in U
    BY <1>1, <2>5
  <2>7. ctx'.regions \in Seq(U) /\ Len(ctx'.regions) = Len(inputs)
    BY <1>2, <2>4, <2>6
  <2>8. inputs' \in Seq(Seq(Byte)) /\ Len(inputs') = Len(inputs)
    BY <1>0, <2>1, <2>2
  <2>9. ASSUME NEW d \in 1..Len(inputs)
        PROVE  RegionHolds(ctx'.regions[d], d - 1, inputs'[d])
    <3>1. CASE d = r
      <4>1. ctx'.regions[d] = now /\ inputs'[d] = src
        BY <1>0, <1>2, <2>1, <2>4, <3>1
      <4> QED  BY <2>3, <3>1, <4>1
    <3>2. CASE d # r
      <4>1. ctx'.regions[d] = ctx.regions[d] /\ inputs'[d] = inputs[d]
        BY <1>0, <1>2, <2>1, <2>4, <3>2
      <4> QED  BY <1>0, <4>1
    <3> QED  BY <3>1, <3>2
  <2> QED  BY <2>7, <2>8, <2>9 DEF InputInv
<1>8. CASE ClearRegions
  <2>1. ctx'.regions = <<>> /\ inputs' = <<>>
    BY <1>2, <1>8 DEF ClearRegions
  <2>2. <<>> \in Seq(Seq(Byte)) /\ <<>> \in Seq({}) /\ Len(<<>>) = 0
    OBVIOUS
  <2> QED  BY <2>1, <2>2 DEF InputInv
<1>9. ASSUME NEW id \in AbiIds, EnableAbi(id) PROVE InputInv'
  <2>1. ctx'.regions = ctx.regions /\ inputs' = inputs
    BY <1>2, <1>9 DEF EnableAbi
  <2> QED  BY <2>1, InputsSame
<1>10. CASE Prepare
  BY <1>6, <1>7, <1>8, <1>9, <1>10 DEF Prepare
<1>11. CASE Halted
  BY <1>3, <1>11 DEF Halted
<1> QED  BY <1>3, <1>4, <1>5, <1>10, <1>11 DEF Next

\* An intrinsic that is enabled and has its operands fails, or answers with one of
\* its values.
LEMMA Answered ==
    ASSUME HostInv, [Next]_hostVars, ~UNCHANGED hostVars,
           status = "running", InCode, ins.op = "abi_call", AbiEnabled(ins.a),
           steps < StepLimit, sp >= AbiParams(ins.a)
    PROVE  LET n == AbiParams(ins.a)
               values == {r \in Word : AbiReturns(ins.a, Operands(n), r)}
           IN  \/ values = {} /\ status' = "BAD_FN"
               \/ /\ status' = "running"
                  /\ frames'[Depth].stack[sp - n + 1] \in values
<1> DEFINE n == AbiParams(ins.a)
           values == {r \in Word : AbiReturns(ins.a, Operands(n), r)}
<1>1. Run
  BY DEF Next, Prepare, BindRegion, WriteRegion, ClearRegions, EnableAbi, Preparing, Start, Halted
<1>2. ins.a \in {RegionCapacity, RegionCheckRange, RegionLoadByte}
  BY DEF AbiEnabled, HostInv, VmInv, VmTypeOK
<1>3. n \in {1, 2, 3}
  BY <1>2 DEF AbiParams, RegionCapacity, RegionCheckRange, RegionLoadByte
<1>4. VmInv /\ sp \in Nat
  BY Running DEF HostInv
<1>5. AbiCall
  <2>1. ~StackUnderflow
    <3>1. Needs(ins.op) = 0
      BY DEF Needs, BinaryOps, UnaryOps, JumpOps
    <3> QED  BY <1>4, <3>1 DEF StackUnderflow
  <2>2. ~StepLimitHit
    <3>1. steps \in Nat /\ StepLimit \in Nat
      BY <1>4, VmAssumption DEF VmInv, VmTypeOK
    <3> QED  BY <3>1 DEF StepLimitHit
  <2>3. /\ ~StackOverflow /\ ~PushConst /\ ~LoadLocal /\ ~StoreLocal /\ ~Pop /\ ~DivZero
        /\ ~LoadIndex /\ ~StoreIndex /\ ~ArrLen /\ ~Call /\ ~Ret /\ ~FallOff
    BY DEF StackOverflow, PushConst, LoadLocal, StoreLocal, Pop, DivZero, LoadIndex, StoreIndex,
           ArrLen, Call, Ret, FallOff, Executing, PushingOps
  <2>4. ~Unary /\ ~Binary /\ ~Jump
    BY DEF Unary, Binary, Jump, Executing, UnaryOps, BinaryOps, JumpOps
  <2> QED  BY <1>1, <2>1, <2>2, <2>3, <2>4 DEF Run, VmStep
<1>6. ~(sp < n)
  BY <1>3, <1>4
<1> HIDE DEF n
<1>7. \/ values = {} /\ Fail("BAD_FN")
      \/ \E r \in values : Leave(Append(Below(n), r))
  BY <1>5, <1>6 DEF AbiCall, n
<1>8. ASSUME NEW r \in values, Leave(Append(Below(n), r))
      PROVE  status' = "running" /\ frames'[Depth].stack[sp - n + 1] = r
  <2> DEFINE s == Append(Below(n), r)
             f == [top EXCEPT !.stack = s, !.pc = @ + 1]
  <2>1. r \in Word /\ top \in Frame /\ Depth \in Nat /\ Depth >= 1
    BY <1>4, Running
  <2>2. s[sp - n + 1] = r
    <3>1. Below(n) \in Seq(Word) /\ Len(Below(n)) = sp - n
      <4>1. n \in Nat /\ n <= sp
        BY <1>3, <1>4, <1>6
      <4> QED  BY <1>4, <4>1, Stacks
    <3> QED  BY <2>1, <3>1
  <2>3. frames' = [frames EXCEPT ![Depth] = f] /\ status' = status
    BY <1>8 DEF Leave, Continue
  <2> HIDE DEF s
  <2>4. f.stack = s
    <3>1. "stack" \in DOMAIN top
      BY <2>1 DEF Frame, VmFrame
    <3> QED  BY <3>1
  <2> HIDE DEF f
  <2>5. Depth \in DOMAIN frames
    BY <1>4, <2>1 DEF VmInv, VmTypeOK, Depth
  <2> QED  BY <2>2, <2>3, <2>4, <2>5
<1>9. Fail("BAD_FN") => status' = "BAD_FN"
  BY DEF Fail
<1> HIDE DEF values
<1> QED  BY <1>7, <1>8, <1>9 DEF n, values

LEMMA StepReads ==
    ASSUME HostInv, InputInv, [Next]_hostVars
    PROVE  [ReadsInput]_hostVars
<1> SUFFICES ASSUME ~UNCHANGED hostVars,
                    status = "running", InCode, ins.op = "abi_call", AbiEnabled(ins.a),
                    steps < StepLimit, sp >= AbiParams(ins.a)
             PROVE  ReadsInput
  BY DEF ReadsInput
<1> DEFINE n == AbiParams(ins.a)
           args == Operands(n)
           values == {r \in Word : AbiReturns(ins.a, args, r)}
           answer == frames'[Depth].stack[sp - n + 1]
           input == inputs[args[1] + 1]
           region == ctx.regions[args[1] + 1]
           exists == args[1] + 1 \in DOMAIN inputs
<1>1. (values = {} /\ status' = "BAD_FN") \/ (status' = "running" /\ answer \in values)
  BY Answered
<1>2. /\ inputs \in Seq(Seq(Byte)) /\ Len(inputs) \in Nat /\ DOMAIN inputs = 1..Len(inputs)
      /\ Len(ctx.regions) = Len(inputs)
      /\ \A r \in 1..Len(inputs) : RegionHolds(ctx.regions[r], r - 1, inputs[r])
  BY DEF InputInv
<1>3. ASSUME ins.a \in {RegionCheckRange, RegionLoadByte}
      PROVE  /\ args[1] \in Int /\ args[2] \in Int
             /\ ins.a = RegionCheckRange => args[3] \in Int
  <2>1. top.stack \in Seq(Word) /\ sp = Len(top.stack) /\ sp \in Nat
    BY Running DEF HostInv, sp
  <2>2. n = (IF ins.a = RegionCheckRange THEN 3 ELSE 2)
    BY <1>3 DEF AbiParams, RegionCapacity, RegionCheckRange, RegionLoadByte
  <2>3. \A k \in 1..n : args[k] \in Word
    <3>1. n \in Nat /\ n >= 1 /\ n <= sp
      BY <2>1, <2>2
    <3> HIDE DEF n
    <3>2. Operands(n) \in Seq(Word) /\ Len(Operands(n)) = n
      BY <3>1, Stacks DEF HostInv
    <3> QED  BY <3>1, <3>2
  <2>4. \A w \in Word : w \in Int
    BY WordAssumption DEF Word
  <2> HIDE DEF args
  <2> QED  BY <2>2, <2>3, <2>4
<1> HIDE DEF args
<1>4. ASSUME args[1] \in Int
      PROVE  /\ exists => RegionHolds(region, args[1], input)
             /\ exists <=> Gets(ctx.regions, args[1])
  <2>1. exists <=> args[1] \in 0..Len(ctx.regions) - 1
    BY <1>2, <1>4
  <2>2. exists => RegionHolds(region, args[1], input)
    <3>1. (args[1] + 1) - 1 = args[1]
      BY <1>4
    <3> QED  BY <1>2, <3>1
  <2> QED  BY <2>1, <2>2 DEF Gets, RegionHolds
<1>5. exists => input \in Seq(Byte) /\ Len(input) \in Nat
  BY <1>2
<1> HIDE DEF exists, input, region
<1>6. ASSUME ins.a = RegionLoadByte
      PROVE  IF exists /\ Within(input, args[2], 1)
             THEN status' = "running" /\ answer = input[args[2] + 1]
             ELSE status' = "BAD_FN"
  <2>1. args[1] \in Int /\ args[2] \in Int
    BY <1>3, <1>6
  <2>2. \A r : AbiReturns(ins.a, args, r) <=>
                   Gets(ctx.regions, args[1]) /\ args[2] >= 0 /\ Loads(region, args[2], r)
    BY <1>6 DEF AbiReturns, RegionCapacity, RegionCheckRange, RegionLoadByte, region
  <2>3. CASE exists /\ Within(input, args[2], 1)
    <3>1. /\ RegionHolds(region, args[1], input) /\ Gets(ctx.regions, args[1])
      BY <1>4, <2>1, <2>3
    <3>2. args[2] >= 0 /\ args[2] < Len(input) /\ args[2] \in 0..Len(input) - 1
          /\ args[2] + 1 \in 1..Len(input)
      BY <1>5, <2>1, <2>3 DEF Within
    <3>3. CapacityBytes(region) \in Nat /\ region.payload = Len(input)
          /\ region.payload <= CapacityBytes(region)
      BY <3>1, ByteWidths DEF RegionHolds, StructValid, CapacityBytes
    <3>4. \A r : Loads(region, args[2], r) <=> r = input[args[2] + 1]
      <4>1. args[2] < CapacityBytes(region) /\ args[2] < region.payload
        BY <1>5, <2>1, <2>3, <3>2, <3>3
      <4>2. ByteOf(region.cells[args[2] \div CellBytes], args[2] % CellBytes) = input[args[2] + 1]
        BY <3>1, <3>2 DEF RegionHolds
      <4> QED  BY <4>1, <4>2 DEF Loads
    <3>5. input[args[2] + 1] \in Word
      <4>1. input[args[2] + 1] \in Byte
        BY <1>5, <2>3, <3>2
      <4> QED  BY <4>1, HostAssumption
    <3>6. values = {input[args[2] + 1]}
      BY <2>2, <3>1, <3>2, <3>4, <3>5
    <3> QED  BY <1>1, <2>3, <3>6
  <2>4. CASE ~(exists /\ Within(input, args[2], 1))
    <3>1. ASSUME NEW r, AbiReturns(ins.a, args, r) PROVE FALSE
      <4>1. Gets(ctx.regions, args[1]) /\ args[2] >= 0 /\ Loads(region, args[2], r)
        BY <2>2, <3>1
      <4>2. exists /\ RegionHolds(region, args[1], input)
        BY <1>4, <2>1, <4>1
      <4>3. args[2] < Len(input)
        BY <4>1, <4>2 DEF Loads, RegionHolds
      <4>4. Within(input, args[2], 1)
        BY <1>5, <2>1, <4>1, <4>2, <4>3 DEF Within
      <4> QED  BY <2>4, <4>2, <4>4
    <3>2. values = {}
      BY <3>1
    <3> QED  BY <1>1, <2>4, <3>2
  <2> QED  BY <2>3, <2>4
<1>7. ASSUME ins.a = RegionCheckRange, status' = "running"
      PROVE  answer = RegionOK <=> Within(input, args[2], args[3])
  <2>1. args[1] \in Int /\ args[2] \in Int /\ args[3] \in Int
    BY <1>3, <1>7
  <2>2. AbiReturns(ins.a, args, answer)
    BY <1>1, <1>7
  <2>3. /\ Gets(ctx.regions, args[1]) /\ args[2] >= 0 /\ args[3] >= 0
        /\ answer = CheckRange(region, args[2], args[3])
    BY <1>7, <2>2 DEF AbiReturns, RegionCapacity, RegionCheckRange, RegionLoadByte, region
  <2>4. exists /\ region.payload = Len(input) /\ Len(input) \in Nat
    BY <1>4, <1>5, <2>1, <2>3 DEF RegionHolds
  <2> HIDE DEF answer
  <2> QED  BY <2>1, <2>3, <2>4 DEF CheckRange, Within, RegionOK, RegionTruncated
<1> HIDE DEF answer, values
<1> QED  BY <1>6, <1>7 DEF ReadsInput, n, args, answer, input, exists

\* Whatever a host binds and writes, over whatever was there before, a program reads the
\* bytes of the last input and no others: load_byte answers exactly for the places of an
\* input of an existing region, with the byte there, and check_range says OK exactly for
\* ranges all of whose bytes can be loaded.
THEOREM InputIsRead == Spec => ReadsTheInput
<1>1. HostInv /\ InputInv /\ [Next]_hostVars => [ReadsInput]_hostVars
  BY StepReads
<1>2. Init => HostInv /\ InputInv
  BY InitOK, InputsStart
<1>3. HostInv /\ InputInv /\ [Next]_hostVars => (HostInv /\ InputInv)'
  BY NextOK, InputsKept
<1>4. Spec => [][ReadsInput]_hostVars
  BY <1>1, <1>2, <1>3, PTL DEF Spec
<1> QED  BY <1>4 DEF ReadsTheInput
=============================================================================
