-------------------------- MODULE Compiler0Proofs --------------------------
(***************************************************************************)
(* What c0_build hands to the interpreter, for every source and every      *)
(* limit of the machine.                                                   *)
(***************************************************************************)
EXTENDS Compiler0Tool, SequenceTheorems, NaturalsInduction, WellFoundedInduction, TLAPS

-----------------------------------------------------------------------------
(***************************************************************************)
(* The inductive invariant                                                 *)
(***************************************************************************)

\* Every name a local may have.
Idents ==
    lang.names \cup UNION {{sigs[i].params[p].name : p \in DOMAIN sigs[i].params} :
                              i \in DOMAIN sigs}

Kinds == {"unary", "rest", "emit", "patch", "close", "semi", "args", "literal", "elem", "more",
          "body", "block", "assign", "store", "if", "then", "while", "cond", "for", "step",
          "loop", "param"}

\* Instructions as the compiler writes them.
CodeIns == [op : Ops, a : Int]

\* The positions of jumps, which are all that is ever patched.
Jumps == {k \in 0..Len(code) - 1 : code[k + 1].op \in JumpOps}

\* Instructions that refer to a local there is, to a place in the code or right
\* behind it, where FnCode goes on, or to a function of the module.
SoundIns ==
    {x \in CodeIns :
        /\ x.op \in LocalOps => x.a \in 0..Len(locals) - 1
        /\ x.op \in JumpOps => x.a \in 0..Len(code)
        /\ x.op = "call" => x.a \in 0..Len(fns) - 1}

WorkItem == [kind : Kinds, op : Ops \cup {"none", ")", "]", "]=", ";"}, a : Nat, n : Nat,
             name : Idents \cup lang.calls \cup {NoName}, ends : SUBSET Nat]

\* Work that keeps the code sound when its time comes: what it emits refers to
\* locals there are already, what it patches are jumps, and where it jumps back
\* to is code that has been written.
SoundItem ==
    {w \in WorkItem :
        /\ w.kind = "emit" => /\ w.op \in Ops \ (JumpOps \cup {"call"})
                              /\ w.op \in LocalOps => w.a \in 0..Len(locals) - 1
        /\ w.kind \in {"literal", "elem", "more"} => w.a \in 0..Len(locals) - 1
        /\ w.kind \in {"patch", "if", "then"} => w.ends \subseteq Jumps
        /\ w.kind \in {"then", "step", "loop"} => w.a \in Jumps
        /\ w.kind \in {"while", "for", "step", "loop"} => w.n \in 0..Len(code)
        /\ w.kind = "store" => w.name \in Idents
        /\ w.kind = "param" => w.n \in DOMAIN sigs[cur + 1].params}

\* The function in hand.
BodyInv ==
    /\ code \in Seq(SoundIns)
    /\ locals \in Seq(Idents)
    /\ arr_n \in Seq(0..MaxArrLen)
    /\ Len(arr_n) = Len(locals)
    /\ Len(locals) <= MaxLocals
    /\ work \in Seq(SoundItem)

FnFields == {"name", "nparams", "nlocals", "code", "arr_n", "sig_ok", "ok", "reject",
             "names", "text"}

\* The source is one of Sources, there is a function for each signature, and
\* nothing is left over between functions.
ModuleInv ==
    /\ \E s \in Sources : sigs = s.sigs /\ full = s.full /\ lang = s.lang
    /\ DOMAIN fns = DOMAIN sigs
    /\ Len(fns) = Len(sigs)
    /\ \A i \in DOMAIN fns :
          /\ DOMAIN fns[i] = FnFields
          /\ fns[i].ok \in BOOLEAN /\ fns[i].nlocals \in Nat
          /\ fns[i].sig_ok = (c0_sig_eligible(sigs[i]) = "none")
    /\ cur \in 0..Len(fns)
    /\ building \in {"next", "body", "built"}
    /\ building = "body" => cur < Len(fns) /\ fns[cur + 1].sig_ok
    /\ building # "body" => Resting

\* A function that was compiled and is not accepted was given up for a call, after
\* all functions had been compiled.
RunnableInv ==
    /\ \A i \in DOMAIN fns : i > cur => ~fns[i].ok /\ fns[i].code = <<>>
    /\ \A i \in DOMAIN fns : fns[i].ok => fns[i].code # <<>>
    /\ cur < Len(fns) => \A i \in DOMAIN fns : fns[i].code # <<>> => fns[i].ok
    /\ \A S \in SUBSET Compiled : ClosedSet(S) => S \subseteq Accepted
    /\ building = "built" => Broken = {}

BuildInv == ModuleInv /\ BodyInv /\ CompiledIsDeclared /\ RunnableInv

-----------------------------------------------------------------------------
(***************************************************************************)
(* The first of several candidates                                         *)
(***************************************************************************)
LEMMA FirstIsOne ==
    ASSUME NEW S \in SUBSET Nat, S # {}
    PROVE  FirstOf(S) \in S
<1> DEFINE R == OpToRel(<, Nat)
<1>1. PICK i \in S : \A j \in S : ~(<<j, i>> \in R)
  BY NatLessThanWellFounded, WFMin
<1>2. \A j \in S : ~(j < i)
  BY <1>1 DEF OpToRel
<1>3. \A j \in S : i <= j
  BY <1>2
<1> QED  BY <1>3 DEF FirstOf

-----------------------------------------------------------------------------
(***************************************************************************)
(* Work that may be put on the list                                        *)
(***************************************************************************)
Plain == {"unary", "semi", "body", "block", "assign", "if", "cond"}
Closers == {")", "]", "]=", ";"}

ItemFacts ==
    /\ \A k \in Plain : Item(k) \in SoundItem
    /\ \A l, m \in Nat : Do("rest", l, m) \in SoundItem
    /\ \A t \in Closers : Close(t) \in SoundItem
    /\ \A o \in Ops \ (JumpOps \cup {"call"}), i \in Nat :
          (o \in LocalOps => i \in 0..Len(locals) - 1) => Emit(o, i) \in SoundItem
    /\ \A S \in SUBSET Jumps :
          PatchAt(S) \in SoundItem /\ [Item("if") EXCEPT !.ends = S] \in SoundItem
    /\ \A j \in Jumps, S \in SUBSET Jumps : [Do("then", j, 0) EXCEPT !.ends = S] \in SoundItem
    /\ \A k \in {"step", "loop"}, j \in Jumps, m \in 0..Len(code) : Do(k, j, m) \in SoundItem
    /\ \A k \in {"while", "for"}, m \in 0..Len(code) : Do(k, 0, m) \in SoundItem
    /\ \A i \in 0..Len(locals) - 1, m \in Nat : Do("literal", i, m) \in SoundItem
    /\ \A name \in lang.names : [Item("store") EXCEPT !.name = name] \in SoundItem
    /\ \A name \in lang.calls, m \in Nat : [Do("args", 0, m) EXCEPT !.name = name] \in SoundItem

LEMMA Items == ItemFacts
<1> USE DEF Item, Do, Kinds
<1>1. ASSUME NEW k \in Plain PROVE Item(k) \in SoundItem
  BY DEF SoundItem, WorkItem, Plain
<1>2. ASSUME NEW l \in Nat, NEW m \in Nat PROVE Do("rest", l, m) \in SoundItem
  BY DEF SoundItem, WorkItem
<1>3. ASSUME NEW t \in Closers PROVE Close(t) \in SoundItem
  BY DEF SoundItem, WorkItem, Close, Closers
<1>4. ASSUME NEW o \in Ops \ (JumpOps \cup {"call"}), NEW i \in Nat,
             o \in LocalOps => i \in 0..Len(locals) - 1
      PROVE  Emit(o, i) \in SoundItem
  BY <1>4 DEF SoundItem, WorkItem, Emit
<1>5. Jumps \subseteq Nat
  BY DEF Jumps
<1>6. ASSUME NEW S \in SUBSET Jumps
      PROVE  PatchAt(S) \in SoundItem /\ [Item("if") EXCEPT !.ends = S] \in SoundItem
  BY <1>5 DEF SoundItem, WorkItem, PatchAt
<1>7. ASSUME NEW j \in Jumps, NEW S \in SUBSET Jumps
      PROVE  [Do("then", j, 0) EXCEPT !.ends = S] \in SoundItem
  BY <1>5 DEF SoundItem, WorkItem
<1>8. ASSUME NEW k \in {"step", "loop"}, NEW j \in Jumps, NEW m \in 0..Len(code)
      PROVE  Do(k, j, m) \in SoundItem
  <2>1. m \in Nat /\ j \in Nat
    BY <1>5
  <2> QED  BY <2>1 DEF SoundItem, WorkItem
<1>9. ASSUME NEW k \in {"while", "for"}, NEW m \in 0..Len(code) PROVE Do(k, 0, m) \in SoundItem
  <2>1. m \in Nat
    OBVIOUS
  <2> QED  BY <2>1 DEF SoundItem, WorkItem
<1>10. ASSUME NEW i \in 0..Len(locals) - 1, NEW m \in Nat
       PROVE  Do("literal", i, m) \in SoundItem
  <2>1. i \in Nat
    OBVIOUS
  <2> QED  BY <2>1 DEF SoundItem, WorkItem
<1>11. ASSUME NEW name \in lang.names
       PROVE  [Item("store") EXCEPT !.name = name] \in SoundItem
  BY DEF SoundItem, WorkItem, Idents
<1>12. ASSUME NEW name \in lang.calls, NEW m \in Nat
       PROVE  [Do("args", 0, m) EXCEPT !.name = name] \in SoundItem
  BY DEF SoundItem, WorkItem
<1> QED
  BY <1>1, <1>2, <1>3, <1>4, <1>6, <1>7, <1>8, <1>9, <1>10, <1>11, <1>12 DEF ItemFacts

LEMMA ItemTyped ==
    ASSUME NEW w \in SoundItem
    PROVE  w.a \in Nat /\ w.n \in Nat
BY DEF SoundItem, WorkItem

\* The item of an argument list or of an array literal, one element further.
LEMMA ItemChanges ==
    ASSUME NEW w \in SoundItem, NEW m \in Nat
    PROVE  /\ w.kind \in {"args"} => [w EXCEPT !.n = m] \in SoundItem
           /\ w.kind \in {"literal", "elem", "more"} =>
                 \A k \in {"elem", "more"} : /\ [w EXCEPT !.kind = k] \in SoundItem
                                             /\ [w EXCEPT !.kind = k, !.n = m] \in SoundItem
<1>1. w \in WorkItem
  BY DEF SoundItem
<1>2. /\ [w EXCEPT !.n = m] \in WorkItem
      /\ \A k \in {"elem", "more"} : [w EXCEPT !.kind = k] \in WorkItem
      /\ \A k \in {"elem", "more"} : [w EXCEPT !.kind = k, !.n = m] \in WorkItem
  BY <1>1 DEF WorkItem, Kinds
<1>3. CASE w.kind \in {"args"}
  BY <1>1, <1>2, <1>3 DEF SoundItem, WorkItem
<1>4. ASSUME w.kind \in {"literal", "elem", "more"}, NEW k \in {"elem", "more"}
      PROVE  [w EXCEPT !.kind = k] \in SoundItem /\ [w EXCEPT !.kind = k, !.n = m] \in SoundItem
  <2>1. w.a \in 0..Len(locals) - 1
    BY <1>4 DEF SoundItem
  <2> QED  BY <1>1, <1>2, <2>1 DEF SoundItem, WorkItem
<1> QED  BY <1>3, <1>4

LEMMA ItemsNext == ItemFacts'
BY Items, PTL

\* What a step that writes code may leave alone: places that are jumps stay
\* jumps, so the rest of the work stays sound.
Grows ==
    /\ UNCHANGED <<sigs, lang, fns, cur>>
    /\ Len(code) \in Nat /\ Len(code') \in Nat /\ Len(code) <= Len(code')
    /\ Len(locals) \in Nat /\ Len(locals') \in Nat /\ Len(locals) <= Len(locals')
    /\ Jumps \subseteq Jumps'

LEMMA SoundStays ==
    ASSUME Grows
    PROVE  SoundIns \subseteq SoundIns' /\ SoundItem \subseteq SoundItem'
<1>1. 0..Len(locals) - 1 \subseteq 0..Len(locals') - 1 /\ 0..Len(code) \subseteq 0..Len(code')
  BY DEF Grows
<1>2. SoundIns \subseteq SoundIns'
  BY <1>1 DEF SoundIns, Grows
<1>3. Idents' = Idents
  BY DEF Grows, Idents
<1>4. SoundItem \subseteq SoundItem'
  <2>1. SUFFICES ASSUME NEW w \in SoundItem PROVE w \in SoundItem'
    OBVIOUS
  <2>2. w \in WorkItem'
    BY <1>3 DEF SoundItem, WorkItem, Grows
  <2>3. /\ w.kind = "emit" => (w.op \in LocalOps => w.a \in 0..Len(locals') - 1)
        /\ w.kind \in {"literal", "elem", "more"} => w.a \in 0..Len(locals') - 1
    BY <1>1 DEF SoundItem
  <2>4. /\ w.kind \in {"patch", "if", "then"} => w.ends \subseteq Jumps'
        /\ w.kind \in {"then", "step", "loop"} => w.a \in Jumps'
    BY DEF SoundItem, Grows
  <2>5. w.kind \in {"while", "for", "step", "loop"} => w.n \in 0..Len(code')
    BY <1>1 DEF SoundItem
  <2>6. /\ w.kind = "emit" => w.op \in Ops \ (JumpOps \cup {"call"})
        /\ w.kind = "store" => w.name \in Idents'
        /\ w.kind = "param" => w.n \in DOMAIN sigs'[cur' + 1].params
    BY <1>3 DEF SoundItem, Grows
  <2> QED  BY <2>2, <2>3, <2>4, <2>5, <2>6 DEF SoundItem
<1> QED  BY <1>2, <1>4

-----------------------------------------------------------------------------
(***************************************************************************)
(* What every action is made of                                            *)
(***************************************************************************)
SourceFacts ==
    /\ Len(sigs) \in Nat /\ DOMAIN sigs = 1..Len(sigs)
    /\ DOMAIN fns = 1..Len(fns) /\ Len(fns) \in Nat
    /\ \A i \in DOMAIN sigs : /\ Len(sigs[i].params) \in Nat
                              /\ DOMAIN sigs[i].params = 1..Len(sigs[i].params)
    /\ lang.numbers \subseteq Int
    /\ lang.ops \subseteq Operators
    /\ lang.signs \subseteq Signs

LEMMA SourceIsLexed ==
    ASSUME ModuleInv
    PROVE  SourceFacts
<1>1. PICK s \in Sources : sigs = s.sigs /\ full = s.full /\ lang = s.lang
  BY DEF ModuleInv
<1>2. Word \subseteq Int
  BY WordAssumption DEF Word
<1>3. Len(sigs) \in Nat /\ DOMAIN sigs = 1..Len(sigs)
  BY <1>1, CompilerAssumption
<1>4. \A i \in DOMAIN sigs : /\ Len(sigs[i].params) \in Nat
                             /\ DOMAIN sigs[i].params = 1..Len(sigs[i].params)
  BY <1>1, CompilerAssumption
<1>5. /\ lang.numbers \subseteq Int
      /\ lang.ops \subseteq Operators
      /\ lang.signs \subseteq Signs
  BY <1>1, <1>2, CompilerAssumption
<1>6. DOMAIN fns = 1..Len(fns) /\ Len(fns) \in Nat
  BY <1>3 DEF ModuleInv
<1> QED  BY <1>3, <1>4, <1>5, <1>6 DEF SourceFacts

LEMMA Lengths ==
    ASSUME BodyInv
    PROVE  /\ Len(code) \in Nat /\ Len(locals) \in Nat /\ Len(arr_n) \in Nat
           /\ DOMAIN code = 1..Len(code) /\ DOMAIN locals = 1..Len(locals)
           /\ DOMAIN arr_n = 1..Len(arr_n)
           /\ code \in Seq(CodeIns)
<1>1. SoundIns \subseteq CodeIns
  BY DEF SoundIns
<1>2. code \in Seq(CodeIns)
  BY <1>1 DEF BodyInv
<1> QED  BY <1>2 DEF BodyInv

LEMMA PairIn ==
    ASSUME NEW T, NEW x \in T, NEW y \in T
    PROVE  <<x, y>> \in Seq(T)
OBVIOUS

LEMMA SeqOfFn ==
    ASSUME NEW T, NEW n \in Nat, NEW f \in [1..n -> T]
    PROVE  f \in Seq(T)
BY DEF Seq

LEMMA FailKeeps ==
    ASSUME BodyInv, Outside, NEW why, c0_fail(why)
    PROVE  BodyInv'
<1>1. UNCHANGED <<sigs, lang, fns, cur, code, locals, arr_n>> /\ work' = <<>>
  BY DEF Outside, c0_fail
<1>2. Idents' = Idents /\ SoundIns' = SoundIns
  BY <1>1 DEF Idents, SoundIns
<1> QED  BY <1>1, <1>2 DEF BodyInv

\* Where the code goes on after instrs, and which of them are jumps.
LEMMA EmitGrows ==
    ASSUME BodyInv, Outside, UNCHANGED locals,
           NEW instrs \in Seq(CodeIns), code' = code \o instrs
    PROVE  /\ Grows
           /\ Len(code') = Len(code) + Len(instrs)
           /\ \A k \in 1..Len(instrs) :
                 instrs[k].op \in JumpOps => Len(code) + (k - 1) \in Jumps'
<1>1. /\ Len(code) \in Nat /\ DOMAIN code = 1..Len(code)
      /\ code \in Seq(CodeIns) /\ Len(locals) \in Nat
      /\ Len(instrs) \in Nat /\ DOMAIN instrs = 1..Len(instrs)
  BY Lengths
<1>2. /\ Len(code') = Len(code) + Len(instrs)
      /\ \A k \in 1..Len(code) : code'[k] = code[k]
      /\ \A k \in 1..Len(instrs) : code'[Len(code) + k] = instrs[k]
  <2>1. code \o instrs \in Seq(CodeIns)
    BY <1>1
  <2> QED  BY <1>1, <2>1
<1>3. Jumps \subseteq Jumps'
  BY <1>1, <1>2 DEF Jumps
<1>4. ASSUME NEW k \in 1..Len(instrs), instrs[k].op \in JumpOps
      PROVE  Len(code) + (k - 1) \in Jumps'
  <2>1. (Len(code) + (k - 1)) + 1 = Len(code) + k /\ Len(code) + (k - 1) \in 0..Len(code') - 1
    BY <1>1, <1>2
  <2> QED  BY <1>2, <1>4, <2>1 DEF Jumps
<1>5. Grows
  BY <1>1, <1>2, <1>3 DEF Grows, Outside
<1> QED  BY <1>2, <1>4, <1>5

LEMMA EmitKeeps ==
    ASSUME BodyInv, Outside, work # <<>>,
           NEW instrs \in Seq(CodeIns), instrs \in Seq(SoundIns'),
           NEW items \in Seq(SoundItem'),
           EmitThen(instrs, items)
    PROVE  BodyInv'
<1>1. /\ code' = code \o instrs /\ work' = items \o Tail(work)
      /\ UNCHANGED <<locals, arr_n>>
  BY DEF EmitThen
<1>2. Grows
  BY <1>1, EmitGrows
<1>3. SoundIns \subseteq SoundIns' /\ SoundItem \subseteq SoundItem'
  BY <1>2, SoundStays
<1>4. code \in Seq(SoundIns') /\ Tail(work) \in Seq(SoundItem')
  <2>1. code \in Seq(SoundIns) /\ work \in Seq(SoundItem)
    BY DEF BodyInv
  <2>2. Tail(work) \in Seq(SoundItem)
    BY <2>1
  <2> QED  BY <1>3, <2>1, <2>2
<1>5. code' \in Seq(SoundIns') /\ work' \in Seq(SoundItem')
  BY <1>1, <1>4
<1>6. Idents' = Idents
  BY DEF Outside, Idents
<1> QED  BY <1>1, <1>5, <1>6 DEF BodyInv

LEMMA ThenKeeps ==
    ASSUME BodyInv, Outside, work # <<>>, NEW items \in Seq(SoundItem'), Then(items)
    PROVE  BodyInv'
<1>1. <<>> \in Seq(CodeIns) /\ <<>> \in Seq(SoundIns')
  OBVIOUS
<1> QED  BY <1>1, EmitKeeps DEF Then

\* Nothing is written: the item in hand and the rest are sound as before.
LEMMA ThenSame ==
    ASSUME BodyInv, Outside, NEW items, Then(items)
    PROVE  SoundItem' = SoundItem /\ Jumps' = Jumps /\ UNCHANGED <<code, locals>>
<1>1. UNCHANGED <<sigs, lang, fns, cur, code, locals>>
  <2>1. code \o <<>> = code
    BY Lengths
  <2> QED  BY <2>1 DEF Then, EmitThen, Outside
<1>2. Jumps' = Jumps /\ Idents' = Idents
  BY <1>1 DEF Jumps, Idents
<1>3. SoundItem' = SoundItem
  BY <1>1, <1>2 DEF SoundItem, WorkItem
<1> QED  BY <1>1, <1>2, <1>3

\* The item an action has in hand.
LEMMA InHand ==
    ASSUME BodyInv, NEW kinds, At(kinds)
    PROVE  /\ work # <<>> /\ item \in SoundItem /\ item.kind \in kinds
           /\ Tail(work) \in Seq(SoundItem) /\ building = "body"
<1>1. work \in Seq(SoundItem) /\ work # <<>>
  BY DEF BodyInv, At
<1> QED  BY <1>1 DEF At, item

LEMMA ExprSound ==
    /\ \A l \in Nat : Operand(l) \in Seq(SoundItem)
    /\ c0_expr \in Seq(SoundItem)
<1>1. ASSUME NEW l \in Nat PROVE Operand(l) \in Seq(SoundItem)
  <2>1. Item("unary") \in SoundItem /\ Do("rest", l, 8) \in SoundItem
    BY Items DEF ItemFacts, Plain
  <2> QED  BY <2>1 DEF Operand
<1> QED  BY <1>1 DEF c0_expr

LEMMA ExprSoundNext ==
    (/\ \A l \in Nat : Operand(l) \in Seq(SoundItem)
     /\ c0_expr \in Seq(SoundItem))'
BY ExprSound, PTL

\* Instructions that refer to nothing.
LEMMA FreeIns ==
    ASSUME NEW o \in Ops \ (LocalOps \cup JumpOps \cup {"call"}), NEW n \in Int
    PROVE  Ins(o, n) \in CodeIns /\ Ins(o, n) \in SoundIns'
BY DEF Ins, CodeIns, SoundIns

\* Instructions on a local.
LEMMA LocalIns ==
    ASSUME NEW o \in LocalOps, NEW n \in 0..Len(locals) - 1, UNCHANGED locals
    PROVE  Ins(o, n) \in CodeIns /\ Ins(o, n) \in SoundIns'
<1>1. o \in Ops /\ o \notin JumpOps /\ o # "call" /\ n \in Int
  BY DEF LocalOps, Ops, JumpOps
<1> QED  BY <1>1 DEF Ins, CodeIns, SoundIns

\* A local that is found is one of the locals.
LEMMA SlotFound ==
    ASSUME BodyInv, NEW name, Found(name)
    PROVE  Slot(name) \in 0..Len(locals) - 1
<1>1. (CHOOSE i \in DOMAIN locals : locals[i] = name) \in DOMAIN locals
  BY DEF Found
<1> QED  BY <1>1, Lengths DEF Slot

LEMMA OperatorFacts ==
    ASSUME NEW op \in Operators
    PROVE  /\ Level(op) \in 0..8
           /\ Level(op) < 2 => Instr(op) \in JumpOps
           /\ Level(op) >= 2 => Instr(op) \in BinaryOps
<1>1. Level(op) \in 0..8
  BY DEF Operators, Level
<1>2. CASE op \in {"||", "&&"}
  <2>1. Level(op) < 2
    BY <1>2 DEF Level
  <2>2. Instr(op) \in JumpOps
    BY <1>2 DEF Instr, JumpOps
  <2> QED  BY <1>1, <2>1, <2>2
<1>3. CASE op \notin {"||", "&&"}
  <2>1. Level(op) >= 2
    BY <1>3 DEF Operators, Level
  <2>2. Instr(op) \in BinaryOps
    BY <1>3 DEF Operators, Instr, BinaryOps
  <2> QED  BY <1>1, <2>1, <2>2
<1> QED  BY <1>2, <1>3

LEMMA BinaryOpsFree ==
    BinaryOps \cup UnaryOps \cup {"push", "pop", "ret"}
        \subseteq Ops \ (LocalOps \cup JumpOps \cup {"call"})
BY DEF BinaryOps, UnaryOps, Ops, LocalOps, JumpOps

-----------------------------------------------------------------------------
(***************************************************************************)
(* Expressions                                                             *)
(***************************************************************************)

\* One instruction replaces the item in hand.
LEMMA OneIns ==
    ASSUME BodyInv, Outside, work # <<>>, NEW x \in CodeIns, x \in SoundIns',
           EmitThen(<<x>>, <<>>)
    PROVE  BodyInv'
<1>1. <<x>> \in Seq(CodeIns) /\ <<x>> \in Seq(SoundIns') /\ <<>> \in Seq(SoundItem')
  OBVIOUS
<1> QED  BY <1>1, EmitKeeps

LEMMA CallKeeps ==
    ASSUME BodyInv, ModuleInv, Outside, work # <<>>, NEW name, NEW argc, CallOf(name, argc)
    PROVE  BodyInv'
<1>1. ASSUME NEW why, c0_fail(why) PROVE BodyInv'
  BY <1>1, FailKeeps
<1>2. CASE name \in Intrinsics /\ EmitThen(<<Ins(IntrinsicInstr(name), 0)>>, <<>>)
  <2>1. IntrinsicInstr(name) \in BinaryOps
    BY <1>2 DEF Intrinsics, IntrinsicInstr, BinaryOps
  <2>2. IntrinsicInstr(name) \in Ops \ (LocalOps \cup JumpOps \cup {"call"})
    BY <2>1, BinaryOpsFree
  <2>3. /\ Ins(IntrinsicInstr(name), 0) \in CodeIns
        /\ Ins(IntrinsicInstr(name), 0) \in SoundIns'
    BY <2>2, FreeIns
  <2> QED  BY <1>2, <2>3, OneIns
<1>3. ASSUME Callable(name) # {}, EmitThen(<<Ins("call", FirstOf(Callable(name)) - 1)>>, <<>>)
      PROVE  BodyInv'
  <2>1. DOMAIN fns = 1..Len(fns) /\ Len(fns) \in Nat
    BY SourceIsLexed DEF SourceFacts
  <2>2. Callable(name) \in SUBSET (1..Len(fns)) /\ Callable(name) \in SUBSET Nat
    BY <2>1 DEF Callable
  <2>3. FirstOf(Callable(name)) \in 1..Len(fns)
    BY <1>3, <2>2, FirstIsOne
  <2> HIDE DEF Callable, FirstOf
  <2>4. PICK a \in 0..Len(fns) - 1 : a = FirstOf(Callable(name)) - 1
    BY <2>1, <2>3
  <2>5. Ins("call", a) \in CodeIns /\ Ins("call", a) \in SoundIns'
    <3>1. "call" \in Ops /\ "call" \notin LocalOps /\ "call" \notin JumpOps /\ a \in Int
      BY DEF Ops, LocalOps, JumpOps
    <3>2. fns' = fns
      BY DEF Outside
    <3> QED  BY <3>1, <3>2 DEF Ins, CodeIns, SoundIns
  <2> QED  BY <1>3, <2>4, <2>5, OneIns
<1> QED  BY <1>1, <1>2, <1>3 DEF CallOf

Leaf ==
    \/ Unexpected \/ Sign \/ Number \/ Paren \/ Closed \/ LocalRef \/ IndexRef \/ Member

LEMMA LeafKeeps ==
    ASSUME BodyInv, ModuleInv, Leaf
    PROVE  BodyInv'
<1>0. ASSUME NEW why, c0_fail(why), Outside PROVE BodyInv'
  BY <1>0, FailKeeps
<1>1. CASE Unexpected
  BY <1>0, <1>1 DEF Unexpected
<1>2. CASE Sign
  <2>1. PICK sign \in lang.signs : Then(<<Item("unary"), Emit(SignInstr(sign), 0)>>)
    BY <1>2 DEF Sign
  <2>2. SignInstr(sign) \in UnaryOps
    <3>1. sign \in Signs
      BY SourceIsLexed DEF SourceFacts
    <3> QED  BY <3>1 DEF Signs, SignInstr, UnaryOps
  <2>3. SignInstr(sign) \in Ops \ (LocalOps \cup JumpOps \cup {"call"})
    BY <2>2, BinaryOpsFree
  <2>4. Item("unary") \in SoundItem' /\ Emit(SignInstr(sign), 0) \in SoundItem'
    BY <2>3, ItemsNext DEF ItemFacts, Plain
  <2>5. <<Item("unary"), Emit(SignInstr(sign), 0)>> \in Seq(SoundItem')
    BY <2>4
  <2> QED  BY <1>2, <2>1, <2>5, InHand, ThenKeeps DEF Sign
<1>3. CASE Number
  <2>1. ASSUME NEW n \in Int, EmitThen(<<Ins("push", n)>>, <<>>) PROVE BodyInv'
    <3>1. "push" \in Ops \ (LocalOps \cup JumpOps \cup {"call"})
      BY BinaryOpsFree
    <3>2. Ins("push", n) \in CodeIns /\ Ins("push", n) \in SoundIns'
      BY <3>1, FreeIns
    <3> QED  BY <1>3, <2>1, <3>2, InHand, OneIns DEF Number
  <2>2. lang.numbers \subseteq Int /\ \A b \in {"true", "false"} : Truth(b = "true") \in Int
    BY SourceIsLexed DEF SourceFacts, Truth
  <2> QED  BY <1>0, <1>3, <2>1, <2>2 DEF Number
<1>4. CASE Paren
  <2>1. c0_expr \o <<Close(")")>> \in Seq(SoundItem')
    <3>1. Close(")") \in SoundItem'
      BY ItemsNext DEF ItemFacts, Closers
    <3> QED  BY <3>1, ExprSoundNext
  <2> QED  BY <1>4, <2>1, InHand, ThenKeeps DEF Paren
<1>5. CASE Closed
  <2>1. <<>> \in Seq(SoundItem')
    OBVIOUS
  <2> QED  BY <1>5, <2>1, InHand, ThenKeeps DEF Closed
<1>6. ASSUME NEW o \in LocalOps, NEW name, Found(name), Outside, work # <<>>,
             EmitThen(<<Ins(o, Slot(name))>>, <<>>)
      PROVE  BodyInv'
  <2>1. Slot(name) \in 0..Len(locals) - 1 /\ locals' = locals
    BY <1>6, SlotFound DEF EmitThen
  <2>2. Ins(o, Slot(name)) \in CodeIns /\ Ins(o, Slot(name)) \in SoundIns'
    BY <2>1, LocalIns
  <2> QED  BY <1>6, <2>2, OneIns
<1>7. CASE LocalRef
  <2>1. Outside /\ work # <<>> /\ "load" \in LocalOps
    BY <1>7, InHand DEF LocalRef, LocalOps
  <2> QED  BY <1>0, <1>6, <1>7, <2>1 DEF LocalRef, IsScalar
<1>8. CASE IndexRef
  <2>1. ASSUME NEW name, IsArray(name), Outside, work # <<>>,
               Then(c0_expr \o <<Close("]"), Emit("load_index", Slot(name))>>)
        PROVE  BodyInv'
    <3>1. Slot(name) \in 0..Len(locals') - 1
      BY <2>1, SlotFound DEF IsArray, Then, EmitThen
    <3>2. Slot(name) \in Nat
      BY <3>1
    <3>3. "load_index" \in Ops \ (JumpOps \cup {"call"})
      BY DEF Ops, JumpOps, LocalOps
    <3>4. Emit("load_index", Slot(name)) \in SoundItem' /\ Close("]") \in SoundItem'
      BY <3>1, <3>2, <3>3, ItemsNext DEF ItemFacts, Closers
    <3>5. c0_expr \o <<Close("]"), Emit("load_index", Slot(name))>> \in Seq(SoundItem')
      BY <3>4, ExprSoundNext
    <3> QED  BY <2>1, <3>5, ThenKeeps
  <2>2. Outside /\ work # <<>>
    BY <1>8, InHand DEF IndexRef
  <2> QED  BY <1>0, <1>8, <2>1, <2>2 DEF IndexRef
<1>9. CASE Member
  <2>1. Outside /\ work # <<>> /\ "arr_len" \in LocalOps
    BY <1>9, InHand DEF Member, LocalOps
  <2> QED  BY <1>0, <1>6, <1>9, <2>1 DEF Member, IsArray
<1> QED  BY <1>1, <1>2, <1>3, <1>4, <1>5, <1>7, <1>8, <1>9 DEF Leaf

LEMMA CallsKeep ==
    ASSUME BodyInv, ModuleInv, CallBegin \/ Argument
    PROVE  BodyInv'
<1>0. Outside /\ work # <<>> /\ item \in SoundItem
  BY InHand DEF CallBegin, Argument
<1>1. ASSUME NEW w, w \in SoundItem', Then(c0_expr \o <<w>>) PROVE BodyInv'
  <2>1. c0_expr \o <<w>> \in Seq(SoundItem')
    BY <1>1, ExprSoundNext
  <2> QED  BY <1>0, <1>1, <2>1, ThenKeeps
<1>2. CASE CallBegin
  <2>1. ASSUME NEW name \in lang.calls
        PROVE  [Do("args", 0, 1) EXCEPT !.name = name] \in SoundItem'
    <3>1. name \in lang'.calls
      BY <1>0 DEF Outside
    <3> QED  BY <3>1, ItemsNext DEF ItemFacts
  <2> QED  BY <1>0, <1>1, <1>2, <2>1, CallKeeps DEF CallBegin
<1>3. CASE Argument
  <2>1. ASSUME Then(c0_expr \o <<[item EXCEPT !.n = @ + 1]>>) PROVE BodyInv'
    <3>1. SoundItem' = SoundItem
      BY <1>0, <2>1, ThenSame
    <3>2. item.kind \in {"args"}
      <4>1. At({"args"})
        BY <1>3 DEF Argument
      <4> QED  BY <4>1, InHand
    <3> HIDE DEF item
    <3>3. item.n + 1 \in Nat
      BY <1>0, ItemTyped
    <3>4. [item EXCEPT !.n = item.n + 1] \in SoundItem
      BY <1>0, <3>2, <3>3, ItemChanges
    <3> QED  BY <1>1, <2>1, <3>1, <3>4
  <2> QED  BY <1>0, <1>3, <2>1, CallKeeps DEF Argument
<1> QED  BY <1>2, <1>3

LEMMA OperatorsKeep ==
    ASSUME BodyInv, ModuleInv, Operator \/ NoOperator \/ c0_emit
    PROVE  BodyInv'
<1>0. Outside /\ work # <<>> /\ item \in SoundItem /\ Len(code) \in Nat
  BY InHand, Lengths DEF Operator, NoOperator, c0_emit
<1>1. CASE Operator
  <2>1. PICK op \in lang.ops :
          LET again == Do("rest", item.a, Level(op)) IN
          \/ /\ Level(op) < 2
             /\ EmitThen(ShortCircuit(op), RightOf(op) \o <<PatchAt({c0_here}), again>>)
          \/ /\ Level(op) >= 2
             /\ Then(RightOf(op) \o <<Emit(Instr(op), 0), again>>)
          \/ c0_fail("VM_REJ_SHIFT")
    BY <1>1 DEF Operator
  <2>2. /\ op \in Operators /\ Level(op) \in 0..8
        /\ Level(op) < 2 => Instr(op) \in JumpOps
        /\ Level(op) >= 2 => Instr(op) \in BinaryOps
    BY SourceIsLexed, OperatorFacts DEF SourceFacts
  <2>3. Do("rest", item.a, Level(op)) \in SoundItem' /\ RightOf(op) \in Seq(SoundItem')
    <3>1. item.a \in Nat /\ Level(op) \in Nat /\ Level(op) + 1 \in Nat
      BY <1>0, <2>2, ItemTyped
    <3>2. RightOf(op) \in Seq(SoundItem')
      BY <3>1, ExprSoundNext DEF RightOf
    <3>3. Do("rest", item.a, Level(op)) \in SoundItem'
      BY <3>1, ItemsNext DEF ItemFacts
    <3> QED  BY <3>2, <3>3
  <2> HIDE DEF item
  <2>4. CASE /\ Level(op) < 2
             /\ EmitThen(ShortCircuit(op), RightOf(op)
                                     \o <<PatchAt({c0_here}), Do("rest", item.a, Level(op))>>)
    <3>1. Ins(Instr(op), 0) \in CodeIns /\ Ins("pop", 0) \in CodeIns
      BY <2>2, <2>4 DEF Ins, CodeIns, Ops
    <3>2. ShortCircuit(op) \in Seq(CodeIns)
      BY <3>1 DEF ShortCircuit
    <3>3. /\ Len(ShortCircuit(op)) = 2 /\ ShortCircuit(op)[1] = Ins(Instr(op), 0)
      BY <3>1 DEF ShortCircuit
    <3>4. Grows /\ Len(code) + 0 \in Jumps'
      <4>1. code' = code \o ShortCircuit(op) /\ UNCHANGED locals
        BY <2>4 DEF EmitThen
      <4>2. Grows /\ \A k \in 1..2 : ShortCircuit(op)[k].op \in JumpOps
                                        => Len(code) + (k - 1) \in Jumps'
        BY <1>0, <3>2, <3>3, <4>1, EmitGrows
      <4>3. ShortCircuit(op)[1].op \in JumpOps
        BY <2>2, <2>4, <3>3 DEF Ins
      <4>4. Len(code) + (1 - 1) \in Jumps'
        BY <4>2, <4>3
      <4> QED  BY <1>0, <4>2, <4>4
    <3>5. PatchAt({c0_here}) \in SoundItem'
      <4>1. {c0_here} \in SUBSET Jumps'
        BY <1>0, <3>4 DEF c0_here
      <4> QED  BY <4>1, ItemsNext DEF ItemFacts
    <3>6. RightOf(op) \o <<PatchAt({c0_here}), Do("rest", item.a, Level(op))>>
             \in Seq(SoundItem')
      BY <2>3, <3>5
    <3>7. Ins(Instr(op), 0) \in SoundIns' /\ Ins("pop", 0) \in SoundIns'
      <4>1. Instr(op) \notin LocalOps /\ Instr(op) # "call" /\ Len(code') \in Nat
        BY <2>2, <2>4, <3>4 DEF JumpOps, LocalOps, Grows
      <4>2. "pop" \in Ops \ (LocalOps \cup JumpOps \cup {"call"})
        BY BinaryOpsFree
      <4>3. Ins("pop", 0) \in SoundIns'
        BY <4>2, FreeIns
      <4>4. Ins(Instr(op), 0) \in SoundIns'
        BY <3>1, <4>1 DEF SoundIns, Ins
      <4> QED  BY <4>3, <4>4
    <3>8. ShortCircuit(op) \in Seq(SoundIns')
      BY <3>7 DEF ShortCircuit
    <3> QED  BY <1>0, <2>4, <3>2, <3>6, <3>8, EmitKeeps
  <2>5. CASE /\ Level(op) >= 2
             /\ Then(RightOf(op) \o <<Emit(Instr(op), 0), Do("rest", item.a, Level(op))>>)
    <3>1. Instr(op) \in Ops \ (LocalOps \cup JumpOps \cup {"call"})
      BY <2>2, <2>5, BinaryOpsFree
    <3>2. Emit(Instr(op), 0) \in SoundItem'
      BY <3>1, ItemsNext DEF ItemFacts
    <3>3. RightOf(op) \o <<Emit(Instr(op), 0), Do("rest", item.a, Level(op))>>
             \in Seq(SoundItem')
      BY <2>3, <3>2
    <3> QED  BY <1>0, <2>5, <3>3, ThenKeeps
  <2>6. CASE c0_fail("VM_REJ_SHIFT")
    BY <1>0, <2>6, FailKeeps
  <2> QED  BY <2>1, <2>4, <2>5, <2>6
<1>2. CASE NoOperator
  <2>1. <<>> \in Seq(SoundItem')
    OBVIOUS
  <2> QED  BY <1>0, <1>2, <2>1, ThenKeeps DEF NoOperator
<1>3. CASE c0_emit
  <2>1. /\ item.op \in Ops \ (JumpOps \cup {"call"}) /\ item.a \in Nat
        /\ item.op \in LocalOps => item.a \in 0..Len(locals) - 1
    <3>1. item.kind = "emit"
      BY <1>3, InHand DEF c0_emit
    <3> QED  BY <1>0, <3>1 DEF SoundItem, WorkItem
  <2> HIDE DEF item
  <2>2. UNCHANGED locals /\ EmitThen(<<Ins(item.op, item.a)>>, <<>>)
    BY <1>3 DEF c0_emit, EmitThen
  <2>3. Ins(item.op, item.a) \in CodeIns /\ Ins(item.op, item.a) \in SoundIns'
    <3>1. CASE item.op \in LocalOps
      BY <2>1, <2>2, <3>1, LocalIns
    <3>2. CASE item.op \notin LocalOps
      <4>1. item.op \in Ops \ (LocalOps \cup JumpOps \cup {"call"}) /\ item.a \in Int
        BY <2>1, <3>2
      <4> QED  BY <4>1, FreeIns
    <3> QED  BY <3>1, <3>2
  <2> QED  BY <1>0, <2>2, <2>3, OneIns
<1> QED  BY <1>1, <1>2, <1>3

-----------------------------------------------------------------------------
(***************************************************************************)
(* Patches: jumps get their target, and instrs follow                      *)
(***************************************************************************)
LEMMA PatchedAt ==
    ASSUME BodyInv, NEW S, NEW to \in Int, NEW k \in 1..Len(code)
    PROVE  /\ Patched(code, S, to)[k] =
                 IF k - 1 \in S THEN [code[k] EXCEPT !.a = to] ELSE code[k]
           /\ Patched(code, S, to)[k] \in CodeIns
<1>1. code[k] \in CodeIns /\ k \in DOMAIN code
  BY Lengths
<1>2. Patched(code, S, to)[k] = IF k - 1 \in S THEN [code[k] EXCEPT !.a = to] ELSE code[k]
  BY <1>1 DEF Patched
<1>3. Patched(code, S, to)[k] \in CodeIns
  BY <1>1, <1>2 DEF CodeIns
<1> QED  BY <1>2, <1>3

LEMMA PatchedOp ==
    ASSUME BodyInv, NEW S, NEW to \in Int, NEW k \in 1..Len(code)
    PROVE  Patched(code, S, to)[k].op = code[k].op
<1>1. code[k] \in CodeIns /\ k \in DOMAIN code
  BY Lengths
<1>2. Patched(code, S, to)[k] = IF k - 1 \in S THEN [code[k] EXCEPT !.a = to] ELSE code[k]
  BY <1>1 DEF Patched
<1> QED  BY <1>1, <1>2 DEF CodeIns

LEMMA PatchedCode ==
    ASSUME BodyInv, NEW S, NEW to \in Int
    PROVE  /\ Patched(code, S, to) \in Seq(CodeIns)
           /\ Len(Patched(code, S, to)) = Len(code)
           /\ \A x \in CodeIns : Append(Patched(code, S, to), x) = Patched(code, S, to) \o <<x>>
           /\ Patched(code, S, to) \o <<>> = Patched(code, S, to)
<1> DEFINE c == Patched(code, S, to)
<1>1. Len(code) \in Nat /\ DOMAIN code = 1..Len(code) /\ code \in Seq(CodeIns)
  BY Lengths
<1>2. ASSUME NEW k \in 1..Len(code) PROVE c[k] \in CodeIns
  BY PatchedAt
<1>3. DOMAIN c = 1..Len(code) /\ c = [k \in 1..Len(code) |-> c[k]]
  BY <1>1 DEF Patched
<1> HIDE DEF c
<1>4. c \in [1..Len(code) -> CodeIns]
  BY <1>2, <1>3
<1>5. c \in Seq(CodeIns)
  BY <1>1, <1>4 DEF Seq
<1>6. Len(c) = Len(code)
  BY <1>1, <1>3, <1>5
<1>7. (\A x \in CodeIns : Append(c, x) = c \o <<x>>) /\ c \o <<>> = c
  BY <1>5
<1> QED  BY <1>5, <1>6, <1>7 DEF c

LEMMA PatchGrows ==
    ASSUME BodyInv, Outside, UNCHANGED locals,
           NEW S, NEW to \in Int, NEW instrs \in Seq(CodeIns),
           code' = Patched(code, S, to) \o instrs
    PROVE  /\ Grows
           /\ Len(code') = Len(code) + Len(instrs)
           /\ \A k \in 1..Len(instrs) :
                 instrs[k].op \in JumpOps => Len(code) + (k - 1) \in Jumps'
<1> DEFINE c == Patched(code, S, to)
<1>1. /\ Len(code) \in Nat /\ Len(locals) \in Nat
      /\ Len(instrs) \in Nat /\ DOMAIN instrs = 1..Len(instrs)
  BY Lengths
<1>2. ASSUME NEW k \in 1..Len(code) PROVE c[k].op = code[k].op
  BY PatchedOp
<1>3. c \in Seq(CodeIns) /\ Len(c) = Len(code)
  BY PatchedCode
<1> HIDE DEF c
<1>4. code' = c \o instrs
  BY DEF c
<1>5. /\ Len(code') = Len(code) + Len(instrs)
      /\ \A k \in 1..Len(code) : code'[k] = c[k]
      /\ \A k \in 1..Len(instrs) : code'[Len(code) + k] = instrs[k]
  <2>1. c \o instrs \in Seq(CodeIns)
    BY <1>3
  <2>2. /\ Len(c \o instrs) = Len(c) + Len(instrs)
        /\ \A k \in 1..Len(c) + Len(instrs) :
              (c \o instrs)[k] = IF k <= Len(c) THEN c[k] ELSE instrs[k - Len(c)]
    BY <1>3, ConcatProperties
  <2> QED  BY <1>1, <1>3, <1>4, <2>2
<1>6. Jumps \subseteq Jumps'
  <2>1. ASSUME NEW k \in Jumps PROVE k \in Jumps'
    <3>1. k + 1 \in 1..Len(code) /\ code[k + 1].op \in JumpOps /\ k \in 0..Len(code) - 1
      BY <1>1 DEF Jumps
    <3>2. code'[k + 1].op = code[k + 1].op
      BY <1>2, <1>5, <3>1
    <3>3. k \in 0..Len(code') - 1
      BY <1>1, <1>5, <3>1
    <3> QED  BY <3>1, <3>2, <3>3 DEF Jumps
  <2> QED  BY <2>1
<1>7. ASSUME NEW k \in 1..Len(instrs), instrs[k].op \in JumpOps
      PROVE  Len(code) + (k - 1) \in Jumps'
  <2>1. (Len(code) + (k - 1)) + 1 = Len(code) + k /\ Len(code) + (k - 1) \in 0..Len(code') - 1
    BY <1>1, <1>5
  <2> QED  BY <1>5, <1>7, <2>1 DEF Jumps
<1>8. Grows
  BY <1>1, <1>5, <1>6 DEF Grows, Outside
<1> QED  BY <1>5, <1>7, <1>8

LEMMA PatchKeeps ==
    ASSUME BodyInv, Outside, UNCHANGED <<locals, arr_n>>,
           NEW S \in SUBSET Jumps, NEW instrs \in Seq(CodeIns), instrs \in Seq(SoundIns'),
           NEW to \in 0..Len(code'),
           code' = Patched(code, S, to) \o instrs,
           work' \in Seq(SoundItem')
    PROVE  BodyInv'
<1> DEFINE c == Patched(code, S, to)
<1>1. /\ Len(code) \in Nat /\ DOMAIN code = 1..Len(code) /\ code \in Seq(CodeIns)
      /\ code \in Seq(SoundIns)
  BY Lengths DEF BodyInv
<1>2. to \in Int
  OBVIOUS
<1>3. Grows /\ c \in Seq(CodeIns) /\ Len(c) = Len(code)
  BY <1>2, PatchGrows, PatchedCode
<1>4. SoundIns \subseteq SoundIns'
  BY <1>3, SoundStays
<1>5. ASSUME NEW k \in 1..Len(code) PROVE c[k] \in SoundIns'
  <2>1. code[k] \in CodeIns /\ code[k] \in SoundIns'
    BY <1>1, <1>4
  <2>2. c[k] = IF k - 1 \in S THEN [code[k] EXCEPT !.a = to] ELSE code[k]
    BY <1>2, PatchedAt
  <2> HIDE DEF c
  <2>3. CASE k - 1 \in S
    <3>1. code[k].op \in JumpOps
      <4>1. code[(k - 1) + 1].op \in JumpOps
        BY <2>3 DEF Jumps
      <4>2. (k - 1) + 1 = k
        OBVIOUS
      <4> QED  BY <4>1, <4>2
    <3>2. c[k] \in CodeIns /\ c[k].op = code[k].op /\ c[k].a = to
      BY <1>2, <2>1, <2>2, <2>3 DEF CodeIns
    <3>3. code[k].op \notin LocalOps /\ code[k].op # "call"
      BY <3>1 DEF JumpOps, LocalOps
    <3> QED  BY <3>2, <3>3 DEF SoundIns
  <2> QED  BY <2>1, <2>2, <2>3
<1>6. c \in Seq(SoundIns')
  <2> HIDE DEF c
  <2>1. PICK T : T = SoundIns'
    OBVIOUS
  <2>2. c \in [1..Len(code) -> T]
    BY <1>1, <1>3, <1>5, <2>1
  <2>3. c \in Seq(T)
    BY <1>1, <2>2, SeqOfFn
  <2> QED  BY <2>1, <2>3
<1>7. code' \in Seq(SoundIns')
  <2> HIDE DEF c
  <2>1. code' = c \o instrs
    BY DEF c
  <2> QED  BY <1>6, <2>1
<1>8. Idents' = Idents
  BY DEF Outside, Idents
<1> QED  BY <1>7, <1>8 DEF BodyInv

\* A jump that is patched goes behind the jump instruction to, which closes a
\* block: the end of a branch of an if, or of a loop.
LEMMA CloseBlock ==
    ASSUME BodyInv, Outside, UNCHANGED <<locals, arr_n>>,
           NEW j \in Jumps, NEW to \in 0..Len(code),
           code' = Append(Patched(code, {j}, c0_here + 1), Ins("jump", to))
    PROVE  /\ Grows
           /\ c0_here \in Jumps'
           /\ work' \in Seq(SoundItem') => BodyInv'
<1>1. Len(code) \in Nat /\ Len(code) + 1 \in Int /\ to \in Int
  BY Lengths
<1>2. Ins("jump", to) \in CodeIns
  BY <1>1 DEF Ins, CodeIns, Ops, JumpOps
<1>3. PICK instrs \in Seq(CodeIns) : instrs = <<Ins("jump", to)>>
  <2>1. <<Ins("jump", to)>> \in Seq(CodeIns)
    BY <1>2
  <2> QED  BY <2>1
<1>4. Len(instrs) = 1 /\ instrs[1] = Ins("jump", to)
  BY <1>3
<1>5. code' = Patched(code, {j}, Len(code) + 1) \o instrs
  BY <1>1, <1>2, <1>3, PatchedCode DEF c0_here
<1>6. /\ Grows /\ Len(code') = Len(code) + 1
      /\ \A k \in 1..1 : instrs[k].op \in JumpOps => Len(code) + (k - 1) \in Jumps'
  BY <1>1, <1>4, <1>5, PatchGrows
<1>7. c0_here \in Jumps'
  <2>1. instrs[1].op \in JumpOps
    BY <1>4 DEF Ins, JumpOps
  <2>2. Len(code) + (1 - 1) \in Jumps'
    BY <1>6, <2>1
  <2> QED  BY <1>1, <2>2 DEF c0_here
<1>8. instrs \in Seq(SoundIns')
  <2>1. "jump" \notin LocalOps
    BY DEF LocalOps
  <2>2. to \in 0..Len(code')
    BY <1>1, <1>6
  <2>3. Ins("jump", to) \in SoundIns'
    BY <1>2, <2>1, <2>2 DEF SoundIns, Ins
  <2> QED  BY <1>3, <2>3
<1>9. Len(code) + 1 \in 0..Len(code') /\ {j} \in SUBSET Jumps
  BY <1>1, <1>6
<1>10. ASSUME work' \in Seq(SoundItem') PROVE BodyInv'
  BY <1>5, <1>8, <1>9, <1>10, PatchKeeps
<1> QED  BY <1>6, <1>7, <1>10

LEMMA PatchesKeep ==
    ASSUME BodyInv, ModuleInv, c0_patch \/ LoopEnd \/ ThenEnd
    PROVE  BodyInv'
<1>0. /\ Outside /\ work # <<>> /\ item \in SoundItem /\ Tail(work) \in Seq(SoundItem)
      /\ UNCHANGED <<locals, arr_n>> /\ Len(code) \in Nat
  BY InHand, Lengths DEF c0_patch, LoopEnd, ThenEnd
<1>1. CASE c0_patch
  <2>1. item.kind \in {"patch"}
    <3>1. At({"patch"})
      BY <1>1 DEF c0_patch
    <3> QED  BY <3>1, InHand
  <2>2. item.ends \in SUBSET Jumps
    BY <1>0, <2>1 DEF SoundItem
  <2> HIDE DEF item
  <2>3. /\ <<>> \in Seq(CodeIns) /\ <<>> \in Seq(SoundIns') /\ Len(<<>>) = 0
        /\ Len(code) \in Int
    BY <1>0
  <2>4. code' = Patched(code, item.ends, Len(code)) \o <<>>
    BY <1>1, <2>3, PatchedCode DEF c0_patch, c0_here
  <2>5. Grows /\ Len(code') = Len(code)
    <3>1. Grows /\ Len(code') = Len(code) + Len(<<>>)
      BY <1>0, <2>3, <2>4, PatchGrows
    <3> QED  BY <1>0, <2>3, <3>1
  <2>6. work' \in Seq(SoundItem')
    BY <1>0, <1>1, <2>5, SoundStays DEF c0_patch
  <2>7. Len(code) \in 0..Len(code')
    BY <1>0, <2>5
  <2> QED  BY <1>0, <2>2, <2>3, <2>4, <2>6, <2>7, PatchKeeps
<1>2. CASE LoopEnd
  <2>1. item.kind \in {"loop"}
    <3>1. At({"loop"})
      BY <1>2 DEF LoopEnd
    <3> QED  BY <3>1, InHand
  <2>2. item.a \in Jumps /\ item.n \in 0..Len(code)
    BY <1>0, <2>1 DEF SoundItem
  <2> HIDE DEF item
  <2>3. code' = Append(Patched(code, {item.a}, c0_here + 1), Ins("jump", item.n))
    BY <1>2 DEF LoopEnd
  <2>4. Grows /\ (work' \in Seq(SoundItem') => BodyInv')
    BY <1>0, <2>2, <2>3, CloseBlock
  <2>5. work' \in Seq(SoundItem')
    BY <1>0, <1>2, <2>4, SoundStays DEF LoopEnd
  <2> QED  BY <2>4, <2>5
<1>3. CASE ThenEnd
  <2> DEFINE ends == item.ends \cup {c0_here}
  <2>1. item.kind \in {"then"}
    <3>1. At({"then"})
      BY <1>3 DEF ThenEnd
    <3> QED  BY <3>1, InHand
  <2>2. item.a \in Jumps /\ item.ends \subseteq Jumps
    BY <1>0, <2>1 DEF SoundItem
  <2> HIDE DEF item
  <2>3. code' = Append(Patched(code, {item.a}, c0_here + 1), Ins("jump", 0))
    BY <1>3 DEF ThenEnd
  <2>4. Grows /\ c0_here \in Jumps' /\ (work' \in Seq(SoundItem') => BodyInv')
    <3>1. 0 \in 0..Len(code)
      BY <1>0
    <3> QED  BY <1>0, <2>2, <2>3, <3>1, CloseBlock
  <2>5. Tail(work) \in Seq(SoundItem') /\ ends \in SUBSET Jumps'
    BY <1>0, <2>2, <2>4, SoundStays DEF Grows
  <2>6. /\ [Item("if") EXCEPT !.ends = ends] \in SoundItem'
        /\ PatchAt(ends) \in SoundItem' /\ Item("block") \in SoundItem'
    <3> HIDE DEF ends
    <3> QED  BY <2>5, ItemsNext DEF ItemFacts, Plain
  <2>7. work' \in Seq(SoundItem')
    <3>1. \/ work' = c0_expr \o <<[Item("if") EXCEPT !.ends = ends]>> \o Tail(work)
          \/ work' = <<Item("block"), PatchAt(ends)>> \o Tail(work)
          \/ work' = <<PatchAt(ends)>> \o Tail(work)
      BY <1>3 DEF ThenEnd
    <3> HIDE DEF ends
    <3>2. CASE work' = c0_expr \o <<[Item("if") EXCEPT !.ends = ends]>> \o Tail(work)
      <4>1. <<[Item("if") EXCEPT !.ends = ends]>> \in Seq(SoundItem')
        BY <2>6
      <4> QED  BY <2>5, <3>2, <4>1, ExprSoundNext
    <3>3. CASE work' = <<Item("block"), PatchAt(ends)>> \o Tail(work)
      BY <2>5, <2>6, <3>3
    <3>4. CASE work' = <<PatchAt(ends)>> \o Tail(work)
      BY <2>5, <2>6, <3>4
    <3> QED  BY <3>1, <3>2, <3>3, <3>4
  <2> QED  BY <2>4, <2>7
<1> QED  BY <1>1, <1>2, <1>3

-----------------------------------------------------------------------------
(***************************************************************************)
(* Locals and assignments                                                  *)
(***************************************************************************)
\* c0_local_idx finds the local or makes room for it, and never for more than
\* the frame holds.
LEMMA LocalAdded ==
    ASSUME BodyInv, NEW name \in Idents, ~Full(name)
    PROVE  /\ LocalsWith(name) \in Seq(Idents)
           /\ Len(LocalsWith(name)) \in Nat
           /\ Len(locals) <= Len(LocalsWith(name))
           /\ Len(LocalsWith(name)) <= MaxLocals
           /\ ArraysWith(name) \in Seq(0..MaxArrLen)
           /\ Len(ArraysWith(name)) = Len(LocalsWith(name))
           /\ SlotAfter(name) \in 0..Len(LocalsWith(name)) - 1
<1>1. /\ Len(locals) \in Nat /\ locals \in Seq(Idents) /\ Len(locals) <= MaxLocals
      /\ arr_n \in Seq(0..MaxArrLen) /\ Len(arr_n) = Len(locals)
  BY Lengths DEF BodyInv
<1>2. CASE Found(name)
  BY <1>1, <1>2, SlotFound DEF LocalsWith, ArraysWith, SlotAfter
<1>3. CASE ~Found(name)
  <2>1. /\ LocalsWith(name) = Append(locals, name) /\ ArraysWith(name) = Append(arr_n, 0)
        /\ SlotAfter(name) = Len(locals)
    BY <1>3 DEF LocalsWith, ArraysWith, SlotAfter
  <2>2. Len(locals) + 1 <= MaxLocals /\ 0 \in 0..MaxArrLen
    BY <1>1, <1>3, VmAssumption, WordAssumption DEF Full
  <2>3. Append(locals, name) \in Seq(Idents) /\ Len(Append(locals, name)) = Len(locals) + 1
    BY <1>1
  <2>4. Append(arr_n, 0) \in Seq(0..MaxArrLen) /\ Len(Append(arr_n, 0)) = Len(arr_n) + 1
    BY <1>1, <2>2
  <2> QED  BY <1>1, <2>1, <2>2, <2>3, <2>4
<1> QED  BY <1>2, <1>3

LEMMA ArraySet ==
    ASSUME NEW s \in Seq(0..MaxArrLen), NEW i \in 0..Len(s) - 1, NEW n \in 0..MaxArrLen
    PROVE  /\ [s EXCEPT ![i + 1] = n] \in Seq(0..MaxArrLen)
           /\ Len([s EXCEPT ![i + 1] = n]) = Len(s)
OBVIOUS

\* A local is there that may not have been before.
LEMMA LocalGrows ==
    ASSUME BodyInv, Outside, NEW name \in Idents, ~Full(name), locals' = LocalsWith(name),
           UNCHANGED code
    PROVE  Grows
<1>1. Len(code) \in Nat /\ Len(locals) \in Nat
  BY Lengths
<1>2. Len(locals') \in Nat /\ Len(locals) <= Len(locals')
  BY LocalAdded
<1>3. Jumps' = Jumps
  BY DEF Jumps
<1> QED  BY <1>1, <1>2, <1>3 DEF Grows, Outside

Assignments == AssignIndex \/ AssignLiteral \/ Literal \/ ArrayElement \/ MoreElements
                   \/ AssignScalar \/ Unsupported

LEMMA AssignmentsKeep ==
    ASSUME BodyInv, ModuleInv, Assignments
    PROVE  BodyInv'
<1>0. Outside /\ work # <<>> /\ item \in SoundItem
  BY InHand DEF Assignments, AssignIndex, AssignLiteral, Literal, ArrayElement, MoreElements,
                AssignScalar, Unsupported
<1>1. ASSUME NEW why, c0_fail(why) PROVE BodyInv'
  BY <1>0, <1>1, FailKeeps
<1>2. CASE AssignIndex
  <2>1. ASSUME NEW name, IsArray(name),
               Then(c0_expr \o <<Close("]=")>> \o c0_expr
                       \o <<Emit("store_index", Slot(name))>>)
        PROVE  BodyInv'
    <3>1. Slot(name) \in 0..Len(locals') - 1
      BY <2>1, SlotFound DEF IsArray, Then, EmitThen
    <3>2. Slot(name) \in Nat
      BY <3>1
    <3>3. "store_index" \in Ops \ (JumpOps \cup {"call"})
      BY DEF Ops, JumpOps, LocalOps
    <3>4. Emit("store_index", Slot(name)) \in SoundItem' /\ Close("]=") \in SoundItem'
      BY <3>1, <3>2, <3>3, ItemsNext DEF ItemFacts, Closers
    <3>5. c0_expr \o <<Close("]=")>> \o c0_expr \o <<Emit("store_index", Slot(name))>>
             \in Seq(SoundItem')
      BY <3>4, ExprSoundNext
    <3> QED  BY <1>0, <2>1, <3>5, ThenKeeps
  <2> QED  BY <1>1, <1>2, <2>1 DEF AssignIndex
<1>3. CASE AssignLiteral
  <2>1. ASSUME NEW name, IsArray(name), Then(<<Do("literal", Slot(name), 0)>>) PROVE BodyInv'
    <3>1. Slot(name) \in 0..Len(locals') - 1
      BY <2>1, SlotFound DEF IsArray, Then, EmitThen
    <3>2. Do("literal", Slot(name), 0) \in SoundItem'
      BY <3>1, ItemsNext DEF ItemFacts
    <3>3. <<Do("literal", Slot(name), 0)>> \in Seq(SoundItem')
      BY <3>2
    <3> QED  BY <1>0, <2>1, <3>3, ThenKeeps
  <2> QED  BY <1>1, <1>3, <2>1 DEF AssignLiteral
<1>4. ASSUME Then(<<>>) PROVE BodyInv'
  <2>1. <<>> \in Seq(SoundItem')
    OBVIOUS
  <2> QED  BY <1>0, <1>4, <2>1, ThenKeeps
<1>5. ASSUME NEW w \in SoundItem, Then(<<w>>) PROVE BodyInv'
  <2>1. SoundItem' = SoundItem
    BY <1>0, <1>5, ThenSame
  <2>2. <<w>> \in Seq(SoundItem')
    BY <2>1
  <2> QED  BY <1>0, <1>5, <2>2, ThenKeeps
<1>6. CASE Literal
  <2>1. item.kind \in {"literal", "elem", "more"}
    <3>1. At({"literal"})
      BY <1>6 DEF Literal
    <3> QED  BY <3>1, InHand
  <2>2. [item EXCEPT !.kind = "elem"] \in SoundItem
    BY <1>0, <2>1, ItemChanges
  <2> HIDE DEF item
  <2> QED  BY <1>4, <1>5, <1>6, <2>2 DEF Literal
<1>7. CASE MoreElements
  <2>1. item.kind \in {"literal", "elem", "more"}
    <3>1. At({"more"})
      BY <1>7 DEF MoreElements
    <3> QED  BY <3>1, InHand
  <2> HIDE DEF item
  <2>2. item.n + 1 \in Nat
    BY <1>0, ItemTyped
  <2>3. [item EXCEPT !.kind = "elem", !.n = item.n + 1] \in SoundItem
    BY <1>0, <2>1, <2>2, ItemChanges
  <2> QED  BY <1>4, <1>5, <1>7, <2>3 DEF MoreElements
<1>8. CASE AssignScalar
  <2>1. PICK name \in lang.names : Then(c0_expr \o <<[Item("store") EXCEPT !.name = name]>>)
    BY <1>8 DEF AssignScalar
  <2>2. [Item("store") EXCEPT !.name = name] \in SoundItem'
    <3>1. name \in lang'.names
      BY <1>0 DEF Outside
    <3> QED  BY <3>1, ItemsNext DEF ItemFacts
  <2>3. c0_expr \o <<[Item("store") EXCEPT !.name = name]>> \in Seq(SoundItem')
    BY <2>2, ExprSoundNext
  <2> QED  BY <1>0, <2>1, <2>3, ThenKeeps
<1>9. CASE Unsupported
  BY <1>1, <1>9 DEF Unsupported
<1>10. CASE ArrayElement
  <2>1. item.kind \in {"literal", "elem", "more"}
    <3>1. At({"elem"})
      BY <1>10 DEF ArrayElement
    <3> QED  BY <3>1, InHand
  <2>2. item.a \in 0..Len(locals) - 1 /\ item.a \in Nat /\ item.n \in Nat
    BY <1>0, <2>1, ItemTyped DEF SoundItem
  <2>3. [item EXCEPT !.kind = "more"] \in SoundItem
    BY <1>0, <2>1, ItemChanges
  <2> HIDE DEF item
  <2>4. ASSUME EmitThen(<<Ins("push", item.n)>>,
                        c0_expr \o <<Emit("store_index", item.a), [item EXCEPT !.kind = "more"]>>)
        PROVE  BodyInv'
    <3>1. "push" \in Ops \ (LocalOps \cup JumpOps \cup {"call"}) /\ item.n \in Int
      BY <2>2, BinaryOpsFree
    <3>2. Ins("push", item.n) \in CodeIns /\ Ins("push", item.n) \in SoundIns'
      BY <3>1, FreeIns
    <3>3. <<Ins("push", item.n)>> \in Seq(CodeIns) /\ <<Ins("push", item.n)>> \in Seq(SoundIns')
      BY <3>2
    <3>4. Grows /\ locals' = locals
      BY <1>0, <2>4, <3>3, EmitGrows DEF EmitThen
    <3>5. [item EXCEPT !.kind = "more"] \in SoundItem'
      BY <2>3, <3>4, SoundStays
    <3>6. "store_index" \in Ops \ (JumpOps \cup {"call"})
      BY DEF Ops, JumpOps, LocalOps
    <3>7. Emit("store_index", item.a) \in SoundItem'
      BY <2>2, <3>4, <3>6, ItemsNext DEF ItemFacts
    <3>8. c0_expr \o <<Emit("store_index", item.a), [item EXCEPT !.kind = "more"]>>
             \in Seq(SoundItem')
      BY <3>5, <3>7, ExprSoundNext
    <3> QED  BY <1>0, <2>4, <3>3, <3>8, EmitKeeps
  <2> QED  BY <1>1, <1>10, <2>4 DEF ArrayElement
<1> QED
  BY <1>2, <1>3, <1>6, <1>7, <1>8, <1>9, <1>10 DEF Assignments

\* A local is looked for or added, and code for it may follow.
LEMMA LocalKeeps ==
    ASSUME BodyInv, Outside, NEW name \in Idents, ~Full(name),
           locals' = LocalsWith(name), UNCHANGED code,
           arr_n' \in Seq(0..MaxArrLen), Len(arr_n') = Len(locals'),
           work' \in Seq(SoundItem')
    PROVE  BodyInv'
<1>1. SoundIns \subseteq SoundIns'
  BY LocalGrows, SoundStays
<1>2. code' \in Seq(SoundIns')
  BY <1>1 DEF BodyInv
<1>3. Idents' = Idents
  BY DEF Outside, Idents
<1> QED  BY <1>2, <1>3, LocalAdded DEF BodyInv

LEMMA DeclareKeeps ==
    ASSUME BodyInv, ModuleInv, Declare
    PROVE  BodyInv'
<1>0. Outside /\ work # <<>> /\ Tail(work) \in Seq(SoundItem)
  BY InHand DEF Declare
<1>1. ASSUME NEW why, c0_fail(why) PROVE BodyInv'
  BY <1>0, <1>1, FailKeeps
<1>2. ASSUME NEW name \in lang.names, NEW n \in 1..MaxArrLen, ~Full(name),
             locals' = LocalsWith(name),
             arr_n' = [ArraysWith(name) EXCEPT ![SlotAfter(name) + 1] = n],
             NEW literal \in {<<>>, <<Do("literal", SlotAfter(name), 0)>>},
             work' = literal \o Tail(work),
             UNCHANGED code
      PROVE  BodyInv'
  <2>1. name \in Idents
    BY DEF Idents
  <2>2. /\ ArraysWith(name) \in Seq(0..MaxArrLen)
        /\ Len(ArraysWith(name)) = Len(locals')
        /\ SlotAfter(name) \in 0..Len(locals') - 1
        /\ n \in 0..MaxArrLen
    BY <1>2, <2>1, LocalAdded
  <2>3. arr_n' \in Seq(0..MaxArrLen) /\ Len(arr_n') = Len(locals')
    BY <1>2, <2>2, ArraySet
  <2>4. Tail(work) \in Seq(SoundItem')
    <3>1. Grows
      BY <1>0, <1>2, <2>1, LocalGrows
    <3> QED  BY <1>0, <3>1, SoundStays
  <2>5. Do("literal", SlotAfter(name), 0) \in SoundItem'
    BY <2>2, ItemsNext DEF ItemFacts
  <2>6. literal \in Seq(SoundItem')
    <3>1. <<>> \in Seq(SoundItem') /\ <<Do("literal", SlotAfter(name), 0)>> \in Seq(SoundItem')
      BY <2>5
    <3> QED  BY <3>1
  <2>7. work' \in Seq(SoundItem')
    BY <1>2, <2>4, <2>6
  <2> QED  BY <1>0, <1>2, <2>1, <2>3, <2>7, LocalKeeps
<1> QED  BY <1>1, <1>2 DEF Declare

LEMMA StoreKeeps ==
    ASSUME BodyInv, ModuleInv, StoreScalar
    PROVE  BodyInv'
<1>0. /\ Outside /\ work # <<>> /\ item \in SoundItem /\ item.kind \in {"store"}
      /\ Tail(work) \in Seq(SoundItem)
  <2>1. At({"store"}) /\ Outside
    BY DEF StoreScalar
  <2> QED  BY <2>1, InHand
<1>1. ASSUME NEW why, c0_fail(why) PROVE BodyInv'
  BY <1>0, <1>1, FailKeeps
<1>2. ASSUME NEW name, name = item.name, ~Full(name),
             locals' = LocalsWith(name), arr_n' = ArraysWith(name),
             code' = Append(code, Ins("store", SlotAfter(name))),
             work' = Tail(work)
      PROVE  BodyInv'
  <2>1. name \in Idents
    BY <1>0, <1>2 DEF SoundItem
  <2>2. /\ locals' \in Seq(Idents) /\ Len(locals') \in Nat
        /\ Len(locals) <= Len(locals') /\ Len(locals') <= MaxLocals
        /\ arr_n' \in Seq(0..MaxArrLen) /\ Len(arr_n') = Len(locals')
        /\ SlotAfter(name) \in 0..Len(locals') - 1
    BY <1>2, <2>1, LocalAdded
  <2>3. PICK x : x = Ins("store", SlotAfter(name))
    OBVIOUS
  <2>4. x \in CodeIns /\ x \in SoundIns'
    <3>1. "store" \in Ops /\ "store" \notin JumpOps /\ SlotAfter(name) \in Int
      BY <2>2 DEF Ops, LocalOps, JumpOps
    <3> QED  BY <2>2, <2>3, <3>1 DEF Ins, CodeIns, SoundIns
  <2>5. /\ Len(code) \in Nat /\ Len(locals) \in Nat /\ code \in Seq(CodeIns)
        /\ DOMAIN code = 1..Len(code)
    BY Lengths
  <2>6. code' = Append(code, x)
    BY <1>2, <2>3
  <2>7. Len(code') = Len(code) + 1 /\ \A k \in 1..Len(code) : code'[k] = code[k]
    BY <2>4, <2>5, <2>6
  <2>8. Grows
    <3>1. Jumps \subseteq Jumps'
      BY <2>5, <2>7 DEF Jumps
    <3> QED  BY <1>0, <2>2, <2>5, <2>7, <3>1 DEF Grows, Outside
  <2>9. SoundIns \subseteq SoundIns' /\ SoundItem \subseteq SoundItem'
    BY <2>8, SoundStays
  <2>10. code' \in Seq(SoundIns')
    <3>1. code \in Seq(SoundIns')
      BY <2>9 DEF BodyInv
    <3> QED  BY <2>4, <2>6, <3>1
  <2>11. work' \in Seq(SoundItem')
    BY <1>0, <1>2, <2>9
  <2>12. Idents' = Idents
    BY <1>0 DEF Outside, Idents
  <2> QED  BY <2>2, <2>10, <2>11, <2>12 DEF BodyInv
<1> QED  BY <1>1, <1>2 DEF StoreScalar

\* A signature that c0_sig_eligible passes has no parameter it refuses.
LEMMA SignaturePassed ==
    ASSUME NEW sig, Len(sig.params) \in Nat, DOMAIN sig.params = 1..Len(sig.params),
           c0_sig_eligible(sig) = "none", NEW p \in DOMAIN sig.params
    PROVE  sig.params[p].type = IntType \/ sig.params[p].type[2] \in 1..MaxArrLen
<1> DEFINE fault(ty) == IF ty = IntType THEN "none"
                        ELSE IF ty[1] # "array" THEN "VM_REJ_PARAM_NOT_INT"
                        ELSE IF ty[2] \notin 1..MaxArrLen THEN "VM_REJ_ARRAY_TOO_LARGE"
                        ELSE "none"
           bad == {q \in DOMAIN sig.params : fault(sig.params[q].type) # "none"}
<1>1. bad = {} \/ fault(sig.params[FirstOf(bad)].type) = "none"
  BY DEF c0_sig_eligible
<1>2. bad \in SUBSET Nat
  OBVIOUS
<1>3. bad = {}
  <2>1. bad # {} => FirstOf(bad) \in bad
    <3> HIDE DEF bad
    <3> QED  BY <1>2, FirstIsOne
  <2> HIDE DEF fault
  <2> QED  BY <1>1, <2>1
<1>4. fault(sig.params[p].type) = "none"
  <2> HIDE DEF fault
  <2> QED  BY <1>3
<1> QED  BY <1>4

LEMMA ParamKeeps ==
    ASSUME BodyInv, ModuleInv, Param
    PROVE  BodyInv'
<1>0. /\ Outside /\ work # <<>> /\ item \in SoundItem /\ item.kind \in {"param"}
      /\ Tail(work) \in Seq(SoundItem) /\ building = "body"
  <2>1. At({"param"}) /\ Outside
    BY DEF Param
  <2> QED  BY <2>1, InHand
<1>1. ASSUME NEW why, c0_fail(why) PROVE BodyInv'
  BY <1>0, <1>1, FailKeeps
<1>2. item.n \in DOMAIN sigs[cur + 1].params
  BY <1>0 DEF SoundItem
<1>3. /\ cur + 1 \in DOMAIN sigs /\ c0_sig_eligible(sigs[cur + 1]) = "none"
      /\ Len(sigs[cur + 1].params) \in Nat
      /\ DOMAIN sigs[cur + 1].params = 1..Len(sigs[cur + 1].params)
  <2>1. cur \in Nat /\ cur < Len(fns) /\ fns[cur + 1].sig_ok
    BY <1>0, SourceIsLexed DEF ModuleInv, SourceFacts
  <2>2. cur + 1 \in DOMAIN sigs /\ cur + 1 \in DOMAIN fns
    BY <2>1, SourceIsLexed DEF ModuleInv, SourceFacts
  <2>3. c0_sig_eligible(sigs[cur + 1]) = "none"
    BY <2>1, <2>2 DEF ModuleInv
  <2> QED  BY <2>2, <2>3, SourceIsLexed DEF SourceFacts
<1> HIDE DEF item
<1>4. PICK p : p = sigs[cur + 1].params[item.n]
  OBVIOUS
<1>5. p.name \in Idents
  BY <1>2, <1>3, <1>4 DEF Idents
<1>6. p.type = IntType \/ p.type[2] \in 1..MaxArrLen
  BY <1>2, <1>3, <1>4, SignaturePassed
<1>7. ASSUME ~Full(p.name), locals' = LocalsWith(p.name),
             arr_n' = IF p.type = IntType THEN ArraysWith(p.name)
                      ELSE [ArraysWith(p.name) EXCEPT ![SlotAfter(p.name) + 1] = p.type[2]],
             work' = Tail(work), UNCHANGED code
      PROVE  BodyInv'
  <2>1. /\ ArraysWith(p.name) \in Seq(0..MaxArrLen)
        /\ Len(ArraysWith(p.name)) = Len(locals')
        /\ SlotAfter(p.name) \in 0..Len(locals') - 1
    BY <1>5, <1>7, LocalAdded
  <2>2. arr_n' \in Seq(0..MaxArrLen) /\ Len(arr_n') = Len(locals')
    <3>1. CASE p.type = IntType
      BY <1>7, <2>1, <3>1
    <3>2. CASE p.type # IntType
      <4>1. p.type[2] \in 0..MaxArrLen
        BY <1>6, <3>2
      <4> QED  BY <1>7, <2>1, <3>2, <4>1, ArraySet
    <3> QED  BY <3>1, <3>2
  <2>3. work' \in Seq(SoundItem')
    <3>1. Grows
      BY <1>0, <1>5, <1>7, LocalGrows
    <3> QED  BY <1>0, <1>7, <3>1, SoundStays
  <2> QED  BY <1>0, <1>5, <1>7, <2>2, <2>3, LocalKeeps
<1> QED  BY <1>1, <1>4, <1>7 DEF Param

-----------------------------------------------------------------------------
(***************************************************************************)
(* Statements                                                              *)
(***************************************************************************)

\* items are put before the statement loop, which goes on after them.
LEMMA StatementKeeps ==
    ASSUME BodyInv, Outside, work # <<>>, item \in SoundItem,
           NEW items \in Seq(SoundItem'), Statement(items)
    PROVE  BodyInv'
<1> HIDE DEF item
<1>1. Then(items \o <<item>>)
  BY DEF Statement
<1>2. item \in SoundItem'
  BY <1>1, ThenSame
<1>3. items \o <<item>> \in Seq(SoundItem')
  BY <1>2
<1> QED  BY <1>1, <1>3, ThenKeeps

Starts == AssignStmt \/ ReturnStmt \/ HashLoop \/ If \/ While \/ For

LEMMA StartsKeep ==
    ASSUME BodyInv, ModuleInv, Starts
    PROVE  BodyInv'
<1>0. Outside /\ work # <<>> /\ item \in SoundItem /\ Len(code) \in Nat
  BY InHand, Lengths DEF Starts, AssignStmt, ReturnStmt, HashLoop, If, While, For
<1>1. Item("assign") \in SoundItem'
  BY ItemsNext DEF ItemFacts, Plain
<1>2. CASE AssignStmt
  <2>1. <<Item("assign"), Close(";")>> \in Seq(SoundItem')
    <3>1. Close(";") \in SoundItem'
      BY ItemsNext DEF ItemFacts, Closers
    <3> QED  BY <1>1, <3>1, PairIn
  <2> QED  BY <1>0, <1>2, <2>1, StatementKeeps DEF AssignStmt
<1>3. CASE ReturnStmt
  <2>1. "ret" \in Ops \ (LocalOps \cup JumpOps \cup {"call"})
    BY BinaryOpsFree
  <2>2. Emit("ret", 0) \in SoundItem' /\ Item("semi") \in SoundItem'
    BY <2>1, ItemsNext DEF ItemFacts, Plain
  <2>3. c0_expr \o <<Item("semi"), Emit("ret", 0)>> \in Seq(SoundItem')
    BY <2>2, ExprSoundNext
  <2> QED  BY <1>0, <1>3, <2>3, StatementKeeps DEF ReturnStmt
<1>4. CASE HashLoop
  BY <1>0, <1>4, FailKeeps DEF HashLoop
<1>5. CASE If
  <2>1. c0_expr \o <<Item("if")>> \in Seq(SoundItem')
    <3>1. Item("if") \in SoundItem'
      BY ItemsNext DEF ItemFacts, Plain
    <3> QED  BY <3>1, ExprSoundNext
  <2> QED  BY <1>0, <1>5, <2>1, StatementKeeps DEF If
<1>6. CASE While
  <2>1. Then(c0_expr \o <<Do("while", 0, c0_here)>> \o <<item>>)
    BY <1>6 DEF While, Statement
  <2>2. UNCHANGED code
    BY <1>0, <2>1, ThenSame
  <2>3. Do("while", 0, c0_here) \in SoundItem'
    <3>1. c0_here \in 0..Len(code')
      BY <1>0, <2>2 DEF c0_here
    <3> QED  BY <3>1, ItemsNext DEF ItemFacts
  <2>4. c0_expr \o <<Do("while", 0, c0_here)>> \in Seq(SoundItem')
    BY <2>3, ExprSoundNext
  <2> QED  BY <1>0, <1>6, <2>4, StatementKeeps DEF While
<1>7. CASE For
  <2>1. PICK init \in {<<>>, <<Item("assign")>>} : Statement(init \o <<Item("cond")>>)
    BY <1>7 DEF For
  <2>2. <<>> \in Seq(SoundItem') /\ <<Item("assign")>> \in Seq(SoundItem')
    BY <1>1
  <2>3. init \in Seq(SoundItem') /\ <<Item("cond")>> \in Seq(SoundItem')
    <3>1. Item("cond") \in SoundItem'
      BY ItemsNext DEF ItemFacts, Plain
    <3>2. <<Item("cond")>> \in Seq(SoundItem')
      BY <3>1
    <3> QED  BY <2>2, <3>2
  <2>4. init \o <<Item("cond")>> \in Seq(SoundItem')
    BY <2>3
  <2> QED  BY <1>0, <2>1, <2>4, StatementKeeps
<1> QED  BY <1>2, <1>3, <1>4, <1>5, <1>6, <1>7 DEF Starts

\* The jump over a block is emitted; what comes after the block knows where it is.
LEMMA OverBlock ==
    ASSUME BodyInv, Outside, work # <<>>, NEW w,
           EmitThen(<<Ins("jump_if_false", 0)>>, <<Item("block"), w>>)
    PROVE  /\ c0_here \in Jumps'
           /\ Grows
           /\ w \in SoundItem' => BodyInv'
<1>0. Len(code) \in Nat
  BY Lengths
<1>1. PICK x : x = Ins("jump_if_false", 0)
  OBVIOUS
<1>2. x \in CodeIns /\ x.op \in JumpOps /\ x.op \notin LocalOps /\ x.op # "call" /\ x.a = 0
  BY <1>1 DEF Ins, CodeIns, Ops, JumpOps, LocalOps
<1>3. PICK instrs \in Seq(CodeIns) : instrs = <<x>>
  <2>1. <<x>> \in Seq(CodeIns)
    BY <1>2
  <2> QED  BY <2>1
<1>4. Len(instrs) = 1 /\ instrs[1] = x
  BY <1>3
<1>5. code' = code \o instrs /\ UNCHANGED locals
  BY <1>1, <1>3 DEF EmitThen
<1>6. Grows /\ \A k \in 1..1 : instrs[k].op \in JumpOps => Len(code) + (k - 1) \in Jumps'
  BY <1>4, <1>5, EmitGrows
<1>7. c0_here \in Jumps'
  <2>1. Len(code) + (1 - 1) \in Jumps'
    BY <1>2, <1>4, <1>6
  <2> QED  BY <1>0, <2>1 DEF c0_here
<1>8. instrs \in Seq(SoundIns')
  <2>1. Len(code') \in Nat
    BY <1>6 DEF Grows
  <2>2. x \in SoundIns'
    BY <1>2, <2>1 DEF SoundIns
  <2> QED  BY <1>3, <2>2
<1>9. ASSUME w \in SoundItem' PROVE BodyInv'
  <2>1. Item("block") \in SoundItem'
    BY ItemsNext DEF ItemFacts, Plain
  <2>2. <<Item("block"), w>> \in Seq(SoundItem')
    BY <1>9, <2>1
  <2>3. EmitThen(instrs, <<Item("block"), w>>)
    BY <1>1, <1>3
  <2> QED  BY <1>8, <2>2, <2>3, EmitKeeps
<1> QED  BY <1>6, <1>7, <1>9

Blocks == IfBlock \/ WhileBlock \/ ForBlock \/ ForStep \/ ForCond \/ BlockEnd \/ OptionalSemicolon

LEMMA BlocksKeep ==
    ASSUME BodyInv, ModuleInv, Blocks
    PROVE  BodyInv'
<1>0. Outside /\ work # <<>> /\ item \in SoundItem /\ Len(code) \in Nat
  BY InHand, Lengths DEF Blocks, IfBlock, WhileBlock, ForBlock, ForStep, ForCond, BlockEnd,
                         OptionalSemicolon
<1>1. ASSUME Then(<<>>) PROVE BodyInv'
  <2>1. <<>> \in Seq(SoundItem')
    OBVIOUS
  <2> QED  BY <1>0, <1>1, <2>1, ThenKeeps
<1>2. CASE IfBlock
  <2>1. item.kind \in {"if"}
    <3>1. At({"if"})
      BY <1>2 DEF IfBlock
    <3> QED  BY <3>1, InHand
  <2>2. item.ends \subseteq Jumps
    BY <1>0, <2>1 DEF SoundItem
  <2> HIDE DEF item
  <2>3. PICK w : /\ w = [Do("then", c0_here, 0) EXCEPT !.ends = item.ends]
                 /\ EmitThen(<<Ins("jump_if_false", 0)>>, <<Item("block"), w>>)
    BY <1>2 DEF IfBlock
  <2>4. c0_here \in Jumps' /\ Grows /\ (w \in SoundItem' => BodyInv')
    BY <1>0, <2>3, OverBlock
  <2>5. item.ends \in SUBSET Jumps'
    BY <2>2, <2>4 DEF Grows
  <2>6. w \in SoundItem'
    BY <2>3, <2>4, <2>5, ItemsNext DEF ItemFacts
  <2> QED  BY <2>4, <2>6
<1>3. ASSUME NEW kinds, At(kinds), kinds \subseteq {"while", "for", "step"}
      PROVE  item.n \in 0..Len(code)
  <2>1. item.kind \in {"while", "for", "step"}
    BY <1>3, InHand
  <2> QED  BY <1>0, <2>1 DEF SoundItem
<1>4. ASSUME NEW k \in {"loop", "step"}, item.n \in 0..Len(code),
             EmitThen(<<Ins("jump_if_false", 0)>>, <<Item("block"), Do(k, c0_here, item.n)>>)
      PROVE  BodyInv'
  <2> HIDE DEF item
  <2>1. /\ c0_here \in Jumps' /\ Grows
        /\ Do(k, c0_here, item.n) \in SoundItem' => BodyInv'
    BY <1>0, <1>4, OverBlock
  <2>2. item.n \in 0..Len(code')
    BY <1>4, <2>1 DEF Grows
  <2>3. Do(k, c0_here, item.n) \in SoundItem'
    BY <2>1, <2>2, ItemsNext DEF ItemFacts
  <2> QED  BY <2>1, <2>3
<1>5. CASE WhileBlock
  <2>1. item.n \in 0..Len(code)
    BY <1>3, <1>5 DEF WhileBlock
  <2> QED  BY <1>4, <1>5, <2>1 DEF WhileBlock
<1>6. CASE ForBlock
  <2>1. item.n \in 0..Len(code)
    BY <1>3, <1>6 DEF ForBlock
  <2> QED  BY <1>4, <1>6, <2>1 DEF ForBlock
<1>7. CASE ForStep
  <2>1. item.n \in 0..Len(code)
    BY <1>3, <1>7 DEF ForStep
  <2>2. item.a \in Jumps
    <3>1. item.kind \in {"step"}
      <4>1. At({"step"})
        BY <1>7 DEF ForStep
      <4> QED  BY <4>1, InHand
    <3> QED  BY <1>0, <3>1 DEF SoundItem
  <2> HIDE DEF item
  <2>3. PICK step \in {<<>>, <<Item("assign")>>} :
          Then(step \o <<Close(")"), Do("loop", item.a, item.n)>>)
    BY <1>7 DEF ForStep
  <2>4. Jumps' = Jumps /\ code' = code
    BY <1>0, <2>3, ThenSame
  <2>5. /\ Close(")") \in SoundItem' /\ Item("assign") \in SoundItem'
        /\ Do("loop", item.a, item.n) \in SoundItem'
    BY <2>1, <2>2, <2>4, ItemsNext DEF ItemFacts, Plain, Closers
  <2>6. /\ <<>> \in Seq(SoundItem') /\ <<Item("assign")>> \in Seq(SoundItem')
        /\ <<Close(")"), Do("loop", item.a, item.n)>> \in Seq(SoundItem')
    BY <2>5
  <2>7. step \in Seq(SoundItem')
    BY <2>6
  <2>8. step \o <<Close(")"), Do("loop", item.a, item.n)>> \in Seq(SoundItem')
    BY <2>6, <2>7
  <2> QED  BY <1>0, <2>3, <2>8, ThenKeeps
<1>8. CASE ForCond
  <2>1. CASE Then(c0_expr \o <<Do("for", 0, c0_here)>>)
    <3>1. code' = code
      BY <1>0, <2>1, ThenSame
    <3>2. c0_here \in 0..Len(code')
      BY <1>0, <3>1 DEF c0_here
    <3>3. Do("for", 0, c0_here) \in SoundItem'
      BY <3>2, ItemsNext DEF ItemFacts
    <3>4. c0_expr \o <<Do("for", 0, c0_here)>> \in Seq(SoundItem')
      BY <3>3, ExprSoundNext
    <3> QED  BY <1>0, <2>1, <3>4, ThenKeeps
  <2>2. CASE EmitThen(<<Ins("push", 1)>>, <<Do("for", 0, c0_here)>>)
    <3>1. "push" \in Ops \ (LocalOps \cup JumpOps \cup {"call"})
      BY BinaryOpsFree
    <3>2. Ins("push", 1) \in CodeIns /\ Ins("push", 1) \in SoundIns'
      BY <3>1, FreeIns
    <3>3. <<Ins("push", 1)>> \in Seq(CodeIns) /\ <<Ins("push", 1)>> \in Seq(SoundIns')
      BY <3>2
    <3>4. Grows
      BY <1>0, <2>2, <3>3, EmitGrows DEF EmitThen
    <3>5. c0_here \in 0..Len(code')
      BY <3>4 DEF c0_here, Grows
    <3>6. Do("for", 0, c0_here) \in SoundItem'
      BY <3>5, ItemsNext DEF ItemFacts
    <3>7. <<Do("for", 0, c0_here)>> \in Seq(SoundItem')
      BY <3>6
    <3> QED  BY <1>0, <2>2, <3>3, <3>7, EmitKeeps
  <2> QED  BY <1>8, <2>1, <2>2 DEF ForCond
<1>9. CASE BlockEnd \/ OptionalSemicolon
  BY <1>1, <1>9 DEF BlockEnd, OptionalSemicolon
<1> QED  BY <1>2, <1>5, <1>6, <1>7, <1>8, <1>9 DEF Blocks

\* Every step inside a function keeps what is compiled sound.
LEMMA CompileKeeps ==
    ASSUME BodyInv, ModuleInv, Compile
    PROVE  BodyInv' /\ Outside
<1>1. BodyInv'
  BY LeafKeeps, CallsKeep, OperatorsKeep, PatchesKeep, AssignmentsKeep, DeclareKeeps, StoreKeeps,
     ParamKeeps, StartsKeep, BlocksKeep
     DEF Compile, Leaf, Assignments, Starts, Blocks
<1>2. Outside
  BY DEF Compile, Unexpected, Sign, Number, Paren, Closed, LocalRef, IndexRef, Member, CallBegin,
         Argument, Operator, NoOperator, c0_emit, c0_patch, AssignIndex, Declare, AssignLiteral,
         Literal, ArrayElement, MoreElements, AssignScalar, StoreScalar, Unsupported, AssignStmt,
         ReturnStmt, OptionalSemicolon, HashLoop, If, IfBlock, ThenEnd, While, WhileBlock, For,
         ForCond, ForBlock, ForStep, LoopEnd, BlockEnd, Param
<1> QED  BY <1>1, <1>2

-----------------------------------------------------------------------------
(***************************************************************************)
(* c0_build                                                                *)
(***************************************************************************)
LEMMA RestingSound == Resting => BodyInv
<1>1. 0 <= MaxLocals
  BY VmAssumption
<1> QED  BY <1>1 DEF Resting, BodyInv

LEMMA RestingSoundNext == (Resting => BodyInv)'
BY RestingSound, PTL

LEMMA BuildStarts ==
    ASSUME BuildInit
    PROVE  BuildInv
<1>1. PICK s \in Sources : sigs = s.sigs /\ full = s.full /\ lang = s.lang
  BY DEF BuildInit
<1>2. Len(sigs) \in Nat /\ DOMAIN sigs = 1..Len(sigs)
  BY <1>1, CompilerAssumption
<1>3. /\ fns = [i \in 1..Len(sigs) |-> NewFn(sigs[i])] /\ DOMAIN fns = 1..Len(sigs)
      /\ \A i \in DOMAIN fns : fns[i] = NewFn(sigs[i])
  BY <1>2 DEF BuildInit
<1>4. Len(fns) = Len(sigs)
  BY <1>2, <1>3
<1>5. \A i \in DOMAIN fns : /\ DOMAIN fns[i] = FnFields
                            /\ fns[i].ok = FALSE /\ fns[i].code = <<>>
                            /\ fns[i].nlocals = 0
                            /\ fns[i].sig_ok = (c0_sig_eligible(sigs[i]) = "none")
  BY <1>3 DEF NewFn, FnFields
<1>6. ModuleInv
  <2>1. cur \in 0..Len(fns) /\ building = "next" /\ Resting
    BY <1>2, <1>4 DEF BuildInit
  <2>2. DOMAIN fns = DOMAIN sigs
    BY <1>2, <1>3
  <2>3. \A i \in DOMAIN fns : fns[i].ok \in BOOLEAN /\ fns[i].nlocals \in Nat
    <3> SUFFICES ASSUME NEW i \in DOMAIN fns
                 PROVE  fns[i].ok \in BOOLEAN /\ fns[i].nlocals \in Nat
      OBVIOUS
    <3>1. fns[i].ok = FALSE /\ fns[i].nlocals = 0
      BY <1>5
    <3>2. fns[i].ok \in BOOLEAN
      BY <3>1
    <3>3. fns[i].nlocals \in Nat
      BY <3>1
    <3> QED  BY <3>2, <3>3
  <2>4. \A i \in DOMAIN fns : /\ DOMAIN fns[i] = FnFields
                              /\ fns[i].sig_ok = (c0_sig_eligible(sigs[i]) = "none")
    BY <1>5
  <2>5. \E t \in Sources : sigs = t.sigs /\ full = t.full /\ lang = t.lang
    BY <1>1
  <2> QED  BY <1>4, <2>1, <2>2, <2>3, <2>4, <2>5 DEF ModuleInv
<1>7. BodyInv
  BY RestingSound DEF BuildInit
<1>8. CompiledIsDeclared
  BY <1>5 DEF CompiledIsDeclared
<1>9. RunnableInv
  <2>1. Compiled = {}
    BY <1>5 DEF Compiled
  <2>2. \A S \in SUBSET Compiled : S \subseteq Accepted
    BY <2>1
  <2>3. building = "next"
    BY DEF BuildInit
  <2> QED  BY <1>5, <2>2, <2>3 DEF RunnableInv
<1> QED  BY <1>6, <1>7, <1>8, <1>9 DEF BuildInv

\* Steps that leave the functions alone.
LEMMA FunctionsSame ==
    ASSUME CompiledIsDeclared, RunnableInv, UNCHANGED <<fns, cur>>, building' # "built"
    PROVE  CompiledIsDeclared' /\ RunnableInv'
<1>1. CompiledIsDeclared'
  BY DEF CompiledIsDeclared, Declared
<1>2. Compiled' = Compiled /\ Accepted' = Accepted /\ \A S : ClosedSet(S)' = ClosedSet(S)
  BY DEF Compiled, Accepted, ClosedSet, Callees
<1>3. RunnableInv'
  BY <1>2 DEF RunnableInv
<1> QED  BY <1>1, <1>3

LEMMA CompileStep ==
    ASSUME BuildInv, Compile
    PROVE  BuildInv'
<1>1. BodyInv' /\ Outside
  BY CompileKeeps DEF BuildInv
<1>2. building = "body"
  BY InHand DEF BuildInv, Compile, Unexpected, Sign, Number, Paren, Closed, LocalRef, IndexRef,
         Member, CallBegin,
         Argument, Operator, NoOperator, c0_emit, c0_patch, AssignIndex, Declare, AssignLiteral,
         Literal, ArrayElement, MoreElements, AssignScalar, StoreScalar, Unsupported, AssignStmt,
         ReturnStmt, OptionalSemicolon, HashLoop, If, IfBlock, ThenEnd, While, WhileBlock, For,
         ForCond, ForBlock, ForStep, LoopEnd, BlockEnd, Param, At
<1>3. CompiledIsDeclared' /\ RunnableInv'
  BY <1>1, <1>2, FunctionsSame DEF BuildInv, Outside
<1>4. ModuleInv'
  BY <1>1, <1>2 DEF BuildInv, ModuleInv, Outside
<1> QED  BY <1>1, <1>3, <1>4 DEF BuildInv


\* The items of a new function are its parameters and its body.
LEMMA NextFnStep ==
    ASSUME BuildInv, NextFn
    PROVE  BuildInv'
<1> USE DEF BuildInv
<1>0. /\ SourceFacts /\ cur \in 0..Len(fns) /\ cur < Len(fns) /\ building = "next"
      /\ Resting
      /\ UNCHANGED <<sigs, lang, full, fns, text, code, locals, arr_n, reject>>
  BY SourceIsLexed DEF ModuleInv, NextFn
<1>1. cur \in Nat /\ cur + 1 \in DOMAIN fns /\ cur + 1 \in DOMAIN sigs /\ Len(fns) \in Nat
  BY <1>0 DEF SourceFacts, ModuleInv
<1>2. CASE ~fns[cur + 1].sig_ok /\ cur' = cur + 1 /\ UNCHANGED <<building, work>>
  <2>1. ModuleInv' /\ Resting'
    BY <1>0, <1>1, <1>2 DEF ModuleInv, Resting
  <2>2. BodyInv'
    BY <2>1, RestingSoundNext
  <2>3. CompiledIsDeclared'
    BY <1>0 DEF CompiledIsDeclared, Declared
  <2>4. Compiled' = Compiled /\ Accepted' = Accepted /\ \A S : ClosedSet(S)' = ClosedSet(S)
    BY <1>0 DEF Compiled, Accepted, ClosedSet, Callees
  <2>5. \A i \in DOMAIN fns : i \in Nat /\ (i > cur + 1 => i > cur)
    BY <1>0, <1>1 DEF SourceFacts
  <2>6. RunnableInv'
    BY <1>0, <1>2, <2>4, <2>5 DEF RunnableInv
  <2> QED  BY <2>1, <2>2, <2>3, <2>6
<1>3. CASE /\ fns[cur + 1].sig_ok /\ building' = "body"
           /\ work' = [p \in DOMAIN sigs[cur + 1].params |-> Do("param", 0, p)]
                        \o <<Item("body")>>
           /\ UNCHANGED cur
  <2>1. ModuleInv'
    BY <1>0, <1>3 DEF ModuleInv
  <2>2. CompiledIsDeclared' /\ RunnableInv'
    BY <1>0, <1>3, FunctionsSame
  <2>3. PICK n \in Nat : DOMAIN sigs[cur + 1].params = 1..n
    BY <1>0, <1>1 DEF SourceFacts
  <2>4. ASSUME NEW p \in 1..n PROVE Do("param", 0, p) \in SoundItem'
    <3>1. p \in DOMAIN sigs'[cur' + 1].params /\ p \in Nat
      BY <1>0, <1>3, <2>3
    <3> QED  BY <3>1 DEF Do, Item, SoundItem, WorkItem, Kinds
  <2>5. PICK items : items = [p \in 1..n |-> Do("param", 0, p)]
    OBVIOUS
  <2>6. items \in Seq(SoundItem')
    <3>1. PICK T : T = SoundItem'
      OBVIOUS
    <3>2. items \in [1..n -> T]
      BY <2>4, <2>5, <3>1
    <3>3. items \in Seq(T)
      BY <3>2, SeqOfFn
    <3> QED  BY <3>1, <3>3
  <2>7. work' \in Seq(SoundItem')
    <3>1. Item("body") \in SoundItem'
      BY ItemsNext DEF ItemFacts, Plain
    <3>2. work' = items \o <<Item("body")>>
      BY <1>3, <2>3, <2>5
    <3> QED  BY <2>6, <3>1, <3>2
  <2>8. BodyInv'
    <3>1. Idents' = Idents /\ SoundIns' = SoundIns
      BY <1>0, <1>3 DEF Idents, SoundIns
    <3> QED  BY <1>0, <2>7, <3>1 DEF BodyInv
  <2> QED  BY <2>1, <2>2, <2>8
<1> QED  BY <1>2, <1>3 DEF NextFn

\* The code of a function that ends is sound, and two instructions longer than
\* any jump in it knows.
LEMMA FnCodeDeclared ==
    ASSUME BodyInv, ModuleInv, NEW f, f.code = FnCode, f.nlocals = Len(locals),
           Len(fns') = Len(fns)
    PROVE  Declared(f)' /\ f.code # <<>>
<1>1. /\ Len(code) \in Nat /\ DOMAIN code = 1..Len(code) /\ code \in Seq(CodeIns)
      /\ \A k \in 1..Len(code) : code[k] \in SoundIns
  BY Lengths DEF BodyInv
<1>2. PICK x, y : x = Ins("push", 0) /\ y = Ins("ret", 0)
  OBVIOUS
<1>3. /\ x \in CodeIns /\ y \in CodeIns
      /\ x.op \notin LocalOps \cup JumpOps \cup {"call"}
      /\ y.op \notin LocalOps \cup JumpOps \cup {"call"}
  BY <1>2 DEF Ins, CodeIns, Ops, LocalOps, JumpOps
<1>4. PICK c : c = code \o <<x, y>>
  OBVIOUS
<1>5. /\ c \in Seq(CodeIns) /\ Len(c) = Len(code) + 2
      /\ \A k \in 1..Len(code) + 2 :
            c[k] = IF k <= Len(code) THEN code[k] ELSE <<x, y>>[k - Len(code)]
  <2>1. <<x, y>> \in Seq(CodeIns) /\ Len(<<x, y>>) = 2
    BY <1>3
  <2> QED  BY <1>1, <1>4, <2>1, ConcatProperties
<1>6. f.code = c /\ f.nlocals <= MaxLocals
  BY <1>2, <1>4 DEF FnCode, BodyInv
<1>7. ASSUME NEW k \in DOMAIN c
      PROVE  /\ c[k].op \in LocalOps => c[k].a \in 0..Len(locals) - 1
             /\ c[k].op \in JumpOps => c[k].a \in 0..Len(c) - 1
             /\ c[k].op = "call" => c[k].a \in 0..Len(fns) - 1
  <2>1. k \in 1..Len(code) + 2
    BY <1>5
  <2>2. CASE k <= Len(code)
    <3>1. c[k] = code[k] /\ code[k] \in SoundIns
      BY <1>1, <1>5, <2>1, <2>2
    <3>2. 0..Len(code) \subseteq 0..Len(c) - 1
      BY <1>1, <1>5
    <3> QED  BY <3>1, <3>2 DEF SoundIns
  <2>3. CASE ~(k <= Len(code))
    <3>1. k - Len(code) \in {1, 2}
      BY <1>1, <2>1, <2>3
    <3>2. c[k] = x \/ c[k] = y
      BY <1>5, <2>1, <2>3, <3>1
    <3> QED  BY <1>3, <3>2
  <2> QED  BY <2>2, <2>3
<1>8. c # <<>>
  BY <1>1, <1>5
<1> QED  BY <1>6, <1>7, <1>8 DEF Declared

LEMMA FnEndStep ==
    ASSUME BuildInv, FnEnd
    PROVE  BuildInv'
<1> USE DEF BuildInv
<1>0. /\ SourceFacts /\ cur \in 0..Len(fns) /\ building = "body" /\ cur < Len(fns)
      /\ building' = "next" /\ cur' = cur + 1 /\ Resting'
      /\ UNCHANGED <<sigs, lang, full>>
  BY SourceIsLexed DEF ModuleInv, FnEnd, Resting
<1>1. cur \in Nat /\ cur + 1 \in DOMAIN fns /\ Len(fns) \in Nat /\ DOMAIN fns = 1..Len(fns)
  BY <1>0 DEF SourceFacts
<1>2. PICK f : /\ fns' = [fns EXCEPT ![cur + 1] = f]
               /\ f = IF reject # "none"
                      THEN [fns[cur + 1] EXCEPT !.reject = reject, !.text = text]
                      ELSE [fns[cur + 1] EXCEPT !.code = FnCode, !.nlocals = Len(locals),
                                !.arr_n = arr_n, !.ok = TRUE, !.names = locals, !.text = text]
  BY DEF FnEnd
<1>3. /\ DOMAIN fns' = DOMAIN fns /\ fns'[cur + 1] = f
      /\ \A i \in DOMAIN fns : i # cur + 1 => fns'[i] = fns[i]
  BY <1>1, <1>2
<1>4. Len(fns') = Len(fns)
  BY <1>1, <1>3
<1>5. DOMAIN fns[cur + 1] = FnFields /\ ~fns[cur + 1].ok /\ fns[cur + 1].code = <<>>
  BY <1>1 DEF ModuleInv, RunnableInv
<1>6. /\ DOMAIN f = FnFields /\ f.sig_ok = fns[cur + 1].sig_ok /\ f.ok \in BOOLEAN
      /\ f.ok => f.code = FnCode /\ f.nlocals = Len(locals)
      /\ f.nlocals \in Nat
      /\ ~f.ok => f.code = <<>>
  <2>1. CASE reject # "none"
    BY <1>1, <1>2, <1>5, <2>1 DEF FnFields, ModuleInv
  <2>2. CASE reject = "none"
    BY <1>1, <1>2, <1>5, <2>2, Lengths DEF FnFields, ModuleInv
  <2> QED  BY <2>1, <2>2
<1>7. f.ok => Declared(f)' /\ f.code # <<>>
  BY <1>4, <1>6, FnCodeDeclared
<1>8. ModuleInv'
  <2>1. \A i \in DOMAIN fns' :
          /\ DOMAIN fns'[i] = FnFields
          /\ fns'[i].ok \in BOOLEAN /\ fns'[i].nlocals \in Nat
          /\ fns'[i].sig_ok = (c0_sig_eligible(sigs'[i]) = "none")
    BY <1>0, <1>1, <1>3, <1>6 DEF ModuleInv
  <2>2. cur' \in 0..Len(fns')
    BY <1>0, <1>1, <1>4
  <2>3. DOMAIN fns' = DOMAIN sigs' /\ Len(fns') = Len(sigs')
    BY <1>0, <1>3, <1>4 DEF ModuleInv
  <2>4. \E s \in Sources : sigs' = s.sigs /\ full' = s.full /\ lang' = s.lang
    BY <1>0 DEF ModuleInv
  <2> QED  BY <1>0, <2>1, <2>2, <2>3, <2>4 DEF ModuleInv
<1>9. BodyInv'
  BY <1>0, RestingSoundNext
<1>10. CompiledIsDeclared'
  <2>1. ASSUME NEW i \in DOMAIN fns, i # cur + 1, fns[i].ok PROVE Declared(fns[i])'
    BY <1>3, <1>4, <2>1 DEF CompiledIsDeclared, Declared
  <2> QED  BY <1>3, <1>7, <2>1 DEF CompiledIsDeclared
<1>11. RunnableInv'
  <2>1. \A i \in DOMAIN fns' : i > cur' => ~fns'[i].ok /\ fns'[i].code = <<>>
    BY <1>0, <1>1, <1>3 DEF RunnableInv
  <2>2. \A i \in DOMAIN fns' : fns'[i].ok => fns'[i].code # <<>>
    BY <1>3, <1>7 DEF RunnableInv
  <2>3. \A i \in DOMAIN fns' : fns'[i].code # <<>> => fns'[i].ok
    BY <1>0, <1>3, <1>6 DEF RunnableInv
  <2>4. Compiled' \subseteq Accepted'
    BY <2>3 DEF Compiled, Accepted
  <2> QED  BY <1>0, <2>1, <2>2, <2>3, <2>4 DEF RunnableInv
<1> QED  BY <1>8, <1>9, <1>10, <1>11

\* No set that is closed under calls holds the function that is given up: it
\* calls one that is not accepted, and the set has accepted functions only.
LEMMA ResolveStep ==
    ASSUME BuildInv, c0_resolve_deps
    PROVE  BuildInv'
<1> USE DEF BuildInv
<1>0. /\ SourceFacts /\ cur = Len(fns) /\ building = "next"
      /\ UNCHANGED <<sigs, lang, full, cur, text, code, locals, arr_n, work, reject, building>>
  BY SourceIsLexed DEF c0_resolve_deps, compVars
<1>1. PICK b \in Broken :
        fns' = [fns EXCEPT ![b].ok = FALSE, ![b].reject = "VM_REJ_DEP_REJECTED"]
  BY DEF c0_resolve_deps
<1>2. b \in DOMAIN fns /\ fns[b].ok
  BY DEF Broken
<1>3. DOMAIN fns[b] = FnFields
  BY <1>2 DEF ModuleInv
<1>4. /\ DOMAIN fns' = DOMAIN fns
      /\ \A i \in DOMAIN fns : i # b => fns'[i] = fns[i]
      /\ DOMAIN fns'[b] = FnFields /\ fns'[b].ok = FALSE
      /\ fns'[b].code = fns[b].code /\ fns'[b].sig_ok = fns[b].sig_ok
      /\ fns'[b].nlocals = fns[b].nlocals
  BY <1>1, <1>2, <1>3 DEF FnFields
<1>5. Len(fns') = Len(fns)
  BY <1>0, <1>4 DEF SourceFacts
<1>6. ModuleInv'
  <2>1. \A i \in DOMAIN fns' :
          /\ DOMAIN fns'[i] = FnFields
          /\ fns'[i].ok \in BOOLEAN /\ fns'[i].nlocals \in Nat
          /\ fns'[i].sig_ok = (c0_sig_eligible(sigs'[i]) = "none")
    <3>1. ASSUME NEW i \in DOMAIN fns
          PROVE  /\ DOMAIN fns'[i] = FnFields
                 /\ fns'[i].ok \in BOOLEAN /\ fns'[i].nlocals \in Nat
                 /\ fns'[i].sig_ok = fns[i].sig_ok
      <4>1. DOMAIN fns[i] = FnFields /\ fns[i].ok \in BOOLEAN /\ fns[i].nlocals \in Nat
        BY DEF ModuleInv
      <4>2. CASE i = b
        BY <1>4, <4>1, <4>2
      <4>3. CASE i # b
        BY <1>4, <4>1, <4>3
      <4> QED  BY <4>2, <4>3
    <3>2. \A i \in DOMAIN fns : fns[i].sig_ok = (c0_sig_eligible(sigs[i]) = "none")
      BY DEF ModuleInv
    <3> QED  BY <1>0, <1>4, <3>1, <3>2
  <2>2. DOMAIN fns' = DOMAIN sigs' /\ Len(fns') = Len(sigs') /\ cur' \in 0..Len(fns')
    BY <1>0, <1>4, <1>5 DEF ModuleInv
  <2>3. \E s \in Sources : sigs' = s.sigs /\ full' = s.full /\ lang' = s.lang
    BY <1>0 DEF ModuleInv
  <2>4. Resting'
    BY <1>0 DEF ModuleInv, Resting
  <2> QED  BY <1>0, <2>1, <2>2, <2>3, <2>4 DEF ModuleInv
<1>7. BodyInv'
  <2>1. Resting'
    BY <1>0 DEF ModuleInv, Resting
  <2> QED  BY <2>1, RestingSoundNext
<1>8. CompiledIsDeclared'
  <2>1. ASSUME NEW i \in DOMAIN fns, i # b, fns[i].ok PROVE Declared(fns[i])'
    BY <1>4, <1>5, <2>1 DEF CompiledIsDeclared, Declared
  <2> QED  BY <1>4, <2>1 DEF CompiledIsDeclared
<1>9. /\ Compiled' = Compiled /\ Accepted' = Accepted \ {b}
      /\ \A i \in DOMAIN fns : Callees(fns'[i]) = Callees(fns[i])
  BY <1>2, <1>4 DEF Compiled, Accepted, Callees
<1>10. ASSUME NEW S \in SUBSET Compiled, ClosedSet(S)'
       PROVE  S \subseteq Accepted'
  <2>1. S \subseteq DOMAIN fns
    BY DEF Compiled
  <2>2. ClosedSet(S)
    BY <1>4, <1>9, <1>10, <2>1 DEF ClosedSet, Callees
  <2>3. S \subseteq Accepted
    BY <2>2 DEF RunnableInv
  <2>4. PICK j \in Callees(fns[b]) : j \in DOMAIN fns => ~fns[j].ok
    BY DEF Broken
  <2>5. b \notin S
    <3>1. b \in S => j \in S
      BY <2>2 DEF ClosedSet
    <3>2. j \in S => j \in DOMAIN fns /\ fns[j].ok
      BY <2>3 DEF Accepted
    <3> QED  BY <2>4, <3>1, <3>2
  <2> QED  BY <1>9, <2>3, <2>5
<1>11. RunnableInv'
  <2>1. \A i \in DOMAIN fns' : i > cur' => ~fns'[i].ok /\ fns'[i].code = <<>>
    BY <1>0, <1>4 DEF SourceFacts
  <2>2. \A i \in DOMAIN fns' : fns'[i].ok => fns'[i].code # <<>>
    BY <1>4 DEF RunnableInv
  <2>3. ~(cur' < Len(fns'))
    BY <1>0, <1>5 DEF SourceFacts
  <2>4. \A S \in SUBSET Compiled' : ClosedSet(S)' => S \subseteq Accepted'
    BY <1>9, <1>10
  <2> QED  BY <1>0, <2>1, <2>2, <2>3, <2>4 DEF RunnableInv
<1> QED  BY <1>6, <1>7, <1>8, <1>11

LEMMA BuiltStep ==
    ASSUME BuildInv, Built
    PROVE  BuildInv'
<1> USE DEF BuildInv
<1>1. /\ Broken = {} /\ building = "next" /\ building' = "built"
      /\ UNCHANGED <<sigs, lang, full, fns, cur, text, code, locals, arr_n, work, reject>>
  BY DEF Built, compVars
<1>2. ModuleInv' /\ Resting'
  BY <1>1 DEF ModuleInv, Resting
<1>3. BodyInv'
  BY <1>2, RestingSoundNext
<1>4. CompiledIsDeclared'
  BY <1>1 DEF CompiledIsDeclared, Declared
<1>5. /\ Compiled' = Compiled /\ Accepted' = Accepted /\ Broken' = {}
      /\ \A S : ClosedSet(S)' = ClosedSet(S)
  BY <1>1 DEF Compiled, Accepted, ClosedSet, Callees, Broken
<1>6. RunnableInv'
  BY <1>1, <1>5 DEF RunnableInv
<1> QED  BY <1>2, <1>3, <1>4, <1>6

LEMMA BuildKept ==
    ASSUME BuildInv, [Build]_buildVars
    PROVE  BuildInv'
<1>1. CASE Build
  BY <1>1, CompileStep, NextFnStep, FnEndStep, ResolveStep, BuiltStep DEF Build
<1>2. CASE UNCHANGED buildVars
  <2>1. UNCHANGED <<sigs, lang, full, fns, cur, building, text, code, locals, arr_n, work, reject>>
    BY <1>2 DEF buildVars, compVars
  <2>2. ModuleInv'
    BY <2>1 DEF BuildInv, ModuleInv, Resting
  <2>3. Idents' = Idents /\ SoundIns' = SoundIns /\ Jumps' = Jumps
    BY <2>1 DEF Idents, SoundIns, Jumps
  <2>4. SoundItem' = SoundItem
    BY <2>1, <2>3 DEF SoundItem, WorkItem
  <2>5. BodyInv'
    BY <2>1, <2>3, <2>4 DEF BuildInv, BodyInv
  <2>6. CompiledIsDeclared'
    BY <2>1 DEF BuildInv, CompiledIsDeclared, Declared
  <2>7. /\ Compiled' = Compiled /\ Accepted' = Accepted /\ Broken' = Broken
        /\ \A S : ClosedSet(S)' = ClosedSet(S)
    BY <2>1 DEF Compiled, Accepted, ClosedSet, Callees, Broken
  <2>8. RunnableInv'
    BY <2>1, <2>7 DEF BuildInv, RunnableInv
  <2> QED  BY <2>2, <2>5, <2>6, <2>8 DEF BuildInv
<1> QED  BY <1>1, <1>2

LEMMA BuildInvariant == BuildSpec => []BuildInv
<1>1. BuildInv /\ [Build]_buildVars => BuildInv'
  BY BuildKept
<1> QED  BY <1>1, BuildStarts, PTL DEF BuildSpec

\* Whatever the source, every local, jump target and callee that an instruction
\* of an accepted function names is there: vm_exec may run it unchecked.
THEOREM CompiledDeclared == BuildSpec => []CompiledIsDeclared
<1>1. BuildInv => CompiledIsDeclared
  BY DEF BuildInv
<1> QED  BY <1>1, BuildInvariant, PTL

\* When c0_build ends, the accepted functions are exactly the ones that run
\* without reaching a rejected one: the largest set closed under calls.
THEOREM AcceptedExactly == BuildSpec => []ExactlyRunnable
<1>1. BuildInv => ExactlyRunnable
  <2> SUFFICES ASSUME BuildInv, building = "built" PROVE ExactlyRunnable
    BY DEF ExactlyRunnable
  <2>1. ClosedSet(Accepted)
    BY DEF BuildInv, RunnableInv, Broken, ClosedSet, Accepted
  <2> QED  BY <2>1 DEF BuildInv, RunnableInv, ExactlyRunnable
<1> QED  BY <1>1, BuildInvariant, PTL

\* An accepted function, in the form the interpreter is given, only names locals
\* of its frame: what the proofs about LinVM ask of a module.
THEOREM CompiledLocalsInFrame ==
    BuildSpec => [](\A i \in DOMAIN fns : fns[i].ok => LocalsInFrame(FnOf(fns[i])))
<1>1. BuildInv => \A i \in DOMAIN fns : fns[i].ok => LocalsInFrame(FnOf(fns[i]))
  <2> SUFFICES ASSUME BuildInv, NEW i \in DOMAIN fns, fns[i].ok
               PROVE  LocalsInFrame(FnOf(fns[i]))
    OBVIOUS
  <2>1. Declared(fns[i])
    BY DEF BuildInv, CompiledIsDeclared
  <2>2. fns[i].nlocals \in Nat /\ FnOf(fns[i]).code = fns[i].code
    BY DEF BuildInv, ModuleInv, FnOf
  <2>3. 0..fns[i].nlocals - 1 \subseteq 0..MaxLocals - 1
    BY <2>1, <2>2, VmAssumption DEF Declared
  <2> QED  BY <2>1, <2>2, <2>3 DEF Declared, LocalsInFrame
<1> QED  BY <1>1, BuildInvariant, PTL
-----------------------------------------------------------------------------
(***************************************************************************)
(* Heights of the operand stack                                            *)
(***************************************************************************)

\* Operands an instruction takes, for functions with np[f] parameters, and what it
\* leaves in their place.
Takes(np, x) == IF x.op = "call" THEN np[x.a] ELSE Needs(x.op)

Gives(op) ==
    IF op \in BinaryOps \cup UnaryOps
                \cup {"push", "load", "arr_len", "load_index", "call",
                      "jump_if_false_keep", "jump_if_true_keep"}
    THEN 1 ELSE 0

After(np, x, h) == h - Takes(np, x) + Gives(x.op)

\* H[k] operands are there in front of instruction k of the code c, and they are
\* enough; a return has its value and no other.
Heights(np, c, H) ==
    /\ H \in [Nat -> Nat]
    /\ H[0] = 0
    /\ \A k \in 1..Len(c) :
          /\ Takes(np, c[k]) <= H[k - 1]
          /\ H[k] = After(np, c[k], H[k - 1])
          /\ c[k].op = "ret" => H[k - 1] = 1
          /\ c[k].op # "abi_call"

\* A jump goes where as many operands are expected as there are behind it, unless
\* it is one of those still to be patched.
Aimed(c, H, open) ==
    \A k \in 1..Len(c) :
        (c[k].op \in JumpOps /\ k - 1 \notin open) => H[c[k].a] = H[k]

\* By how much work raises the stack.
Rise(w) ==
    CASE w.kind = "unary" -> 1
      [] w.kind = "emit" -> Gives(w.op) - Needs(w.op)
      [] w.kind = "args" -> 1 - w.n
      [] w.kind \in {"store", "if", "while", "for"} -> -1
      [] OTHER -> 0

\* Work that can be done with h operands on the stack.
ItemFits(w, h, H) ==
    /\ w.kind \in {"rest", "store"} => h >= 1
    /\ w.kind = "emit" => /\ Needs(w.op) <= h
                          /\ w.op = "ret" => h = 1
                          /\ w.op # "abi_call"
    /\ w.kind = "args" => w.n >= 1 /\ w.n <= h
    /\ w.kind \in {"if", "while", "for"} => h = 1
    /\ w.kind \in {"body", "block", "then", "cond", "step", "loop"} => h = 0
    /\ w.kind = "patch" => \A j \in w.ends : H[j + 1] = h
    /\ w.kind \in {"if", "then"} => \A j \in w.ends : H[j + 1] = 0
    /\ w.kind \in {"then", "step", "loop"} => H[w.a + 1] = 0
    /\ w.kind \in {"while", "for", "step", "loop"} => H[w.n] = 0

\* The list s of work takes the stack from h operands to g.
Path(s, h, g, H) ==
    \E t \in [Nat -> Nat] :
        /\ t[1] = h
        /\ t[Len(s) + 1] = g
        /\ \A i \in 1..Len(s) : ItemFits(s[i], t[i], H) /\ t[i + 1] = t[i] + Rise(s[i])

\* The jumps that work is to patch.
Pend(w) ==
    (IF w.kind \in {"patch", "if", "then"} THEN w.ends ELSE {})
        \cup (IF w.kind \in {"then", "step", "loop"} THEN {w.a} ELSE {})

Open(s) == UNION {Pend(s[i]) : i \in 1..Len(s)}

IsSeq(s) == \E T : s \in Seq(T)

LEMMA Joined ==
    ASSUME NEW s, NEW u, IsSeq(s), IsSeq(u)
    PROVE  /\ IsSeq(s \o u) /\ Len(s) \in Nat /\ Len(u) \in Nat
           /\ Len(s \o u) = Len(s) + Len(u)
           /\ \A i \in 1..Len(s) : (s \o u)[i] = s[i]
           /\ \A i \in 1..Len(u) : (s \o u)[Len(s) + i] = u[i]
<1>1. PICK S : s \in Seq(S)
  BY DEF IsSeq
<1>2. PICK U : u \in Seq(U)
  BY DEF IsSeq
<1>3. s \in Seq(S \cup U) /\ u \in Seq(S \cup U)
  BY <1>1, <1>2
<1>4. s \o u \in Seq(S \cup U)
  BY <1>3
<1>5. /\ Len(s) \in Nat /\ Len(u) \in Nat /\ Len(s \o u) = Len(s) + Len(u)
      /\ \A i \in 1..Len(s) : (s \o u)[i] = s[i]
      /\ \A i \in 1..Len(u) : (s \o u)[Len(s) + i] = u[i]
  BY <1>3
<1> QED  BY <1>4, <1>5 DEF IsSeq

LEMMA Short ==
    ASSUME NEW x, NEW y
    PROVE  /\ IsSeq(<<>>) /\ IsSeq(<<x>>) /\ IsSeq(<<x, y>>)
           /\ Len(<<>>) = 0 /\ Len(<<x>>) = 1 /\ Len(<<x, y>>) = 2
           /\ <<x>>[1] = x /\ <<x, y>>[1] = x /\ <<x, y>>[2] = y
<1>1. <<>> \in Seq({x}) /\ <<x>> \in Seq({x}) /\ <<x, y>> \in Seq({x, y})
  OBVIOUS
<1> QED  BY <1>1 DEF IsSeq

LEMMA PathJoined ==
    ASSUME NEW s, NEW u, IsSeq(s), IsSeq(u), NEW h, NEW m, NEW g, NEW H,
           Path(s, h, m, H), Path(u, m, g, H)
    PROVE  Path(s \o u, h, g, H) /\ IsSeq(s \o u)
<1>0. /\ Len(s) \in Nat /\ Len(u) \in Nat /\ Len(s \o u) = Len(s) + Len(u)
      /\ \A i \in 1..Len(s) : (s \o u)[i] = s[i]
      /\ \A i \in 1..Len(u) : (s \o u)[Len(s) + i] = u[i]
  BY Joined
<1>c. IsSeq(s \o u)
  BY Joined
<1>1. PICK t \in [Nat -> Nat] :
        /\ t[1] = h /\ t[Len(s) + 1] = m
        /\ \A i \in 1..Len(s) : ItemFits(s[i], t[i], H) /\ t[i + 1] = t[i] + Rise(s[i])
  BY DEF Path
<1>2. PICK r \in [Nat -> Nat] :
        /\ r[1] = m /\ r[Len(u) + 1] = g
        /\ \A i \in 1..Len(u) : ItemFits(u[i], r[i], H) /\ r[i + 1] = r[i] + Rise(u[i])
  BY DEF Path
<1> DEFINE n == Len(s)
           l == Len(u)
           q == s \o u
           v == [i \in Nat |-> IF i <= n THEN t[i] ELSE r[i - n]]
<1>3. /\ Len(q) = n + l /\ IsSeq(q)
      /\ \A i \in 1..n : q[i] = s[i]
      /\ \A i \in 1..l : q[n + i] = u[i]
  BY <1>0, <1>c, Zenon
<1>n. n \in Nat /\ l \in Nat
  BY <1>0
<1>a. /\ t[1] = h /\ t[n + 1] = m
      /\ \A i \in 1..n : ItemFits(s[i], t[i], H) /\ t[i + 1] = t[i] + Rise(s[i])
  BY <1>1
<1>b. /\ r[1] = m /\ r[l + 1] = g
      /\ \A i \in 1..l : ItemFits(u[i], r[i], H) /\ r[i + 1] = r[i] + Rise(u[i])
  BY <1>2
<1> HIDE DEF n, l, q
<1>4. /\ v \in [Nat -> Nat]
      /\ \A i \in Nat : i <= n => v[i] = t[i]
      /\ \A i \in Nat : i >= 1 => v[n + i] = r[i]
  <2>1. \A i \in Nat : (IF i <= n THEN t[i] ELSE r[i - n]) \in Nat
    BY <1>n
  <2>2. v \in [Nat -> Nat] /\ \A i \in Nat : v[i] = IF i <= n THEN t[i] ELSE r[i - n]
    BY <2>1
  <2> HIDE DEF v
  <2>3. ASSUME NEW i \in Nat, i >= 1 PROVE v[n + i] = r[i]
    <3>1. n + i \in Nat /\ ~(n + i <= n) /\ (n + i) - n = i
      BY <1>n, <2>3
    <3> QED  BY <2>2, <3>1
  <2> QED  BY <2>2, <2>3
<1> HIDE DEF v
<1>5. v[n + 1] = m
  BY <1>b, <1>4
<1>6. v[1] = h
  <2>1. CASE n = 0
    BY <1>a, <1>5, <2>1
  <2>2. CASE n # 0
    <3>1. 1 \in Nat /\ 1 <= n
      BY <1>n, <2>2
    <3> QED  BY <1>a, <1>4, <3>1
  <2> QED  BY <2>1, <2>2
<1>7. v[Len(q) + 1] = g
  <2>1. (n + l) + 1 = n + (l + 1) /\ l + 1 \in Nat /\ l + 1 >= 1
    BY <1>n
  <2>2. v[n + (l + 1)] = r[l + 1]
    BY <1>4, <2>1
  <2>3. Len(q) + 1 = n + (l + 1)
    BY <1>3, <2>1
  <2> QED  BY <1>b, <2>2, <2>3
<1>8. ASSUME NEW i \in 1..n + l
      PROVE  ItemFits(q[i], v[i], H) /\ v[i + 1] = v[i] + Rise(q[i])
  <2>1. CASE i <= n
    <3>1. i \in 1..n /\ i \in Nat /\ i + 1 \in Nat
      BY <1>n, <2>1
    <3>2. v[i] = t[i] /\ v[i + 1] = t[i + 1]
      <4>1. CASE i + 1 <= n
        BY <1>4, <2>1, <3>1, <4>1
      <4>2. CASE ~(i + 1 <= n)
        <5>1. i + 1 = n + 1
          BY <1>n, <2>1, <3>1, <4>2
        <5> QED  BY <1>a, <1>4, <1>5, <2>1, <3>1, <5>1
      <4> QED  BY <4>1, <4>2
    <3> QED  BY <1>a, <1>3, <3>1, <3>2
  <2>2. CASE ~(i <= n)
    <3> DEFINE j == i - n
    <3>1. j \in 1..l /\ j \in Nat /\ i = n + j /\ i + 1 = n + (j + 1) /\ j + 1 \in Nat
          /\ j >= 1 /\ j + 1 >= 1
      BY <1>n, <2>2
    <3> HIDE DEF j
    <3>2. v[i] = r[j] /\ v[i + 1] = r[j + 1]
      BY <1>4, <3>1
    <3>3. q[i] = u[j]
      BY <1>3, <3>1
    <3> QED  BY <1>b, <3>1, <3>2, <3>3
  <2> QED  BY <2>1, <2>2
<1>9. Path(q, h, g, H)
  BY <1>3, <1>4, <1>6, <1>7, <1>8 DEF Path
<1> QED  BY <1>3, <1>9 DEF q

LEMMA PathNil ==
    ASSUME NEW h \in Nat, NEW H
    PROVE  Path(<<>>, h, h, H)
<1> DEFINE t == [i \in Nat |-> h]
<1>1. t \in [Nat -> Nat] /\ t[1] = h /\ t[Len(<<>>) + 1] = h /\ 1..Len(<<>>) = {}
  BY Short
<1> QED  BY <1>1 DEF Path

LEMMA PathOne ==
    ASSUME NEW w, NEW h \in Nat, NEW g \in Nat, NEW H, ItemFits(w, h, H), g = h + Rise(w)
    PROVE  Path(<<w>>, h, g, H) /\ IsSeq(<<w>>)
<1> DEFINE t == [i \in Nat |-> IF i = 1 THEN h ELSE g]
<1>1. t \in [Nat -> Nat] /\ t[1] = h /\ t[2] = g /\ Len(<<w>>) = 1 /\ <<w>>[1] = w
  BY Short
<1> DEFINE s == <<w>>
<1>2. \A i \in 1..Len(s) : i = 1
  BY <1>1
<1>a. IsSeq(s)
  BY Short
<1>3. Len(s) + 1 = 2 /\ s[1] = w /\ IsSeq(s) /\ 1 + 1 = 2
  BY <1>1, <1>a
<1> HIDE DEF t, s
<1>4. \A i \in 1..Len(s) : ItemFits(s[i], t[i], H) /\ t[i + 1] = t[i] + Rise(s[i])
  BY <1>1, <1>2, <1>3
<1>5. Path(s, h, g, H)
  BY <1>1, <1>3, <1>4 DEF Path
<1> QED  BY <1>3, <1>5 DEF s

LEMMA PathTwo ==
    ASSUME NEW w, NEW x, NEW h \in Nat, NEW m \in Nat, NEW g \in Nat, NEW H,
           ItemFits(w, h, H), m = h + Rise(w), ItemFits(x, m, H), g = m + Rise(x)
    PROVE  Path(<<w, x>>, h, g, H) /\ IsSeq(<<w, x>>)
<1> DEFINE t == [i \in Nat |-> IF i = 1 THEN h ELSE IF i = 2 THEN m ELSE g]
           s == <<w, x>>
<1>1. t \in [Nat -> Nat] /\ t[1] = h /\ t[2] = m /\ t[3] = g
  OBVIOUS
<1>a. IsSeq(s) /\ Len(s) = 2 /\ s[1] = w /\ s[2] = x
  BY Short
<1> HIDE DEF t, s
<1>2. Len(s) + 1 = 3 /\ 1 + 1 = 2 /\ 2 + 1 = 3
  BY <1>a
<1>3. \A i \in 1..Len(s) : i = 1 \/ i = 2
  BY <1>a
<1>4. \A i \in 1..Len(s) : ItemFits(s[i], t[i], H) /\ t[i + 1] = t[i] + Rise(s[i])
  BY <1>1, <1>2, <1>3, <1>a
<1>5. Path(s, h, g, H)
  BY <1>1, <1>2, <1>4 DEF Path
<1> QED  BY <1>5, <1>a DEF s

\* What is left when the first item is done.
LEMMA PathRest ==
    ASSUME NEW s, IsSeq(s), s # <<>>, NEW h, NEW g, NEW H, Path(s, h, g, H)
    PROVE  /\ h \in Nat /\ ItemFits(Head(s), h, H)
           /\ h + Rise(Head(s)) \in Nat
           /\ Path(Tail(s), h + Rise(Head(s)), g, H) /\ IsSeq(Tail(s))
<1>0. PICK S : s \in Seq(S)
  BY DEF IsSeq
<1>1. /\ Len(s) \in Nat /\ Len(s) >= 1 /\ Len(Tail(s)) = Len(s) - 1 /\ Head(s) = s[1]
      /\ Tail(s) \in Seq(S)
      /\ \A i \in 1..Len(s) - 1 : Tail(s)[i] = s[i + 1]
  BY <1>0
<1>2. PICK t \in [Nat -> Nat] :
        /\ t[1] = h /\ t[Len(s) + 1] = g
        /\ \A i \in 1..Len(s) : ItemFits(s[i], t[i], H) /\ t[i + 1] = t[i] + Rise(s[i])
  BY DEF Path
<1>3. h \in Nat /\ ItemFits(Head(s), h, H) /\ t[2] = h + Rise(Head(s)) /\ t[2] \in Nat
  <2>1. 1 \in 1..Len(s) /\ 1 + 1 = 2
    BY <1>1
  <2> QED  BY <1>1, <1>2, <2>1
<1> DEFINE v == [i \in Nat |-> t[i + 1]]
<1>4. v \in [Nat -> Nat] /\ \A i \in Nat : v[i] = t[i + 1]
  OBVIOUS
<1> HIDE DEF v
<1>5. v[1] = t[2] /\ v[Len(Tail(s)) + 1] = g
  <2>1. Len(Tail(s)) + 1 = Len(s) /\ 1 + 1 = 2
    BY <1>1
  <2> QED  BY <1>1, <1>2, <1>4, <2>1
<1>6. ASSUME NEW i \in 1..Len(Tail(s))
      PROVE  ItemFits(Tail(s)[i], v[i], H) /\ v[i + 1] = v[i] + Rise(Tail(s)[i])
  <2>1. i \in 1..Len(s) - 1 /\ i + 1 \in 1..Len(s) /\ i \in Nat /\ i + 1 \in Nat
    BY <1>1
  <2>2. Tail(s)[i] = s[i + 1] /\ v[i] = t[i + 1] /\ v[i + 1] = t[(i + 1) + 1]
    BY <1>1, <1>4, <2>1
  <2> QED  BY <1>2, <2>1, <2>2
<1>7. Path(Tail(s), t[2], g, H)
  BY <1>4, <1>5, <1>6 DEF Path
<1> QED  BY <1>1, <1>3, <1>7 DEF IsSeq

LEMMA OpenJoined ==
    ASSUME NEW s, NEW u, IsSeq(s), IsSeq(u)
    PROVE  Open(s \o u) = Open(s) \cup Open(u)
<1>1. /\ Len(s) \in Nat /\ Len(u) \in Nat /\ Len(s \o u) = Len(s) + Len(u)
      /\ \A i \in 1..Len(s) : (s \o u)[i] = s[i]
      /\ \A i \in 1..Len(u) : (s \o u)[Len(s) + i] = u[i]
  BY Joined
<1>2. ASSUME NEW j, j \in Open(s \o u) PROVE j \in Open(s) \cup Open(u)
  <2>1. PICK i \in 1..Len(s \o u) : j \in Pend((s \o u)[i])
    BY <1>2 DEF Open
  <2>2. CASE i <= Len(s)
    <3>1. i \in 1..Len(s)
      BY <1>1, <2>2
    <3> QED  BY <1>1, <2>1, <3>1 DEF Open
  <2>3. CASE ~(i <= Len(s))
    <3>1. i - Len(s) \in 1..Len(u) /\ i = Len(s) + (i - Len(s))
      BY <1>1, <2>3
    <3>2. (s \o u)[i] = u[i - Len(s)]
      BY <1>1, <3>1
    <3> QED  BY <2>1, <3>1, <3>2 DEF Open
  <2> QED  BY <2>2, <2>3
<1>3. ASSUME NEW j, j \in Open(s) PROVE j \in Open(s \o u)
  <2>1. PICK i \in 1..Len(s) : j \in Pend(s[i])
    BY <1>3 DEF Open
  <2>2. i \in 1..Len(s \o u) /\ (s \o u)[i] = s[i]
    BY <1>1
  <2> QED  BY <2>1, <2>2 DEF Open
<1>4. ASSUME NEW j, j \in Open(u) PROVE j \in Open(s \o u)
  <2>1. PICK i \in 1..Len(u) : j \in Pend(u[i])
    BY <1>4 DEF Open
  <2>2. Len(s) + i \in 1..Len(s \o u) /\ (s \o u)[Len(s) + i] = u[i]
    BY <1>1
  <2> QED  BY <2>1, <2>2 DEF Open
<1> QED  BY <1>2, <1>3, <1>4

LEMMA OpenShort ==
    ASSUME NEW x, NEW y
    PROVE  /\ Open(<<>>) = {} /\ Open(<<x>>) = Pend(x)
           /\ Open(<<x, y>>) = Pend(x) \cup Pend(y)
<1>1. 1..Len(<<>>) = {} /\ 1..Len(<<x>>) = {1} /\ 1..Len(<<x, y>>) = {1, 2}
  BY Short
<1>2. Open(<<>>) = {}
  BY <1>1 DEF Open
<1>3. Open(<<x>>) = Pend(x)
  BY <1>1, Short DEF Open
<1>4. Open(<<x, y>>) = Pend(x) \cup Pend(y)
  BY <1>1, Short DEF Open
<1> QED  BY <1>2, <1>3, <1>4

LEMMA OpenRest ==
    ASSUME NEW s, IsSeq(s), s # <<>>
    PROVE  Open(s) = Pend(Head(s)) \cup Open(Tail(s))
<1>0. PICK S : s \in Seq(S)
  BY DEF IsSeq
<1>1. s = <<Head(s)>> \o Tail(s)
  BY <1>0
<1>2. IsSeq(Tail(s)) /\ IsSeq(<<Head(s)>>)
  <2>1. Tail(s) \in Seq(S)
    BY <1>0
  <2> QED  BY <2>1, Short DEF IsSeq
<1> DEFINE a == <<Head(s)>>
           b == Tail(s)
<1>3. Open(a \o b) = Open(a) \cup Open(b)
  BY <1>2, OpenJoined
<1>4. Open(a) = Pend(Head(s))
  BY OpenShort
<1>5. s = a \o b
  BY <1>1
<1> HIDE DEF a
<1> QED  BY <1>3, <1>4, <1>5

-----------------------------------------------------------------------------
(***************************************************************************)
(* Code that grows and is patched keeps its heights                        *)
(***************************************************************************)
LEMMA OpCounts ==
    /\ \A o \in BinaryOps : Needs(o) = 2 /\ Gives(o) = 1
    /\ \A o \in UnaryOps : Needs(o) = 1 /\ Gives(o) = 1
    /\ \A o \in {"push", "load", "arr_len"} : Needs(o) = 0 /\ Gives(o) = 1
    /\ \A o \in {"store", "pop", "ret", "jump_if_false"} : Needs(o) = 1 /\ Gives(o) = 0
    /\ \A o \in {"load_index", "jump_if_false_keep", "jump_if_true_keep"} :
          Needs(o) = 1 /\ Gives(o) = 1
    /\ Needs("store_index") = 2 /\ Gives("store_index") = 0
    /\ Needs("jump") = 0 /\ Gives("jump") = 0
    /\ Needs("call") = 0 /\ Gives("call") = 1
<1> USE DEF Needs, Gives, BinaryOps, UnaryOps, JumpOps
<1>1. ASSUME NEW o \in BinaryOps PROVE Needs(o) = 2 /\ Gives(o) = 1
  OBVIOUS
<1>2. ASSUME NEW o \in UnaryOps PROVE Needs(o) = 1 /\ Gives(o) = 1
  OBVIOUS
<1>3. ASSUME NEW o \in {"push", "load", "arr_len"} PROVE Needs(o) = 0 /\ Gives(o) = 1
  OBVIOUS
<1>4. ASSUME NEW o \in {"store", "pop", "ret", "jump_if_false"}
      PROVE  Needs(o) = 1 /\ Gives(o) = 0
  OBVIOUS
<1>5. ASSUME NEW o \in {"load_index", "jump_if_false_keep", "jump_if_true_keep"}
      PROVE  Needs(o) = 1 /\ Gives(o) = 1
  OBVIOUS
<1>6. /\ Needs("store_index") = 2 /\ Gives("store_index") = 0
      /\ Needs("jump") = 0 /\ Gives("jump") = 0
      /\ Needs("call") = 0 /\ Gives("call") = 1
  OBVIOUS
<1> QED  BY <1>1, <1>2, <1>3, <1>4, <1>5, <1>6

LEMMA CountsTyped == \A o : Needs(o) \in {0, 1, 2} /\ Gives(o) \in {0, 1}
BY DEF Needs, Gives

LEMMA OneMore ==
    ASSUME NEW c \in Seq(CodeIns), NEW x \in CodeIns
    PROVE  /\ c \o <<x>> \in Seq(CodeIns) /\ Len(c) \in Nat
           /\ Len(c \o <<x>>) = Len(c) + 1
           /\ \A k \in 1..Len(c) : (c \o <<x>>)[k] = c[k]
           /\ (c \o <<x>>)[Len(c) + 1] = x
<1>1. <<x>> \in Seq(CodeIns) /\ Len(<<x>>) = 1 /\ <<x>>[1] = x
  OBVIOUS
<1> QED  BY <1>1

LEMMA TwoOnes ==
    ASSUME NEW T, NEW x \in T, NEW y \in T
    PROVE  <<x>> \o <<y>> = <<x, y>>
<1> DEFINE a == <<x>>
           b == <<y>>
           t == <<x, y>>
           s == a \o b
<1>1. /\ a \in Seq(T) /\ Len(a) = 1 /\ a[1] = x /\ b \in Seq(T) /\ Len(b) = 1 /\ b[1] = y
      /\ t \in Seq(T) /\ Len(t) = 2 /\ t[1] = x /\ t[2] = y
  OBVIOUS
<1> HIDE DEF a, b, t
<1>2. /\ s \in Seq(T) /\ Len(s) = Len(a) + Len(b)
      /\ \A i \in 1..Len(a) + Len(b) : s[i] = IF i <= Len(a) THEN a[i] ELSE b[i - Len(a)]
  BY <1>1, ConcatProperties
<1> HIDE DEF s
<1>3. Len(s) = 2 /\ s[1] = x /\ s[2] = y
  BY <1>1, <1>2
<1>4. \A i \in 1..Len(s) : s[i] = t[i]
  BY <1>1, <1>3
<1>5. s = t
  BY <1>1, <1>2, <1>3, <1>4, SeqEqual
<1> QED  BY <1>5 DEF s, t, a, b

LEMMA TwoMore ==
    ASSUME NEW T, NEW c \in Seq(T), NEW x \in T, NEW y \in T
    PROVE  (c \o <<x>>) \o <<y>> = c \o <<x, y>>
<1> DEFINE a == <<x>>
           b == <<y>>
<1>1. a \in Seq(T) /\ b \in Seq(T)
  OBVIOUS
<1>2. a \o b = <<x, y>>
  BY TwoOnes
<1> HIDE DEF a, b
<1>3. (c \o a) \o b = c \o (a \o b)
  BY <1>1, ConcatAssociative
<1> QED  BY <1>2, <1>3 DEF a, b

\* Code whose heights are H, up to the jumps in open.
CodeFits(np, c, H, open) ==
    /\ c \in Seq(CodeIns)
    /\ Heights(np, c, H)
    /\ Aimed(c, H, open)
    /\ \A k \in 1..Len(c) : c[k].op \in JumpOps => c[k].a \in 0..Len(c)

\* x can follow the code c; a jump that goes ahead is one of wide.
Follows(np, c, H, x, wide) ==
    /\ x \in CodeIns
    /\ Takes(np, x) \in Nat
    /\ Takes(np, x) <= H[Len(c)]
    /\ x.op = "ret" => H[Len(c)] = 1
    /\ x.op # "abi_call"
    /\ x.op \in JumpOps => \/ Len(c) \in wide
                           \/ x.a \in 0..Len(c) /\ H[x.a] = After(np, x, H[Len(c)])

\* G are the heights when x is there too.
Longer(np, c, x, wide, H, G) ==
    /\ Heights(np, c \o <<x>>, G)
    /\ Aimed(c \o <<x>>, G, wide)
    /\ G[Len(c) + 1] = After(np, x, H[Len(c)])
    /\ \A k \in 0..Len(c) : G[k] = H[k]

\* One instruction more.
LEMMA Emitted ==
    ASSUME NEW np, NEW c, NEW H, NEW open, NEW wide, NEW x,
           CodeFits(np, c, H, open), open \subseteq wide, Follows(np, c, H, x, wide)
    PROVE  \E G : Longer(np, c, x, wide, H, G)
<1>a. /\ c \in Seq(CodeIns) /\ Heights(np, c, H) /\ Aimed(c, H, open)
      /\ \A k \in 1..Len(c) : c[k].op \in JumpOps => c[k].a \in 0..Len(c)
  BY DEF CodeFits
<1>b. /\ x \in CodeIns
      /\ Takes(np, x) \in Nat
      /\ Takes(np, x) <= H[Len(c)]
      /\ x.op = "ret" => H[Len(c)] = 1
      /\ x.op # "abi_call"
      /\ x.op \in JumpOps => \/ Len(c) \in wide
                             \/ x.a \in 0..Len(c) /\ H[x.a] = After(np, x, H[Len(c)])
  BY DEF Follows
<1> DEFINE n == Len(c)
           d == c \o <<x>>
           v == After(np, x, H[Len(c)])
           G == [H EXCEPT ![n + 1] = v]
<1>1. /\ d \in Seq(CodeIns) /\ n \in Nat /\ Len(d) = n + 1
      /\ \A k \in 1..n : d[k] = c[k]
      /\ d[n + 1] = x
  BY <1>a, <1>b, OneMore
<1>2. H \in [Nat -> Nat] /\ H[0] = 0
  BY <1>a DEF Heights
<1>3. v \in Nat
  <2>0. n \in Nat
    BY <1>1
  <2>1. H[n] \in Nat
    BY <1>2, <2>0
  <2>2. Gives(x.op) \in {0, 1}
    BY CountsTyped
  <2>3. ASSUME NEW a \in Nat, NEW b \in Nat, NEW e \in {0, 1}, a <= b PROVE b - a + e \in Nat
    BY <2>3
  <2> QED  BY <1>b, <2>1, <2>2, <2>3 DEF After
<1>4. /\ G \in [Nat -> Nat] /\ G[n + 1] = v
      /\ \A k \in 0..n : G[k] = H[k]
  <2>0. n \in Nat
    BY <1>1
  <2> HIDE DEF v, n, d
  <2> QED  BY <1>2, <1>3, <2>0
<1>h. /\ \A k \in 1..n : /\ Takes(np, c[k]) <= H[k - 1]
                         /\ H[k] = After(np, c[k], H[k - 1])
                         /\ c[k].op = "ret" => H[k - 1] = 1
                         /\ c[k].op # "abi_call"
      /\ \A k \in 1..n : (c[k].op \in JumpOps /\ k - 1 \notin open) => H[c[k].a] = H[k]
      /\ \A k \in 1..n : c[k].op \in JumpOps => c[k].a \in 0..n
  BY <1>a DEF Heights, Aimed
<1>x. /\ Takes(np, x) <= H[n] /\ v = After(np, x, H[n]) /\ (x.op = "ret" => H[n] = 1)
      /\ x.op # "abi_call"
      /\ (x.op \in JumpOps => n \in wide \/ (x.a \in 0..n /\ H[x.a] = v))
  BY <1>b
<1> HIDE DEF G, d, n, v
<1>5. ASSUME NEW k \in 1..n + 1
      PROVE  /\ Takes(np, d[k]) <= G[k - 1]
             /\ G[k] = After(np, d[k], G[k - 1])
             /\ d[k].op = "ret" => G[k - 1] = 1
             /\ d[k].op # "abi_call"
             /\ (d[k].op \in JumpOps /\ k - 1 \notin wide) => G[d[k].a] = G[k]
  <2>1. CASE k = n + 1
    <3>1. k - 1 = n /\ n \in 0..n
      BY <1>1, <2>1
    <3>2. d[k] = x /\ G[k - 1] = H[n] /\ G[k] = v
      BY <1>1, <1>4, <2>1, <3>1
    <3>3. (x.op \in JumpOps /\ k - 1 \notin wide) => G[x.a] = G[k]
      BY <1>4, <1>x, <3>1, <3>2
    <3> QED  BY <1>x, <3>2, <3>3
  <2>2. CASE k # n + 1
    <3>1. k \in 1..n /\ k \in 0..n /\ k - 1 \in 0..n
      BY <1>1, <2>2
    <3>2. d[k] = c[k] /\ G[k - 1] = H[k - 1] /\ G[k] = H[k]
      BY <1>1, <1>4, <3>1
    <3>3. (c[k].op \in JumpOps /\ k - 1 \notin wide) => G[c[k].a] = G[k]
      BY <1>4, <1>h, <3>1, <3>2
    <3> QED  BY <1>h, <3>1, <3>2, <3>3
  <2> QED  BY <2>1, <2>2
<1>6. G[0] = 0
  BY <1>1, <1>2, <1>4
<1>7. Heights(np, d, G)
  BY <1>1, <1>4, <1>5, <1>6 DEF Heights
<1>8. Aimed(d, G, wide)
  BY <1>1, <1>5 DEF Aimed
<1> QED  BY <1>4, <1>7, <1>8 DEF Longer, d, n, v

\* Patching jumps that all leave as many operands as are expected at the target.
LEMMA PatchedFits ==
    ASSUME NEW np, NEW c \in Seq(CodeIns), NEW H, Heights(np, c, H), NEW open,
           Aimed(c, H, open), NEW S,
           \A j \in S : j + 1 \in 1..Len(c) => c[j + 1].op \in JumpOps,
           NEW to \in Int, \A j \in S : H[j + 1] = H[to]
    PROVE  Heights(np, Patched(c, S, to), H) /\ Aimed(Patched(c, S, to), H, open \ S)
<1> DEFINE d == Patched(c, S, to)
<1>1. Len(c) \in Nat /\ DOMAIN c = 1..Len(c) /\ \A k \in 1..Len(c) : c[k] \in CodeIns
  OBVIOUS
<1>2. /\ DOMAIN d = 1..Len(c)
      /\ \A k \in 1..Len(c) : d[k] = IF k - 1 \in S THEN [c[k] EXCEPT !.a = to] ELSE c[k]
  BY <1>1 DEF Patched
<1> HIDE DEF d
<1>3. ASSUME NEW k \in 1..Len(c)
      PROVE  /\ d[k].op = c[k].op
             /\ k - 1 \notin S => d[k] = c[k]
             /\ k - 1 \in S => d[k].a = to /\ c[k].op \in JumpOps
             /\ d[k] \in CodeIns
  <2>1. k - 1 \in S => (k - 1) + 1 = k
    BY <1>1
  <2> QED  BY <1>1, <1>2, <2>1 DEF CodeIns
<1>4. d \in Seq(CodeIns) /\ Len(d) = Len(c)
  <2>1. d = [k \in 1..Len(c) |-> d[k]]
    BY <1>1 DEF d, Patched
  <2>2. d \in [1..Len(c) -> CodeIns]
    BY <1>3, <2>1
  <2> QED  BY <1>1, <2>2, SeqOfFn, LenProperties
<1>5. ASSUME NEW k \in 1..Len(c) PROVE Takes(np, d[k]) = Takes(np, c[k])
  <2>1. CASE k - 1 \in S
    BY <1>3, <2>1 DEF Takes, JumpOps
  <2>2. CASE k - 1 \notin S
    BY <1>3, <2>2
  <2> QED  BY <2>1, <2>2
<1>6. Heights(np, d, H)
  BY <1>3, <1>4, <1>5 DEF Heights, After
<1>7. ASSUME NEW k \in 1..Len(c), c[k].op \in JumpOps, k - 1 \notin open \ S
      PROVE  H[d[k].a] = H[k]
  <2>1. CASE k - 1 \in S
    <3>1. d[k].a = to /\ (k - 1) + 1 = k
      BY <1>1, <1>3, <2>1
    <3> QED  BY <2>1, <3>1
  <2>2. CASE k - 1 \notin S
    BY <1>3, <1>7, <2>2 DEF Aimed
  <2> QED  BY <2>1, <2>2
<1>8. Aimed(d, H, open \ S)
  BY <1>3, <1>4, <1>7 DEF Aimed
<1> QED  BY <1>6, <1>8 DEF d

-----------------------------------------------------------------------------
(***************************************************************************)
(* The compiler keeps the heights                                          *)
(***************************************************************************)
Arities == [f \in Nat |-> Len(sigs[f + 1].params)]

Standing(H) ==
    /\ Heights(Arities, code, H)
    /\ Aimed(code, H, Open(work))
    /\ Path(work, H[Len(code)], 0, H)

\* Every way through the code meets the same stack, up to the jumps that work is
\* to patch, and the work left takes the stack down to nothing.
BodyFits == \E H : Standing(H)

\* Work is about places in the code there is.
LEMMA ItemKept ==
    ASSUME BodyInv, NEW w \in SoundItem, NEW h, NEW H, NEW G,
           \A k \in 0..Len(code) : G[k] = H[k], ItemFits(w, h, H)
    PROVE  ItemFits(w, h, G)
<1>1. Len(code) \in Nat
  BY Lengths
<1>2. \A j \in Jumps : j + 1 \in 0..Len(code)
  BY <1>1 DEF Jumps
<1>3. /\ w.kind \in {"patch", "if", "then"} => w.ends \subseteq Jumps
      /\ w.kind \in {"then", "step", "loop"} => w.a \in Jumps
      /\ w.kind \in {"while", "for", "step", "loop"} => w.n \in 0..Len(code)
  BY DEF SoundItem
<1>4. /\ w.kind \in {"patch", "if", "then"} => \A j \in w.ends : G[j + 1] = H[j + 1]
      /\ w.kind \in {"then", "step", "loop"} => G[w.a + 1] = H[w.a + 1]
      /\ w.kind \in {"while", "for", "step", "loop"} => G[w.n] = H[w.n]
  BY <1>2, <1>3
<1> QED  BY <1>4 DEF ItemFits

LEMMA PathKept ==
    ASSUME BodyInv, NEW s \in Seq(SoundItem), NEW h, NEW g, NEW H, NEW G,
           \A k \in 0..Len(code) : G[k] = H[k], Path(s, h, g, H)
    PROVE  Path(s, h, g, G)
<1>1. PICK t \in [Nat -> Nat] :
        /\ t[1] = h /\ t[Len(s) + 1] = g
        /\ \A i \in 1..Len(s) : ItemFits(s[i], t[i], H) /\ t[i + 1] = t[i] + Rise(s[i])
  BY DEF Path
<1>2. ASSUME NEW i \in 1..Len(s) PROVE ItemFits(s[i], t[i], G)
  <2>1. s[i] \in SoundItem
    OBVIOUS
  <2> QED  BY <1>1, <2>1, ItemKept
<1> QED  BY <1>1, <1>2 DEF Path

LEMMA JumpsInside ==
    ASSUME BodyInv
    PROVE  \A k \in 1..Len(code) : code[k].op \in JumpOps => code[k].a \in 0..Len(code)
<1>1. code \in Seq(SoundIns)
  BY DEF BodyInv
<1>2. \A k \in 1..Len(code) : code[k] \in SoundIns
  BY <1>1
<1> QED  BY <1>2 DEF SoundIns

LEMMA WorkSplit ==
    ASSUME BodyInv, work # <<>>, NEW H, Standing(H)
    PROVE  /\ H \in [Nat -> Nat] /\ H[Len(code)] \in Nat
           /\ ItemFits(item, H[Len(code)], H)
           /\ H[Len(code)] + Rise(item) \in Nat
           /\ Path(Tail(work), H[Len(code)] + Rise(item), 0, H)
           /\ Tail(work) \in Seq(SoundItem) /\ IsSeq(Tail(work))
           /\ Open(work) = Pend(item) \cup Open(Tail(work))
<1>1. work \in Seq(SoundItem) /\ Tail(work) \in Seq(SoundItem)
  BY DEF BodyInv
<1>2. IsSeq(work)
  BY <1>1 DEF IsSeq
<1>3. Path(work, H[Len(code)], 0, H)
  BY DEF Standing
<1>4. H \in [Nat -> Nat] /\ Len(code) \in Nat
  BY Lengths DEF Standing, Heights
<1> HIDE DEF Open, Pend
<1>5. /\ H[Len(code)] \in Nat /\ ItemFits(Head(work), H[Len(code)], H)
      /\ H[Len(code)] + Rise(Head(work)) \in Nat
      /\ Path(Tail(work), H[Len(code)] + Rise(Head(work)), 0, H) /\ IsSeq(Tail(work))
  BY <1>2, <1>3, PathRest
<1>6. Open(work) = Pend(Head(work)) \cup Open(Tail(work))
  BY <1>2, OpenRest
<1> QED  BY <1>1, <1>4, <1>5, <1>6 DEF item

\* The work that follows an action, when the code is c and its heights are G.
LEMMA Going ==
    ASSUME BodyInv, work # <<>>, UNCHANGED sigs, NEW H, Standing(H), NEW G, NEW items, IsSeq(items),
           work' = items \o Tail(work),
           \A k \in 0..Len(code) : G[k] = H[k],
           Path(items, G[Len(code')], H[Len(code)] + Rise(item), G),
           Heights(Arities, code', G),
           Aimed(code', G, Open(items) \cup Open(Tail(work)))
    PROVE  BodyFits'
<1>1. /\ Path(Tail(work), H[Len(code)] + Rise(item), 0, H)
      /\ Tail(work) \in Seq(SoundItem) /\ IsSeq(Tail(work))
  BY WorkSplit
<1>2. Path(Tail(work), H[Len(code)] + Rise(item), 0, G)
  BY <1>1, PathKept
<1>3. Path(work', G[Len(code')], 0, G)
  BY <1>1, <1>2, PathJoined
<1>4. Open(work') = Open(items) \cup Open(Tail(work))
  BY <1>1, OpenJoined
<1>5. Arities' = Arities
  BY DEF Arities
<1>6. Standing(G)'
  BY <1>3, <1>4, <1>5 DEF Standing
<1> QED  BY <1>6 DEF BodyFits

LEMMA AimedWider ==
    ASSUME NEW c, NEW H, NEW open, NEW wide, open \subseteq wide, Aimed(c, H, open)
    PROVE  Aimed(c, H, wide)
BY DEF Aimed
\* A list of work that takes the stack from h operands to g.
Route(s, h, g, H) == IsSeq(s) /\ Path(s, h, g, H)

\* The item in hand finds h operands, by the heights H.
Hand(H, h) ==
    /\ Standing(H) /\ h \in Nat /\ h = H[Len(code)]
    /\ work # <<>> /\ ItemFits(item, h, H)

\* The same once an instruction is written behind which there are v operands.
RouteBehind(items, H, v, g) ==
    \A G : (/\ \A k \in 0..Len(code) : G[k] = H[k]
            /\ G[Len(code) + 1] = v) => Route(items, v, g, G)

LEMMA HandFits ==
    ASSUME BodyInv, BodyFits, NEW kinds, At(kinds)
    PROVE  \E H, h : Hand(H, h)
<1>1. work # <<>>
  BY InHand
<1>2. PICK H : Standing(H)
  BY DEF BodyFits
<1>3. H[Len(code)] \in Nat /\ ItemFits(item, H[Len(code)], H)
  BY <1>1, <1>2, WorkSplit
<1> QED  BY <1>1, <1>2, <1>3 DEF Hand

\* An action that writes nothing.
LEMMA QuietFits ==
    ASSUME BodyInv, UNCHANGED <<sigs, code>>, NEW items, work' = items \o Tail(work),
           NEW H, NEW h, Hand(H, h), Route(items, h, h + Rise(item), H),
           Pend(item) \subseteq Open(items)
    PROVE  BodyFits'
<1>0. Standing(H) /\ h = H[Len(code)] /\ work # <<>>
  BY DEF Hand
<1>2. Open(work) = Pend(item) \cup Open(Tail(work))
  BY <1>0, WorkSplit
<1>3. Aimed(code', H, Open(items) \cup Open(Tail(work)))
  BY <1>0, <1>2, AimedWider DEF Standing
<1>4. Heights(Arities, code', H)
  BY <1>0 DEF Standing
<1>5. IsSeq(items) /\ Path(items, H[Len(code')], H[Len(code)] + Rise(item), H)
  BY <1>0 DEF Route
<1>6. \A k \in 0..Len(code) : H[k] = H[k]
  OBVIOUS
<1> QED  BY <1>0, <1>3, <1>4, <1>5, <1>6, Going

LEMMA ThenFits ==
    ASSUME BodyInv, Outside, NEW items, Then(items), NEW H, NEW h, Hand(H, h),
           Route(items, h, h + Rise(item), H), Pend(item) \subseteq Open(items)
    PROVE  BodyFits'
<1>1. UNCHANGED <<sigs, code>> /\ work' = items \o Tail(work)
  <2>1. code \o <<>> = code
    BY Lengths
  <2> QED  BY <2>1 DEF Then, EmitThen, Outside
<1> QED  BY <1>1, QuietFits

\* An action that writes one instruction.
LEMMA WriteFits ==
    ASSUME BodyInv, UNCHANGED sigs, NEW x, NEW items, code' = code \o <<x>>,
           work' = items \o Tail(work), NEW H, NEW h, Hand(H, h), IsSeq(items),
           Follows(Arities, code, H, x, Open(items)), Pend(item) \subseteq Open(items),
           RouteBehind(items, H, After(Arities, x, h), h + Rise(item))
    PROVE  BodyFits'
<1>1. Standing(H) /\ h = H[Len(code)] /\ work # <<>>
  BY DEF Hand
<1>2. Open(work) = Pend(item) \cup Open(Tail(work))
  BY <1>1, WorkSplit
<1>3. /\ code \in Seq(CodeIns)
      /\ \A k \in 1..Len(code) : code[k].op \in JumpOps => code[k].a \in 0..Len(code)
  BY JumpsInside, Lengths
<1> DEFINE wide == Open(items) \cup Open(Tail(work))
<1>4. Open(work) \subseteq wide
  BY <1>2
<1>5. Heights(Arities, code, H) /\ Aimed(code, H, Open(work))
  BY <1>1 DEF Standing
<1>6. Follows(Arities, code, H, x, wide)
  BY DEF Follows
<1>a. CodeFits(Arities, code, H, Open(work))
  BY <1>3, <1>5 DEF CodeFits
<1> HIDE DEF wide
<1>b. PICK G : Longer(Arities, code, x, wide, H, G)
  BY <1>4, <1>6, <1>a, Emitted
<1>7. /\ Heights(Arities, code \o <<x>>, G) /\ Aimed(code \o <<x>>, G, wide)
      /\ G[Len(code) + 1] = After(Arities, x, H[Len(code)])
      /\ \A k \in 0..Len(code) : G[k] = H[k]
  BY <1>b DEF Longer
<1>8. Len(code') = Len(code) + 1
  <2>1. x \in CodeIns
    BY DEF Follows
  <2> QED  BY <1>3, <2>1, OneMore
<1>9. Path(items, G[Len(code')], H[Len(code)] + Rise(item), G)
  BY <1>1, <1>7, <1>8 DEF RouteBehind, Route
<1> QED  BY <1>1, <1>7, <1>9, Going DEF wide

LEMMA EmitFits ==
    ASSUME BodyInv, Outside, NEW x, NEW items, EmitThen(<<x>>, items), NEW H, NEW h, Hand(H, h),
           IsSeq(items), Follows(Arities, code, H, x, Open(items)),
           Pend(item) \subseteq Open(items),
           RouteBehind(items, H, After(Arities, x, h), h + Rise(item))
    PROVE  BodyFits'
<1>1. UNCHANGED sigs /\ code' = code \o <<x>> /\ work' = items \o Tail(work)
  BY DEF EmitThen, Outside
<1> QED  BY <1>1, WriteFits

-----------------------------------------------------------------------------
(***************************************************************************)
(* The work that actions put on the list                                   *)
(***************************************************************************)
LEMMA ExprPath ==
    ASSUME NEW l, NEW h \in Nat, NEW H
    PROVE  /\ Path(Operand(l), h, h + 1, H) /\ IsSeq(Operand(l)) /\ Open(Operand(l)) = {}
           /\ Path(c0_expr, h, h + 1, H) /\ IsSeq(c0_expr) /\ Open(c0_expr) = {}
<1>1. ASSUME NEW m
      PROVE  Path(Operand(m), h, h + 1, H) /\ IsSeq(Operand(m)) /\ Open(Operand(m)) = {}
  <2> DEFINE u == Item("unary")
             r == Do("rest", m, 8)
  <2>1. u.kind = "unary" /\ r.kind = "rest"
    BY DEF Item, Do
  <2>2. ItemFits(u, h, H) /\ Rise(u) = 1 /\ ItemFits(r, h + 1, H) /\ Rise(r) = 0
    BY <2>1 DEF ItemFits, Rise
  <2>3. Pend(u) = {} /\ Pend(r) = {}
    BY <2>1 DEF Pend
  <2>4. h + 1 \in Nat /\ h + 1 = h + Rise(u) /\ h + 1 = (h + 1) + Rise(r)
    BY <2>2
  <2>5. Operand(m) = <<u, r>>
    BY DEF Operand
  <2> HIDE DEF u, r
  <2>6. Path(<<u, r>>, h, h + 1, H) /\ IsSeq(<<u, r>>)
    BY <2>2, <2>4, PathTwo
  <2>7. Open(<<u, r>>) = {}
    BY <2>3, OpenShort
  <2> QED  BY <2>5, <2>6, <2>7
<1> QED  BY <1>1 DEF c0_expr

Goes(w, h, g, H) == ItemFits(w, h, H) /\ h \in Nat /\ g \in Nat /\ g = h + Rise(w)

LEMMA RouteJoined ==
    ASSUME NEW s, NEW u, NEW h, NEW m, NEW g, NEW H, Route(s, h, m, H), Route(u, m, g, H)
    PROVE  Route(s \o u, h, g, H) /\ Open(s) \subseteq Open(s \o u) /\ Open(u) \subseteq Open(s \o u)
<1>1. IsSeq(s) /\ IsSeq(u) /\ Path(s, h, m, H) /\ Path(u, m, g, H)
  BY DEF Route
<1>2. Path(s \o u, h, g, H) /\ IsSeq(s \o u)
  BY <1>1, PathJoined
<1>3. Open(s \o u) = Open(s) \cup Open(u)
  BY <1>1, OpenJoined
<1> QED  BY <1>2, <1>3 DEF Route

LEMMA RouteNil ==
    ASSUME NEW h \in Nat, NEW H
    PROVE  Route(<<>>, h, h, H)
BY PathNil, Short DEF Route

LEMMA RouteOne ==
    ASSUME NEW w, NEW h, NEW g, NEW H, Goes(w, h, g, H)
    PROVE  Route(<<w>>, h, g, H) /\ Open(<<w>>) = Pend(w)
<1>1. ItemFits(w, h, H) /\ h \in Nat /\ g \in Nat /\ g = h + Rise(w)
  BY DEF Goes
<1>2. Path(<<w>>, h, g, H) /\ IsSeq(<<w>>)
  BY <1>1, PathOne
<1>3. Open(<<w>>) = Pend(w)
  BY OpenShort
<1> QED  BY <1>2, <1>3 DEF Route

LEMMA RouteTwo ==
    ASSUME NEW w, NEW x, NEW h, NEW m, NEW g, NEW H, Goes(w, h, m, H), Goes(x, m, g, H)
    PROVE  Route(<<w, x>>, h, g, H) /\ Open(<<w, x>>) = Pend(w) \cup Pend(x)
<1>1. /\ ItemFits(w, h, H) /\ h \in Nat /\ m \in Nat /\ m = h + Rise(w)
      /\ ItemFits(x, m, H) /\ g \in Nat /\ g = m + Rise(x)
  BY DEF Goes
<1>2. Path(<<w, x>>, h, g, H) /\ IsSeq(<<w, x>>)
  BY <1>1, PathTwo
<1>3. Open(<<w, x>>) = Pend(w) \cup Pend(x)
  BY OpenShort
<1> QED  BY <1>2, <1>3 DEF Route

LEMMA ExprRoute ==
    ASSUME NEW h \in Nat, NEW H
    PROVE  /\ h + 1 \in Nat /\ Route(c0_expr, h, h + 1, H)
           /\ \A l : Route(Operand(l), h, h + 1, H)
BY ExprPath DEF Route

\* What is compiled after an expression.
LEMMA ExprThen ==
    ASSUME NEW h \in Nat, NEW H, NEW u, NEW g, Route(u, h + 1, g, H)
    PROVE  Route(c0_expr \o u, h, g, H) /\ Open(u) \subseteq Open(c0_expr \o u)
BY ExprRoute, RouteJoined

LEMMA ExprThenOne ==
    ASSUME NEW h \in Nat, NEW H, NEW w, NEW g, Goes(w, h + 1, g, H)
    PROVE  Route(c0_expr \o <<w>>, h, g, H) /\ Pend(w) \subseteq Open(c0_expr \o <<w>>)
<1>1. Route(<<w>>, h + 1, g, H) /\ Open(<<w>>) = Pend(w)
  BY RouteOne
<1> DEFINE u == <<w>>
<1>2. Route(c0_expr \o u, h, g, H) /\ Open(u) \subseteq Open(c0_expr \o u)
  BY <1>1, ExprThen
<1> QED  BY <1>1, <1>2

LEMMA ExprThenTwo ==
    ASSUME NEW h \in Nat, NEW H, NEW w, NEW x, NEW m, NEW g,
           Goes(w, h + 1, m, H), Goes(x, m, g, H)
    PROVE  Route(c0_expr \o <<w, x>>, h, g, H)
<1>1. Route(<<w, x>>, h + 1, g, H)
  BY RouteTwo
<1> DEFINE u == <<w, x>>
<1>2. Route(u, h + 1, g, H)
  BY <1>1
<1> HIDE DEF u
<1>3. Route(c0_expr \o u, h, g, H)
  BY <1>2, ExprThen
<1> QED  BY <1>3 DEF u

LEMMA PlainGoes ==
    ASSUME NEW w, NEW h \in Nat, NEW H
    PROVE  /\ w.kind \in {"close", "semi", "assign", "literal", "elem", "more", "param"} =>
                 Goes(w, h, h, H) /\ Pend(w) = {}
           /\ w.kind = "unary" => Goes(w, h, h + 1, H) /\ Pend(w) = {}
           /\ (w.kind = "rest" /\ h >= 1) => Goes(w, h, h, H) /\ Pend(w) = {}
           /\ (w.kind \in {"body", "block", "cond"} /\ h = 0) => Goes(w, h, h, H) /\ Pend(w) = {}
           /\ (w.kind = "store" /\ h >= 1) => Goes(w, h, h - 1, H)
           /\ (w.kind = "args" /\ w.n \in Nat /\ w.n >= 1 /\ w.n <= h) => Goes(w, h, h - w.n + 1, H)
<1>1. CASE w.kind \in {"close", "semi", "assign", "literal", "elem", "more", "param"}
  <2>1. ItemFits(w, h, H) /\ Rise(w) = 0 /\ Pend(w) = {}
    BY <1>1 DEF ItemFits, Rise, Pend
  <2> QED  BY <1>1, <2>1 DEF Goes
<1>2. CASE w.kind \in {"rest", "body", "block", "cond"}
  <2>1. Rise(w) = 0 /\ Pend(w) = {}
    BY <1>2 DEF Rise, Pend
  <2>2. /\ w.kind = "rest" /\ h >= 1 => ItemFits(w, h, H)
        /\ w.kind # "rest" /\ h = 0 => ItemFits(w, h, H)
    BY <1>2 DEF ItemFits
  <2> QED  BY <1>2, <2>1, <2>2 DEF Goes
<1>3. CASE w.kind \in {"unary", "store", "args"}
  <2>1. /\ w.kind = "unary" => Rise(w) = 1 /\ Pend(w) = {}
        /\ w.kind = "store" => Rise(w) = -1
        /\ w.kind = "args" => Rise(w) = 1 - w.n
    BY <1>3 DEF Rise, Pend
  <2>2. /\ w.kind = "unary" => ItemFits(w, h, H)
        /\ w.kind = "store" /\ h >= 1 => ItemFits(w, h, H)
        /\ w.kind = "args" /\ w.n >= 1 /\ w.n <= h => ItemFits(w, h, H)
    BY <1>3 DEF ItemFits
  <2> QED  BY <1>3, <2>1, <2>2 DEF Goes
<1> QED  BY <1>1, <1>2, <1>3

LEMMA EmitGoes ==
    ASSUME NEW o, NEW i, NEW h \in Nat, NEW H, NEW g \in Nat, Needs(o) <= h,
           o = "ret" => h = 1, o # "abi_call", g = h - Needs(o) + Gives(o)
    PROVE  Goes(Emit(o, i), h, g, H)
<1> DEFINE w == Emit(o, i)
<1>1. w.kind = "emit" /\ w.op = o
  BY DEF Emit, Item
<1> HIDE DEF w
<1>2. ItemFits(w, h, H) /\ Rise(w) = Gives(o) - Needs(o)
  BY <1>1 DEF ItemFits, Rise
<1>3. g = h + Rise(w)
  BY <1>2, CountsTyped
<1> QED  BY <1>2, <1>3 DEF Goes, w

\* Work on jumps.
LEMMA JumpGoes ==
    ASSUME NEW w, NEW h \in Nat, NEW H, w.kind \in {"patch", "if", "then", "while", "for", "step", "loop"},
           w.kind \in {"if", "while", "for"} => h = 1,
           w.kind \in {"then", "step", "loop"} => h = 0 /\ H[w.a + 1] = 0,
           w.kind = "patch" => \A j \in w.ends : H[j + 1] = h,
           w.kind \in {"if", "then"} => \A j \in w.ends : H[j + 1] = 0,
           w.kind \in {"while", "for", "step", "loop"} => H[w.n] = 0
    PROVE  /\ w.kind \in {"if", "while", "for"} => Goes(w, h, 0, H)
           /\ w.kind \in {"patch", "then", "step", "loop"} => Goes(w, h, h, H)
           /\ w.kind \in {"patch", "if"} => Pend(w) = w.ends
           /\ w.kind = "then" => Pend(w) = w.ends \cup {w.a}
           /\ w.kind \in {"step", "loop"} => Pend(w) = {w.a}
           /\ w.kind \in {"while", "for"} => Pend(w) = {}
<1>1. ItemFits(w, h, H)
  BY DEF ItemFits
<1>2. /\ w.kind \in {"if", "while", "for"} => Rise(w) = -1
      /\ w.kind \in {"patch", "then", "step", "loop"} => Rise(w) = 0
  BY DEF Rise
<1>3. /\ w.kind \in {"if", "while", "for"} => Goes(w, h, 0, H)
      /\ w.kind \in {"patch", "then", "step", "loop"} => Goes(w, h, h, H)
  BY <1>1, <1>2 DEF Goes
<1>4. /\ w.kind \in {"patch", "if"} => Pend(w) = w.ends
      /\ w.kind = "then" => Pend(w) = w.ends \cup {w.a}
      /\ w.kind \in {"step", "loop"} => Pend(w) = {w.a}
      /\ w.kind \in {"while", "for"} => Pend(w) = {}
  BY DEF Pend
<1> QED  BY <1>3, <1>4

LEMMA PatchGoes ==
    ASSUME NEW w, NEW h \in Nat, NEW H, w.kind = "patch", \A j \in w.ends : H[j + 1] = h
    PROVE  Goes(w, h, h, H) /\ Pend(w) = w.ends
<1>1. ItemFits(w, h, H) /\ Rise(w) = 0 /\ Pend(w) = w.ends
  BY DEF ItemFits, Rise, Pend
<1> QED  BY <1>1 DEF Goes

LEMMA Made ==
    /\ \A k : Item(k).kind = k /\ Item(k).ends = {}
    /\ \A k, i, m : Do(k, i, m).kind = k /\ Do(k, i, m).a = i /\ Do(k, i, m).n = m
                    /\ Do(k, i, m).ends = {}
    /\ \A t : Close(t).kind = "close"
    /\ \A o, i : Pend(Emit(o, i)) = {}
    /\ \A S : PatchAt(S).kind = "patch" /\ PatchAt(S).ends = S
    /\ \A S : LET w == [Item("if") EXCEPT !.ends = S] IN w.kind = "if" /\ w.ends = S
    /\ \A i, S : LET w == [Do("then", i, 0) EXCEPT !.ends = S] IN
                 w.kind = "then" /\ w.a = i /\ w.ends = S
    /\ \A name : [Item("store") EXCEPT !.name = name].kind = "store"
    /\ \A name, m : LET w == [Do("args", 0, m) EXCEPT !.name = name] IN
                    w.kind = "args" /\ w.n = m
<1>1. \A k : Item(k).kind = k /\ Item(k).ends = {}
  BY DEF Item
<1>2. \A k, i, m : Do(k, i, m).kind = k /\ Do(k, i, m).a = i /\ Do(k, i, m).n = m
                    /\ Do(k, i, m).ends = {}
  BY DEF Item, Do
<1>3. \A t : Close(t).kind = "close"
  BY DEF Close, Item
<1>4. \A o, i : Pend(Emit(o, i)) = {}
  BY DEF Pend, Emit, Item
<1>5. \A S : PatchAt(S).kind = "patch" /\ PatchAt(S).ends = S
  BY DEF PatchAt, Item
<1>6. \A S : LET w == [Item("if") EXCEPT !.ends = S] IN w.kind = "if" /\ w.ends = S
  BY DEF Item
<1>7. \A i, S : LET w == [Do("then", i, 0) EXCEPT !.ends = S] IN
                 w.kind = "then" /\ w.a = i /\ w.ends = S
  BY DEF Item, Do
<1>8. \A name : [Item("store") EXCEPT !.name = name].kind = "store"
  BY DEF Item
<1>9. \A name, m : LET w == [Do("args", 0, m) EXCEPT !.name = name] IN
                    w.kind = "args" /\ w.n = m
  BY DEF Item, Do
<1> QED  BY <1>1, <1>2, <1>3, <1>4, <1>5, <1>6, <1>7, <1>8, <1>9

LEMMA CloseGoes ==
    ASSUME NEW h \in Nat, NEW H, NEW t
    PROVE  Goes(Close(t), h, h, H) /\ Pend(Close(t)) = {}
<1> DEFINE w == Close(t)
<1>1. w.kind = "close"
  BY Made
<1> HIDE DEF w
<1>2. Goes(w, h, h, H) /\ Pend(w) = {}
  BY <1>1, PlainGoes
<1> QED  BY <1>2 DEF w

LEMMA ItemGoes ==
    ASSUME NEW h \in Nat, NEW H
    PROVE  /\ Goes(Item("unary"), h, h + 1, H)
           /\ Goes(Item("semi"), h, h, H) /\ Goes(Item("assign"), h, h, H)
           /\ Goes(Item("body"), 0, 0, H) /\ Goes(Item("block"), 0, 0, H)
           /\ Goes(Item("cond"), 0, 0, H)
           /\ \A l, m : Goes(Do("rest", l, m), h + 1, h + 1, H)
           /\ \A l, m : Goes(Do("literal", l, m), h, h, H)
           /\ \A name : Goes([Item("store") EXCEPT !.name = name], h + 1, h, H)
<1>1. Goes(Item("unary"), h, h + 1, H)
  BY Made, PlainGoes
<1>2. ASSUME NEW k \in {"semi", "assign"} PROVE Goes(Item(k), h, h, H)
  <2> DEFINE w == Item(k)
  <2>1. w.kind = k
    BY Made
  <2> HIDE DEF w
  <2>2. Goes(w, h, h, H)
    BY <2>1, PlainGoes
  <2> QED  BY <2>2 DEF w
<1>3. ASSUME NEW k \in {"body", "block", "cond"} PROVE Goes(Item(k), 0, 0, H)
  <2> DEFINE w == Item(k)
  <2>1. w.kind = k
    BY Made
  <2> HIDE DEF w
  <2>2. Goes(w, 0, 0, H)
    BY <2>1, PlainGoes
  <2> QED  BY <2>2 DEF w
<1>4. ASSUME NEW l, NEW m PROVE Goes(Do("rest", l, m), h + 1, h + 1, H)
  <2> DEFINE w == Do("rest", l, m)
  <2>1. w.kind = "rest" /\ h + 1 >= 1 /\ h + 1 \in Nat
    BY Made
  <2> HIDE DEF w
  <2>2. Goes(w, h + 1, h + 1, H)
    BY <2>1, PlainGoes
  <2> QED  BY <2>2 DEF w
<1>5. ASSUME NEW l, NEW m PROVE Goes(Do("literal", l, m), h, h, H)
  <2> DEFINE w == Do("literal", l, m)
  <2>1. w.kind = "literal"
    BY Made
  <2> HIDE DEF w
  <2>2. Goes(w, h, h, H)
    BY <2>1, PlainGoes
  <2> QED  BY <2>2 DEF w
<1>6. ASSUME NEW name PROVE Goes([Item("store") EXCEPT !.name = name], h + 1, h, H)
  <2> DEFINE w == [Item("store") EXCEPT !.name = name]
  <2>1. w.kind = "store" /\ h + 1 >= 1 /\ h + 1 \in Nat /\ (h + 1) - 1 = h
    BY Made
  <2> HIDE DEF w
  <2>2. Goes(w, h + 1, (h + 1) - 1, H)
    BY <2>1, PlainGoes
  <2>3. Goes(w, h + 1, h, H)
    BY <2>1, <2>2
  <2> QED  BY <2>3 DEF w
<1> QED  BY <1>1, <1>2, <1>3, <1>4, <1>5, <1>6

\* Instructions that are compiled after their operands.
LEMMA OperatorGoes ==
    ASSUME NEW h \in Nat, NEW H, NEW i
    PROVE  /\ \A o \in UnaryOps \cup {"load_index"} : Goes(Emit(o, i), h + 1, h + 1, H)
           /\ \A o \in BinaryOps : Goes(Emit(o, i), (h + 1) + 1, h + 1, H)
           /\ Goes(Emit("store_index", i), (h + 1) + 1, h, H)
           /\ Goes(Emit("ret", i), 1, 0, H)
<1>1. ASSUME NEW o \in UnaryOps \cup {"load_index"} PROVE Goes(Emit(o, i), h + 1, h + 1, H)
  <2>1. o \notin {"ret", "abi_call"}
    BY DEF UnaryOps
  <2>2. Needs(o) = 1 /\ Gives(o) = 1
    BY OpCounts
  <2> DEFINE m == h + 1
  <2>3. m \in Nat /\ Needs(o) <= m /\ m = m - Needs(o) + Gives(o)
    BY <2>2
  <2> HIDE DEF m
  <2>4. Goes(Emit(o, i), m, m, H)
    BY <2>1, <2>3, EmitGoes
  <2> QED  BY <2>4 DEF m
<1>2. ASSUME NEW o \in BinaryOps PROVE Goes(Emit(o, i), (h + 1) + 1, h + 1, H)
  <2>1. o \notin {"ret", "abi_call"}
    BY DEF BinaryOps
  <2>2. Needs(o) = 2 /\ Gives(o) = 1
    BY OpCounts
  <2> DEFINE m == (h + 1) + 1
             g == h + 1
  <2>3. m \in Nat /\ g \in Nat /\ Needs(o) <= m /\ g = m - Needs(o) + Gives(o)
    BY <2>2
  <2> HIDE DEF m, g
  <2>4. Goes(Emit(o, i), m, g, H)
    BY <2>1, <2>3, EmitGoes
  <2> QED  BY <2>4 DEF m, g
<1>3. Goes(Emit("store_index", i), (h + 1) + 1, h, H)
  <2>2. Needs("store_index") = 2 /\ Gives("store_index") = 0
    BY OpCounts
  <2> DEFINE m == (h + 1) + 1
  <2>3. m \in Nat /\ Needs("store_index") <= m /\ h = m - Needs("store_index") + Gives("store_index")
    BY <2>2
  <2> HIDE DEF m
  <2>4. Goes(Emit("store_index", i), m, h, H)
    BY <2>3, EmitGoes
  <2> QED  BY <2>4 DEF m
<1>4. Goes(Emit("ret", i), 1, 0, H)
  <2>2. Needs("ret") = 1 /\ Gives("ret") = 0
    BY OpCounts
  <2>3. Needs("ret") <= 1 /\ 0 = 1 - Needs("ret") + Gives("ret")
    BY <2>2
  <2> QED  BY <2>3, EmitGoes
<1> QED  BY <1>1, <1>2, <1>3, <1>4

-----------------------------------------------------------------------------
(***************************************************************************)
(* Expressions find and leave their operands                               *)
(***************************************************************************)

\* A function is called with as many arguments as its signature has parameters.
ArityInv == \A i \in DOMAIN fns : fns[i].nparams = Len(sigs[i].params)

\* One instruction that is not a jump, and the item is done.
LEMMA OneFits ==
    ASSUME BodyInv, Outside, NEW x \in CodeIns, EmitThen(<<x>>, <<>>), NEW H, NEW h, Hand(H, h),
           Pend(item) = {}, x.op \notin JumpOps, x.op # "abi_call",
           Takes(Arities, x) \in Nat, Takes(Arities, x) <= h, x.op = "ret" => h = 1,
           After(Arities, x, h) = h + Rise(item)
    PROVE  BodyFits'
<1>1. h \in Nat /\ h = H[Len(code)]
  BY DEF Hand
<1>2. Follows(Arities, code, H, x, Open(<<>>))
  BY <1>1 DEF Follows
<1>3. After(Arities, x, h) \in Nat
  <2>1. Gives(x.op) \in {0, 1}
    BY CountsTyped
  <2>2. ASSUME NEW a \in Nat, NEW b \in Nat, NEW e \in {0, 1}, a <= b PROVE b - a + e \in Nat
    BY <2>2
  <2> QED  BY <1>1, <2>1, <2>2 DEF After
<1>4. RouteBehind(<<>>, H, After(Arities, x, h), h + Rise(item))
  BY <1>3, RouteNil DEF RouteBehind
<1>5. IsSeq(<<>>)
  BY Short
<1> QED  BY <1>2, <1>4, <1>5, EmitFits

\* The same for an instruction that is not a call.
LEMMA PlainFits ==
    ASSUME BodyInv, Outside, NEW o \in Ops \ (JumpOps \cup {"call", "abi_call"}), NEW i \in Int,
           EmitThen(<<Ins(o, i)>>, <<>>), NEW H, NEW h, Hand(H, h),
           Pend(item) = {}, Needs(o) <= h, o = "ret" => h = 1,
           h - Needs(o) + Gives(o) = h + Rise(item)
    PROVE  BodyFits'
<1> DEFINE x == Ins(o, i)
<1>1. x \in CodeIns /\ x.op = o
  BY DEF Ins, CodeIns
<1> HIDE DEF x
<1>2. Takes(Arities, x) = Needs(o) /\ After(Arities, x, h) = h - Needs(o) + Gives(o)
  BY <1>1 DEF Takes, After
<1>3. Needs(o) \in Nat
  BY CountsTyped
<1>4. EmitThen(<<x>>, <<>>)
  BY DEF x
<1> QED  BY <1>1, <1>2, <1>3, <1>4, OneFits

\* A literal, a local or a length in place of an operand.
LEMMA PushFits ==
    ASSUME BodyInv, Outside, item.kind = "unary", NEW o \in {"push", "load", "arr_len"}, NEW i \in Int,
           EmitThen(<<Ins(o, i)>>, <<>>), NEW H, NEW h, Hand(H, h)
    PROVE  BodyFits'
<1>1. o \in Ops \ (JumpOps \cup {"call", "abi_call"}) /\ o # "ret"
  BY DEF Ops, JumpOps, LocalOps
<1>2. Needs(o) = 0 /\ Gives(o) = 1
  BY OpCounts
<1>3. h \in Nat
  BY DEF Hand
<1>4. Rise(item) = 1 /\ Pend(item) = {}
  BY DEF Rise, Pend
<1> HIDE DEF item
<1>5. Needs(o) <= h /\ h - Needs(o) + Gives(o) = h + Rise(item)
  BY <1>2, <1>3, <1>4
<1> QED  BY <1>1, <1>4, <1>5, PlainFits

LEMMA CallFits ==
    ASSUME BodyInv, ModuleInv, ArityInv, Outside, NEW name, NEW argc \in Nat, CallOf(name, argc),
           reject' = "none", NEW H, NEW h, Hand(H, h), argc <= h, Rise(item) = 1 - argc,
           Pend(item) = {}
    PROVE  BodyFits'
<1>0. h \in Nat
  BY DEF Hand
<1>1. ASSUME NEW why, c0_fail(why) PROVE reject' = why
  BY <1>1 DEF c0_fail
<1>2. CASE name \in Intrinsics /\ argc = 2 /\ EmitThen(<<Ins(IntrinsicInstr(name), 0)>>, <<>>)
  <2>1. IntrinsicInstr(name) \in BinaryOps
    BY <1>2 DEF Intrinsics, IntrinsicInstr, BinaryOps
  <2> DEFINE o == IntrinsicInstr(name)
  <2>2. Needs(o) = 2 /\ Gives(o) = 1
    BY <2>1, OpCounts
  <2>3. o \in Ops \ (JumpOps \cup {"call", "abi_call"}) /\ o # "ret"
    BY <2>1 DEF BinaryOps, Ops, JumpOps
  <2>4. EmitThen(<<Ins(o, 0)>>, <<>>) /\ 0 \in Int
    BY <1>2
  <2> HIDE DEF o
  <2>5. Needs(o) <= h /\ h - Needs(o) + Gives(o) = h + Rise(item)
    BY <1>0, <1>2, <2>2
  <2> QED  BY <2>3, <2>4, <2>5, PlainFits
<1>3. ASSUME Callable(name) # {}, fns[FirstOf(Callable(name))].nparams = argc,
             EmitThen(<<Ins("call", FirstOf(Callable(name)) - 1)>>, <<>>)
      PROVE  BodyFits'
  <2>1. DOMAIN fns = 1..Len(fns) /\ Len(fns) \in Nat
    BY SourceIsLexed DEF SourceFacts
  <2>2. Callable(name) \in SUBSET (1..Len(fns)) /\ Callable(name) \in SUBSET Nat
    BY <2>1 DEF Callable
  <2>3. FirstOf(Callable(name)) \in 1..Len(fns)
    BY <1>3, <2>2, FirstIsOne
  <2> DEFINE f == FirstOf(Callable(name))
             x == Ins("call", f - 1)
  <2>4. f \in 1..Len(fns) /\ fns[f].nparams = argc /\ EmitThen(<<x>>, <<>>)
    BY <1>3, <2>3
  <2>a. x.op = "call" /\ x.a = f - 1
    BY DEF Ins
  <2> HIDE DEF f
  <2>5. f - 1 \in Nat /\ (f - 1) + 1 = f
    BY <2>1, <2>4
  <2>6. x \in CodeIns
    BY <2>5 DEF Ins, CodeIns, Ops
  <2> HIDE DEF x
  <2>7. Takes(Arities, x) = argc
    <3>1. Arities[f - 1] = Len(sigs[(f - 1) + 1].params)
      BY <2>5 DEF Arities
    <3>2. fns[f].nparams = Len(sigs[f].params)
      BY <2>1, <2>4 DEF ArityInv
    <3>3. Takes(Arities, x) = Arities[f - 1]
      BY <2>a DEF Takes
    <3> QED  BY <2>4, <2>5, <3>1, <3>2, <3>3
  <2>8. Gives(x.op) = 1
    BY <2>a, OpCounts
  <2>9. After(Arities, x, h) = h + Rise(item)
    BY <1>0, <2>7, <2>8 DEF After
  <2>10. x.op \notin JumpOps /\ x.op # "abi_call" /\ x.op # "ret"
    BY <2>a DEF JumpOps
  <2> QED  BY <2>4, <2>6, <2>7, <2>9, <2>10, OneFits
<1> QED  BY <1>1, <1>2, <1>3 DEF CallOf

LEMMA LeafFits ==
    ASSUME BodyInv, ModuleInv, BodyFits, Leaf, reject' = "none"
    PROVE  BodyFits'
<1>0. ASSUME NEW why, c0_fail(why) PROVE reject' = why
  BY <1>0 DEF c0_fail
<1>a. Outside /\ ~Unexpected
  BY <1>0 DEF Leaf, Unexpected, Sign, Number, Paren, Closed, LocalRef, IndexRef, Member
<1>b. PICK H, h : Hand(H, h)
  BY <1>a, HandFits DEF Leaf, Sign, Number, Paren, Closed, LocalRef, IndexRef, Member
<1>c. h \in Nat /\ h + 1 \in Nat
  BY <1>b DEF Hand
<1>d. item.kind = "unary" => Rise(item) = 1 /\ Pend(item) = {}
  BY DEF Rise, Pend
<1>e. ASSUME item.kind = "unary", NEW items, Then(items), Route(items, h, h + 1, H) PROVE BodyFits'
  BY <1>a, <1>b, <1>d, <1>e, ThenFits
<1>2. CASE Sign
  <2>1. PICK sign \in lang.signs : Then(<<Item("unary"), Emit(SignInstr(sign), 0)>>)
    BY <1>2 DEF Sign
  <2>2. SignInstr(sign) \in UnaryOps
    <3>1. sign \in Signs
      BY SourceIsLexed DEF SourceFacts
    <3> QED  BY <3>1 DEF Signs, SignInstr, UnaryOps
  <2>4. Goes(Item("unary"), h, h + 1, H)
    BY <1>c, ItemGoes
  <2>5. Goes(Emit(SignInstr(sign), 0), h + 1, h + 1, H)
    BY <1>c, <2>2, OperatorGoes
  <2>6. Route(<<Item("unary"), Emit(SignInstr(sign), 0)>>, h, h + 1, H)
    BY <2>4, <2>5, RouteTwo
  <2>7. item.kind = "unary"
    BY <1>2, InHand DEF Sign
  <2> QED  BY <1>e, <2>1, <2>6, <2>7
<1>3. CASE Number
  <2>1. item.kind = "unary"
    BY <1>3, InHand DEF Number
  <2>2. lang.numbers \subseteq Int /\ \A b \in {"true", "false"} : Truth(b = "true") \in Int
    BY SourceIsLexed DEF SourceFacts, Truth
  <2>3. ASSUME NEW n \in Int, EmitThen(<<Ins("push", n)>>, <<>>) PROVE BodyFits'
    BY <1>a, <1>b, <2>1, <2>3, PushFits
  <2> QED  BY <1>0, <1>3, <2>2, <2>3 DEF Number
<1>4. CASE Paren
  <2>1. item.kind = "unary" /\ Then(c0_expr \o <<Close(")")>>)
    BY <1>4, InHand DEF Paren
  <2>2. Goes(Close(")"), h + 1, h + 1, H)
    BY <1>c, CloseGoes
  <2>3. Route(c0_expr \o <<Close(")")>>, h, h + 1, H)
    BY <1>c, <2>2, ExprThenOne
  <2> QED  BY <1>e, <2>1, <2>3
<1>5. CASE Closed
  <2>1. item.kind = "close" /\ Then(<<>>)
    BY <1>5, InHand DEF Closed
  <2>2. Rise(item) = 0 /\ Pend(item) = {}
    BY <2>1 DEF Rise, Pend
  <2>3. Route(<<>>, h, h + Rise(item), H)
    BY <1>c, <2>2, RouteNil
  <2> QED  BY <1>a, <1>b, <2>1, <2>2, <2>3, ThenFits
<1>6. ASSUME NEW o \in {"load", "arr_len"}, NEW name, Found(name), item.kind = "unary",
             EmitThen(<<Ins(o, Slot(name))>>, <<>>)
      PROVE  BodyFits'
  <2>1. Slot(name) \in Int
    BY <1>6, SlotFound, Lengths
  <2> QED  BY <1>6, <1>a, <1>b, <2>1, PushFits
<1>7. CASE LocalRef
  <2>1. item.kind = "unary"
    BY <1>7, InHand DEF LocalRef
  <2> QED  BY <1>0, <1>6, <1>7, <2>1 DEF LocalRef, IsScalar
<1>8. CASE IndexRef
  <2>1. item.kind = "unary"
    BY <1>8, InHand DEF IndexRef
  <2>2. PICK name : Then(c0_expr \o <<Close("]"), Emit("load_index", Slot(name))>>)
    BY <1>0, <1>8 DEF IndexRef
  <2>3. Goes(Close("]"), h + 1, h + 1, H)
    BY <1>c, CloseGoes
  <2>4. Goes(Emit("load_index", Slot(name)), h + 1, h + 1, H)
    BY <1>c, OperatorGoes
  <2>5. Route(c0_expr \o <<Close("]"), Emit("load_index", Slot(name))>>, h, h + 1, H)
    BY <1>c, <2>3, <2>4, ExprThenTwo
  <2> QED  BY <1>e, <2>1, <2>2, <2>5
<1>9. CASE Member
  <2>1. item.kind = "unary"
    BY <1>9, InHand DEF Member
  <2> QED  BY <1>0, <1>6, <1>9, <2>1 DEF Member, IsArray
<1> QED  BY <1>2, <1>3, <1>4, <1>5, <1>7, <1>8, <1>9, <1>a DEF Leaf

LEMMA CallsFit ==
    ASSUME BodyInv, ModuleInv, ArityInv, BodyFits, CallBegin \/ Argument, reject' = "none"
    PROVE  BodyFits'
<1>0. Outside /\ item \in SoundItem
  BY InHand DEF CallBegin, Argument
<1>1. PICK H, h : Hand(H, h)
  BY HandFits DEF CallBegin, Argument
<1>2. h \in Nat /\ h + 1 \in Nat /\ ItemFits(item, h, H)
  BY <1>1 DEF Hand
<1>3. CASE CallBegin
  <2>1. item.kind = "unary"
    BY <1>3, InHand DEF CallBegin
  <2>2. Rise(item) = 1 /\ Pend(item) = {}
    BY <2>1 DEF Rise, Pend
  <2>3. ASSUME NEW name, CallOf(name, 0) PROVE BodyFits'
    <3>1. 0 \in Nat /\ 0 <= h /\ Rise(item) = 1 - 0
      BY <1>2, <2>2
    <3> QED  BY <1>0, <1>1, <2>2, <2>3, <3>1, CallFits
  <2>4. ASSUME NEW name, Then(c0_expr \o <<[Do("args", 0, 1) EXCEPT !.name = name]>>)
        PROVE  BodyFits'
    <3> DEFINE w == [Do("args", 0, 1) EXCEPT !.name = name]
    <3>1. w.kind = "args" /\ w.n = 1
      BY Made
    <3> HIDE DEF w
    <3>2. Goes(w, h + 1, (h + 1) - w.n + 1, H)
      BY <1>2, <3>1, PlainGoes
    <3>3. (h + 1) - w.n + 1 = h + Rise(item)
      BY <1>2, <2>2, <3>1
    <3>4. Route(c0_expr \o <<w>>, h, h + Rise(item), H)
      BY <1>2, <3>2, <3>3, ExprThenOne
    <3>5. Then(c0_expr \o <<w>>)
      BY <2>4 DEF w
    <3> QED  BY <1>0, <1>1, <2>2, <3>4, <3>5, ThenFits
  <2> QED  BY <1>3, <2>3, <2>4 DEF CallBegin
<1>4. CASE Argument
  <2>1. item.kind = "args"
    <3>1. At({"args"})
      BY <1>4 DEF Argument
    <3> QED  BY <3>1, InHand
  <2>2. Rise(item) = 1 - item.n /\ Pend(item) = {} /\ item.n >= 1 /\ item.n <= h
    BY <1>2, <2>1 DEF Rise, Pend, ItemFits
  <2>3. item.n \in Nat
    BY <1>0, ItemTyped
  <2>4. ASSUME CallOf(item.name, item.n) PROVE BodyFits'
    BY <1>0, <1>1, <2>2, <2>3, <2>4, CallFits
  <2>5. ASSUME Then(c0_expr \o <<[item EXCEPT !.n = @ + 1]>>) PROVE BodyFits'
    <3> DEFINE w == [item EXCEPT !.n = @ + 1]
    <3>1. w.kind = "args" /\ w.n = item.n + 1
      BY <1>0, <2>1 DEF SoundItem, WorkItem
    <3>a. Then(c0_expr \o <<w>>)
      BY <2>5
    <3> HIDE DEF w, item
    <3>2. w.n \in Nat /\ w.n >= 1 /\ w.n <= h + 1
      BY <1>2, <2>2, <2>3, <3>1
    <3>3. Goes(w, h + 1, (h + 1) - w.n + 1, H)
      BY <1>2, <3>1, <3>2, PlainGoes
    <3>4. (h + 1) - w.n + 1 = h + Rise(item)
      BY <1>2, <2>2, <2>3, <3>1
    <3>5. Route(c0_expr \o <<w>>, h, h + Rise(item), H)
      BY <1>2, <3>3, <3>4, ExprThenOne
    <3> QED  BY <1>0, <1>1, <2>2, <3>5, <3>a, ThenFits
  <2> QED  BY <1>4, <2>4, <2>5 DEF Argument
<1> QED  BY <1>3, <1>4

\* An operand that || or && jumps over finds the stack without the left one.
LEMMA ShortFits ==
    ASSUME BodyInv, ModuleInv, Outside, NEW op \in Operators, Level(op) < 2, item.kind = "rest",
           NEW l,
           EmitThen(ShortCircuit(op), RightOf(op) \o <<PatchAt({c0_here}), Do("rest", l, Level(op))>>),
           NEW H, NEW h, Hand(H, h)
    PROVE  BodyFits'
<1> DEFINE x == Ins(Instr(op), 0)
           y == Ins("pop", 0)
           n == Len(code)
           p == PatchAt({n})
           r == Do("rest", l, Level(op))
           items == RightOf(op) \o <<p, r>>
           wide == Open(items) \cup Open(Tail(work))
<1>0. /\ Standing(H) /\ h \in Nat /\ h = H[n] /\ work # <<>> /\ h >= 1 /\ H \in [Nat -> Nat]
      /\ Rise(item) = 0 /\ Pend(item) = {} /\ n \in Nat
  BY Lengths DEF Hand, ItemFits, Rise, Pend, Standing, Heights
<1>h. h \in Nat /\ h >= 1
  BY <1>0
<1>n. n \in Nat
  BY <1>0
<1>1. /\ code' = code \o <<x, y>> /\ work' = items \o Tail(work) /\ UNCHANGED sigs
  BY DEF EmitThen, ShortCircuit, Outside, c0_here
<1>2. op \in {"||", "&&"}
  BY DEF Operators, Level
<1>3. x.op \in {"jump_if_true_keep", "jump_if_false_keep"} /\ x.a = 0 /\ y.op = "pop" /\ y.a = 0
  BY <1>2 DEF Instr, Ins
<1>4. x \in CodeIns /\ y \in CodeIns
  BY <1>2 DEF Instr, Ins, CodeIns, Ops, JumpOps
<1>5. /\ Takes(Arities, x) = 1 /\ Gives(x.op) = 1 /\ Takes(Arities, y) = 1 /\ Gives(y.op) = 0
  <2>1. Needs(x.op) = 1 /\ Gives(x.op) = 1 /\ Needs(y.op) = 1 /\ Gives(y.op) = 0
    BY <1>3, OpCounts
  <2>2. x.op # "call" /\ y.op # "call"
    BY <1>3
  <2> QED  BY <2>1, <2>2 DEF Takes
<1>p. p.kind = "patch" /\ p.ends = {n} /\ IsSeq(<<p, r>>)
  <2>1. p.kind = "patch" /\ p.ends = {n}
    BY Made
  <2>2. IsSeq(<<p, r>>)
    BY Short
  <2> QED  BY <2>1, <2>2
<1>o. IsSeq(RightOf(op)) /\ IsSeq(items) /\ n \in Open(items)
  <2>1. IsSeq(RightOf(op))
    BY <1>0, ExprRoute DEF RightOf, Route
  <2>2. IsSeq(items) /\ Open(items) = Open(RightOf(op)) \cup Open(<<p, r>>)
    BY <1>p, <2>1, Joined, OpenJoined
  <2>3. Open(<<p, r>>) = Pend(p) \cup Pend(r) /\ Pend(p) = {n}
    BY <1>p, OpenShort DEF Pend
  <2> QED  BY <2>1, <2>2, <2>3
<1>6. Open(work) \subseteq wide /\ n \in wide
  BY <1>0, <1>o, WorkSplit
<1>7. CodeFits(Arities, code, H, Open(work))
  BY <1>0, JumpsInside, Lengths DEF CodeFits, Standing
<1> HIDE DEF x, y, n, items, wide, p, r
<1>8. Follows(Arities, code, H, x, wide)
  BY <1>0, <1>3, <1>4, <1>5, <1>6 DEF Follows, n
<1>9. PICK G : Longer(Arities, code, x, wide, H, G)
  BY <1>6, <1>7, <1>8, Emitted
<1> DEFINE c == code \o <<x>>
<1>10. /\ Heights(Arities, c, G) /\ Aimed(c, G, wide) /\ G[n + 1] = After(Arities, x, h)
       /\ \A k \in 0..n : G[k] = H[k]
  BY <1>0, <1>9 DEF Longer, n
<1>11. G[n + 1] = h
  BY <1>0, <1>5, <1>10 DEF After
<1>12. /\ c \in Seq(CodeIns) /\ Len(c) = n + 1
       /\ \A k \in 1..n : c[k] = code[k]
       /\ c[n + 1] = x
  BY <1>4, Lengths, OneMore DEF n
<1>14. c \o <<y>> = code'
  <2>1. code \in Seq(CodeIns)
    BY Lengths
  <2>2. (code \o <<x>>) \o <<y>> = code \o <<x, y>>
    BY <1>4, <2>1, TwoMore
  <2> QED  BY <1>1, <2>2
<1> HIDE DEF c
<1>13. \A k \in 1..Len(c) : c[k].op \in JumpOps => c[k].a \in 0..Len(c)
  <2>1. ASSUME NEW k \in 1..n + 1, c[k].op \in JumpOps PROVE c[k].a \in 0..n + 1
    <3>1. CASE k = n + 1
      <4>1. c[k] = x /\ x.a = 0
        BY <1>3, <1>12, <3>1
      <4> QED  BY <1>n, <4>1
    <3>2. CASE k # n + 1
      <4>1. k \in 1..n
        BY <1>n, <3>2
      <4>2. code[k].a \in 0..n /\ c[k] = code[k]
        BY <1>12, <2>1, <4>1, JumpsInside DEF n
      <4>3. 0..n \subseteq 0..n + 1
        BY <1>n
      <4> QED  BY <4>2, <4>3
    <3> QED  BY <3>1, <3>2
  <2> QED  BY <1>12, <2>1
<1>15. CodeFits(Arities, c, G, wide)
  BY <1>10, <1>12, <1>13 DEF CodeFits
<1>16. Follows(Arities, c, G, y, wide)
  <2>1. Takes(Arities, y) <= G[Len(c)]
    BY <1>0, <1>5, <1>11, <1>12
  <2>2. y.op \notin JumpOps /\ y.op # "ret" /\ y.op # "abi_call" /\ Takes(Arities, y) \in Nat
    BY <1>3, <1>5 DEF JumpOps
  <2> QED  BY <1>4, <2>1, <2>2 DEF Follows
<1>17. PICK F : Longer(Arities, c, y, wide, G, F)
  BY <1>15, <1>16, Emitted
<1>18. /\ Heights(Arities, code', F) /\ Aimed(code', F, wide)
       /\ F[Len(c) + 1] = After(Arities, y, G[Len(c)])
       /\ \A k \in 0..Len(c) : F[k] = G[k]
  BY <1>14, <1>17 DEF Longer
<1>19. F[Len(c) + 1] = h - 1 /\ F[n + 1] = h /\ \A k \in 0..n : F[k] = H[k]
  <2>1. \A k \in 0..n : k \in 0..Len(c)
    BY <1>0, <1>12
  <2>2. n + 1 \in 0..Len(c)
    BY <1>0, <1>12
  <2>3. F[Len(c) + 1] = h - 1
    BY <1>0, <1>5, <1>11, <1>12, <1>18 DEF After
  <2> QED  BY <1>10, <1>11, <1>18, <2>1, <2>2, <2>3
<1>20. Len(code') = Len(c) + 1
  BY <1>4, <1>12, <1>14, OneMore
<1>21. Route(items, h - 1, h, F)
  <2>0. h - 1 \in Nat /\ (h - 1) + 1 = h
    BY <1>h
  <2>1. PICK m \in Nat : m = h - 1 /\ m + 1 = h
    BY <2>0
  <2>2. Route(RightOf(op), m, m + 1, F)
    BY ExprRoute DEF RightOf
  <2>3. Goes(p, m + 1, m + 1, F)
    <3>1. p.kind = "patch" /\ \A j \in p.ends : F[j + 1] = h
      BY <1>p, <1>19
    <3>2. Goes(p, h, h, F)
      BY <1>0, <3>1, PatchGoes
    <3> QED  BY <2>1, <3>2
  <2>4. Goes(r, m + 1, m + 1, F)
    BY ItemGoes DEF r
  <2>5. Route(<<p, r>>, m + 1, m + 1, F)
    BY <2>3, <2>4, RouteTwo
  <2> DEFINE q == <<p, r>>
  <2>6. Route(q, m + 1, m + 1, F)
    BY <2>5
  <2> HIDE DEF q
  <2>7. Route(RightOf(op) \o q, m, m + 1, F)
    BY <2>2, <2>6, RouteJoined
  <2> QED  BY <2>1, <2>7 DEF items, q
<1>22. Path(items, F[Len(code')], H[Len(code)] + Rise(item), F)
  <2>1. H[Len(code)] + Rise(item) = h
    BY <1>0 DEF n
  <2> QED  BY <1>19, <1>20, <1>21, <2>1 DEF Route
<1>23. \A k \in 0..Len(code) : F[k] = H[k]
  BY <1>19 DEF n
<1> QED  BY <1>0, <1>1, <1>18, <1>22, <1>23, <1>o, Going DEF wide

LEMMA OperatorsFit ==
    ASSUME BodyInv, ModuleInv, BodyFits, Operator \/ NoOperator \/ c0_emit, reject' = "none"
    PROVE  BodyFits'
<1>0. Outside /\ item \in SoundItem
  BY InHand DEF Operator, NoOperator, c0_emit
<1>1. PICK H, h : Hand(H, h)
  BY HandFits DEF Operator, NoOperator, c0_emit
<1>2. h \in Nat /\ ItemFits(item, h, H)
  BY <1>1 DEF Hand
<1>3. item.kind = "rest" => Rise(item) = 0 /\ Pend(item) = {} /\ h >= 1
  BY <1>2 DEF Rise, Pend, ItemFits
<1>4. CASE Operator
  <2>0. item.kind = "rest"
    BY <1>4, InHand DEF Operator
  <2>1. PICK op \in lang.ops :
          LET again == Do("rest", item.a, Level(op)) IN
          \/ /\ Level(op) < 2
             /\ EmitThen(ShortCircuit(op), RightOf(op) \o <<PatchAt({c0_here}), again>>)
          \/ /\ Level(op) >= 2
             /\ Then(RightOf(op) \o <<Emit(Instr(op), 0), again>>)
          \/ c0_fail("VM_REJ_SHIFT")
    BY <1>4 DEF Operator
  <2>2. op \in Operators /\ (Level(op) >= 2 => Instr(op) \in BinaryOps)
    BY SourceIsLexed, OperatorFacts DEF SourceFacts
  <2> HIDE DEF item
  <2>3. CASE /\ Level(op) < 2
             /\ EmitThen(ShortCircuit(op), RightOf(op)
                                     \o <<PatchAt({c0_here}), Do("rest", item.a, Level(op))>>)
    BY <1>0, <1>1, <2>0, <2>2, <2>3, ShortFits
  <2>4. CASE /\ Level(op) >= 2
             /\ Then(RightOf(op) \o <<Emit(Instr(op), 0), Do("rest", item.a, Level(op))>>)
    <3> DEFINE e == Emit(Instr(op), 0)
               r == Do("rest", item.a, Level(op))
               q == <<e, r>>
    <3>1. PICK m \in Nat : h = m + 1
      <4>1. h - 1 \in Nat /\ h = (h - 1) + 1
        BY <1>2, <1>3, <2>0
      <4> QED  BY <4>1
    <3>2. Route(RightOf(op), h, h + 1, H)
      BY <1>2, ExprRoute DEF RightOf
    <3>3. Goes(e, (m + 1) + 1, m + 1, H)
      BY <2>2, <2>4, OperatorGoes
    <3>4. Goes(r, m + 1, m + 1, H)
      BY ItemGoes
    <3>5. Then(RightOf(op) \o q)
      BY <2>4
    <3> HIDE DEF e, r
    <3>6. Route(<<e, r>>, (m + 1) + 1, m + 1, H)
      BY <3>3, <3>4, RouteTwo
    <3>7. Route(q, h + 1, h, H)
      BY <3>1, <3>6
    <3> HIDE DEF q
    <3>8. Route(RightOf(op) \o q, h, h, H)
      BY <3>2, <3>7, RouteJoined
    <3>9. h + Rise(item) = h
      BY <1>2, <1>3, <2>0
    <3> QED  BY <1>0, <1>1, <1>3, <2>0, <3>5, <3>8, <3>9, ThenFits
  <2> QED  BY <2>1, <2>3, <2>4 DEF c0_fail
<1>5. CASE NoOperator
  <2>1. item.kind = "rest" /\ Then(<<>>)
    BY <1>5, InHand DEF NoOperator
  <2>2. Route(<<>>, h, h + Rise(item), H)
    BY <1>2, <1>3, <2>1, RouteNil
  <2> QED  BY <1>0, <1>1, <1>3, <2>1, <2>2, ThenFits
<1>6. CASE c0_emit
  <2>1. item.kind = "emit"
    BY <1>6, InHand DEF c0_emit
  <2>2. /\ item.op \in Ops \ (JumpOps \cup {"call"}) /\ item.a \in Nat
    BY <1>0, <2>1 DEF SoundItem, WorkItem
  <2>3. /\ Needs(item.op) <= h /\ (item.op = "ret" => h = 1) /\ item.op # "abi_call"
        /\ Rise(item) = Gives(item.op) - Needs(item.op) /\ Pend(item) = {}
    BY <1>2, <2>1 DEF ItemFits, Rise, Pend
  <2>4. EmitThen(<<Ins(item.op, item.a)>>, <<>>)
    BY <1>6 DEF c0_emit
  <2> DEFINE o == item.op
             i == item.a
  <2>5. /\ o \in Ops \ (JumpOps \cup {"call", "abi_call"}) /\ i \in Int
        /\ EmitThen(<<Ins(o, i)>>, <<>>) /\ Needs(o) <= h /\ (o = "ret" => h = 1)
        /\ Rise(item) = Gives(o) - Needs(o)
    BY <2>2, <2>3, <2>4
  <2> HIDE DEF o, i, item
  <2>6. h - Needs(o) + Gives(o) = h + Rise(item)
    BY <1>2, <2>5, CountsTyped
  <2> QED  BY <1>0, <1>1, <2>3, <2>5, <2>6, PlainFits
<1> QED  BY <1>4, <1>5, <1>6

-----------------------------------------------------------------------------
(***************************************************************************)
(* Jumps that get their target                                             *)
(***************************************************************************)

\* The instruction behind a patch might as well have been there before.
LEMMA PatchedLonger ==
    ASSUME BodyInv, NEW x \in CodeIns, NEW j \in Jumps, NEW to \in Int
    PROVE  Append(Patched(code, {j}, to), x) = Patched(code \o <<x>>, {j}, to)
<1> DEFINE n == Len(code)
           c == Patched(code, {j}, to)
           d == code \o <<x>>
           e == Append(c, x)
           f == Patched(d, {j}, to)
<1>1. n \in Nat /\ code \in Seq(CodeIns)
  BY Lengths
<1>2. c \in Seq(CodeIns) /\ Len(c) = n
  BY PatchedCode
<1>3. \A k \in 1..n : c[k] = IF k - 1 \in {j} THEN [code[k] EXCEPT !.a = to] ELSE code[k]
  BY PatchedAt
<1>4. /\ d \in Seq(CodeIns) /\ Len(d) = n + 1 /\ d[n + 1] = x
      /\ \A k \in 1..n : d[k] = code[k]
  BY <1>1, OneMore
<1>5. j \in 0..n - 1
  BY DEF Jumps
<1> HIDE DEF c
<1>6. e \in Seq(CodeIns) /\ Len(e) = n + 1 /\ e[n + 1] = x /\ \A k \in 1..n : e[k] = c[k]
  BY <1>1, <1>2
<1> HIDE DEF n, d, e
<1>7. DOMAIN d = 1..n + 1 /\ \A k \in 1..n + 1 : d[k] \in CodeIns
  BY <1>1, <1>4
<1>8. /\ DOMAIN f = 1..n + 1
      /\ \A k \in 1..n + 1 : f[k] = IF k - 1 \in {j} THEN [d[k] EXCEPT !.a = to] ELSE d[k]
  BY <1>7 DEF Patched
<1>9. f = [k \in 1..n + 1 |-> f[k]]
  BY <1>7 DEF Patched
<1> HIDE DEF f
<1>10. ASSUME NEW k \in 1..n + 1 PROVE f[k] = e[k] /\ e[k] \in CodeIns
  <2>1. CASE k = n + 1
    <3>1. k - 1 \notin {j}
      BY <1>1, <1>5, <2>1
    <3> QED  BY <1>4, <1>6, <1>8, <2>1, <3>1
  <2>2. CASE k # n + 1
    <3>1. k \in 1..n
      BY <1>1, <2>2
    <3>2. f[k] = e[k]
      BY <1>3, <1>4, <1>6, <1>8, <3>1
    <3>3. e[k] \in CodeIns
      BY <1>2, <1>6, <3>1
    <3> QED  BY <3>2, <3>3
  <2> QED  BY <2>1, <2>2
<1>11. f \in Seq(CodeIns) /\ Len(f) = n + 1
  <2>1. f \in [1..n + 1 -> CodeIns]
    BY <1>9, <1>10
  <2>2. n + 1 \in Nat
    BY <1>1
  <2> QED  BY <1>8, <2>1, <2>2, SeqOfFn, LenProperties
<1>12. e = f
  BY <1>6, <1>10, <1>11, SeqEqual
<1> QED  BY <1>12 DEF e, f, c, d

\* A block is closed: the jump over it goes behind a jump.
LEMMA CloseFits ==
    ASSUME BodyInv, UNCHANGED sigs, NEW j \in Jumps, NEW to \in Int, NEW items, IsSeq(items),
           code' = Append(Patched(code, {j}, c0_here + 1), Ins("jump", to)),
           work' = items \o Tail(work), NEW H, Hand(H, 0), Rise(item) = 0, H[j + 1] = 0,
           Len(code) \in Open(items) \/ (to \in 0..Len(code) /\ H[to] = 0),
           Pend(item) \ {j} \subseteq Open(items),
           RouteBehind(items, H, 0, 0)
    PROVE  BodyFits'
<1> DEFINE n == Len(code)
           x == Ins("jump", to)
           left == Open(items) \cup Open(Tail(work))
           wide == left \cup {j}
           c == code \o <<x>>
<1>0. Standing(H) /\ H[n] = 0 /\ work # <<>> /\ n \in Nat
  BY Lengths DEF Hand
<1>1. x \in CodeIns /\ x.op = "jump" /\ x.a = to
  BY DEF Ins, CodeIns, Ops, JumpOps
<1>2. Takes(Arities, x) = 0 /\ Gives(x.op) = 0
  BY <1>1, OpCounts DEF Takes
<1>3. After(Arities, x, 0) = 0
  BY <1>2 DEF After
<1>4. Open(work) \subseteq wide
  <2>1. Open(work) = Pend(item) \cup Open(Tail(work))
    BY <1>0, WorkSplit
  <2> QED  BY <2>1
<1>5. CodeFits(Arities, code, H, Open(work))
  BY <1>0, JumpsInside, Lengths DEF CodeFits, Standing
<1>6. code' = Patched(c, {j}, n + 1)
  <2>1. n + 1 \in Int /\ code' = Append(Patched(code, {j}, n + 1), x)
    BY <1>0 DEF c0_here
  <2> HIDE DEF x, n
  <2>2. Append(Patched(code, {j}, n + 1), x) = Patched(code \o <<x>>, {j}, n + 1)
    BY <1>1, <2>1, PatchedLonger
  <2> QED  BY <2>1, <2>2
<1>7. /\ c \in Seq(CodeIns) /\ Len(c) = n + 1
      /\ \A k \in 1..n : c[k] = code[k]
  BY <1>1, Lengths, OneMore
<1>8. j \in 0..n - 1 /\ j + 1 \in 1..n /\ code[j + 1].op \in JumpOps
  BY <1>0 DEF Jumps
<1>9. n \in wide \/ (x.a \in 0..n /\ H[x.a] = 0)
  BY <1>1
<1> HIDE DEF wide, x
<1>10. Follows(Arities, code, H, x, wide)
  <2>1. Takes(Arities, x) \in Nat /\ Takes(Arities, x) <= H[n] /\ x.op # "ret" /\ x.op # "abi_call"
    BY <1>0, <1>1, <1>2
  <2>2. After(Arities, x, H[n]) = 0
    BY <1>0, <1>3
  <2> QED  BY <1>1, <1>9, <2>1, <2>2 DEF Follows
<1>11. PICK G : Longer(Arities, code, x, wide, H, G)
  BY <1>4, <1>5, <1>10, Emitted
<1>12. /\ Heights(Arities, c, G) /\ Aimed(c, G, wide) /\ G[n + 1] = 0
       /\ \A k \in 0..n : G[k] = H[k]
  BY <1>0, <1>3, <1>11 DEF Longer
<1> HIDE DEF c, n
<1>13. \A i \in {j} : i + 1 \in 1..Len(c) => c[i + 1].op \in JumpOps
  BY <1>7, <1>8
<1>14. \A i \in {j} : G[i + 1] = G[n + 1]
  <2>1. j + 1 \in 0..n
    BY <1>0, <1>8
  <2> QED  BY <1>12, <2>1
<1>15. n + 1 \in Int
  BY <1>0
<1>16. Heights(Arities, Patched(c, {j}, n + 1), G) /\ Aimed(Patched(c, {j}, n + 1), G, wide \ {j})
  BY <1>7, <1>12, <1>13, <1>14, <1>15, PatchedFits
<1>17. Aimed(code', G, left)
  <2>1. wide \ {j} \subseteq left
    BY DEF wide
  <2>2. Aimed(Patched(c, {j}, n + 1), G, left)
    BY <1>16, <2>1, AimedWider
  <2> QED  BY <1>6, <2>2
<1>18. Len(code') = n + 1
  <2>1. DOMAIN c = 1..n + 1
    BY <1>7
  <2>2. DOMAIN Patched(c, {j}, n + 1) = 1..n + 1
    BY <2>1 DEF Patched
  <2>3. Len(Append(Patched(code, {j}, n + 1), x)) = n + 1
    <3>1. Patched(code, {j}, n + 1) \in Seq(CodeIns) /\ Len(Patched(code, {j}, n + 1)) = n
      BY <1>15, PatchedCode DEF n
    <3> QED  BY <1>0, <1>1, <3>1
  <2> QED  BY <2>3 DEF c0_here, n, x
<1>19. Path(items, G[Len(code')], H[Len(code)] + Rise(item), G)
  <2>1. Route(items, 0, 0, G)
    BY <1>12 DEF RouteBehind, n
  <2>2. H[Len(code)] + Rise(item) = 0
    BY <1>0 DEF n
  <2> QED  BY <1>12, <1>18, <2>1, <2>2 DEF Route
<1>20. \A k \in 0..Len(code) : G[k] = H[k]
  BY <1>12 DEF n
<1>21. Heights(Arities, code', G)
  BY <1>6, <1>16
<1> QED  BY <1>0, <1>17, <1>19, <1>20, <1>21, Going

LEMMA PatchesFit ==
    ASSUME BodyInv, ModuleInv, BodyFits, c0_patch \/ LoopEnd \/ ThenEnd
    PROVE  BodyFits'
<1>0. /\ Outside /\ item \in SoundItem /\ work # <<>> /\ Len(code) \in Nat /\ UNCHANGED sigs
      /\ Tail(work) \in Seq(SoundItem)
  BY InHand, Lengths DEF c0_patch, LoopEnd, ThenEnd, Outside
<1>1. PICK H, h : Hand(H, h)
  BY HandFits DEF c0_patch, LoopEnd, ThenEnd
<1>2. h \in Nat /\ ItemFits(item, h, H) /\ Standing(H) /\ h = H[Len(code)]
  BY <1>1 DEF Hand
<1>s. <<>> \o Tail(work) = Tail(work) /\ IsSeq(<<>>)
  <2>1. <<>> \o Tail(work) = Tail(work)
    BY <1>0, ConcatEmptySeq
  <2> QED  BY <2>1, Short
<1>3. CASE c0_patch
  <2>1. item.kind = "patch"
    <3>1. At({"patch"})
      BY <1>3 DEF c0_patch
    <3> QED  BY <3>1, InHand
  <2>2. item.ends \subseteq Jumps
    BY <1>0, <2>1 DEF SoundItem
  <2>3. Rise(item) = 0 /\ Pend(item) = item.ends /\ \A j \in item.ends : H[j + 1] = h
    BY <1>2, <2>1 DEF Rise, Pend, ItemFits
  <2>4. Open(work) = Pend(item) \cup Open(Tail(work))
    BY <1>0, <1>2, WorkSplit
  <2> DEFINE S == item.ends
             n == Len(code)
             c == Patched(code, S, n)
  <2>5. code' = c /\ work' = <<>> \o Tail(work)
    BY <1>3, <1>s DEF c0_patch, c0_here
  <2>6. /\ code \in Seq(CodeIns) /\ Heights(Arities, code, H) /\ Aimed(code, H, Open(work))
        /\ n \in Int /\ Len(c) = n
    BY <1>0, <1>2, Lengths, PatchedCode DEF Standing
  <2>7. \A j \in S : j + 1 \in 1..n => code[j + 1].op \in JumpOps
    BY <2>2 DEF Jumps
  <2>8. \A j \in S : H[j + 1] = H[n]
    BY <1>2, <2>3
  <2>9. S = Pend(item)
    BY <2>3
  <2> HIDE DEF S, n
  <2>10. Heights(Arities, c, H) /\ Aimed(c, H, Open(work) \ S)
    BY <2>6, <2>7, <2>8, PatchedFits DEF n
  <2>11. Open(work) \ S \subseteq Open(<<>>) \cup Open(Tail(work))
    BY <2>4, <2>9
  <2>12. Aimed(c, H, Open(<<>>) \cup Open(Tail(work)))
    BY <2>10, <2>11, AimedWider
  <2>13. Path(<<>>, H[Len(code')], H[Len(code)] + Rise(item), H)
    <3>1. H[Len(code)] + Rise(item) = h /\ H[Len(code')] = h
      BY <1>2, <2>3, <2>5, <2>6 DEF n
    <3> QED  BY <1>2, <3>1, PathNil
  <2>14. \A k \in 0..Len(code) : H[k] = H[k]
    OBVIOUS
  <2> HIDE DEF c
  <2> QED  BY <1>0, <1>2, <1>s, <2>5, <2>10, <2>12, <2>13, <2>14, Going
<1>4. CASE LoopEnd
  <2>1. item.kind = "loop"
    <3>1. At({"loop"})
      BY <1>4 DEF LoopEnd
    <3> QED  BY <3>1, InHand
  <2>2. item.a \in Jumps /\ item.n \in 0..Len(code)
    BY <1>0, <2>1 DEF SoundItem
  <2>3. Rise(item) = 0 /\ Pend(item) = {item.a} /\ h = 0 /\ H[item.a + 1] = 0 /\ H[item.n] = 0
    BY <1>2, <2>1 DEF Rise, Pend, ItemFits
  <2> DEFINE j == item.a
             to == item.n
  <2>4. code' = Append(Patched(code, {j}, c0_here + 1), Ins("jump", to)) /\ work' = <<>> \o Tail(work)
    BY <1>4, <1>s DEF LoopEnd
  <2>5. j \in Jumps /\ to \in 0..Len(code) /\ to \in Int /\ H[j + 1] = 0 /\ H[to] = 0
        /\ Pend(item) \ {j} \subseteq Open(<<>>)
    BY <2>2, <2>3
  <2> HIDE DEF j, to, item
  <2>6. Hand(H, 0)
    BY <1>1, <2>3
  <2>7. RouteBehind(<<>>, H, 0, 0)
    BY RouteNil DEF RouteBehind
  <2> QED  BY <1>0, <1>s, <2>3, <2>4, <2>5, <2>6, <2>7, CloseFits
<1>5. CASE ThenEnd
  <2>1. item.kind = "then"
    <3>1. At({"then"})
      BY <1>5 DEF ThenEnd
    <3> QED  BY <3>1, InHand
  <2>2. item.a \in Jumps /\ item.ends \subseteq Jumps
    BY <1>0, <2>1 DEF SoundItem
  <2>3. /\ Rise(item) = 0 /\ Pend(item) = item.ends \cup {item.a} /\ h = 0
        /\ H[item.a + 1] = 0 /\ \A i \in item.ends : H[i + 1] = 0
    BY <1>2, <2>1 DEF Rise, Pend, ItemFits
  <2> DEFINE j == item.a
             n == Len(code)
             ends == item.ends \cup {n}
  <2>4. code' = Append(Patched(code, {j}, c0_here + 1), Ins("jump", 0))
    BY <1>5 DEF ThenEnd
  <2>5. j \in Jumps /\ H[j + 1] = 0 /\ Pend(item) \ {j} \subseteq ends /\ n \in ends
    BY <2>2, <2>3
  <2>6. \/ work' = c0_expr \o <<[Item("if") EXCEPT !.ends = ends]>> \o Tail(work)
        \/ work' = <<Item("block"), PatchAt(ends)>> \o Tail(work)
        \/ work' = <<PatchAt(ends)>> \o Tail(work)
    BY <1>5 DEF ThenEnd, c0_here
  <2>7. ASSUME NEW G, \A k \in 0..n : G[k] = H[k], G[n + 1] = 0
        PROVE  \A i \in ends : G[i + 1] = 0
    <3>1. ASSUME NEW i \in item.ends PROVE G[i + 1] = 0
      <4>1. i + 1 \in 0..n
        BY <1>0, <2>2 DEF Jumps
      <4> QED  BY <2>3, <2>7, <4>1
    <3> QED  BY <2>7, <3>1
  <2>8. Hand(H, 0)
    BY <1>1, <2>3
  <2> HIDE DEF j, item, ends
  <2>9. ASSUME NEW items, work' = items \o Tail(work), ends \subseteq Open(items), IsSeq(items),
               RouteBehind(items, H, 0, 0)
        PROVE  BodyFits'
    <3>1. Pend(item) \ {j} \subseteq Open(items) /\ Len(code) \in Open(items) /\ 0 \in Int
      BY <2>5, <2>9
    <3> QED  BY <1>0, <2>3, <2>4, <2>5, <2>8, <2>9, <3>1, CloseFits
  <2> HIDE DEF n
  <2>10. CASE work' = c0_expr \o <<[Item("if") EXCEPT !.ends = ends]>> \o Tail(work)
    <3> DEFINE w == [Item("if") EXCEPT !.ends = ends]
               items == c0_expr \o <<w>>
    <3>1. w.kind = "if" /\ w.ends = ends
      BY Made
    <3>2. work' = items \o Tail(work)
      BY <2>10
    <3> HIDE DEF w
    <3>3. ASSUME NEW G, \A i \in ends : G[i + 1] = 0
          PROVE  Route(items, 0, 0, G) /\ ends \subseteq Open(items)
      <4>1. Goes(w, 1, 0, G) /\ Pend(w) = ends
        <5>1. ItemFits(w, 1, G) /\ Rise(w) = -1 /\ Pend(w) = ends
          BY <3>1, <3>3 DEF ItemFits, Rise, Pend
        <5> QED  BY <5>1 DEF Goes
      <4>2. Goes(w, 0 + 1, 0, G)
        BY <4>1
      <4> QED  BY <4>1, <4>2, ExprThenOne
    <3> HIDE DEF items
    <3>4. RouteBehind(items, H, 0, 0)
      BY <2>7, <3>3 DEF RouteBehind, n
    <3>5. IsSeq(items) /\ ends \subseteq Open(items)
      <4>1. \A i \in ends : [k \in Int |-> 0][i + 1] = 0
        BY <1>0, <2>2 DEF Jumps, ends, n
      <4> QED  BY <3>3, <4>1 DEF Route
    <3> QED  BY <2>9, <3>2, <3>4, <3>5
  <2>11. CASE work' = <<Item("block"), PatchAt(ends)>> \o Tail(work)
    <3> DEFINE b == Item("block")
               p == PatchAt(ends)
               items == <<b, p>>
    <3>1. p.kind = "patch" /\ p.ends = ends
      BY Made
    <3>2. work' = items \o Tail(work)
      BY <2>11
    <3>3. \A G : Goes(b, 0, 0, G)
      BY ItemGoes
    <3> HIDE DEF b, p
    <3>4. Pend(p) = ends
      BY <3>1 DEF Pend
    <3>5. IsSeq(items) /\ ends \subseteq Open(items)
      <4>1. IsSeq(items)
        BY Short
      <4>2. Open(items) = Pend(b) \cup Pend(p)
        BY OpenShort
      <4> QED  BY <3>4, <4>1, <4>2
    <3>6. ASSUME NEW G, \A i \in ends : G[i + 1] = 0 PROVE Route(items, 0, 0, G)
      <4>1. Goes(p, 0, 0, G)
        BY <3>1, <3>6, PatchGoes
      <4> QED  BY <3>3, <4>1, RouteTwo
    <3> HIDE DEF items
    <3>7. RouteBehind(items, H, 0, 0)
      BY <2>7, <3>6 DEF RouteBehind, n
    <3> QED  BY <2>9, <3>2, <3>5, <3>7
  <2>12. CASE work' = <<PatchAt(ends)>> \o Tail(work)
    <3> DEFINE p == PatchAt(ends)
               items == <<p>>
    <3>1. p.kind = "patch" /\ p.ends = ends
      BY Made
    <3>2. work' = items \o Tail(work)
      BY <2>12
    <3> HIDE DEF p
    <3>3. Pend(p) = ends
      BY <3>1 DEF Pend
    <3>4. IsSeq(items) /\ ends \subseteq Open(items)
      <4>1. IsSeq(items)
        BY Short
      <4>2. Open(items) = Pend(p)
        BY OpenShort
      <4> QED  BY <3>3, <4>1, <4>2
    <3>5. ASSUME NEW G, \A i \in ends : G[i + 1] = 0 PROVE Route(items, 0, 0, G)
      <4>1. Goes(p, 0, 0, G)
        BY <3>1, <3>5, PatchGoes
      <4> QED  BY <4>1, RouteOne
    <3> HIDE DEF items
    <3>6. RouteBehind(items, H, 0, 0)
      BY <2>7, <3>5 DEF RouteBehind, n
    <3> QED  BY <2>9, <3>2, <3>4, <3>6
  <2> QED  BY <2>6, <2>10, <2>11, <2>12
<1> QED  BY <1>3, <1>4, <1>5

-----------------------------------------------------------------------------
(***************************************************************************)
(* Assignments and statements leave the stack as they found it             *)
(***************************************************************************)

\* An item that leaves the stack alone gives way to work that does.
LEMMA LevelFits ==
    ASSUME BodyInv, Outside, NEW items, Then(items), NEW H, NEW h, Hand(H, h), Rise(item) = 0,
           Pend(item) \subseteq Open(items), Route(items, h, h, H)
    PROVE  BodyFits'
<1>1. h + Rise(item) = h
  BY DEF Hand
<1> QED  BY <1>1, ThenFits

LEMMA NothingFits ==
    ASSUME BodyInv, Outside, Then(<<>>), NEW H, NEW h, Hand(H, h), Rise(item) = 0, Pend(item) = {}
    PROVE  BodyFits'
<1>1. Route(<<>>, h, h, H)
  BY RouteNil DEF Hand
<1> QED  BY <1>1, LevelFits

\* a[i] = e: two operands that store_index takes.
LEMMA IndexRoute ==
    ASSUME NEW h \in Nat, NEW H, NEW i
    PROVE  Route(c0_expr \o <<Close("]=")>> \o c0_expr \o <<Emit("store_index", i)>>, h, h, H)
<1> DEFINE c == <<Close("]=")>>
           e == <<Emit("store_index", i)>>
<1>1. Route(c0_expr, h, h + 1, H) /\ h + 1 \in Nat /\ Route(c0_expr, h + 1, (h + 1) + 1, H)
  BY ExprRoute
<1>2. Goes(Close("]="), h + 1, h + 1, H)
  BY <1>1, CloseGoes
<1>3. Goes(Emit("store_index", i), (h + 1) + 1, h, H)
  BY OperatorGoes
<1>4. Route(c, h + 1, h + 1, H)
  BY <1>2, RouteOne
<1>5. Route(e, (h + 1) + 1, h, H)
  BY <1>3, RouteOne
<1> HIDE DEF c, e
<1>6. Route(c0_expr \o c, h, h + 1, H)
  BY <1>1, <1>4, RouteJoined
<1>7. Route((c0_expr \o c) \o c0_expr, h, (h + 1) + 1, H)
  BY <1>1, <1>6, RouteJoined
<1>8. Route(((c0_expr \o c) \o c0_expr) \o e, h, h, H)
  BY <1>5, <1>7, RouteJoined
<1> QED  BY <1>8 DEF c, e

\* The next element of an array literal: its index, its value, the store.
LEMMA ElementFits ==
    ASSUME BodyInv, Outside, NEW n \in Nat, NEW i, NEW w, w.kind = "more",
           EmitThen(<<Ins("push", n)>>, c0_expr \o <<Emit("store_index", i), w>>),
           NEW H, NEW h, Hand(H, h), Rise(item) = 0, Pend(item) = {}
    PROVE  BodyFits'
<1> DEFINE x == Ins("push", n)
           e == Emit("store_index", i)
           items == c0_expr \o <<e, w>>
<1>0. h \in Nat /\ h = H[Len(code)] /\ h + 1 \in Nat /\ h + Rise(item) = h
  BY DEF Hand
<1>1. x \in CodeIns /\ x.op = "push"
  BY DEF Ins, CodeIns, Ops
<1>2. Needs("push") = 0 /\ Gives("push") = 1
  BY OpCounts
<1>3. EmitThen(<<x>>, items)
  OBVIOUS
<1>4. \A G : Goes(e, (h + 1) + 1, h, G)
  BY <1>0, OperatorGoes
<1> HIDE DEF x, e
<1>5. Takes(Arities, x) = 0 /\ After(Arities, x, h) = h + 1
  BY <1>0, <1>1, <1>2 DEF Takes, After
<1>6. \A G : Goes(w, h, h, G)
  BY <1>0, PlainGoes
<1>7. \A G : Route(items, h + 1, h, G)
  BY <1>0, <1>4, <1>6, ExprThenTwo
<1> HIDE DEF items
<1>8. Follows(Arities, code, H, x, Open(items))
  BY <1>0, <1>1, <1>5 DEF Follows, JumpOps
<1>9. IsSeq(items)
  BY <1>7 DEF Route
<1>10. RouteBehind(items, H, After(Arities, x, h), h + Rise(item))
  BY <1>0, <1>5, <1>7 DEF RouteBehind
<1> QED  BY <1>3, <1>8, <1>9, <1>10, EmitFits

LEMMA AssignmentsFit ==
    ASSUME BodyInv, ModuleInv, BodyFits, Assignments, reject' = "none"
    PROVE  BodyFits'
<1>0. Outside /\ item \in SoundItem
  BY InHand DEF Assignments, AssignIndex, AssignLiteral, Literal, ArrayElement, MoreElements,
                AssignScalar, Unsupported
<1>1. PICK H, h : Hand(H, h)
  BY HandFits DEF Assignments, AssignIndex, AssignLiteral, Literal, ArrayElement, MoreElements,
                AssignScalar, Unsupported
<1>2. h \in Nat
  BY <1>1 DEF Hand
<1>3. item.kind \in {"assign", "literal", "elem", "more"} => Rise(item) = 0 /\ Pend(item) = {}
  BY DEF Rise, Pend
<1>4. ASSUME NEW why, c0_fail(why) PROVE reject' = why
  BY <1>4 DEF c0_fail
<1>5. ASSUME item.kind \in {"assign", "literal", "elem", "more"}, NEW items, Then(items),
             Route(items, h, h, H)
      PROVE  BodyFits'
  BY <1>0, <1>1, <1>3, <1>5, LevelFits
<1>6. ASSUME item.kind \in {"assign", "literal", "elem", "more"}, Then(<<>>) PROVE BodyFits'
  BY <1>0, <1>1, <1>3, <1>6, NothingFits
<1>7. ASSUME item.kind \in {"assign", "literal", "elem", "more"}, NEW w, Then(<<w>>),
             w.kind \in {"literal", "elem"}
      PROVE  BodyFits'
  <2>1. Goes(w, h, h, H)
    BY <1>2, <1>7, PlainGoes
  <2>2. Route(<<w>>, h, h, H)
    BY <2>1, RouteOne
  <2> QED  BY <1>5, <1>7, <2>2
<1>8. CASE AssignIndex
  <2>1. item.kind = "assign"
    BY <1>8, InHand DEF AssignIndex
  <2>2. PICK name : Then(c0_expr \o <<Close("]=")>> \o c0_expr
                            \o <<Emit("store_index", Slot(name))>>)
    BY <1>4, <1>8 DEF AssignIndex
  <2> QED  BY <1>2, <1>5, <2>1, <2>2, IndexRoute
<1>9. CASE AssignLiteral
  <2>1. item.kind = "assign"
    BY <1>9, InHand DEF AssignLiteral
  <2>2. PICK name : Then(<<Do("literal", Slot(name), 0)>>)
    BY <1>4, <1>9 DEF AssignLiteral
  <2>3. Do("literal", Slot(name), 0).kind = "literal"
    BY Made
  <2> QED  BY <1>7, <2>1, <2>2, <2>3
<1>10. CASE Literal
  <2>1. item.kind = "literal"
    <3>1. At({"literal"})
      BY <1>10 DEF Literal
    <3> QED  BY <3>1, InHand
  <2>2. [item EXCEPT !.kind = "elem"].kind = "elem"
    BY <1>0 DEF SoundItem, WorkItem
  <2>3. Then(<<>>) \/ Then(<<[item EXCEPT !.kind = "elem"]>>)
    BY <1>10 DEF Literal
  <2> QED  BY <1>6, <1>7, <2>1, <2>2, <2>3
<1>11. CASE MoreElements
  <2>1. item.kind = "more"
    <3>1. At({"more"})
      BY <1>11 DEF MoreElements
    <3> QED  BY <3>1, InHand
  <2>2. [item EXCEPT !.kind = "elem", !.n = @ + 1].kind = "elem"
    BY <1>0 DEF SoundItem, WorkItem
  <2>3. Then(<<>>) \/ Then(<<[item EXCEPT !.kind = "elem", !.n = @ + 1]>>)
    BY <1>11 DEF MoreElements
  <2> QED  BY <1>6, <1>7, <2>1, <2>2, <2>3
<1>12. CASE AssignScalar
  <2>1. item.kind = "assign"
    BY <1>12, InHand DEF AssignScalar
  <2>2. PICK name : Then(c0_expr \o <<[Item("store") EXCEPT !.name = name]>>)
    BY <1>12 DEF AssignScalar
  <2>3. Goes([Item("store") EXCEPT !.name = name], h + 1, h, H)
    BY <1>2, ItemGoes
  <2> DEFINE w == [Item("store") EXCEPT !.name = name]
  <2> HIDE DEF w
  <2>4. Route(c0_expr \o <<w>>, h, h, H)
    BY <1>2, <2>3, ExprThenOne DEF w
  <2>5. Then(c0_expr \o <<w>>)
    BY <2>2 DEF w
  <2> QED  BY <1>5, <2>1, <2>4, <2>5
<1>13. CASE ArrayElement
  <2>1. item.kind = "elem"
    <3>1. At({"elem"})
      BY <1>13 DEF ArrayElement
    <3> QED  BY <3>1, InHand
  <2>2. item.n \in Nat /\ [item EXCEPT !.kind = "more"].kind = "more"
    BY <1>0, ItemTyped DEF SoundItem, WorkItem
  <2>3. EmitThen(<<Ins("push", item.n)>>,
                 c0_expr \o <<Emit("store_index", item.a), [item EXCEPT !.kind = "more"]>>)
    BY <1>4, <1>13 DEF ArrayElement
  <2> HIDE DEF item
  <2> QED  BY <1>0, <1>1, <1>3, <2>1, <2>2, <2>3, ElementFits
<1> QED
  BY <1>4, <1>8, <1>9, <1>10, <1>11, <1>12, <1>13 DEF Assignments, Unsupported

\* What changes only the locals.
LEMMA DeclareFits ==
    ASSUME BodyInv, ModuleInv, BodyFits, Declare, reject' = "none"
    PROVE  BodyFits'
<1>0. Outside /\ item.kind = "assign"
  BY InHand DEF Declare
<1>1. PICK H, h : Hand(H, h)
  BY HandFits DEF Declare
<1>2. h \in Nat /\ Rise(item) = 0 /\ Pend(item) = {} /\ h + Rise(item) = h
  BY <1>0, <1>1 DEF Hand, Rise, Pend
<1>3. ASSUME NEW why, c0_fail(why) PROVE reject' = why
  BY <1>3 DEF c0_fail
<1>4. \E l : \E literal \in {<<>>, <<Do("literal", l, 0)>>} :
         work' = literal \o Tail(work) /\ UNCHANGED code
  BY <1>3 DEF Declare
<1>b. PICK l : \E literal \in {<<>>, <<Do("literal", l, 0)>>} :
         work' = literal \o Tail(work) /\ UNCHANGED code
  BY <1>4
<1>c. PICK literal \in {<<>>, <<Do("literal", l, 0)>>} :
         work' = literal \o Tail(work) /\ UNCHANGED code
  BY <1>b
<1>5. UNCHANGED <<sigs, code>>
  BY <1>0, <1>c DEF Outside
<1>6. Route(literal, h, h + Rise(item), H)
  <2>1. Route(<<>>, h, h, H)
    BY <1>2, RouteNil
  <2>2. Goes(Do("literal", l, 0), h, h, H)
    BY <1>2, ItemGoes
  <2>3. Route(<<Do("literal", l, 0)>>, h, h, H)
    BY <2>2, RouteOne
  <2> QED  BY <1>2, <2>1, <2>3
<1>7. Pend(item) \subseteq Open(literal)
  BY <1>2
<1> QED  BY <1>1, <1>c, <1>5, <1>6, <1>7, QuietFits

LEMMA ParamFits ==
    ASSUME BodyInv, ModuleInv, BodyFits, Param, reject' = "none"
    PROVE  BodyFits'
<1>a. At({"param"}) /\ Outside
  BY DEF Param
<1>0. item.kind = "param" /\ Tail(work) \in Seq(SoundItem)
  BY <1>a, InHand
<1>1. PICK H, h : Hand(H, h)
  BY <1>a, HandFits
<1>2. h \in Nat /\ Rise(item) = 0 /\ Pend(item) = {} /\ h + Rise(item) = h
  BY <1>0, <1>1 DEF Hand, Rise, Pend
<1>3. ASSUME NEW why, c0_fail(why) PROVE reject' = why
  BY <1>3 DEF c0_fail
<1>4. work' = Tail(work) /\ UNCHANGED code
  BY <1>3 DEF Param
<1>5. UNCHANGED <<sigs, code>> /\ work' = <<>> \o Tail(work)
  <2>1. <<>> \o Tail(work) = Tail(work)
    BY <1>0, ConcatEmptySeq
  <2> QED  BY <1>a, <1>4, <2>1 DEF Outside
<1>6. Route(<<>>, h, h + Rise(item), H)
  BY <1>2, RouteNil
<1>7. Pend(item) \subseteq Open(<<>>)
  BY <1>2
<1> QED  BY <1>1, <1>5, <1>6, <1>7, QuietFits

LEMMA StoreFits ==
    ASSUME BodyInv, ModuleInv, BodyFits, StoreScalar, reject' = "none"
    PROVE  BodyFits'
<1>a. At({"store"}) /\ Outside
  BY DEF StoreScalar
<1>0. item.kind = "store" /\ Tail(work) \in Seq(SoundItem) /\ item \in SoundItem
  BY <1>a, InHand
<1>1. PICK H, h : Hand(H, h)
  BY <1>a, HandFits
<1>2. h \in Nat /\ h >= 1 /\ Rise(item) = -1 /\ Pend(item) = {} /\ h = H[Len(code)]
  BY <1>0, <1>1 DEF Hand, Rise, Pend, ItemFits
<1>3. ASSUME NEW why, c0_fail(why) PROVE reject' = why
  BY <1>3 DEF c0_fail
<1> DEFINE name == item.name
           x == Ins("store", SlotAfter(name))
<1>4. /\ ~Full(name) /\ code' = Append(code, x) /\ work' = Tail(work)
  BY <1>3 DEF StoreScalar
<1>5. SlotAfter(name) \in Int
  <2>1. name \in Idents
    BY <1>0 DEF SoundItem
  <2> HIDE DEF name
  <2>2. SlotAfter(name) \in 0..Len(LocalsWith(name)) - 1
    BY <1>4, <2>1, LocalAdded
  <2> QED  BY <2>2
<1>6. x \in CodeIns /\ x.op = "store"
  BY <1>5 DEF Ins, CodeIns, Ops, LocalOps
<1> HIDE DEF name, x, item
<1>7. Takes(Arities, x) = 1 /\ Gives(x.op) = 0
  <2>1. Needs("store") = 1 /\ Gives("store") = 0
    BY OpCounts
  <2> QED  BY <1>6, <2>1 DEF Takes
<1>8. After(Arities, x, h) = h + Rise(item) /\ After(Arities, x, h) \in Nat
  BY <1>2, <1>7 DEF After
<1>9. /\ UNCHANGED sigs /\ work' = <<>> \o Tail(work) /\ code' = code \o <<x>> /\ IsSeq(<<>>)
  <2>1. <<>> \o Tail(work) = Tail(work)
    BY <1>0, ConcatEmptySeq
  <2>2. code \in Seq(CodeIns)
    BY Lengths
  <2>3. Append(code, x) = code \o <<x>>
    BY <1>6, <2>2, AppendIsConcat
  <2> QED  BY <1>a, <1>4, <2>1, <2>3, Short DEF Outside
<1>10. Follows(Arities, code, H, x, Open(<<>>))
  BY <1>2, <1>6, <1>7 DEF Follows, JumpOps
<1>11. RouteBehind(<<>>, H, After(Arities, x, h), h + Rise(item))
  BY <1>8, RouteNil DEF RouteBehind
<1>12. Pend(item) \subseteq Open(<<>>)
  BY <1>2
<1> QED  BY <1>1, <1>9, <1>10, <1>11, <1>12, WriteFits

\* A statement is compiled in front of the loop that reads statements.
LEMMA StatementFits ==
    ASSUME BodyInv, Outside, item.kind \in {"body", "block"}, NEW items, Statement(items),
           NEW H, NEW h, Hand(H, h), Route(items, 0, 0, H)
    PROVE  BodyFits'
<1>1. /\ ItemFits(item, h, H) /\ h = 0 /\ Rise(item) = 0 /\ Pend(item) = {}
  BY DEF Hand, ItemFits, Rise, Pend
<1> DEFINE w == item
           u == <<w>>
<1>2. Then(items \o u)
  BY DEF Statement
<1>3. Goes(w, 0, 0, H) /\ Rise(item) = 0 /\ Pend(item) = {}
  BY <1>1 DEF Goes
<1> HIDE DEF w, item
<1>4. Route(u, 0, 0, H)
  BY <1>3, RouteOne
<1> HIDE DEF u
<1>5. Route(items \o u, 0, 0, H)
  BY <1>4, RouteJoined
<1> QED  BY <1>1, <1>2, <1>3, <1>5, LevelFits

LEMMA StartsFit ==
    ASSUME BodyInv, ModuleInv, BodyFits, Starts, reject' = "none"
    PROVE  BodyFits'
<1>0. Outside /\ item.kind \in {"body", "block"}
  BY InHand DEF Starts, AssignStmt, ReturnStmt, HashLoop, If, While, For
<1>1. PICK H, h : Hand(H, h)
  BY HandFits DEF Starts, AssignStmt, ReturnStmt, HashLoop, If, While, For
<1>2. h = 0 /\ H[Len(code)] = 0
  BY <1>0, <1>1 DEF Hand, ItemFits
<1>3. ASSUME NEW items, Statement(items), Route(items, 0, 0, H) PROVE BodyFits'
  BY <1>0, <1>1, <1>3, StatementFits
<1>4. CASE AssignStmt
  <2>1. Goes(Item("assign"), 0, 0, H) /\ Goes(Close(";"), 0, 0, H)
    BY ItemGoes, CloseGoes
  <2>2. Route(<<Item("assign"), Close(";")>>, 0, 0, H)
    BY <2>1, RouteTwo
  <2> QED  BY <1>3, <1>4, <2>2 DEF AssignStmt
<1>5. CASE ReturnStmt
  <2>1. Goes(Item("semi"), 1, 1, H) /\ Goes(Emit("ret", 0), 1, 0, H)
    BY ItemGoes, OperatorGoes
  <2>2. Goes(Item("semi"), 0 + 1, 1, H)
    BY <2>1
  <2>3. Route(c0_expr \o <<Item("semi"), Emit("ret", 0)>>, 0, 0, H)
    BY <2>1, <2>2, ExprThenTwo
  <2> QED  BY <1>3, <1>5, <2>3 DEF ReturnStmt
<1>6. ASSUME NEW w, ItemFits(w, 1, H), Rise(w) = -1, Statement(c0_expr \o <<w>>) PROVE BodyFits'
  <2>1. Goes(w, 0 + 1, 0, H)
    BY <1>6 DEF Goes
  <2>2. Route(c0_expr \o <<w>>, 0, 0, H)
    BY <2>1, ExprThenOne
  <2> QED  BY <1>3, <1>6, <2>2
<1>7. CASE If
  <2> DEFINE w == Item("if")
  <2>1. w.kind = "if" /\ w.ends = {}
    BY Made
  <2>2. Statement(c0_expr \o <<w>>)
    BY <1>7 DEF If
  <2> HIDE DEF w
  <2>3. ItemFits(w, 1, H) /\ Rise(w) = -1
    BY <2>1 DEF ItemFits, Rise
  <2> QED  BY <1>6, <2>2, <2>3
<1>8. CASE While
  <2> DEFINE n == Len(code)
             w == Do("while", 0, n)
  <2>1. w.kind = "while" /\ w.n = n
    BY Made
  <2>2. Statement(c0_expr \o <<w>>)
    BY <1>8 DEF While, c0_here
  <2>3. H[n] = 0
    BY <1>2
  <2> HIDE DEF w, n
  <2>4. ItemFits(w, 1, H) /\ Rise(w) = -1
    BY <2>1, <2>3 DEF ItemFits, Rise
  <2> QED  BY <1>6, <2>2, <2>4
<1>9. CASE For
  <2>1. PICK init \in {<<>>, <<Item("assign")>>} : Statement(init \o <<Item("cond")>>)
    BY <1>9 DEF For
  <2>2. Route(init, 0, 0, H)
    <3>1. Goes(Item("assign"), 0, 0, H)
      BY ItemGoes
    <3>2. Route(<<Item("assign")>>, 0, 0, H)
      BY <3>1, RouteOne
    <3>3. Route(<<>>, 0, 0, H)
      BY RouteNil
    <3> QED  BY <3>2, <3>3
  <2> DEFINE u == <<Item("cond")>>
  <2>3. Route(u, 0, 0, H)
    <3>1. Goes(Item("cond"), 0, 0, H)
      BY ItemGoes
    <3> QED  BY <3>1, RouteOne
  <2>4. Statement(init \o u)
    BY <2>1
  <2> HIDE DEF u
  <2>5. Route(init \o u, 0, 0, H)
    BY <2>2, <2>3, RouteJoined
  <2> QED  BY <1>3, <2>4, <2>5
<1>10. ~HashLoop
  BY DEF HashLoop, c0_fail
<1> QED  BY <1>4, <1>5, <1>7, <1>8, <1>9, <1>10 DEF Starts

\* A condition has been compiled: the jump over the block takes it.
LEMMA OverFits ==
    ASSUME BodyInv, Outside, item.kind \in {"if", "while", "for"}, NEW w,
           w.kind \in {"then", "step", "loop"}, w.a = Len(code), NEW H, NEW h, Hand(H, h),
           EmitThen(<<Ins("jump_if_false", 0)>>, <<Item("block"), w>>),
           Pend(item) \subseteq Pend(w),
           \A G : (/\ \A k \in 0..Len(code) : G[k] = H[k]
                   /\ G[Len(code) + 1] = 0) => ItemFits(w, 0, G)
    PROVE  BodyFits'
<1>0. h = 1 /\ H[Len(code)] = 1 /\ Rise(item) = -1 /\ Len(code) \in Nat
  BY Lengths DEF Hand, ItemFits, Rise
<1> DEFINE b == Item("block")
           x == Ins("jump_if_false", 0)
           items == <<b, w>>
<1>1. x \in CodeIns /\ x.op = "jump_if_false"
  BY DEF Ins, CodeIns, Ops, JumpOps
<1>2. Needs("jump_if_false") = 1 /\ Gives("jump_if_false") = 0
  BY OpCounts
<1>3. EmitThen(<<x>>, items)
  OBVIOUS
<1>4. \A G : Goes(b, 0, 0, G)
  BY ItemGoes
<1> HIDE DEF x, b
<1>5. Takes(Arities, x) = 1 /\ After(Arities, x, h) = 0 /\ h + Rise(item) = 0
  BY <1>0, <1>1, <1>2 DEF Takes, After
<1>6. Rise(w) = 0 /\ Len(code) \in Pend(w)
  BY DEF Rise, Pend
<1>7. IsSeq(items) /\ Open(items) = Pend(b) \cup Pend(w)
  BY Short, OpenShort
<1>8. ASSUME NEW G, ItemFits(w, 0, G) PROVE Route(items, 0, 0, G)
  <2>1. Goes(w, 0, 0, G)
    BY <1>6, <1>8 DEF Goes
  <2> QED  BY <1>4, <2>1, RouteTwo
<1> HIDE DEF items
<1>9. RouteBehind(items, H, 0, 0)
  BY <1>8 DEF RouteBehind
<1>10. Follows(Arities, code, H, x, Open(items))
  <2>1. Len(code) \in Open(items)
    BY <1>6, <1>7
  <2>2. Takes(Arities, x) \in Nat /\ Takes(Arities, x) <= H[Len(code)]
    BY <1>0, <1>5
  <2> QED  BY <1>1, <2>1, <2>2 DEF Follows
<1>11. Pend(item) \subseteq Open(items)
  BY <1>7
<1>12. RouteBehind(items, H, After(Arities, x, h), h + Rise(item))
  BY <1>5, <1>9
<1> QED  BY <1>3, <1>7, <1>10, <1>11, <1>12, EmitFits

LEMMA BlocksFit ==
    ASSUME BodyInv, ModuleInv, BodyFits, Blocks
    PROVE  BodyFits'
<1>0. Outside /\ item \in SoundItem /\ Len(code) \in Nat
  BY InHand, Lengths DEF Blocks, IfBlock, WhileBlock, ForBlock, ForStep, ForCond, BlockEnd,
                         OptionalSemicolon
<1>1. PICK H, h : Hand(H, h)
  BY HandFits DEF Blocks, IfBlock, WhileBlock, ForBlock, ForStep, ForCond, BlockEnd,
                  OptionalSemicolon
<1>2. h \in Nat /\ ItemFits(item, h, H) /\ h = H[Len(code)]
  BY <1>1 DEF Hand
<1>3. CASE IfBlock
  <2>1. item.kind = "if"
    <3>1. At({"if"})
      BY <1>3 DEF IfBlock
    <3> QED  BY <3>1, InHand
  <2>2. item.ends \subseteq Jumps
    BY <1>0, <2>1 DEF SoundItem
  <2>3. Pend(item) = item.ends /\ \A j \in item.ends : H[j + 1] = 0
    BY <1>2, <2>1 DEF Pend, ItemFits
  <2> DEFINE ends == item.ends
             n == Len(code)
             w == [Do("then", n, 0) EXCEPT !.ends = ends]
  <2>4. w.kind = "then" /\ w.a = n /\ w.ends = ends
    BY Made
  <2>5. EmitThen(<<Ins("jump_if_false", 0)>>, <<Item("block"), w>>)
    BY <1>3 DEF IfBlock, c0_here
  <2>6. \A j \in ends : j + 1 \in 0..n /\ H[j + 1] = 0
    BY <1>0, <2>2, <2>3 DEF Jumps
  <2>7. Pend(item) = ends
    BY <2>3
  <2> HIDE DEF w, ends, item
  <2>8. Pend(item) \subseteq Pend(w)
    BY <2>4, <2>7 DEF Pend
  <2>9. ASSUME NEW G, \A k \in 0..Len(code) : G[k] = H[k], G[Len(code) + 1] = 0
        PROVE  ItemFits(w, 0, G)
    <3>1. \A j \in w.ends : G[j + 1] = 0
      BY <2>4, <2>6, <2>9
    <3>2. G[w.a + 1] = 0
      BY <2>4, <2>9
    <3> QED  BY <2>4, <3>1, <3>2 DEF ItemFits
  <2> QED  BY <1>0, <1>1, <2>1, <2>4, <2>5, <2>8, <2>9, OverFits
<1>4. ASSUME NEW k \in {"loop", "step"}, item.kind \in {"while", "for"},
             EmitThen(<<Ins("jump_if_false", 0)>>, <<Item("block"), Do(k, c0_here, item.n)>>)
      PROVE  BodyFits'
  <2>1. item.n \in 0..Len(code) /\ H[item.n] = 0 /\ Pend(item) = {}
    BY <1>0, <1>2, <1>4 DEF SoundItem, ItemFits, Pend
  <2> DEFINE n == Len(code)
             to == item.n
             w == Do(k, n, to)
  <2>2. w.kind = k /\ w.a = n /\ w.n = to
    BY Made
  <2>3. EmitThen(<<Ins("jump_if_false", 0)>>, <<Item("block"), w>>)
    BY <1>4 DEF c0_here
  <2>4. to \in 0..n /\ H[to] = 0
    BY <2>1
  <2> HIDE DEF w, to, item
  <2>5. ASSUME NEW G, \A i \in 0..Len(code) : G[i] = H[i], G[Len(code) + 1] = 0
        PROVE  ItemFits(w, 0, G)
    <3>1. G[w.a + 1] = 0 /\ G[w.n] = 0
      BY <2>2, <2>4, <2>5
    <3>2. w.kind \in {"loop", "step"}
      BY <2>2
    <3> QED  BY <3>1, <3>2 DEF ItemFits
  <2>6. w.kind \in {"then", "step", "loop"} /\ w.a = Len(code)
        /\ item.kind \in {"if", "while", "for"} /\ Pend(item) \subseteq Pend(w)
    BY <1>4, <2>1, <2>2
  <2> QED  BY <1>0, <1>1, <2>3, <2>5, <2>6, OverFits
<1>5. CASE WhileBlock
  <2>1. At({"while"})
    BY <1>5 DEF WhileBlock
  <2>2. item.kind = "while"
    BY <2>1, InHand
  <2> QED  BY <1>4, <1>5, <2>2 DEF WhileBlock
<1>6. CASE ForBlock
  <2>1. At({"for"})
    BY <1>6 DEF ForBlock
  <2>2. item.kind = "for"
    BY <2>1, InHand
  <2> QED  BY <1>4, <1>6, <2>2 DEF ForBlock
<1>7. CASE ForStep
  <2>1. item.kind = "step"
    <3>1. At({"step"})
      BY <1>7 DEF ForStep
    <3> QED  BY <3>1, InHand
  <2>2. Rise(item) = 0 /\ Pend(item) = {item.a} /\ h = 0 /\ H[item.a + 1] = 0 /\ H[item.n] = 0
    BY <1>2, <2>1 DEF Rise, Pend, ItemFits
  <2>3. PICK step \in {<<>>, <<Item("assign")>>} :
          Then(step \o <<Close(")"), Do("loop", item.a, item.n)>>)
    BY <1>7 DEF ForStep
  <2> DEFINE i == item.a
             to == item.n
             c == Close(")")
             w == Do("loop", i, to)
             u == <<c, w>>
  <2>4. w.kind = "loop" /\ w.a = i /\ w.n = to
    BY Made
  <2>5. Then(step \o u)
    BY <2>3
  <2>6. Goes(c, 0, 0, H)
    BY CloseGoes
  <2>7. Pend(item) = {i} /\ H[i + 1] = 0 /\ H[to] = 0 /\ Rise(item) = 0
    BY <2>2
  <2> HIDE DEF w, i, to, item, c
  <2>8. ItemFits(w, 0, H) /\ Rise(w) = 0 /\ Pend(w) = {i}
    BY <2>4, <2>7 DEF ItemFits, Rise, Pend
  <2>9. Goes(w, 0, 0, H)
    BY <2>8 DEF Goes
  <2>10. Route(u, 0, 0, H) /\ Open(u) = Pend(c) \cup Pend(w)
    BY <2>6, <2>9, RouteTwo
  <2>11. Route(step, 0, 0, H)
    <3>1. Goes(Item("assign"), 0, 0, H)
      BY ItemGoes
    <3>2. Route(<<Item("assign")>>, 0, 0, H)
      BY <3>1, RouteOne
    <3>3. Route(<<>>, 0, 0, H)
      BY RouteNil
    <3> QED  BY <3>2, <3>3
  <2> HIDE DEF u
  <2>12. Route(step \o u, 0, 0, H) /\ Open(u) \subseteq Open(step \o u)
    BY <2>10, <2>11, RouteJoined
  <2>13. Pend(item) \subseteq Open(step \o u)
    BY <2>7, <2>8, <2>10, <2>12
  <2> QED  BY <1>0, <1>1, <2>2, <2>5, <2>7, <2>12, <2>13, LevelFits
<1>8. CASE ForCond
  <2>1. item.kind = "cond"
    <3>1. At({"cond"})
      BY <1>8 DEF ForCond
    <3> QED  BY <3>1, InHand
  <2>2. Rise(item) = 0 /\ Pend(item) = {} /\ h = 0
    BY <1>2, <2>1 DEF Rise, Pend, ItemFits
  <2> DEFINE n == Len(code)
             w == Do("for", 0, n)
  <2>3. w.kind = "for" /\ w.n = n
    BY Made
  <2>4. Then(c0_expr \o <<w>>) \/ EmitThen(<<Ins("push", 1)>>, <<w>>)
    BY <1>8 DEF ForCond, c0_here
  <2> HIDE DEF w
  <2>5. Rise(w) = -1
    BY <2>3 DEF Rise
  <2>6. ASSUME NEW G, G[n] = 0 PROVE Goes(w, 1, 0, G)
    <3>1. ItemFits(w, 1, G)
      BY <2>3, <2>6 DEF ItemFits
    <3> QED  BY <2>5, <3>1 DEF Goes
  <2>7. H[n] = 0
    BY <1>2, <2>2
  <2>8. CASE Then(c0_expr \o <<w>>)
    <3>1. Goes(w, 0 + 1, 0, H)
      BY <2>6, <2>7
    <3>2. Route(c0_expr \o <<w>>, 0, 0, H)
      BY <3>1, ExprThenOne
    <3> QED  BY <1>0, <1>1, <2>2, <2>8, <3>2, LevelFits
  <2>9. CASE EmitThen(<<Ins("push", 1)>>, <<w>>)
    <3> DEFINE x == Ins("push", 1)
               items == <<w>>
    <3>1. x \in CodeIns /\ x.op = "push" /\ EmitThen(<<x>>, items)
      BY <2>9 DEF Ins, CodeIns, Ops
    <3>2. Needs("push") = 0 /\ Gives("push") = 1
      BY OpCounts
    <3>3. IsSeq(items)
      BY Short
    <3> HIDE DEF x
    <3>4. Takes(Arities, x) = 0 /\ After(Arities, x, h) = 1 /\ h + Rise(item) = 0
      BY <2>2, <3>1, <3>2 DEF Takes, After
    <3>5. ASSUME NEW G, \A k \in 0..n : G[k] = H[k] PROVE Route(items, 1, 0, G)
      <4>1. G[n] = 0
        BY <1>0, <2>7, <3>5
      <4> QED  BY <2>6, <4>1, RouteOne
    <3> HIDE DEF items
    <3>6. RouteBehind(items, H, After(Arities, x, h), h + Rise(item))
      BY <3>4, <3>5 DEF RouteBehind
    <3>7. Follows(Arities, code, H, x, Open(items))
      BY <1>2, <2>2, <3>1, <3>4 DEF Follows, JumpOps
    <3> QED  BY <1>0, <1>1, <2>2, <3>1, <3>3, <3>6, <3>7, EmitFits
  <2> QED  BY <2>4, <2>8, <2>9
<1>9. CASE BlockEnd
  <2>1. item.kind \in {"body", "block"} /\ Then(<<>>)
    <3>1. At({"body", "block"})
      BY <1>9 DEF BlockEnd
    <3> QED  BY <1>9, <3>1, InHand DEF BlockEnd
  <2>2. Rise(item) = 0 /\ Pend(item) = {}
    BY <2>1 DEF Rise, Pend
  <2> QED  BY <1>0, <1>1, <2>1, <2>2, NothingFits
<1>10. CASE OptionalSemicolon
  <2>1. item.kind = "semi" /\ Then(<<>>)
    <3>1. At({"semi"}) /\ Then(<<>>)
      BY <1>10 DEF OptionalSemicolon
    <3> QED  BY <3>1, InHand
  <2>2. Rise(item) = 0 /\ Pend(item) = {}
    BY <2>1 DEF Rise, Pend
  <2> QED  BY <1>0, <1>1, <2>1, <2>2, NothingFits
<1> QED  BY <1>3, <1>5, <1>6, <1>7, <1>8, <1>9, <1>10 DEF Blocks

\* Every step inside a function that is not rejected.
LEMMA CompileFits ==
    ASSUME BodyInv, ModuleInv, ArityInv, BodyFits, Compile, reject' = "none"
    PROVE  BodyFits'
BY LeafFits, CallsFit, OperatorsFit, PatchesFit, AssignmentsFit, DeclareFits, StoreFits,
   ParamFits, StartsFit, BlocksFit
   DEF Compile, Leaf, Assignments, Starts, Blocks

-----------------------------------------------------------------------------
(***************************************************************************)
(* Functions that were compiled have heights                               *)
(***************************************************************************)

\* Code with the heights H, all of whose jumps have their targets, and which cannot
\* be left but by a return.
Flat(np, c, H) ==
    /\ c \in Seq(CodeIns) /\ Len(c) >= 1 /\ c[Len(c)].op = "ret"
    /\ Heights(np, c, H)
    /\ Aimed(c, H, {})

HeightInv ==
    /\ ArityInv
    /\ (building = "body" /\ reject = "none") => BodyFits
    /\ \A i \in DOMAIN fns : fns[i].ok => \E H : Flat(Arities, fns[i].code, H)

\* What was rejected stays rejected.
LEMMA RejectStays ==
    ASSUME Compile, reject' = "none"
    PROVE  reject = "none"
<1>1. ASSUME NEW why, c0_fail(why) PROVE reject' = why
  BY <1>1 DEF c0_fail
<1>2. ASSUME NEW instrs, NEW items, EmitThen(instrs, items) PROVE reject' = reject
  BY <1>2 DEF EmitThen
<1>3. ASSUME NEW items, Then(items) PROVE reject' = reject
  BY <1>2, <1>3 DEF Then
<1>4. ASSUME NEW items, Statement(items) PROVE reject' = reject
  BY <1>3, <1>4 DEF Statement
<1>5. CASE Unexpected \/ Sign \/ Number \/ Paren \/ Closed \/ LocalRef \/ IndexRef \/ Member
  BY <1>1, <1>2, <1>3, <1>5
     DEF Unexpected, Sign, Number, Paren, Closed, LocalRef, IndexRef, Member
<1>6. ASSUME NEW name, NEW argc, CallOf(name, argc) PROVE reject' = reject \/ reject' # "none"
  BY <1>1, <1>2, <1>6 DEF CallOf
<1>7. CASE CallBegin \/ Argument
  BY <1>3, <1>6, <1>7 DEF CallBegin, Argument
<1>8. CASE Operator \/ NoOperator \/ c0_emit \/ c0_patch
  BY <1>1, <1>2, <1>3, <1>8 DEF Operator, NoOperator, c0_emit, c0_patch
<1>9. CASE AssignIndex \/ Declare \/ AssignLiteral \/ Literal
  BY <1>1, <1>3, <1>9 DEF AssignIndex, Declare, AssignLiteral, Literal
<1>10. CASE ArrayElement \/ MoreElements \/ AssignScalar \/ StoreScalar \/ Unsupported
  BY <1>1, <1>2, <1>3, <1>10
     DEF ArrayElement, MoreElements, AssignScalar, StoreScalar, Unsupported
<1>11. CASE AssignStmt \/ ReturnStmt \/ OptionalSemicolon \/ HashLoop \/ If \/ While \/ For
  BY <1>1, <1>3, <1>4, <1>11 DEF AssignStmt, ReturnStmt, OptionalSemicolon, HashLoop, If, While, For
<1>12. CASE IfBlock \/ WhileBlock \/ ForBlock \/ ForCond \/ ForStep
  BY <1>2, <1>3, <1>12 DEF IfBlock, WhileBlock, ForBlock, ForCond, ForStep
<1>13. CASE ThenEnd \/ LoopEnd \/ BlockEnd \/ Param
  BY <1>1, <1>3, <1>13 DEF ThenEnd, LoopEnd, BlockEnd, Param
<1> QED  BY <1>5, <1>7, <1>8, <1>9, <1>10, <1>11, <1>12, <1>13 DEF Compile

\* A step that leaves signatures and functions alone.
LEMMA FlatStays ==
    ASSUME HeightInv, UNCHANGED <<sigs, fns>>, (building' = "body" /\ reject' = "none") => BodyFits'
    PROVE  HeightInv'
<1>1. Arities' = Arities
  BY DEF Arities
<1> QED  BY <1>1 DEF HeightInv, ArityInv

LEMMA CompileHeights ==
    ASSUME BuildInv, HeightInv, Compile
    PROVE  HeightInv'
<1>1. Outside
  BY CompileKeeps DEF BuildInv
<1>2. ASSUME building' = "body", reject' = "none" PROVE BodyFits'
  <2>1. building = "body"
    BY <1>1, <1>2 DEF Outside
  <2>2. reject = "none"
    BY <1>2, RejectStays
  <2>3. BodyFits /\ ArityInv
    BY <2>1, <2>2 DEF HeightInv
  <2> QED  BY <1>2, <2>3, CompileFits DEF BuildInv
<1> QED  BY <1>1, <1>2, FlatStays DEF Outside

\* Parameters and an empty body.
LEMMA NextFnHeights ==
    ASSUME BuildInv, HeightInv, NextFn
    PROVE  HeightInv'
<1>0. /\ SourceFacts /\ cur \in 0..Len(fns) /\ cur < Len(fns) /\ building = "next"
      /\ UNCHANGED <<sigs, fns, code>> /\ code = <<>>
  BY SourceIsLexed DEF BuildInv, ModuleInv, NextFn, Resting
<1>1. cur \in Nat /\ cur + 1 \in DOMAIN sigs
  BY <1>0 DEF SourceFacts, BuildInv, ModuleInv
<1>2. CASE building' = building
  BY <1>0, <1>2, FlatStays
<1>3. CASE work' = [p \in DOMAIN sigs[cur + 1].params |-> Do("param", 0, p)] \o <<Item("body")>>
  <2>1. PICK n \in Nat : DOMAIN sigs[cur + 1].params = 1..n
    BY <1>0, <1>1 DEF SourceFacts
  <2> DEFINE s == [p \in 1..n |-> Do("param", 0, p)]
             b == <<Item("body")>>
             H == [k \in Nat |-> 0]
  <2>2. work' = s \o b
    BY <1>3, <2>1
  <2>3. /\ IsSeq(s) /\ Len(s) = n
        /\ \A i \in 1..n : s[i].kind = "param"
    <3>1. \A p \in 1..n : Do("param", 0, p) \in {Do("param", 0, q) : q \in 1..n}
      OBVIOUS
    <3>2. s \in [1..n -> {Do("param", 0, q) : q \in 1..n}]
      BY <3>1
    <3>3. s \in Seq({Do("param", 0, q) : q \in 1..n})
      BY <3>2, SeqOfFn
    <3>4. Len(s) = n
      OBVIOUS
    <3>5. \A i \in 1..n : s[i].kind = "param"
      BY Made
    <3> QED  BY <3>3, <3>4, <3>5 DEF IsSeq
  <2>4. H \in [Nat -> Nat] /\ \A k \in Nat : H[k] = 0
    OBVIOUS
  <2>5. Goes(Item("body"), 0, 0, H)
    BY ItemGoes
  <2> HIDE DEF s, H
  <2>6. Route(b, 0, 0, H)
    BY <2>5, RouteOne
  <2> HIDE DEF b
  <2>7. \A i \in 1..n : ItemFits(s[i], 0, H) /\ Rise(s[i]) = 0
    BY <2>3 DEF ItemFits, Rise
  <2>8. Route(s, 0, 0, H)
    <3>1. \A i \in 1..Len(s) : ItemFits(s[i], H[i], H) /\ H[i + 1] = H[i] + Rise(s[i])
      BY <2>3, <2>4, <2>7
    <3>2. H[1] = 0 /\ H[Len(s) + 1] = 0
      BY <2>3, <2>4
    <3> QED  BY <2>3, <2>4, <3>1, <3>2 DEF Route, Path
  <2>9. Path(work', 0, 0, H)
    BY <2>2, <2>6, <2>8, RouteJoined DEF Route
  <2>10. Len(code') = 0 /\ H[0] = 0
    BY <1>0, <2>4
  <2>11. Heights(Arities', code', H) /\ Aimed(code', H, Open(work)')
    BY <2>4, <2>10 DEF Heights, Aimed
  <2>12. Standing(H)'
    BY <2>9, <2>10, <2>11 DEF Standing
  <2>13. BodyFits'
    BY <2>12 DEF BodyFits
  <2> QED  BY <1>0, <2>13, FlatStays
<1> QED  BY <1>2, <1>3 DEF NextFn

\* The code of a function that ends: nothing is on the stack, and push and ret
\* follow.
LEMMA FnCodeFlat ==
    ASSUME BodyInv, BodyFits, work = <<>>
    PROVE  \E H : Flat(Arities, FnCode, H)
<1>1. PICK H : Standing(H)
  BY DEF BodyFits
<1> DEFINE n == Len(code)
           x == Ins("push", 0)
           y == Ins("ret", 0)
           c == code \o <<x>>
<1>2. n \in Nat /\ code \in Seq(CodeIns)
  BY Lengths
<1>3. Heights(Arities, code, H) /\ Aimed(code, H, {}) /\ H[n] = 0
  <2>1. Open(work) = {}
    BY OpenShort
  <2>2. Heights(Arities, code, H) /\ Aimed(code, H, Open(work)) /\ Path(work, H[n], 0, H)
    BY <1>1 DEF Standing
  <2>3. Len(work) + 1 = 1
    BY Short
  <2>4. H[n] = 0
    BY <2>2, <2>3 DEF Path
  <2> QED  BY <2>1, <2>2, <2>4
<1>4. x \in CodeIns /\ x.op = "push" /\ y \in CodeIns /\ y.op = "ret"
  BY DEF Ins, CodeIns, Ops
<1>5. FnCode = c \o <<y>>
  BY <1>2, <1>4, TwoMore DEF FnCode
<1>6. CodeFits(Arities, code, H, {})
  BY <1>2, <1>3, JumpsInside DEF CodeFits
<1> HIDE DEF x, y
<1>7. Takes(Arities, x) = 0 /\ Gives(x.op) = 1 /\ Takes(Arities, y) = 1 /\ Gives(y.op) = 0
  <2>1. Needs(x.op) = 0 /\ Gives(x.op) = 1 /\ Needs(y.op) = 1 /\ Gives(y.op) = 0
    BY <1>4, OpCounts
  <2> QED  BY <1>4, <2>1 DEF Takes
<1>8. Follows(Arities, code, H, x, {})
  BY <1>3, <1>4, <1>7 DEF Follows, JumpOps
<1>9. PICK G : Longer(Arities, code, x, {}, H, G)
  BY <1>6, <1>8, Emitted
<1>10. Heights(Arities, c, G) /\ Aimed(c, G, {}) /\ G[n + 1] = 1
  <2>1. Heights(Arities, c, G) /\ Aimed(c, G, {}) /\ G[n + 1] = After(Arities, x, H[n])
    BY <1>9 DEF Longer
  <2> QED  BY <1>3, <1>7, <2>1 DEF After
<1>11. /\ c \in Seq(CodeIns) /\ Len(c) = n + 1 /\ c[n + 1] = x
       /\ \A k \in 1..n : c[k] = code[k]
  BY <1>2, <1>4, OneMore
<1>12. \A k \in 1..n : code[k].op \in JumpOps => code[k].a \in 0..n
  BY JumpsInside
<1> HIDE DEF c, n
<1>13. \A k \in 1..Len(c) : c[k].op \in JumpOps => c[k].a \in 0..Len(c)
  <2>1. ASSUME NEW k \in 1..n + 1, c[k].op \in JumpOps PROVE c[k].a \in 0..n + 1
    <3>1. CASE k = n + 1
      <4>1. c[k].op = "push"
        BY <1>4, <1>11, <3>1
      <4> QED  BY <2>1, <4>1 DEF JumpOps
    <3>2. CASE k # n + 1
      <4>1. k \in 1..n
        BY <1>2, <3>2
      <4>2. c[k].a \in 0..n
        BY <1>11, <1>12, <2>1, <4>1
      <4> QED  BY <1>2, <4>2
    <3> QED  BY <3>1, <3>2
  <2> QED  BY <1>11, <2>1
<1>14. CodeFits(Arities, c, G, {})
  BY <1>10, <1>11, <1>13 DEF CodeFits
<1>15. Follows(Arities, c, G, y, {})
  BY <1>4, <1>7, <1>10, <1>11 DEF Follows, JumpOps
<1>16. PICK F : Longer(Arities, c, y, {}, G, F)
  BY <1>14, <1>15, Emitted
<1> DEFINE d == c \o <<y>>
<1>17. Heights(Arities, d, F) /\ Aimed(d, F, {})
  BY <1>16 DEF Longer
<1>18. d \in Seq(CodeIns) /\ Len(d) = Len(c) + 1 /\ d[Len(c) + 1] = y
  BY <1>4, <1>11, OneMore
<1> HIDE DEF d
<1>19. Len(d) >= 1 /\ d[Len(d)].op = "ret"
  BY <1>2, <1>4, <1>11, <1>18
<1>20. Flat(Arities, d, F)
  BY <1>17, <1>18, <1>19 DEF Flat
<1> QED  BY <1>5, <1>20 DEF d

LEMMA FnEndHeights ==
    ASSUME BuildInv, HeightInv, FnEnd
    PROVE  HeightInv'
<1>0. /\ SourceFacts /\ cur \in 0..Len(fns) /\ building = "body" /\ cur < Len(fns)
      /\ building' = "next" /\ UNCHANGED sigs /\ work = <<>>
  BY SourceIsLexed DEF BuildInv, ModuleInv, FnEnd
<1>1. cur + 1 \in DOMAIN fns
  BY <1>0 DEF SourceFacts
<1>2. DOMAIN fns[cur + 1] = FnFields /\ ~fns[cur + 1].ok
  BY <1>0, <1>1 DEF BuildInv, ModuleInv, RunnableInv, SourceFacts
<1>3. PICK f : /\ fns' = [fns EXCEPT ![cur + 1] = f]
               /\ f = IF reject # "none"
                      THEN [fns[cur + 1] EXCEPT !.reject = reject, !.text = text]
                      ELSE [fns[cur + 1] EXCEPT !.code = FnCode, !.nlocals = Len(locals),
                                !.arr_n = arr_n, !.ok = TRUE, !.names = locals, !.text = text]
  BY DEF FnEnd
<1>4. /\ DOMAIN fns' = DOMAIN fns /\ fns'[cur + 1] = f
      /\ \A i \in DOMAIN fns : i # cur + 1 => fns'[i] = fns[i]
  BY <1>1, <1>3
<1>5. f.nparams = fns[cur + 1].nparams
  BY <1>2, <1>3 DEF FnFields
<1>6. f.ok => reject = "none" /\ f.code = FnCode
  <2>1. CASE reject # "none"
    BY <1>2, <1>3, <2>1 DEF FnFields
  <2>2. CASE reject = "none"
    BY <1>2, <1>3, <2>2 DEF FnFields
  <2> QED  BY <2>1, <2>2
<1>7. Arities' = Arities
  BY <1>0 DEF Arities
<1>8. f.ok => \E H : Flat(Arities, f.code, H)
  <2>1. reject = "none" => \E H : Flat(Arities, FnCode, H)
    BY <1>0, FnCodeFlat DEF HeightInv, BuildInv
  <2> QED  BY <1>6, <2>1
<1>9. \A i \in DOMAIN fns' : fns'[i].ok => \E H : Flat(Arities', fns'[i].code, H)
  BY <1>4, <1>7, <1>8 DEF HeightInv
<1>10. ArityInv'
  BY <1>0, <1>4, <1>5 DEF HeightInv, ArityInv
<1> QED  BY <1>0, <1>9, <1>10 DEF HeightInv

LEMMA ResolveHeights ==
    ASSUME BuildInv, HeightInv, c0_resolve_deps
    PROVE  HeightInv'
<1>0. building' = "next" /\ UNCHANGED sigs
  BY DEF c0_resolve_deps
<1>1. PICK b \in Broken :
        fns' = [fns EXCEPT ![b].ok = FALSE, ![b].reject = "VM_REJ_DEP_REJECTED"]
  BY DEF c0_resolve_deps
<1>2. b \in DOMAIN fns /\ DOMAIN fns[b] = FnFields
  BY DEF Broken, BuildInv, ModuleInv
<1>3. /\ DOMAIN fns' = DOMAIN fns
      /\ \A i \in DOMAIN fns : i # b => fns'[i] = fns[i]
      /\ fns'[b].ok = FALSE /\ fns'[b].nparams = fns[b].nparams
  BY <1>1, <1>2 DEF FnFields
<1>4. Arities' = Arities
  BY <1>0 DEF Arities
<1> QED  BY <1>0, <1>3, <1>4 DEF HeightInv, ArityInv

LEMMA BuildHeights ==
    ASSUME BuildInv, HeightInv, [Build]_buildVars
    PROVE  HeightInv'
<1>1. CASE UNCHANGED buildVars
  <2>1. UNCHANGED <<sigs, fns, code, work, building, reject>>
    BY <1>1 DEF buildVars, compVars
  <2>2. Arities' = Arities
    BY <2>1 DEF Arities
  <2>3. BodyFits' <=> BodyFits
    BY <2>1, <2>2 DEF BodyFits, Standing
  <2> QED  BY <2>1, <2>3, FlatStays DEF HeightInv
<1>2. CASE Built
  <2>1. UNCHANGED <<sigs, fns>> /\ building' = "built"
    BY <1>2 DEF Built
  <2> QED  BY <2>1, FlatStays
<1> QED  BY <1>1, <1>2, CompileHeights, NextFnHeights, FnEndHeights, ResolveHeights DEF Build

LEMMA HeightsStart ==
    ASSUME BuildInit
    PROVE  HeightInv
<1>1. \A i \in DOMAIN fns : fns[i] = NewFn(sigs[i])
  BY DEF BuildInit
<1>2. \A i \in DOMAIN fns : fns[i].nparams = Len(sigs[i].params) /\ fns[i].ok = FALSE
  BY <1>1 DEF NewFn
<1>3. building = "next"
  BY DEF BuildInit
<1> QED  BY <1>2, <1>3 DEF HeightInv, ArityInv

-----------------------------------------------------------------------------
(***************************************************************************)
(* What was compiled, run by LinVM                                         *)
(***************************************************************************)
HeightsOf(np, c) == CHOOSE H : Flat(np, c, H)

\* A frame stands in an accepted function of F, at an instruction in front of which
\* its operands and more are expected.
FrameFits(F, np, f, more) ==
    /\ DOMAIN f = {"fn", "pc", "stack", "locals", "len", "pool"}
    /\ f.fn \in Nat /\ f.fn + 1 \in DOMAIN F /\ F[f.fn + 1].ok
    /\ f.pc \in 0..Len(F[f.fn + 1].code) - 1
    /\ IsSeq(f.stack)
    /\ Len(f.stack) + more = HeightsOf(np, F[f.fn + 1].code)[f.pc]

\* Every caller waits for one operand, the answer of its callee.
FramesFit ==
    /\ IsSeq(frames) /\ Depth >= 1
    /\ \A d \in 1..Depth : FrameFits(fns, Arities, frames[d], IF d = Depth THEN 0 ELSE 1)

SourceInv ==
    /\ building = "built"
    /\ module = [i \in DOMAIN fns |-> FnOf(fns[i])]
    /\ Asking(query.name) # {}
    /\ status = "running" => FramesFit

LEMMA StackShapes ==
    ASSUME NEW s, IsSeq(s), NEW x
    PROVE  /\ Len(s) \in Nat
           /\ IsSeq(Append(s, x)) /\ Len(Append(s, x)) = Len(s) + 1
           /\ \A n \in 0..Len(s) : /\ IsSeq(SubSeq(s, 1, Len(s) - n))
                                   /\ Len(SubSeq(s, 1, Len(s) - n)) = Len(s) - n
<1>1. PICK S : s \in Seq(S)
  BY DEF IsSeq
<1>2. PICK T : T = S \cup {x}
  OBVIOUS
<1>3. s \in Seq(T) /\ x \in T /\ Len(s) \in Nat
  BY <1>1, <1>2
<1>4. Append(s, x) \in Seq(T) /\ Len(Append(s, x)) = Len(s) + 1
  BY <1>3
<1>5. ASSUME NEW n \in 0..Len(s)
      PROVE  SubSeq(s, 1, Len(s) - n) \in Seq(T) /\ Len(SubSeq(s, 1, Len(s) - n)) = Len(s) - n
  <2>1. Len(s) - n \in 0..Len(s)
    BY <1>3
  <2> DEFINE m == Len(s) - n
  <2>2. m \in Nat /\ m <= Len(s)
    BY <1>3, <2>1
  <2> HIDE DEF m
  <2>3. SubSeq(s, 1, m) \in Seq(T) /\ Len(SubSeq(s, 1, m)) = m
    BY <1>3, <2>2
  <2> QED  BY <2>3 DEF m
<1> QED  BY <1>3, <1>4, <1>5 DEF IsSeq

\* The module is what c0_build left.
LEMMA ModuleFacts ==
    ASSUME BuildInv, SourceInv
    PROVE  /\ Len(fns) \in Nat /\ DOMAIN fns = 1..Len(fns) /\ Len(module) = Len(fns)
           /\ DOMAIN module = DOMAIN fns
           /\ \A i \in DOMAIN fns : /\ module[i].ok = fns[i].ok
                                    /\ module[i].nparams = fns[i].nparams
                                    /\ module[i].code = fns[i].code
<1>1. Len(fns) \in Nat /\ DOMAIN fns = 1..Len(fns)
  BY SourceIsLexed DEF BuildInv, SourceFacts
<1>2. module = [i \in DOMAIN fns |-> FnOf(fns[i])]
  BY DEF SourceInv
<1>3. DOMAIN module = DOMAIN fns /\ \A i \in DOMAIN fns : module[i] = FnOf(fns[i])
  BY <1>2
<1>4. Len(module) = Len(fns)
  BY <1>1, <1>3
<1> QED  BY <1>1, <1>3, <1>4 DEF FnOf

LEMMA CodeFlat ==
    ASSUME HeightInv, NEW i \in DOMAIN fns, fns[i].ok
    PROVE  Flat(Arities, fns[i].code, HeightsOf(Arities, fns[i].code))
<1>1. \E H : Flat(Arities, fns[i].code, H)
  BY DEF HeightInv
<1> QED  BY <1>1 DEF HeightsOf

\* The instruction that is about to run has its operands.
StepFacts ==
    /\ IsSeq(frames) /\ Depth \in Nat /\ Depth >= 1
    /\ FrameFits(fns, Arities, top, 0)
    /\ InCode /\ sp \in Nat /\ ins \in CodeIns
    /\ Takes(Arities, ins) <= sp
    /\ ins.op = "ret" => sp = 1
    /\ ins.op # "abi_call"
    /\ ins.op = "call" => /\ ins.a \in Nat /\ ins.a + 1 \in DOMAIN fns /\ fns[ins.a + 1].ok
                          /\ Takes(Arities, ins) = fns[ins.a + 1].nparams

\* A frame that goes on where the instruction says.
Moves(f, more) ==
    /\ DOMAIN f = DOMAIN top /\ f.fn = top.fn /\ IsSeq(f.stack)
    /\ Len(f.stack) + more = After(Arities, ins, sp)
    /\ ins.op # "ret"
    /\ f.pc = top.pc + 1 \/ (ins.op \in JumpOps /\ f.pc = ins.a)

LEMMA TopFits ==
    ASSUME BuildInv, HeightInv, SourceInv, status = "running"
    PROVE  StepFacts /\ \A f, more : Moves(f, more) => FrameFits(fns, Arities, f, more)
<1>1. FramesFit
  BY DEF SourceInv
<1>2. Depth \in Nat
  BY <1>1, StackShapes DEF FramesFit, Depth
<1>3. FrameFits(fns, Arities, top, 0)
  <2>1. Depth \in 1..Depth
    BY <1>1, <1>2 DEF FramesFit
  <2> QED  BY <1>1, <2>1 DEF FramesFit, top
<1> DEFINE i == top.fn + 1
           c == fns[i].code
           H == HeightsOf(Arities, c)
           k == top.pc
<1>4. /\ i \in DOMAIN fns /\ fns[i].ok /\ k \in 0..Len(c) - 1 /\ IsSeq(top.stack)
      /\ Len(top.stack) + 0 = H[k]
  BY <1>3 DEF FrameFits
<1>5. Flat(Arities, c, H)
  BY <1>4, CodeFlat
<1>6. fn.code = c
  BY <1>4, ModuleFacts DEF fn
<1>7. sp \in Nat /\ sp = H[k]
  <2>1. Len(top.stack) \in Nat
    BY <1>4, StackShapes
  <2> QED  BY <1>4, <2>1 DEF sp
<1>8. Declared(fns[i])
  BY <1>4 DEF BuildInv, CompiledIsDeclared
<1>9. fns[i].ok /\ Broken = {}
  BY <1>4 DEF BuildInv, RunnableInv, SourceInv
<1>10. InCode /\ ins = c[k + 1]
  BY <1>4, <1>6 DEF InCode, ins
<1>11. /\ \A m \in DOMAIN c : /\ c[m].op \in JumpOps => c[m].a \in 0..Len(c) - 1
                              /\ c[m].op = "call" => c[m].a \in 0..Len(fns) - 1
  BY <1>8 DEF Declared
<1>12. \A m \in DOMAIN c : c[m].op = "call" => c[m].a + 1 \in DOMAIN fns /\ fns[c[m].a + 1].ok
  <2>1. ASSUME NEW m \in DOMAIN c, c[m].op = "call"
        PROVE  c[m].a + 1 \in DOMAIN fns /\ fns[c[m].a + 1].ok
    <3>1. c[m].a + 1 \in Callees(fns[i])
      BY <2>1 DEF Callees
    <3> QED  BY <1>4, <1>9, <3>1 DEF Broken
  <2> QED  BY <2>1
<1>13. ArityInv
  BY DEF HeightInv
<1> HIDE DEF c, H, k
<1>14. /\ c \in Seq(CodeIns) /\ Len(c) \in Nat /\ Len(c) >= 1 /\ c[Len(c)].op = "ret"
       /\ DOMAIN c = 1..Len(c)
       /\ Heights(Arities, c, H) /\ Aimed(c, H, {})
  BY <1>5 DEF Flat
<1>15. k \in Nat /\ k + 1 \in 1..Len(c) /\ (k + 1) - 1 = k
  BY <1>4, <1>14
<1>16. /\ ins \in CodeIns
       /\ Takes(Arities, ins) <= sp
       /\ H[k + 1] = After(Arities, ins, sp)
       /\ ins.op = "ret" => sp = 1
       /\ ins.op # "abi_call"
       /\ ins.op \in JumpOps => H[ins.a] = H[k + 1]
  <2>1. c[k + 1] \in CodeIns
    BY <1>14, <1>15
  <2>2. /\ Takes(Arities, c[k + 1]) <= H[k]
        /\ H[k + 1] = After(Arities, c[k + 1], H[k])
        /\ c[k + 1].op = "ret" => H[k] = 1
        /\ c[k + 1].op # "abi_call"
    BY <1>14, <1>15 DEF Heights
  <2>3. c[k + 1].op \in JumpOps => H[c[k + 1].a] = H[k + 1]
    BY <1>14, <1>15 DEF Aimed
  <2> QED  BY <1>7, <1>10, <2>1, <2>2, <2>3
<1>17. ins.op = "call" => /\ ins.a \in Nat /\ ins.a + 1 \in DOMAIN fns /\ fns[ins.a + 1].ok
                          /\ Takes(Arities, ins) = fns[ins.a + 1].nparams
  <2> SUFFICES ASSUME ins.op = "call"
               PROVE  /\ ins.a \in Nat /\ ins.a + 1 \in DOMAIN fns /\ fns[ins.a + 1].ok
                      /\ Takes(Arities, ins) = fns[ins.a + 1].nparams
    OBVIOUS
  <2>1. ins.a \in 0..Len(fns) - 1 /\ ins.a + 1 \in DOMAIN fns /\ fns[ins.a + 1].ok
    BY <1>10, <1>11, <1>12, <1>14, <1>15
  <2>2. ins.a \in Nat
    BY <2>1, ModuleFacts
  <2>3. Takes(Arities, ins) = Len(sigs[ins.a + 1].params)
    BY <2>2 DEF Takes, Arities
  <2> QED  BY <1>13, <2>1, <2>2, <2>3 DEF ArityInv
<1>18. StepFacts
  BY <1>1, <1>2, <1>3, <1>7, <1>10, <1>16, <1>17 DEF StepFacts, FramesFit
<1>19. ASSUME NEW f, NEW more, Moves(f, more)
       PROVE  FrameFits(fns, Arities, f, more)
  <2>1. /\ DOMAIN f = DOMAIN top /\ f.fn = top.fn /\ IsSeq(f.stack)
        /\ Len(f.stack) + more = After(Arities, ins, sp)
        /\ ins.op # "ret"
        /\ f.pc = k + 1 \/ (ins.op \in JumpOps /\ f.pc = ins.a)
    BY <1>19 DEF Moves, k
  <2>2. /\ DOMAIN f = {"fn", "pc", "stack", "locals", "len", "pool"}
        /\ f.fn \in Nat /\ f.fn + 1 = i
    BY <1>3, <2>1 DEF FrameFits
  <2>3. H[f.pc] = After(Arities, ins, sp)
    BY <1>16, <2>1
  <2>4. k + 1 # Len(c)
    BY <1>10, <1>14, <2>1
  <2>5. f.pc \in 0..Len(c) - 1
    <3>1. ASSUME NEW n \in Nat, NEW m \in Nat, m + 1 \in 1..n, m + 1 # n
          PROVE  m + 1 \in 0..n - 1
      BY <3>1
    <3>4. k + 1 \in 0..Len(c) - 1
      BY <1>14, <1>15, <2>4, <3>1
    <3>2. ins.op \in JumpOps => ins.a \in 0..Len(c) - 1
      BY <1>10, <1>11, <1>14, <1>15
    <3> QED  BY <2>1, <3>2, <3>4
  <2> HIDE DEF i
  <2>6. f.pc \in 0..Len(fns[i].code) - 1 /\ Len(f.stack) + more = HeightsOf(Arities, fns[i].code)[f.pc]
    BY <2>1, <2>3, <2>5 DEF c, H
  <2> QED  BY <1>4, <2>1, <2>2, <2>6 DEF FrameFits
<1> QED  BY <1>18, <1>19

\* An instruction of compiled code is about to run, and the command waits.
Running ==
    /\ BuildInv /\ HeightInv /\ SourceInv /\ status = "running"
    /\ UNCHANGED <<buildVars, toolVars>>

Holds ==
    /\ Arities' = Arities
    /\ UNCHANGED <<fns, building, query, stage>>

LEMMA Held == UNCHANGED <<buildVars, toolVars>> => Holds
<1>1. UNCHANGED <<buildVars, toolVars>> => UNCHANGED <<sigs, fns, building, query, stage>>
  BY DEF buildVars, toolVars
<1>2. UNCHANGED sigs => Arities' = Arities
  BY DEF Arities
<1> QED  BY <1>1, <1>2 DEF Holds

\* What the source route rests on, a step later.
LEMMA RouteGoesOn ==
    ASSUME SourceInv, Holds, module' = module, status' = "running" => FramesFit'
    PROVE  SourceInv'
<1>1. Asking(query.name)' = Asking(query.name)
  BY DEF Asking, Holds
<1> QED  BY <1>1 DEF SourceInv, Holds

LEMMA Failed ==
    ASSUME Running, NEW e, Fail(e), e # "running"
    PROVE  SourceInv' /\ status' = e
<1>1. Holds
  BY Held DEF Running
<1>2. module' = module /\ status' = e
  BY DEF Fail
<1> QED  BY <1>1, <1>2, RouteGoesOn DEF Running

\* g is s with f in place of its element n.
Swapped(s, n, f, g) ==
    /\ IsSeq(g) /\ Len(g) = Len(s) /\ g[n] = f
    /\ \A d \in 1..Len(s) : d # n => g[d] = s[d]

LEMMA Replaced ==
    ASSUME NEW s, IsSeq(s), Len(s) \in Nat, NEW n \in 1..Len(s), NEW f
    PROVE  Swapped(s, n, f, [s EXCEPT ![n] = f])
<1>1. PICK S : s \in Seq(S)
  BY DEF IsSeq
<1>2. PICK T : T = S \cup {f}
  OBVIOUS
<1>3. s \in Seq(T) /\ f \in T /\ DOMAIN s = 1..Len(s)
  BY <1>1, <1>2
<1>4. [s EXCEPT ![n] = f] \in Seq(T) /\ Len([s EXCEPT ![n] = f]) = Len(s)
  BY <1>3
<1> QED  BY <1>3, <1>4 DEF IsSeq, Swapped

LEMMA Continued ==
    ASSUME Running, NEW f, Moves(f, 0), Continue(f)
    PROVE  SourceInv' /\ status' = "running"
<1>1. Holds
  BY Held DEF Running
<1>2. FrameFits(fns, Arities, f, 0) /\ StepFacts /\ FramesFit
  BY TopFits DEF Running, SourceInv
<1>3. IsSeq(frames) /\ Len(frames) \in Nat /\ Len(frames) \in 1..Len(frames) /\ Depth = Len(frames)
  BY <1>2 DEF StepFacts, Depth
<1>4. frames' = [frames EXCEPT ![Len(frames)] = f] /\ module' = module /\ status' = status
  BY <1>3 DEF Continue
<1>5. /\ IsSeq(frames') /\ Len(frames') = Len(frames) /\ frames'[Len(frames)] = f
      /\ \A d \in 1..Len(frames) : d # Len(frames) => frames'[d] = frames[d]
  <2>1. Swapped(frames, Len(frames), f, [frames EXCEPT ![Len(frames)] = f])
    BY <1>3, Replaced
  <2> QED  BY <1>4, <2>1 DEF Swapped
<1>6. FramesFit'
  <2>1. ASSUME NEW d \in 1..Len(frames)
        PROVE  FrameFits(fns, Arities, frames'[d], IF d = Len(frames) THEN 0 ELSE 1)
    <3>1. FrameFits(fns, Arities, frames[d], IF d = Len(frames) THEN 0 ELSE 1)
      BY <1>2 DEF FramesFit, Depth
    <3> QED  BY <1>2, <1>5, <3>1
  <2> QED  BY <1>1, <1>3, <1>5, <2>1 DEF FramesFit, Depth, Holds
<1> QED  BY <1>1, <1>4, <1>6, RouteGoesOn DEF Running

LEMMA Leaves ==
    ASSUME Running, NEW s, IsSeq(s), Len(s) = After(Arities, ins, sp), ins.op # "ret", Leave(s)
    PROVE  SourceInv' /\ status' = "running"
<1>1. DOMAIN top = {"fn", "pc", "stack", "locals", "len", "pool"} /\ Len(s) \in Nat
  BY TopFits, StackShapes DEF Running, StepFacts, FrameFits
<1> DEFINE f == [top EXCEPT !.stack = s, !.pc = @ + 1]
<1>2. DOMAIN f = DOMAIN top /\ f.fn = top.fn /\ f.stack = s /\ f.pc = top.pc + 1
  BY <1>1
<1>3. Continue(f)
  BY DEF Leave
<1> HIDE DEF f
<1>4. Moves(f, 0)
  BY <1>1, <1>2 DEF Moves
<1> QED  BY <1>3, <1>4, Continued

\* What an instruction other than a call leaves of the stack.
LEMMA Remains ==
    ASSUME Running
    PROVE  /\ IsSeq(top.stack) /\ sp = Len(top.stack) /\ sp \in Nat
           /\ DOMAIN top = {"fn", "pc", "stack", "locals", "len", "pool"}
           /\ ins.op # "call" => /\ Needs(ins.op) <= sp
                                 /\ After(Arities, ins, sp) = sp - Needs(ins.op) + Gives(ins.op)
           /\ \A n \in 0..sp : IsSeq(Below(n)) /\ Len(Below(n)) = sp - n
           /\ \A n \in 0..sp : \A x : /\ IsSeq(Append(Below(n), x))
                                       /\ Len(Append(Below(n), x)) = sp - n + 1
           /\ \A x : IsSeq(Append(top.stack, x)) /\ Len(Append(top.stack, x)) = sp + 1
<1>1. StepFacts
  BY TopFits DEF Running
<1>2. /\ IsSeq(top.stack) /\ sp = Len(top.stack) /\ sp \in Nat
      /\ DOMAIN top = {"fn", "pc", "stack", "locals", "len", "pool"}
  BY <1>1 DEF StepFacts, FrameFits, sp
<1>3. ins.op # "call" => /\ Needs(ins.op) <= sp
                         /\ After(Arities, ins, sp) = sp - Needs(ins.op) + Gives(ins.op)
  BY <1>1 DEF StepFacts, Takes, After
<1>4. \A n \in 0..sp : IsSeq(Below(n)) /\ Len(Below(n)) = sp - n
  BY <1>2, StackShapes DEF Below
<1>5. ASSUME NEW n \in 0..sp, NEW x
      PROVE  IsSeq(Append(Below(n), x)) /\ Len(Append(Below(n), x)) = sp - n + 1
  BY <1>4, StackShapes
<1>6. ASSUME NEW x
      PROVE  IsSeq(Append(top.stack, x)) /\ Len(Append(top.stack, x)) = sp + 1
  BY <1>2, StackShapes
<1> QED  BY <1>2, <1>3, <1>4, <1>5, <1>6

\* The instructions that neither call nor return.
LEMMA PlainStepsFit ==
    ASSUME Running
    PROVE  /\ PushConst \/ LoadLocal \/ ArrLen => SourceInv' /\ status' = "running"
           /\ Pop \/ Unary \/ Binary \/ LoadIndex => SourceInv' /\ status' = "running"
<1>1. ASSUME NEW x, ins.op \in {"push", "load", "arr_len"}, Leave(Append(top.stack, x))
      PROVE  SourceInv' /\ status' = "running"
  <2>1. After(Arities, ins, sp) = sp - 0 + 1 /\ ins.op # "ret" /\ sp \in Nat
    BY <1>1, Remains, OpCounts
  <2>2. IsSeq(Append(top.stack, x)) /\ Len(Append(top.stack, x)) = After(Arities, ins, sp)
    BY <2>1, Remains
  <2> QED  BY <1>1, <2>1, <2>2, Leaves
<1>2. ASSUME NEW x, NEW n \in {1, 2}, ins.op # "call", Needs(ins.op) = n, Gives(ins.op) = 1, ins.op # "ret",
             Leave(Append(Below(n), x))
      PROVE  SourceInv' /\ status' = "running"
  <2>1. After(Arities, ins, sp) = sp - n + 1 /\ sp \in Nat /\ n <= sp
    BY <1>2, Remains
  <2>2. n \in 0..sp
    BY <2>1
  <2>3. IsSeq(Append(Below(n), x)) /\ Len(Append(Below(n), x)) = After(Arities, ins, sp)
    BY <2>1, <2>2, Remains
  <2> QED  BY <1>2, <2>3, Leaves
<1>3. CASE PushConst
  BY <1>1, <1>3 DEF PushConst, Executing
<1>4. CASE LoadLocal
  BY <1>1, <1>4 DEF LoadLocal, Executing
<1>5. CASE ArrLen
  BY <1>1, <1>5 DEF ArrLen, Executing
<1>6. CASE Pop
  <2>1. ins.op = "pop" /\ Leave(Below(1))
    BY <1>6 DEF Pop, Executing
  <2>2. After(Arities, ins, sp) = sp - 1 + 0 /\ sp \in Nat /\ 1 <= sp
    BY <2>1, Remains, OpCounts
  <2>3. 1 \in 0..sp
    BY <2>2
  <2>4. IsSeq(Below(1)) /\ Len(Below(1)) = After(Arities, ins, sp)
    BY <2>2, <2>3, Remains
  <2> QED  BY <2>1, <2>4, Leaves
<1>7. CASE Unary
  <2>1. PICK r : ins.op \in UnaryOps /\ Leave(Append(Below(1), r))
    BY <1>7 DEF Unary, Executing
  <2>2. ins.op # "call" /\ ins.op # "ret"
    BY <2>1 DEF UnaryOps
  <2>3. Needs(ins.op) = 1 /\ Gives(ins.op) = 1
    BY <2>1, OpCounts
  <2> QED  BY <1>2, <2>1, <2>2, <2>3
<1>8. CASE Binary
  <2>1. PICK r : ins.op \in BinaryOps /\ Leave(Append(Below(2), r))
    BY <1>8 DEF Binary, Executing
  <2>2. ins.op # "call" /\ ins.op # "ret"
    BY <2>1 DEF BinaryOps
  <2>3. Needs(ins.op) = 2 /\ Gives(ins.op) = 1
    BY <2>1, OpCounts
  <2> QED  BY <1>2, <2>1, <2>2, <2>3
<1>9. CASE LoadIndex
  <2>1. PICK r : ins.op = "load_index" /\ Leave(Append(Below(1), r))
    BY <1>9 DEF LoadIndex, Executing
  <2>2. Needs(ins.op) = 1 /\ Gives(ins.op) = 1
    BY <2>1, OpCounts
  <2> QED  BY <1>2, <2>1, <2>2
<1> QED  BY <1>3, <1>4, <1>5, <1>6, <1>7, <1>8, <1>9

LEMMA OtherStepsFit ==
    ASSUME Running, StoreLocal \/ StoreIndex \/ Jump
    PROVE  SourceInv' /\ status' = "running"
<1>0. DOMAIN top = {"fn", "pc", "stack", "locals", "len", "pool"}
  BY Remains
<1>1. ASSUME NEW f, NEW n \in {1, 2}, Continue(f), f.stack = Below(n), f.pc = top.pc + 1,
             DOMAIN f = DOMAIN top, f.fn = top.fn, ins.op # "call", ins.op # "ret",
             Needs(ins.op) = n, Gives(ins.op) = 0
      PROVE  SourceInv' /\ status' = "running"
  <2>1. After(Arities, ins, sp) = sp - n + 0 /\ sp \in Nat /\ n <= sp
    BY <1>1, Remains
  <2>2. n \in 0..sp
    BY <2>1
  <2>3. IsSeq(f.stack) /\ Len(f.stack) + 0 = After(Arities, ins, sp)
    BY <1>1, <2>1, <2>2, Remains
  <2>4. Moves(f, 0)
    BY <1>1, <2>3 DEF Moves
  <2> QED  BY <1>1, <2>4, Continued
<1>2. CASE StoreLocal
  <2> DEFINE f == [top EXCEPT !.stack = Below(1), !.pc = @ + 1, !.locals[ins.a] = top.stack[sp]]
  <2>1. ins.op = "store" /\ Continue(f)
    BY <1>2 DEF StoreLocal, Executing
  <2>2. f.stack = Below(1) /\ f.pc = top.pc + 1 /\ DOMAIN f = DOMAIN top /\ f.fn = top.fn
    BY <1>0
  <2> HIDE DEF f
  <2>3. Needs(ins.op) = 1 /\ Gives(ins.op) = 0
    BY <2>1, OpCounts
  <2> QED  BY <1>1, <2>1, <2>2, <2>3
<1>3. CASE StoreIndex
  <2> DEFINE slot == top.locals[ins.a]
             i == top.stack[sp - 1]
             f == [top EXCEPT !.stack = Below(2), !.pc = @ + 1,
                              !.pool = IF Element(slot, i)
                                       THEN [@ EXCEPT ![slot][i] = top.stack[sp]] ELSE @]
  <2>1. ins.op = "store_index" /\ Continue(f)
    BY <1>3 DEF StoreIndex, Executing
  <2>2. f.stack = Below(2) /\ f.pc = top.pc + 1 /\ DOMAIN f = DOMAIN top /\ f.fn = top.fn
    BY <1>0
  <2> HIDE DEF f
  <2>3. Needs(ins.op) = 2 /\ Gives(ins.op) = 0
    BY <2>1, OpCounts
  <2> QED  BY <1>1, <2>1, <2>2, <2>3
<1>4. CASE Jump
  <2> DEFINE taken == \/ ins.op = "jump"
                      \/ ins.op \in {"jump_if_false", "jump_if_false_keep"} /\ top.stack[sp] = 0
                      \/ ins.op = "jump_if_true_keep" /\ top.stack[sp] # 0
             f == [top EXCEPT !.pc = IF taken THEN ins.a ELSE @ + 1,
                              !.stack = IF ins.op = "jump_if_false" THEN Below(1) ELSE @]
  <2>1. ins.op \in JumpOps /\ Continue(f)
    BY <1>4 DEF Jump, Executing
  <2>2. /\ f.stack = IF ins.op = "jump_if_false" THEN Below(1) ELSE top.stack
        /\ f.pc \in {ins.a, top.pc + 1} /\ DOMAIN f = DOMAIN top /\ f.fn = top.fn
    BY <1>0
  <2> HIDE DEF f
  <2>3. ins.op # "call" /\ ins.op # "ret" /\ ins.op # "abi_call"
    BY <2>1 DEF JumpOps
  <2>4. IsSeq(f.stack) /\ Len(f.stack) + 0 = After(Arities, ins, sp)
    <3>1. CASE ins.op = "jump_if_false"
      <4>1. After(Arities, ins, sp) = sp - 1 + 0 /\ sp \in Nat /\ 1 <= sp
        BY <3>1, Remains, OpCounts
      <4>2. 1 \in 0..sp
        BY <4>1
      <4> QED  BY <2>2, <3>1, <4>1, <4>2, Remains
    <3>2. CASE ins.op # "jump_if_false"
      <4>1. Needs(ins.op) \in {0, 1} /\ Gives(ins.op) = Needs(ins.op)
        BY <2>1, <3>2, OpCounts DEF JumpOps
      <4>2. After(Arities, ins, sp) = sp /\ sp \in Nat
        BY <2>3, <4>1, Remains
      <4> QED  BY <2>2, <3>2, <4>2, Remains
    <3> QED  BY <3>1, <3>2
  <2>5. Moves(f, 0)
    BY <2>1, <2>2, <2>3, <2>4 DEF Moves
  <2> QED  BY <2>1, <2>5, Continued
<1> QED  BY <1>2, <1>3, <1>4

\* What CompiledRunsClean says of the source route.
RanClean ==
    /\ status # "STACK_UNDERFLOW"
    /\ status = "BAD_FN" =>
          \/ ~fns[FirstOf(Asking(query.name))].ok
          \/ \E i \in DOMAIN module : module[i].ok /\ TooManyArrays(module[i])
    /\ status = "ok" => result.sp = 1

LEMMA RunningIsClean == ASSUME status' = "running" PROVE RanClean'
BY DEF RanClean

LEMMA FailedClean ==
    ASSUME Running, NEW e, Fail(e), e \notin {"running", "STACK_UNDERFLOW", "BAD_FN", "ok"}
    PROVE  SourceInv' /\ RanClean'
<1>1. SourceInv' /\ status' = e
  BY Failed
<1> QED  BY <1>1 DEF RanClean

LEMMA ErrorsClean ==
    ASSUME Running, StepLimitHit \/ StackUnderflow \/ StackOverflow \/ DivZero
    PROVE  SourceInv' /\ RanClean'
<1>1. CASE StepLimitHit
  BY <1>1, FailedClean DEF StepLimitHit
<1>2. CASE StackOverflow
  BY <1>2, FailedClean DEF StackOverflow
<1>3. CASE DivZero
  BY <1>3, FailedClean DEF DivZero
<1>4. CASE StackUnderflow
  <2>1. sp < Needs(ins.op)
    BY <1>4 DEF StackUnderflow
  <2>2. ins.op = "call" => Needs(ins.op) = 0
    BY OpCounts
  <2>3. Needs(ins.op) \in {0, 1, 2} /\ sp \in Nat
    BY CountsTyped, Remains
  <2>4. Needs(ins.op) <= sp
    BY <2>2, <2>3, Remains
  <2> QED  BY <2>1, <2>3, <2>4
<1> QED  BY <1>1, <1>2, <1>3, <1>4

\* The first instruction of an accepted function expects nothing.
LEMMA NewFrameFits ==
    ASSUME BuildInv, HeightInv, SourceInv, NEW fi \in Nat, fi + 1 \in DOMAIN fns, fns[fi + 1].ok, NEW args
    PROVE  FrameFits(fns, Arities, NewFrame(fi, args), 0)
<1> DEFINE f == NewFrame(fi, args)
           c == fns[fi + 1].code
           H == HeightsOf(Arities, c)
<1>1. /\ DOMAIN f = {"fn", "pc", "stack", "locals", "len", "pool"}
      /\ f.fn = fi /\ f.pc = 0 /\ f.stack = <<>>
  BY DEF NewFrame
<1> HIDE DEF f
<1>2. Flat(Arities, c, H)
  BY CodeFlat
<1> HIDE DEF H
<1>3. c \in Seq(CodeIns) /\ Len(c) >= 1 /\ H[0] = 0
  BY <1>2 DEF Flat, Heights
<1>4. 0 \in 0..Len(c) - 1
  BY <1>3
<1>5. IsSeq(f.stack) /\ Len(f.stack) = 0
  BY <1>1 DEF IsSeq
<1>6. Len(f.stack) + 0 = H[f.pc]
  BY <1>1, <1>3, <1>5
<1> QED  BY <1>1, <1>4, <1>5, <1>6 DEF FrameFits, f, H

LEMMA CallRunsClean ==
    ASSUME Running, Call
    PROVE  SourceInv' /\ RanClean'
<1> DEFINE a == ins.a
           n == module[a + 1].nparams
           e == EntryError(a, n, Depth)
           g == [top EXCEPT !.stack = Below(n), !.pc = @ + 1]
<1>1. ins.op = "call"
  BY DEF Call, Executing
<1>2. \/ a \notin 0..Len(module) - 1 /\ Fail("BAD_FN")
      \/ sp < n /\ Fail("STACK_UNDERFLOW")
      \/ sp >= n /\ e # "OK" /\ Fail(e)
      \/ /\ sp >= n /\ e = "OK"
         /\ frames' = Append([frames EXCEPT ![Depth] = g], NewFrame(a, Operands(n)))
         /\ UNCHANGED <<module, ctx, status, result>>
  BY DEF Call
<1>3. StepFacts /\ FramesFit /\ Holds
  BY TopFits, Held DEF Running, SourceInv
<1>4. /\ a \in Nat /\ a + 1 \in DOMAIN fns /\ fns[a + 1].ok
      /\ Takes(Arities, ins) = fns[a + 1].nparams /\ Takes(Arities, ins) <= sp
  BY <1>1, <1>3 DEF StepFacts
<1>5. /\ Len(module) \in Nat /\ DOMAIN module = 1..Len(module) /\ a + 1 \in DOMAIN module
      /\ module[a + 1].ok /\ n = Takes(Arities, ins) /\ n <= sp
  <2>1. Len(fns) \in Nat /\ DOMAIN fns = 1..Len(fns) /\ Len(module) = Len(fns) /\ DOMAIN module = DOMAIN fns
    BY ModuleFacts DEF Running
  <2>2. module[a + 1].ok = fns[a + 1].ok /\ module[a + 1].nparams = fns[a + 1].nparams
    BY <1>4, ModuleFacts DEF Running
  <2> QED  BY <1>4, <2>1, <2>2
<1>6. n \in Nat /\ sp \in Nat
  <2>1. fns[a + 1].nparams = Len(sigs[a + 1].params)
    BY <1>4 DEF Running, HeightInv, ArityInv
  <2>2. a + 1 \in DOMAIN sigs /\ SourceFacts
    BY <1>4, SourceIsLexed DEF Running, BuildInv, SourceFacts, ModuleInv
  <2> QED  BY <1>3, <1>4, <1>5, <2>1, <2>2 DEF SourceFacts, StepFacts
<1> HIDE DEF n
<1>7. a \in 0..Len(module) - 1 /\ ~(sp < n) /\ ~(a >= Len(module))
  BY <1>4, <1>5, <1>6
<1>8. CASE e # "OK" /\ Fail(e)
  <2>1. /\ e \in {"DEPTH", "BAD_FN", "ARITY"}
        /\ e = "BAD_FN" => TooManyArrays(module[a + 1])
    BY <1>5, <1>7, <1>8 DEF EntryError, TooManyArrays, n
  <2> HIDE DEF e
  <2>2. SourceInv' /\ status' = e /\ module' = module
    BY <1>8, <2>1, Failed DEF Fail
  <2> QED  BY <1>5, <2>1, <2>2 DEF RanClean
<1>9. CASE /\ sp >= n /\ e = "OK"
           /\ frames' = Append([frames EXCEPT ![Depth] = g], NewFrame(a, Operands(n)))
           /\ UNCHANGED <<module, ctx, status, result>>
  <2> HIDE DEF e
  <2>1. DOMAIN g = DOMAIN top /\ g.fn = top.fn /\ g.stack = Below(n) /\ g.pc = top.pc + 1
    BY Remains
  <2>2. n \in 0..sp
    BY <1>5, <1>6
  <2>3. IsSeq(g.stack) /\ Len(g.stack) = sp - n
    BY <2>1, <2>2, Remains
  <2>4. After(Arities, ins, sp) = sp - n + 1
    BY <1>1, <1>5, OpCounts DEF After
  <2>5. Moves(g, 1)
    <3>1. Len(g.stack) + 1 = After(Arities, ins, sp)
      BY <1>6, <2>3, <2>4
    <3> QED  BY <1>1, <2>1, <2>3, <3>1 DEF Moves
  <2>6. FrameFits(fns, Arities, g, 1)
    BY <2>5, TopFits DEF Running
  <2> HIDE DEF g
  <2>7. PICK h : h = NewFrame(a, Operands(n)) /\ FrameFits(fns, Arities, h, 0)
    BY <1>4, NewFrameFits DEF Running
  <2>8. PICK s : s = [frames EXCEPT ![Len(frames)] = g]
    OBVIOUS
  <2>9. /\ IsSeq(frames) /\ Len(frames) \in Nat /\ Len(frames) \in 1..Len(frames) /\ Depth = Len(frames)
    BY <1>3 DEF StepFacts, Depth
  <2>10. Swapped(frames, Len(frames), g, s)
    BY <2>8, <2>9, Replaced
  <2>11. frames' = Append(s, h)
    BY <1>9, <2>7, <2>8, <2>9
  <2>12. /\ IsSeq(frames') /\ Len(frames') = Len(frames) + 1 /\ frames'[Len(frames) + 1] = h
         /\ \A d \in 1..Len(frames) : frames'[d] = s[d]
    <3>1. IsSeq(s) /\ Len(s) = Len(frames)
      BY <2>10 DEF Swapped
    <3>2. PICK S : s \in Seq(S)
      BY <3>1 DEF IsSeq
    <3>3. PICK T : T = S \cup {h}
      OBVIOUS
    <3>4. s \in Seq(T) /\ h \in T
      BY <3>2, <3>3
    <3>5. Append(s, h) \in Seq(T) /\ Len(Append(s, h)) = Len(s) + 1
          /\ Append(s, h)[Len(s) + 1] = h /\ \A d \in 1..Len(s) : Append(s, h)[d] = s[d]
      BY <3>4
    <3> QED  BY <2>11, <3>1, <3>5 DEF IsSeq
  <2>13. FramesFit'
    <3>1. ASSUME NEW d \in 1..Len(frames) + 1
          PROVE  FrameFits(fns, Arities, frames'[d], IF d = Len(frames) + 1 THEN 0 ELSE 1)
      <4>1. CASE d = Len(frames) + 1
        BY <2>7, <2>12, <4>1
      <4>2. CASE d # Len(frames) + 1 /\ d = Len(frames)
        BY <2>6, <2>9, <2>10, <2>12, <4>2 DEF Swapped
      <4>3. CASE d # Len(frames) + 1 /\ d # Len(frames)
        <5>1. d \in 1..Len(frames)
          BY <2>9, <4>3
        <5>2. FrameFits(fns, Arities, frames[d], 1)
          BY <1>3, <4>3, <5>1 DEF FramesFit, Depth
        <5>3. frames'[d] = frames[d]
          BY <2>10, <2>12, <4>3, <5>1 DEF Swapped
        <5> QED  BY <4>3, <5>2, <5>3
      <4> QED  BY <4>1, <4>2, <4>3
    <3>2. Depth' = Len(frames) + 1 /\ Len(frames) + 1 >= 1
      BY <2>9, <2>12 DEF Depth
    <3> QED  BY <1>3, <2>12, <3>1, <3>2 DEF FramesFit, Holds
  <2>14. SourceInv'
    BY <1>3, <1>9, <2>13, RouteGoesOn DEF Running
  <2>15. status' = "running"
    BY <1>9 DEF Running
  <2> QED  BY <2>14, <2>15, RunningIsClean
<1> QED  BY <1>2, <1>7, <1>8, <1>9

LEMMA RetRunsClean ==
    ASSUME Running, Ret
    PROVE  SourceInv' /\ RanClean'
<1> DEFINE val == top.stack[sp]
<1>1. ins.op = "ret" /\ Return(val) /\ module' = module
  BY DEF Ret, Executing
<1>2. StepFacts /\ FramesFit /\ Holds /\ sp = 1
  BY <1>1, TopFits, Held DEF Running, SourceInv, StepFacts
<1> HIDE DEF val
<1>3. CASE status' = "ok" /\ result' = [val |-> val, sp |-> sp]
  <2>1. SourceInv'
    BY <1>1, <1>2, <1>3, RouteGoesOn DEF Running
  <2>2. result'.sp = 1
    BY <1>2, <1>3
  <2> QED  BY <1>3, <2>1, <2>2 DEF RanClean
<1>4. CASE status' = "undefined"
  <2>1. SourceInv'
    BY <1>1, <1>2, <1>4, RouteGoesOn DEF Running
  <2> QED  BY <1>4, <2>1 DEF RanClean
<1> DEFINE m == Depth - 1
           caller == frames[m]
           g == [caller EXCEPT !.stack = Append(@, val)]
           s == SubSeq(frames, 1, m)
<1>5. CASE Depth > 1 /\ frames' = [s EXCEPT ![m] = g] /\ status' = status
  <2>1. IsSeq(frames) /\ Len(frames) \in Nat /\ Depth = Len(frames) /\ Depth \in Nat
    BY <1>2 DEF StepFacts, Depth
  <2>2. m \in Nat /\ m >= 1 /\ m \in 1..Depth /\ m # Depth /\ m <= Depth /\ m \in 1..m
    BY <1>5, <2>1
  <2>3. \A d \in 1..m : d \in 1..Depth /\ d # Depth
    BY <2>1, <2>2
  <2>4. FrameFits(fns, Arities, caller, 1)
    BY <1>2, <2>2 DEF FramesFit
  <2>5. /\ DOMAIN g = DOMAIN caller /\ g.fn = caller.fn /\ g.pc = caller.pc
        /\ g.stack = Append(caller.stack, val)
    BY <2>4 DEF FrameFits
  <2>6. IsSeq(g.stack) /\ Len(g.stack) + 0 = Len(caller.stack) + 1
    <3>1. IsSeq(caller.stack)
      BY <2>4 DEF FrameFits
    <3> QED  BY <2>5, <3>1, StackShapes
  <2> HIDE DEF g
  <2>7. FrameFits(fns, Arities, g, 0)
    BY <2>4, <2>5, <2>6 DEF FrameFits
  <2> HIDE DEF m, caller
  <2>8. IsSeq(s) /\ Len(s) = m /\ \A d \in 1..m : s[d] = frames[d]
    <3>1. PICK T : frames \in Seq(T)
      BY <2>1 DEF IsSeq
    <3>2. s \in Seq(T) /\ Len(s) = m /\ \A d \in 1..m : s[d] = frames[d]
      BY <2>1, <2>2, <3>1
    <3> QED  BY <3>2 DEF IsSeq
  <2> HIDE DEF s
  <2>9. Swapped(s, m, g, [s EXCEPT ![m] = g])
    BY <2>2, <2>8, Replaced
  <2>10. Swapped(s, m, g, frames')
    BY <1>5, <2>9
  <2>11. IsSeq(frames') /\ Depth' = m
    BY <2>8, <2>10 DEF Swapped, Depth
  <2>12. ASSUME NEW d \in 1..m
         PROVE  FrameFits(fns, Arities, frames'[d], IF d = m THEN 0 ELSE 1)
    <3>1. CASE d = m
      BY <2>7, <2>10, <3>1 DEF Swapped
    <3>2. CASE d # m
      <4>1. frames'[d] = frames[d]
        BY <2>8, <2>10, <3>2 DEF Swapped
      <4>2. FrameFits(fns, Arities, frames[d], 1)
        BY <1>2, <2>3 DEF FramesFit
      <4> QED  BY <3>2, <4>1, <4>2
    <3> QED  BY <3>1, <3>2
  <2>13. FramesFit'
    BY <1>2, <2>2, <2>11, <2>12 DEF FramesFit, Holds
  <2>14. SourceInv'
    BY <1>1, <1>2, <2>13, RouteGoesOn DEF Running
  <2>15. status' = "running"
    BY <1>5 DEF Running
  <2> QED  BY <2>14, <2>15, RunningIsClean
<1> QED  BY <1>1, <1>3, <1>4, <1>5 DEF Return

LEMMA VmRunsClean ==
    ASSUME Running, VmStep
    PROVE  SourceInv' /\ RanClean'
<1>1. StepFacts
  BY TopFits DEF Running
<1>2. ~FallOff /\ ~AbiCall
  BY <1>1 DEF StepFacts, FallOff, AbiCall, Executing
<1>3. CASE StepLimitHit \/ StackUnderflow \/ StackOverflow \/ DivZero
  BY <1>3, ErrorsClean
<1>4. CASE \/ PushConst \/ LoadLocal \/ ArrLen \/ Pop \/ Unary \/ Binary \/ LoadIndex
           \/ StoreLocal \/ StoreIndex \/ Jump
  <2>1. SourceInv' /\ status' = "running"
    BY <1>4, PlainStepsFit, OtherStepsFit
  <2> QED  BY <2>1, RunningIsClean
<1> QED  BY <1>2, <1>3, <1>4, CallRunsClean, RetRunsClean DEF VmStep

LEMMA StartRunsClean ==
    ASSUME BuildInv, HeightInv, SourceInv, UNCHANGED <<buildVars, toolVars>>,
           Start(FirstOf(Asking(query.name)) - 1, query.args)
    PROVE  SourceInv' /\ RanClean'
<1> DEFINE i == FirstOf(Asking(query.name))
           fi == i - 1
           args == query.args
           e == EntryError(fi, Len(args), 0)
<1>1. Holds /\ Asking(query.name)' = Asking(query.name)
  BY Held DEF Holds, Asking
<1>2. /\ Len(fns) \in Nat /\ DOMAIN fns = 1..Len(fns) /\ Len(module) = Len(fns)
      /\ DOMAIN module = DOMAIN fns
  BY ModuleFacts
<1>3. i \in DOMAIN fns
  <2>1. Asking(query.name) \in SUBSET Nat /\ Asking(query.name) # {} /\ Asking(query.name) \subseteq DOMAIN fns
    BY <1>2 DEF Asking, SourceInv
  <2> QED  BY <2>1, FirstIsOne
<1>4. \/ e # "OK" /\ Fail(e)
      \/ Fail("ARENA_OOM")
      \/ /\ e = "OK" /\ frames' = <<NewFrame(fi, args)>> /\ status' = "running"
         /\ UNCHANGED <<module, ctx, result>>
  BY DEF Start
<1> HIDE DEF i
<1>5. fi \in Nat /\ fi + 1 = i /\ ~(fi >= Len(module)) /\ i \in DOMAIN module /\ module[i].ok = fns[i].ok
  BY <1>2, <1>3, ModuleFacts
<1> HIDE DEF fi
<1>6. ASSUME NEW why, Fail(why), why # "running"
      PROVE  SourceInv' /\ status' = why /\ module' = module
  <2>1. status' = why /\ module' = module
    BY <1>6 DEF Fail
  <2> QED  BY <1>1, <1>6, <2>1, RouteGoesOn
<1>7. CASE e # "OK" /\ Fail(e)
  <2>1. /\ e \in {"DEPTH", "BAD_FN", "ARITY"}
        /\ e = "BAD_FN" => ~fns[i].ok \/ (module[i].ok /\ TooManyArrays(module[i]))
    BY <1>5, <1>7 DEF EntryError, TooManyArrays
  <2> HIDE DEF e
  <2>2. SourceInv' /\ status' = e /\ module' = module
    BY <1>6, <1>7, <2>1
  <2>3. fns' = fns /\ FirstOf(Asking(query.name))' = i
    BY <1>1 DEF Holds, FirstOf, i
  <2> QED  BY <1>5, <2>1, <2>2, <2>3 DEF RanClean
<1>8. CASE Fail("ARENA_OOM")
  <2>1. SourceInv' /\ status' = "ARENA_OOM"
    BY <1>6, <1>8
  <2> QED  BY <2>1 DEF RanClean
<1>9. CASE /\ e = "OK" /\ frames' = <<NewFrame(fi, args)>> /\ status' = "running"
           /\ UNCHANGED <<module, ctx, result>>
  <2>1. module[i].ok
    BY <1>5, <1>9 DEF EntryError
  <2>2. PICK h : h = NewFrame(fi, args) /\ FrameFits(fns, Arities, h, 0)
    BY <1>3, <1>5, <2>1, NewFrameFits
  <2>3. frames' = <<h>>
    BY <1>9, <2>2
  <2>4. IsSeq(frames') /\ Depth' = 1 /\ frames'[1] = h
    <3>1. <<h>> \in Seq({h}) /\ Len(<<h>>) = 1 /\ <<h>>[1] = h
      OBVIOUS
    <3> QED  BY <2>3, <3>1 DEF IsSeq, Depth
  <2>5. FramesFit'
    <3>1. \A d \in 1..1 : d = 1
      OBVIOUS
    <3> QED  BY <1>1, <2>2, <2>4, <3>1 DEF FramesFit, Holds
  <2>6. SourceInv'
    BY <1>1, <1>9, <2>5, RouteGoesOn
  <2> QED  BY <1>9, <2>6, RunningIsClean
<1> QED  BY <1>4, <1>7, <1>8, <1>9

\* The compiler's invariants, and on the source route those of the machine.
CleanInv ==
    /\ BuildInv /\ HeightInv
    /\ stage = "build" => status = "idle"
    /\ stage = "source" => SourceInv
    /\ CompiledRunsClean

LEMMA CleanStarts == Init => CleanInv
<1> SUFFICES ASSUME Init PROVE CleanInv
  OBVIOUS
<1>1. BuildInit /\ stage = "build" /\ status = "idle"
  BY DEF Init, Idle
<1> QED  BY <1>1, BuildStarts, HeightsStart DEF CleanInv, CompiledRunsClean

\* The compiler is done and the source route is not taken, or no longer.
LEMMA Elsewhere ==
    ASSUME CleanInv, UNCHANGED buildVars, stage' \notin {"build", "source"}
    PROVE  CleanInv'
<1>1. BuildInv'
  BY BuildKept DEF CleanInv
<1>2. HeightInv'
  BY BuildHeights DEF CleanInv
<1> QED  BY <1>1, <1>2 DEF CleanInv, CompiledRunsClean

LEMMA CleanKept ==
    ASSUME CleanInv, [Next]_allVars
    PROVE  CleanInv'
<1> DEFINE Other == SourceDone \/ Encode \/ LoadImage \/ ImageDone \/ JitCommand \/ JitRoundtrip \/ JitVerify
<1>1. CASE BuildStep
  <2>1. stage = "build" /\ Build /\ stage' = stage /\ status' = status
    BY <1>1 DEF BuildStep, toolVars, vmVars
  <2>2. BuildInv' /\ HeightInv'
    BY <2>1, BuildKept, BuildHeights DEF CleanInv
  <2> QED  BY <2>1, <2>2 DEF CleanInv, CompiledRunsClean
<1>2. CASE Dispatch
  <2>1. /\ stage = "build" /\ building = "built" /\ UNCHANGED buildVars /\ status' = status
        /\ module' = [j \in DOMAIN fns |-> FnOf(fns[j])]
    BY <1>2 DEF Dispatch
  <2>2. PICK line : /\ query' = [name |-> line.name, args |-> line.args]
                    /\ stage' = CASE line.cmd = "image" -> "encode"
                                  [] line.cmd \in {"jit", "jit-verify"} -> line.cmd
                                  [] line.cmd = "roundtrip-jit" ->
                                       IF Asking(line.name) = {} THEN "DIVERGENCE" ELSE "source"
                                  [] OTHER ->
                                       IF Asking(line.name) = {} THEN "unknown"
                                       ELSE IF ~fns[FirstOf(Asking(line.name))].ok THEN "refused"
                                       ELSE "source"
    BY <1>2 DEF Dispatch
  <2>3. /\ stage' \in {"encode", "jit", "jit-verify", "DIVERGENCE", "unknown", "refused", "source"}
        /\ stage' = "source" => Asking(line.name) # {}
    BY <2>2
  <2>4. BuildInv' /\ HeightInv'
    BY <2>1, BuildKept, BuildHeights DEF CleanInv
  <2>5. status' = "idle"
    BY <2>1 DEF CleanInv
  <2>6. fns' = fns /\ building' = building
    BY <2>1 DEF buildVars
  <2>7. stage' = "source" => SourceInv'
    <3> SUFFICES ASSUME stage' = "source" PROVE SourceInv'
      OBVIOUS
    <3>1. query'.name = line.name
      BY <2>2
    <3>2. Asking(query.name)' # {}
      BY <2>3, <2>6, <3>1 DEF Asking
    <3> QED  BY <2>1, <2>5, <2>6, <3>2 DEF SourceInv
  <2> QED  BY <2>3, <2>4, <2>5, <2>7 DEF CleanInv, CompiledRunsClean
<1>3. CASE Exec
  <2>1. UNCHANGED <<buildVars, toolVars>> /\ stage' = stage /\ stage \in {"source", "image"}
    BY <1>3 DEF Exec, toolVars
  <2>2. CASE stage = "image"
    BY <2>1, <2>2, Elsewhere
  <2>3. CASE stage = "source"
    <3>1. BuildInv /\ HeightInv /\ SourceInv
      BY <2>3 DEF CleanInv
    <3>2. Start(FirstOf(Asking(query.name)) - 1, query.args) \/ VmStep
      BY <1>3, <2>3 DEF Exec
    <3>3. SourceInv' /\ RanClean'
      <4>1. CASE Start(FirstOf(Asking(query.name)) - 1, query.args)
        BY <2>1, <3>1, <4>1, StartRunsClean
      <4>2. CASE VmStep
        <5>1. status = "running"
          BY <4>2 DEF VmStep, StepLimitHit, StackUnderflow, StackOverflow, PushConst, LoadLocal,
                      StoreLocal, Pop, Unary, Binary, DivZero, Jump, LoadIndex, StoreIndex, ArrLen,
                      Call, Ret, FallOff, AbiCall, Executing
        <5>2. Running
          BY <2>1, <3>1, <5>1 DEF Running
        <5> QED  BY <4>2, <5>2, VmRunsClean
      <4> QED  BY <3>2, <4>1, <4>2
    <3>4. BuildInv' /\ HeightInv'
      BY <2>1, BuildKept, BuildHeights DEF CleanInv
    <3>5. CompiledRunsClean'
      BY <3>3 DEF CompiledRunsClean, RanClean
    <3> QED  BY <2>1, <2>3, <3>3, <3>4, <3>5 DEF CleanInv
  <2> QED  BY <2>1, <2>2, <2>3
<1>4. CASE Other
  <2>1. UNCHANGED buildVars
    BY <1>4 DEF SourceDone, Encode, LoadImage, ImageDone, JitCommand, JitRoundtrip, JitVerify, Native
  <2>2. stage' \notin {"build", "source"}
    <3>1. CASE SourceDone
      BY <3>1 DEF SourceDone
    <3>2. CASE Encode \/ LoadImage \/ ImageDone
      BY <3>2 DEF Encode, LoadImage, ImageDone
    <3>3. CASE JitCommand
      BY <3>3 DEF JitCommand
    <3>4. CASE JitRoundtrip
      BY <3>4 DEF JitRoundtrip
    <3>5. CASE JitVerify
      BY <3>5 DEF JitVerify
    <3> QED  BY <1>4, <3>1, <3>2, <3>3, <3>4, <3>5
  <2> QED  BY <2>1, <2>2, Elsewhere
<1>5. CASE UNCHANGED allVars
  <2>1. UNCHANGED <<buildVars, toolVars>> /\ UNCHANGED vmVars
    BY <1>5 DEF allVars
  <2>2. BuildInv' /\ HeightInv'
    BY <2>1, BuildKept, BuildHeights DEF CleanInv
  <2>3. UNCHANGED <<stage, query, module, frames, status, result, fns, building>> /\ Holds
    BY <2>1, Held DEF toolVars, vmVars, buildVars
  <2>4. Asking(query.name)' = Asking(query.name)
    BY <2>3 DEF Asking
  <2>5. FramesFit' <=> FramesFit
    BY <2>3 DEF FramesFit, Depth, Holds
  <2>6. SourceInv => SourceInv'
    BY <2>3, <2>5, RouteGoesOn DEF SourceInv
  <2>7. CompiledRunsClean => CompiledRunsClean'
    BY <2>3, <2>4 DEF CompiledRunsClean
  <2> QED  BY <2>2, <2>3, <2>6, <2>7 DEF CleanInv
<1> QED  BY <1>1, <1>2, <1>3, <1>4, <1>5 DEF Next, Done

\* Whatever source c0_build accepts, and whichever way its conditions and loops go,
\* vm_exec never misses an operand of the code it wrote, never meets in a call a
\* function that was given up, and returns with its value alone on the stack.
THEOREM CompiledKeepsStack == Spec => []CompiledRunsClean
<1>1. Init => CleanInv
  BY CleanStarts
<1>2. CleanInv /\ [Next]_allVars => CleanInv'
  BY CleanKept
<1>3. CleanInv => CompiledRunsClean
  BY DEF CleanInv
<1> QED  BY <1>1, <1>2, <1>3, PTL DEF Spec
=============================================================================
