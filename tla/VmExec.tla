------------------------------- MODULE VmExec -------------------------------
(***************************************************************************)
(* vm_exec_ctx called by a host that built the module, the ABI context and *)
(* the regions itself (tool/lin_c0.c, tool/lin_c_receipt.c, the tests).    *)
(* Before it runs the module, a host of ABI 2 binds and writes regions     *)
(* (lin_region.c) and enables intrinsics (lin_abi.c).  A call that fails   *)
(* changes nothing and is no step.                                         *)
(***************************************************************************)
EXTENDS LinVM

CONSTANTS
    Hosts,          \* modules a host may run, with the context it starts from
    Args,           \* argument lists
    MaxRegionCount, \* LIN_REGION_MAX_COUNT
    Bindings,       \* cells a host may bind: [capacity, payload, cells]
    Inputs          \* byte strings it may write into a region

VARIABLE inputs     \* history: the bytes the host put into each region

hostVars == <<vmVars, inputs>>

Byte == 0..Pow2[ByteBits] - 1

\* Contexts as they are initialised: lin_abi2_context_init, or those of profile 1.
FreshContexts == [profile : {1, 2}, abiVersion : {1, 2}, enabled : {{}},
                  regions : {<<>>}, store : BOOLEAN]

\* Cells that are bound are words, and what is written into them are bytes.
ASSUME HostAssumption ==
    /\ \A h \in Hosts : h.module \in SoundModules /\ h.ctx \in FreshContexts
    /\ Args \subseteq Seq(Word)
    /\ \A b \in Bindings : b.capacity \in Nat /\ b.payload \in Nat
                           /\ b.cells \in [0..b.capacity - 1 -> Word]
    /\ Inputs \subseteq Seq(Byte)
    /\ Byte \subseteq Word

AbiIds == {RegionCapacity, RegionCheckRange, RegionLoadByte}

Init ==
    /\ \E h \in Hosts : module = h.module /\ ctx = h.ctx
    /\ inputs = <<>>
    /\ Idle

\* The host is between calls of vm_exec_ctx and has an ABI 2 context.
Preparing ==
    /\ status = "idle"
    /\ ctx.abiVersion = 2
    /\ UNCHANGED <<module, frames, steps, status, result>>

\* The bytes a region holds below its payload.
Held(region) ==
    [i \in 1..region.payload |->
       ByteOf(region.cells[(i - 1) \div CellBytes], (i - 1) % CellBytes)]

\* The next region, with cells that hold a payload already or none.
BindRegion(b) ==
    LET region == [id |-> Len(ctx.regions), capacity |-> b.capacity,
                   payload |-> b.payload, cells |-> b.cells]
    IN
    /\ Preparing
    /\ Len(ctx.regions) < MaxRegionCount
    /\ StructValid(region)
    /\ ctx' = [ctx EXCEPT !.regions = Append(@, region)]
    /\ inputs' = Append(inputs, Held(region))

\* Bytes are or-ed into the cells, the first ones into the low ends.
Filled(cells, src) ==
    [c \in DOMAIN cells |->
       CHOOSE w \in Word :
          Ones(w) = Ones(cells[c]) \cup
             UNION {Ones(src[i + 1] * Pow2[ByteBits * (i % CellBytes)]) :
                      i \in {j \in 0..Len(src) - 1 : j \div CellBytes = c}}]

\* Mutant: the bytes of an earlier input stay below those of the new one.
WrittenOver(region, src) ==
    [region EXCEPT !.cells = Filled(region.cells, src), !.payload = Len(src)]

\* lin_region_write_bytes on a region that is large enough.
Written(region, src) ==
    [region EXCEPT !.cells = Filled([c \in 0..region.capacity - 1 |-> 0], src),
                   !.payload = Len(src)]

WriteRegion(r, src) ==
    LET region == ctx.regions[r] IN
    /\ Preparing
    /\ StructValid(region)
    /\ Len(src) <= MaxInput
    /\ Len(src) <= CapacityBytes(region)
    /\ ctx' = [ctx EXCEPT !.regions[r] = Written(region, src)]
    /\ inputs' = [inputs EXCEPT ![r] = src]

ClearRegions ==
    /\ Preparing
    /\ ctx' = [ctx EXCEPT !.regions = <<>>]
    /\ inputs' = <<>>

EnableAbi(id) ==
    /\ Preparing
    /\ ctx' = [ctx EXCEPT !.enabled = @ \cup {id}]
    /\ UNCHANGED inputs

Prepare ==
    \/ \E b \in Bindings : BindRegion(b)
    \/ \E r \in DOMAIN ctx.regions, src \in Inputs : WriteRegion(r, src)
    \/ ClearRegions
    \/ \E id \in AbiIds : EnableAbi(id)

Run == VmStep /\ UNCHANGED inputs

\* The host has its answer.
Halted ==
    /\ status \notin {"idle", "running"}
    /\ UNCHANGED hostVars

Next ==
    \/ Prepare
    \/ \E fi \in 0..Len(module), args \in Args : Start(fi, args) /\ UNCHANGED inputs
    \/ Run
    \/ Halted

Spec == Init /\ [][Next]_hostVars /\ WF_hostVars(Run)

-----------------------------------------------------------------------------
\* Bytes i to i + n - 1 are bytes of the input.
Within(input, i, n) == i >= 0 /\ n >= 0 /\ i + n <= Len(input)

\* A call of an intrinsic: load_byte answers exactly for the places of an input,
\* with the byte there, and check_range says OK exactly for ranges all of whose
\* bytes can be loaded.
ReadsInput ==
    (status = "running" /\ InCode /\ ins.op = "abi_call" /\ AbiEnabled(ins.a)
       /\ steps < StepLimit /\ sp >= AbiParams(ins.a)) =>
    LET args == Operands(AbiParams(ins.a))
        answer == frames'[Depth].stack[sp - AbiParams(ins.a) + 1]
        input == inputs[args[1] + 1]
        exists == args[1] + 1 \in DOMAIN inputs
    IN  /\ ins.a = RegionLoadByte =>
              IF exists /\ Within(input, args[2], 1)
              THEN status' = "running" /\ answer = input[args[2] + 1]
              ELSE status' = "BAD_FN"
        /\ ins.a = RegionCheckRange /\ status' = "running" =>
              (answer = RegionOK <=> Within(input, args[2], args[3]))

\* Through binding, writing and writing again, a program sees the bytes the
\* host meant for it, those of the last input of an existing region, and no others.
ReadsTheInput == [][ReadsInput]_hostVars
=============================================================================
