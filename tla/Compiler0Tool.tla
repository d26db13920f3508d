--------------------------- MODULE Compiler0Tool ---------------------------
(***************************************************************************)
(* tool/lin_c0.c: the commands that compile a source and run it.           *)
(*   vm, vmfull      on LinVM                                              *)
(*   image, run      into a LINBC1 file, which another process loads       *)
(*   roundtrip       on LinVM and from the image, and compare              *)
(*   jit             as native code                                        *)
(*   roundtrip-jit   on LinVM and as native code, and compare              *)
(*   jit-verify      every function as native code, on zeros               *)
(* The module composes the compiler, the image encoder and loader, LinVM   *)
(* and the JIT.                                                            *)
(***************************************************************************)
EXTENDS Compiler0, C0Jit, Linbc1

CONSTANTS
    CommandLines,  \* [cmd, name, args]
    NameLen        \* the length of each function name, in bytes

VARIABLES
    cmd,        \* argv[1], known here once the source is built
    query,      \* the function and the arguments on the command line
    stage,      \* where the command is, and its verdict at the end
    image,      \* the image that was encoded
    first,      \* what LinVM answered on the source route: result and steps
    jit         \* what the native code answered

toolVars == <<cmd, query, stage, image, first, jit>>
allVars == <<vmVars, buildVars, toolVars>>

Final == {"unknown", "refused", "error", "result", "CONSENSUS", "DIVERGENCE", "hangs",
          "verified", "not verified"}

LegacyContext == [profile |-> 1, abiVersion |-> 1, enabled |-> {},
                  regions |-> <<>>, store |-> FALSE]

Names == [i \in DOMAIN fns |-> fns[i].name]

\* find_fn
Asking(name) == {i \in DOMAIN fns : fns[i].name = name}

Init ==
    /\ BuildInit
    /\ module = <<>>
    /\ ctx = LegacyContext
    /\ Idle
    /\ cmd = "none"
    /\ query = [name |-> NoName, args |-> <<>>]
    /\ stage = "build"
    /\ image = <<>>
    /\ first = [val |-> 0, sp |-> 0, steps |-> 0]
    /\ jit = Outcome("none", 0, 0)

BuildStep ==
    /\ stage = "build"
    /\ Build
    /\ UNCHANGED <<vmVars, toolVars>>

\* The source is built, for vmfull with shifts; the command looks at the function
\* it is asked for.
Dispatch ==
    /\ stage = "build"
    /\ building = "built"
    /\ module' = [i \in DOMAIN fns |-> FnOf(fns[i])]
    /\ \E line \in CommandLines : LET c == line.cmd name == line.name IN
          /\ full <=> c = "vmfull"
          /\ cmd' = c
          /\ query' = [name |-> name, args |-> line.args]
          /\ stage' = CASE c = "image" -> "encode"
                        [] c \in {"jit", "jit-verify"} -> c
                        [] c = "roundtrip-jit" ->
                             IF Asking(name) = {} THEN "DIVERGENCE" ELSE "source"
                        [] OTHER ->
                             IF Asking(name) = {} THEN "unknown"
                             ELSE IF ~fns[FirstOf(Asking(name))].ok THEN "refused"
                             ELSE "source"
    /\ UNCHANGED <<ctx, frames, steps, status, result, buildVars, image, first, jit>>

\* vm_exec on the module that was built, and then on the one that was loaded.
Exec ==
    /\ stage \in {"source", "image"}
    /\ \/ /\ stage = "source"
          /\ Start(FirstOf(Asking(query.name)) - 1, query.args)
       \/ /\ stage = "image"
          /\ FindFn(image, query.name) >= 0
          /\ Start(FindFn(image, query.name), query.args)
       \/ VmStep
    /\ UNCHANGED <<buildVars, toolVars>>

Stopped == status \notin {"idle", "running", "undefined"}

SourceDone ==
    /\ stage = "source"
    /\ Stopped
    /\ first' = [val |-> result.val, sp |-> result.sp, steps |-> steps]
    /\ stage' = IF status # "ok"
                THEN (IF cmd = "roundtrip-jit" THEN "DIVERGENCE" ELSE "error")
                ELSE CASE cmd = "roundtrip" -> "encode"
                       [] cmd = "roundtrip-jit" -> "jit"
                       [] OTHER -> "result"
    /\ UNCHANGED <<vmVars, buildVars, cmd, query, image, jit>>

-----------------------------------------------------------------------------
(***************************************************************************)
(* c0_image_encode, and the way back                                       *)
(***************************************************************************)

\* The arrays of a function, in the order of their locals.
ArrayTable(f) ==
    SelectSeq([l \in DOMAIN f.arr_n |-> [local |-> l - 1, len |-> f.arr_n[l]]],
              LAMBDA entry : entry.len > 0)

FnRefusal(f) ==
    IF ~f.ok THEN "C0_REJ_MODULE_NOT_PURE"
    ELSE IF f.code = <<>> THEN "C0_REJ_EMPTY_FN"
    ELSE IF f.nparams > 255 \/ f.nlocals > MaxLocals \/ f.nlocals < f.nparams
    THEN "C0_REJ_FN_LIMITS"
    ELSE "OK"

\* Why no image is written.
Refusal ==
    LET purity == FirstError([i \in DOMAIN fns |-> FnRefusal(fns[i])])
    IN  IF purity # "OK" THEN purity
        ELSE IF Len(fns) > MaxFns THEN "C0_REJ_TOO_MANY_FNS"
        ELSE IF \E i \in DOMAIN fns : Len(ArrayTable(fns[i])) > MaxArrs
        THEN "C0_REJ_TOO_MANY_ARRAYS"
        ELSE "OK"

\* Mutant: arrays are numbered instead of named by their locals.
ImageOfShifted ==
    [short |-> FALSE, magic |-> TRUE, version |-> 1, profile |-> 1, flags |-> 0,
     strings |-> [i \in DOMAIN fns |-> [text |-> fns[i].name, len |-> NameLen[fns[i].name]]],
     regions |-> <<>>, abis |-> <<>>,
     fns |-> [i \in DOMAIN fns |->
                [name |-> i - 1, nparams |-> fns[i].nparams, nlocals |-> fns[i].nlocals,
                 arrs |-> [k \in DOMAIN ArrayTable(fns[i]) |->
                             [ArrayTable(fns[i])[k] EXCEPT !.local = k - 1]],
                 code |-> fns[i].code]],
     cut |-> "none", hash |-> TRUE]

\* The image: a name for each function, no regions, no ABI, and the hash.
ImageOf ==
    [short |-> FALSE, magic |-> TRUE, version |-> 1, profile |-> 1, flags |-> 0,
     strings |-> [i \in DOMAIN fns |-> [text |-> fns[i].name, len |-> NameLen[fns[i].name]]],
     regions |-> <<>>, abis |-> <<>>,
     fns |-> [i \in DOMAIN fns |->
                [name |-> i - 1, nparams |-> fns[i].nparams, nlocals |-> fns[i].nlocals,
                 arrs |-> ArrayTable(fns[i]), code |-> fns[i].code]],
     cut |-> "none", hash |-> TRUE]

Encode ==
    /\ stage = "encode"
    /\ \/ Refusal # "OK" /\ stage' = "refused" /\ UNCHANGED image
       \/ Refusal = "OK" /\ stage' = "load" /\ image' = ImageOf
    /\ UNCHANGED <<vmVars, buildVars, cmd, query, first, jit>>

\* lin_bc1_load: in the same process, or in "run" on the file "image" wrote.
LoadImage ==
    /\ stage = "load"
    /\ \/ /\ LoadError(image) = "OK"
          /\ module' = ModuleOf(image)
          /\ stage' = IF FindFn(image, query.name) >= 0 THEN "image"
                      ELSE IF cmd = "roundtrip" THEN "DIVERGENCE" ELSE "unknown"
       \/ /\ LoadError(image) # "OK"
          /\ stage' = IF cmd = "roundtrip" THEN "DIVERGENCE" ELSE "refused"
          /\ UNCHANGED module
    /\ frames' = <<>> /\ steps' = 0 /\ status' = "idle" /\ result' = [val |-> 0, sp |-> 0]
    /\ UNCHANGED <<ctx, buildVars, cmd, query, image, first, jit>>

ImageDone ==
    /\ stage = "image"
    /\ Stopped
    /\ stage' = IF cmd # "roundtrip" THEN (IF status = "ok" THEN "result" ELSE "error")
                ELSE IF status = "ok" /\ first = [val |-> result.val, sp |-> result.sp,
                                                  steps |-> steps]
                THEN "CONSENSUS" ELSE "DIVERGENCE"
    /\ UNCHANGED <<vmVars, buildVars, cmd, query, image, first, jit>>

-----------------------------------------------------------------------------
(***************************************************************************)
(* Native code                                                             *)
(***************************************************************************)

\* One instruction more than LinVM would have executed.
Fuel == StepLimit + 1

\* c0_jit_exec, or libtcc is missing.  Code that runs on never comes back.
Native(r) ==
    /\ jit' \in {Outcome("LIBTCC_UNAVAILABLE", 0, 0), r}
    /\ UNCHANGED <<vmVars, buildVars, cmd, query, image, first>>

JitCommand ==
    /\ stage = "jit" /\ cmd = "jit"
    /\ Native(c0_jit_exec(Names, query.name, query.args, Fuel))
    /\ stage' = CASE jit'.kind = "runs on" -> "hangs"
                  [] jit'.kind = "value" -> "result"
                  [] OTHER -> "error"

\* LinVM has answered; the native code must agree.
JitRoundtrip ==
    /\ stage = "jit" /\ cmd = "roundtrip-jit"
    /\ Native(c0_jit_exec(Names, query.name, query.args, Fuel))
    /\ stage' = CASE jit'.kind = "runs on" -> "hangs"
                  [] jit'.kind = "value" /\ jit'.val = first.val -> "CONSENSUS"
                  [] OTHER -> "DIVERGENCE"

\* c0_jit_verify_module: a function counts when it compiled and came back.
JitVerify ==
    LET zeros == [p \in 1..MaxLocals |-> 0]
        accepted == {k \in DOMAIN module : module[k].ok}
        kinds == {c0_jit_exec(Names, Names[i], zeros, Fuel).kind : i \in accepted}
    IN
    /\ stage = "jit-verify"
    /\ \/ stage' = IF "runs on" \in kinds THEN "hangs"
                   ELSE IF kinds \subseteq {"value"} THEN "verified" ELSE "not verified"
       \/ accepted # {} /\ stage' = "not verified"    \* without libtcc
    /\ UNCHANGED <<vmVars, buildVars, cmd, query, image, first, jit>>

Done ==
    /\ stage \in Final \/ status = "undefined"
    /\ UNCHANGED allVars

Next ==
    BuildStep \/ Dispatch \/ Exec \/ SourceDone \/ Encode \/ LoadImage \/ ImageDone
      \/ JitCommand \/ JitRoundtrip \/ JitVerify \/ Done

Spec == Init /\ [][Next]_allVars

-----------------------------------------------------------------------------
(***************************************************************************)
(* Properties                                                              *)
(***************************************************************************)

\* More arrays than a frame has slots.
TooManyArrays(f) == Cardinality({l \in 0..MaxLocals - 1 : f.arr[l] > 0}) > MaxArrs

\* Code that was compiled keeps its stack: no operand is ever missing, whichever
\* way conditions and loops go, and a return finds its value and nothing else.
\* A call never meets a function that was given up: the interpreter refuses the
\* function it was asked for, or one with too many arrays.
CompiledRunsClean ==
    stage = "source" =>
        /\ status # "STACK_UNDERFLOW"
        /\ status = "BAD_FN" =>
              \/ ~fns[FirstOf(Asking(query.name))].ok
              \/ \E i \in DOMAIN module : module[i].ok /\ TooManyArrays(module[i])
        /\ status = "ok" => result.sp = 1

\* The names or the code of all functions together exceed what the loader takes.
\* c0_image_encode looks at neither total.
TooLargeToLoad ==
    \/ Total([i \in DOMAIN fns |-> NameLen[fns[i].name]]) > MaxStrBytes
    \/ Total([i \in DOMAIN fns |-> Len(fns[i].code)]) > MaxIns

\* The image that c0_image_encode writes is loaded and runs as the source did: the
\* same value, the same number of steps, the same stack.  There are two ways out:
\* the totals of the module exceed the loader's, or memory runs out in the second
\* execution.
ImageRunsAsSource ==
    (cmd = "roundtrip" /\ stage = "DIVERGENCE") => TooLargeToLoad \/ status = "ARENA_OOM"

UsesShifts == \E i \in DOMAIN module : \E k \in DOMAIN module[i].code :
                  module[i].code[k].op \in {"shl", "shr", "ushr"}

\* Where LinVM has an answer the native code has the same, within LinVM's step
\* limit and without a store outside its stack, shifts aside: no check that the C
\* program leaves out would have failed.
NativeAgrees ==
    (cmd = "roundtrip-jit" /\ jit.kind \notin {"none", "LIBTCC_UNAVAILABLE"} /\ ~UsesShifts) =>
        \/ jit.kind = "value" /\ jit.val = first.val
        \/ jit.kind = "TCC_COMPILE_FAILED"

\* docs/V2_LINVM_AS_COMPILER0_NOZIG.rulel lists arrays used as scalars among what
\* is refused.  No accepted function loads or stores an array as a scalar.
ArraysNeverScalars ==
    \A i \in Accepted : \A k \in DOMAIN fns[i].code :
        fns[i].code[k].op \in {"load", "store"} => fns[i].arr_n[fns[i].code[k].a + 1] = 0
=============================================================================
