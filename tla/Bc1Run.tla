------------------------------- MODULE Bc1Run -------------------------------
(***************************************************************************)
(* tool/lin_bc1_run.c: load a LINBC1 image, find a function, run it on     *)
(* LinVM and print the verdict.                                            *)
(***************************************************************************)
EXTENDS Linbc1

CONSTANTS
    Images,    \* images the tool may be given
    Texts,     \* function names on the command line
    Args,      \* argument lists on the command line
    NoImage    \* nothing has been read

ASSUME ImagesAssumption ==
    /\ Images \subseteq Image
    /\ NoImage \notin Images
    /\ Args \subseteq Seq(Word)

VARIABLES
    image,     \* the image that was read
    stage      \* where main is, and the status it prints at the end

runVars == <<vmVars, image, stage>>

Final == {"REJECTED", "VERIFIED", "EVALUATED"}

\* vm_exec gives the machine no ABI and no regions, whatever the profile.
LegacyContext == [profile |-> 1, abiVersion |-> 1, enabled |-> {},
                  regions |-> <<>>, store |-> FALSE]

Init ==
    /\ module = <<>>
    /\ ctx = LegacyContext
    /\ Idle
    /\ image = NoImage
    /\ stage = "read"

\* The file cannot be opened, is empty or too long, or the hex is malformed.
ReadFails ==
    /\ stage = "read"
    /\ stage' = "REJECTED"
    /\ UNCHANGED <<vmVars, image>>

Load ==
    /\ stage = "read"
    /\ \E img \in Images :
          /\ image' = img
          /\ \/ /\ LoadError(img) = "OK"
                /\ module' = ModuleOf(img)
                /\ stage' = "loaded"
             \/ /\ LoadError(img) # "OK"
                /\ stage' = "REJECTED"
                /\ UNCHANGED module
    /\ UNCHANGED <<ctx, frames, steps, status, result>>

\* --verify: the image is not run.
Verify ==
    /\ stage = "loaded"
    /\ stage' = "VERIFIED"
    /\ UNCHANGED <<vmVars, image>>

UnknownFn ==
    /\ stage = "loaded"
    /\ \E text \in Texts : FindFn(image, text) = -1
    /\ stage' = "REJECTED"
    /\ UNCHANGED <<vmVars, image>>

\* Arguments past the 64th are dropped.
Exec ==
    /\ stage = "loaded"
    /\ \E text \in Texts, args \in Args :
          /\ FindFn(image, text) # -1
          /\ Start(FindFn(image, text),
                   SubSeq(args, 1, IF Len(args) < MaxLocals THEN Len(args) ELSE MaxLocals))
    /\ stage' = "exec"
    /\ UNCHANGED image

Run ==
    /\ stage = "exec"
    /\ VmStep
    /\ UNCHANGED <<image, stage>>

Report ==
    /\ stage = "exec"
    /\ status \notin {"running", "undefined"}
    /\ stage' = IF status = "ok" THEN "EVALUATED" ELSE "REJECTED"
    /\ UNCHANGED <<vmVars, image>>

\* main has returned, or nothing can be said of it any more.
Done ==
    /\ stage \in Final \/ status = "undefined"
    /\ UNCHANGED runVars

Next ==
    ReadFails \/ Load \/ Verify \/ UnknownFn \/ Exec \/ Run \/ Report \/ Done

\* The loop of vm_exec_ctx and the printf after it wait for nobody.
Spec == Init /\ [][Next]_runVars /\ WF_runVars(Run \/ Report)

-----------------------------------------------------------------------------
\* Once it runs an image the tool ends with a verdict: loops and recursion do not
\* keep it busy.
Answers == stage = "exec" ~> (stage \in Final \/ status = "undefined")

\* What the loader checks is enough: the interpreter never meets a bad call, an
\* unknown opcode or more arrays than it has slots in an image that was accepted.
NoBadFunction == status # "BAD_FN"

\* docs/LINBC1_FORMAT.rulel: "uma imagem aceita nunca referencia memoria nao
\* declarada".  An accepted image never makes the interpreter store outside the
\* stack of a frame.
AcceptedStaysInBounds == status # "undefined"
=============================================================================
