------------------------------- MODULE Linbc1 -------------------------------
(***************************************************************************)
(* lin_bc1_load (transpile/c/lin_c/lin_linbc1.c): the fail-closed loader   *)
(* of LINBC1 images, which decides what LinVM gets to run.                 *)
(*                                                                         *)
(* An image is the record of what its bytes spell.  "cut" names the        *)
(* section in which the bytes run out, "none" when they do not, and        *)
(* "trailing" when some are left over.  Within a section the loader checks *)
(* and reads by turns; here the section's length is checked first, so an   *)
(* image with both defects in one section is given only one of the two     *)
(* errors it can have.                                                     *)
(***************************************************************************)
EXTENDS LinVM

CONSTANTS
    MaxFns,      \* LIN_BC1_MAX_FNS
    MaxIns,      \* LIN_BC1_MAX_INS_TOTAL
    MaxStrBytes, \* LIN_BC1_MAX_STR_BYTES
    MaxRegions,  \* LIN_BC1_MAX_REGIONS
    MaxC0Cells   \* LIN_BC1_C0_MAX_CELLS

ASSUME LoaderAssumption ==
    {MaxFns, MaxIns, MaxStrBytes, MaxRegions, MaxC0Cells} \subseteq Nat

\* An opcode beyond the 33 of LINVM-1: OP_ABI_CALL, or no opcode at all.
Unknown == "unknown"

ImageFunction ==
    [name : Nat, nparams : Nat, nlocals : Nat,
     arrs : Seq([local : Nat, len : Nat]),
     code : Seq([op : Ops \cup {Unknown}, a : Word])]

Sections == {"strings", "regions", "abis", "fns"}

Image ==
    [short : BOOLEAN, magic : BOOLEAN, version : Nat, profile : Nat, flags : Nat,
     strings : Seq([text : STRING, len : Nat]),
     regions : Seq([id : Nat, cells : Nat]),
     abis : Seq(Nat),
     fns : Seq(ImageFunction),
     cut : Sections \cup {"none", "trailing"},
     hash : BOOLEAN]

\* The sum of f[1] .. f[n].
SumTo(f, n) ==
    LET sum[i \in 0..n] == IF i = 0 THEN 0 ELSE sum[i - 1] + f[i] IN sum[n]

Total(f) == SumTo(f, Len(f))

\* Mutant: an operand may be equal to the number of locals.
InsErrorOffByOne(img, f, i) ==
    LET op == f.code[i].op
        a == f.code[i].a
    IN  IF op \in {"abi_call", Unknown} THEN "OPCODE"
        ELSE IF op \in JumpOps /\ a \notin 0..Len(f.code) - 1 THEN "JUMP"
        ELSE IF op = "call" /\ a \notin 0..Len(img.fns) - 1 THEN "CALL"
        ELSE IF op \in LocalOps /\ a \notin 0..f.nlocals THEN "LOCAL"
        ELSE "OK"

\* The static checks on one instruction of function f.
InsError(img, f, i) ==
    LET op == f.code[i].op
        a == f.code[i].a
    IN  IF op \in {"abi_call", Unknown} THEN "OPCODE"
        ELSE IF op \in JumpOps /\ a \notin 0..Len(f.code) - 1 THEN "JUMP"
        ELSE IF op = "call" /\ a \notin 0..Len(img.fns) - 1 THEN "CALL"
        ELSE IF op \in LocalOps /\ a \notin 0..f.nlocals - 1 THEN "LOCAL"
        ELSE "OK"

\* The first of errs that is not "OK", if any.
FirstError(errs) ==
    LET bad == {i \in DOMAIN errs : errs[i] # "OK"}
    IN  IF bad = {} THEN "OK"
        ELSE errs[CHOOSE i \in bad : \A j \in bad : i <= j]

ArrayError(f, k) ==
    IF f.arrs[k].local >= f.nlocals THEN "LOCAL"
    ELSE IF f.arrs[k].len \notin 1..MaxArrLen THEN "FN"
    ELSE IF \E j \in 1..k - 1 : f.arrs[j].local = f.arrs[k].local THEN "FN"
    ELSE "OK"

\* Mutant: the number of arrays is not looked at.
FnErrorManyArrays(img, n) ==
    LET f == img.fns[n]
        arrays == FirstError([k \in DOMAIN f.arrs |-> ArrayError(f, k)])
    IN  IF f.name >= Len(img.strings) THEN "FN"
        ELSE IF Len(f.code) = 0 THEN "FN"
        ELSE IF f.nparams > f.nlocals \/ f.nlocals > MaxLocals THEN "FN"
        ELSE IF arrays # "OK" THEN arrays
        ELSE IF SumTo([j \in DOMAIN img.fns |-> Len(img.fns[j].code)], n) > MaxIns
             THEN "COUNT"
        ELSE FirstError([i \in DOMAIN f.code |-> InsError(img, f, i)])

FnError(img, n) ==
    LET f == img.fns[n]
        arrays == FirstError([k \in DOMAIN f.arrs |-> ArrayError(f, k)])
    IN  IF f.name >= Len(img.strings) THEN "FN"
        ELSE IF Len(f.code) = 0 THEN "FN"
        ELSE IF f.nparams > f.nlocals \/ f.nlocals > MaxLocals THEN "FN"
        ELSE IF Len(f.arrs) > MaxArrs THEN "FN"
        ELSE IF arrays # "OK" THEN arrays
        ELSE IF SumTo([j \in DOMAIN img.fns |-> Len(img.fns[j].code)], n) > MaxIns
             THEN "COUNT"
        ELSE FirstError([i \in DOMAIN f.code |-> InsError(img, f, i)])

RegionError(img) ==
    IF img.profile = 1 /\ Len(img.regions) # 0 THEN "REGION"
    ELSE IF img.cut = "regions" THEN "SECTION"
    ELSE IF \E i \in DOMAIN img.regions : img.regions[i].id # i - 1 THEN "REGION"
    ELSE IF Total([i \in DOMAIN img.regions |-> img.regions[i].cells]) > MaxC0Cells
         THEN "REGION"
    ELSE "OK"

\* lin_bc1_load: the checks in their order, the self-hash last.
LoadError(img) ==
    LET functions == FirstError([n \in DOMAIN img.fns |-> FnError(img, n)])
    IN  IF img.short THEN "SHORT"
        ELSE IF ~img.magic THEN "MAGIC"
        ELSE IF img.version # 1 THEN "VERSION"
        ELSE IF img.profile \notin {1, 2} THEN "PROFILE"
        ELSE IF img.flags # 0 THEN "FLAGS"
        ELSE IF \/ Len(img.strings) > 4 * MaxFns \/ Len(img.fns) > MaxFns
                \/ Len(img.regions) > MaxRegions \/ Len(img.abis) > 9
             THEN "COUNT"
        ELSE IF img.cut = "strings" THEN "SHORT"
        ELSE IF Total([i \in DOMAIN img.strings |-> img.strings[i].len]) > MaxStrBytes
             THEN "COUNT"
        ELSE IF RegionError(img) # "OK" THEN RegionError(img)
        ELSE IF img.cut = "abis" THEN "SECTION"
        ELSE IF \E i \in DOMAIN img.abis : img.abis[i] > 8 THEN "ABI"
        ELSE IF img.cut = "fns" THEN "SECTION"
        ELSE IF functions # "OK" THEN functions
        ELSE IF img.cut = "trailing" THEN "TRAILING"
        ELSE IF ~img.hash THEN "SELFHASH"
        ELSE "OK"

\* The dense array table: the length that local l was declared with.
DenseArrays(f) ==
    [l \in 0..MaxLocals - 1 |->
       IF \E k \in DOMAIN f.arrs : f.arrs[k].local = l
       THEN f.arrs[CHOOSE k \in DOMAIN f.arrs : f.arrs[k].local = l].len
       ELSE 0]

\* What lin_bc1_load leaves in out->mod.
ModuleOf(img) ==
    [n \in DOMAIN img.fns |->
       LET f == img.fns[n]
       IN  [ok |-> TRUE, nparams |-> f.nparams, nlocals |-> f.nlocals,
            arr |-> DenseArrays(f), code |-> f.code]]

\* lin_bc1_find_fn: the first function with that name, -1 if there is none.
FindFn(img, text) ==
    LET named == {n \in DOMAIN img.fns : img.strings[img.fns[n].name + 1].text = text}
    IN  IF named = {} THEN -1 ELSE (CHOOSE n \in named : \A m \in named : n <= m) - 1
=============================================================================
