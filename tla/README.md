# LIN: TLA+ models, model checking and proofs

This directory specifies the stateful core of LIN in TLA+, checks the
specifications with TLC on small instances, and proves the results that matter
most with TLAPS for every value of the constants. Source paths are relative to
the repository root.

To check a run: `tlc -config <cfg> <module>`; to check proofs: `tlapm <module>.tla`.
`PROJECT.json` lists every run, the source lines each definition stands for, a
mutation that each property detects, the findings and the hazards.

## 1. The system

LIN compiles a scalar language to bytecode, runs it deterministically on a C
interpreter (also as generated C and OpenCL), commits to what was run with
SHA-256 Merkle roots, keeps results in a small durable store, and anchors batches
of results in an Ethereum contract.

| Component | Source | State | Operations | What makes it correct |
|---|---|---|---|---|
| durable store | `transpile/c/store_c0/store_c0.c` | WAL, checkpoint and lock file; per handle a memtable, a staging queue, `frame_count`, `wal_size` | open (lock, replay, verify), put, del, commit, checkpoint, close | what a commit answered for survives; one process at a time; the memtable is the log; a checkpoint does not lock its store out |
| LinVM | `transpile/c/lin_c/lin_vm.c` | call frames, operand stacks, locals, arrays in a frame store, a shared step counter | one step per opcode, call, return | bounded by its limits, reads nothing stale, always ends, every operator defined |
| regions and host ABI | `lin_region.c`, `lin_abi.c` | regions, enabled intrinsics | bind, write (host); capacity, check_range, load_byte (program) | no access outside a region |
| LINBC1 loader | `transpile/c/lin_c/lin_linbc1.c`, `tool/lin_bc1_run.c` | the image being read, the module built from it | load, find, verify, run | what is accepted needs no further check in the interpreter |
| receipt verifier | `contracts/LinReceiptVerifier.sol` | `settledBatches`, `verifiedMerkleRoots`, immutable `owner` | settle, settle with an inclusion proof, dispute | fraud can be withdrawn, an honest batch cannot |
| expression front end | `lin_token.c`, `lin_parse.c`, `lin_ast.c`, `tool/lin_c_receipt.c`, the receipt commands of `lin_c0.c` | token cursor, a fixed arena, a receipt file | tokenize, parse, evaluate, lower, run, print and check a receipt | the tree of the grammar inside arena and depth limits; lowering agrees with evaluation; a receipt that passes is true |
| compiler-0 | `tool/lin_c0_front.c`, `lin_c0.c`, `lin_c0_check.c` | locals, patch lists, dependencies between functions; an image file | compile, encode, load, run, compare | code means what the source says; exactly the functions that can run are accepted |
| C JIT | `tool/lin_c0_jit.c` | generated C | one translation per opcode; run, compare, verify | the answer of LinVM wherever LinVM has one |
| settlement host | `examples/defi_settlement_proof/settlement_store_host.c` | the store, a count of swaps, a receipt | settle on LinVM, three PUTs, commit, checkpoint, receipt; restart after a crash | a receipt is about a whole batch and stays true of the log |
| others | see `components` in `PROJECT.json` | | | |

How they interact. A compiler (Stage-0 Zig, compiler-0, the self-hosted compiler)
writes a LINBC1 image. `lin_bc1_load` checks it and builds the `VmFn` table that
`vm_exec_ctx` interprets; hosts such as `lin_c0.c` build that table themselves.
The interpreter calls the host ABI, which reads regions. The settlement host runs
a kernel on LinVM and stores each result in the store, whose root goes into a
receipt; the owner of the contract anchors the Merkle root of a batch of swaps,
and anyone who has the swaps can dispute it. Nothing in the repository's core is
multi-threaded: concurrency is between processes that open one store directory,
between a process and the machine under it (page cache, crash, power loss), and
between senders of transactions.

What is hard to test here, and what the properties are aimed at:

- power lost between any two writes or syncs, also during the recovery from an
  earlier loss; torn tails that are cut and may come back;
- a batch that fails half way, then a retry or a crash; a sync that fails;
- two checkpoints, one in the directory and one in its cache, against a log of
  another length;
- the frame store of the interpreter, which calls at one depth share and nobody
  clears; stacks, call depth and step counter meeting their limits together;
- a division of labour between loader and interpreter that is written down nowhere;
- jumps patched after the code around them has moved, functions given up after their
  callers were compiled, two executions of one module (interpreted, from an image,
  native) that share no code;
- a host that starts again on the half of a batch its predecessor left;
- roots shared between batches, disputes and settlements in every order, arithmetic
  that reverts.

## 2. Modules

| Module | What it is |
|---|---|
| `Store` | `store_c0.c`: state, actions, environment, properties |
| `StoreInv` | the inductive invariant of `Store`, in parts, and its refinement mapping to `DurableLog` |
| `DurableLog` | abstract specification: a log, an acknowledged prefix |
| `StoreProofs` | theorems about `Store` |
| `LinWord` | i64 arithmetic, shifts, regions: the functions the interpreter computes with |
| `LinVM` | `vm_exec_ctx`, one action per opcode or group of opcodes |
| `VmExec` | `LinVM` called by a host that binds and writes regions (`lin_region.c`) and enables intrinsics (`lin_abi.c`) |
| `LinVMProofs`, `VmExecProofs` | theorems about the interpreter |
| `Linbc1` | `lin_bc1_load` as a function from images to an error or a module |
| `Bc1Run` | `lin_bc1_run.c`: composes `Linbc1` and `LinVM` |
| `Bc1RunProofs` | theorems about the composition |
| `ReceiptVerifier`, `ReceiptVerifierProofs` | the contract and theorems about it |
| `ExprParse` | tokens, the Pratt parser and its arena |
| `ExprReceipt` | evaluator, lowerer and receipts; composes `ExprParse` and `LinVM` |
| `ExprGrammar` | reference: the grammar of expressions, without a parser |
| `ExprProofs` | theorems about parser, lowerer and receipts; builds on `LinVMProofs` |
| `Compiler0`, `Compiler0Proofs` | `c0_build`, function bodies to code in one pass, and theorems about it and about running what it made |
| `C0Meaning` | reference: what a source means, without a compiler; compares `Compiler0Tool` with it |
| `C0Jit` | the generated C, by what it does |
| `Compiler0Tool` | the commands of `lin_c0.c`; composes `Compiler0`, `Linbc1`, `LinVM` and `C0Jit` |
| `Settlement`, `SettlementProofs` | `settlement_store_host.c` over `Store`, and theorems that build on those of `Store` |
| `MCStore`, `MCVmExec`, `MCBc1Run`, `MCReceiptVerifier`, `MCExpr`, `MCCompiler0`, `MCSettlement` | instances for TLC |

A definition under a comment `Mutant:` is a wrong version of a definition that
follows it. No specification uses it; it shows that a property notices the
mistake.

### 2.1 Store

State. `lock` is the flock; `pc[p]` is where process `p` is in a call; `mem`,
`staged`, `frames`, `walSize` are the fields of `struct Store`; `freed` counts the
staged operations whose buffers `store_commit` has freed; `cursor` is the replay
offset or the number of frames written so far. The WAL exists twice: `file`,
`hdr`, `chk` as the page cache shows them, `disk`, `hdrDisk`, `chkDisk` as the
medium has them, with `dirty` naming what differs by intent; `walName` says whether the
directory entry of `store.wal` outlives a power loss. `acked` is a history
variable: the log at the last `STORE_OK` of a commit.

Actions. A call is cut wherever a crash could tell: `OpenLock`, `WriteHeader`,
`SyncHeader`, `ReadHeader`, `ReplayFrame`, `ReplayTruncate`, `ReplayDone`,
`VerifyCheckpoint` for open (`OpenFails`, `OpenCorrupt`, `WriteHeaderShort` for its
error exits); `StorePut`, `StoreDel`; `CommitBegin`, `CommitWrite` (one frame),
`CommitFails`, `CommitPublish` (cursors and frees), `CommitSync`; `CheckpointSync`,
`CheckpointRename`, `CheckpointDirSync`; `StoreClose`. The environment contributes
`Crash`, `PowerLoss`, `Flip` and the outcomes of writes and syncs, each only when
`Faults` admits it. On power loss each dirty slot keeps its old content, gets the
new one, or is torn, and the file has any length between the two it had (`WrittenBack`),
or the file is gone because its name was never synced (`NameLost`).

| Fault | What it admits |
|---|---|
| `crash`, `power` | a process dies; the machine loses power |
| `short` | a write, an allocation or another call that the code checks fails, possibly half way |
| `sync`, `drop` | a sync fails and leaves its pages dirty, or drops them |
| `flip` | stored bytes decay while nobody has the directory open |
| `read` | a read during open fails. The replay loop compares the -1 of `pread` with what it asked for (lines 280 and 303) and cuts the log there, valid frames included; a checkpoint that cannot be read is ignored |
| `name` | the fsync of a new file does not make its directory entry durable: `store.wal` (line 489) has to wait for the directory sync of the first checkpoint (line 834) |

`ReliableMedium` is the absence of `drop`, `flip`, `read` and `name`, and a hypothesis of
everything that is said about durability (`AckedDurable`, `AckedOnlyGrows`,
`CheckpointAgrees`, `ImplementsDurableLog`, and of the settlement host `AttestedIsDurable` and
`RecordComesLast`). Each of the four is needed: under any of them the code loses frames
it has answered for. `store_processes` admits all eight faults.

Three more things are assumed of the file system in every run: an `ftruncate` reaches the medium
before what is written after it, a rename leaves one of the two names' contents, and the
store directory itself, which `mkdir` (line 462) makes and nobody syncs into its parent,
is there after a power loss.

Abstractions. A slot holds a frame that verifies or `Torn`; offsets count slots.
A Merkle root is the table it commits to: leaves are sorted by distinct keys, so
that duplicating an odd leaf does not make two tables share a root. `Client`
restricts what callers do: `CheckpointAgrees` and `MemtableIsLog` are about clients
that do not checkpoint with operations staged and do not commit again after a
failed sync; the findings below show what happens to the others.

### 2.2 LinWord, LinVM, VmExec

`frames` is the stack of `vm_exec_ctx` activations, each with its function, `pc`,
operand stack, locals, arrays and array lengths; `steps` is the counter all share;
`status` the error code, `running`, or `undefined` once an operand was stored past
the end of a stack. There the machine stops, with its frames and the operand too many in
place: what C does next cannot be known. A new frame sets exactly what the prologue (lines 192-222)
sets; every other cell holds `Junk`, standing for whatever an earlier call at that
depth left there. `module` and `ctx` are what the host passes.

`StepLimitHit`, `StackUnderflow`, `StackOverflow`, `DivZero` are the error exits;
each opcode's action is guarded by `Executing(S)`, which carries the limit and the
operand checks the code makes first. `Return` is the part of `OP_CALL` after the
recursive call returns, including the push it does not check. Operators that C
leaves undefined would yield the outcome `"undefined"`; `ArithmeticDefined` says
that the guards of `lin_common.h` and `vm_shift` avoid it at every operand.

The word width is a parameter (`Bits`, with `Half = Pow2[Bits - 1]`), and so are the width of
a byte (`ByteBits`), the bytes of a cell and all limits. `WordAssumption` relates them: a
cell has as many bits as a word.

A host starts from a fresh context (`FreshContexts`) and, as long as it has not called
the interpreter, may bind the next region, write one as often as it likes, discard all
bindings and enable intrinsics, in any order (`Prepare`). A call of these that returns
an error changes nothing and is no step. Cells are words: `Filled` or-s bytes into
them as the loop of `lin_region_write_bytes` does, over cells that `Written` has
zeroed first. `inputs` is a history variable, the bytes the host meant each region to
hold, and `ReadsTheInput` compares what programs read with it.

### 2.3 Linbc1, Bc1Run

An image is the record of fields its bytes spell, with `short`, `cut` and `hash` for
bytes that are missing, surplus or not covered by the checksum. `LoadError` is the
first check that fails in the order of the code, section by section; within a
section, all its values are looked at before its end is found missing, which the
properties cannot tell apart (either way the image is refused). `ModuleOf` is the
`VmFn` table the loader fills. `Bc1Run` is `main`: read, load, verify or find and
execute, report.

### 2.4 ReceiptVerifier

`settledBatches` and `verifiedMerkleRoots` are the two mappings; `spotChecked` is a
history variable. A digest is the record it was computed from: no collisions, and a
leaf (128 bytes hashed) is never a node (64 bytes). A call that reverts is no step,
so a guard is the conjunction of everything that must not revert, the product in
the gas estimate after the assignments included. `Verdict` distinguishes the `false`
of `verifyConstantProduct` from an arithmetic revert.

### 2.5 ExprParse, ExprReceipt, ExprGrammar

`src` is a text, character by character, because where tokens end is part of the
question. The parser recurses through `parse_expression` and `parse_primary`; `calls`
is that recursion, one record for each activation that waits for a callee, with the
`depth` it found on entry, and each action is what the code does between two calls or
returns. The arena is filled in the order of the code, a full arena is an error at the
node that does not fit. `ExprReceipt` goes on from the tree: `ast_arena_eval` and
`lower_emit` are recursive functions of node numbers, the code they give runs on
`LinVM`, and three commands use them: `lin_c_receipt` (`xver`), `receipt create` and
`receipt verify`. `create` parses what `expr_clean` leaves of `source_code`, without `return `
in front and semicolons behind and cut to its buffer, while the receipt commits to
`source_code` itself. A digest is what was hashed. Between `create` and `verify` one field of
the file may be changed or lost; a field that is missing reads as zero, as in the
code. `ParsesTheGrammar` compares the tree with the grammar of `ExprGrammar` (a split at
the last loosest operator), and every failure with the reasons a text may have to fail.

### 2.6 Compiler0, C0Meaning, C0Jit, Compiler0Tool

`Compiler0` is the recursive descent of `lin_c0_front.c` with its activations as a list
`work` of what is left to do; `code`, `locals`, `arr_n` and `reject` are the fields of the
compiler's state, and a jump whose target is not known is emitted with target 0 and
patched by a later entry, as in the code. The source is not given beforehand: an
action chooses a token among those of the part of the language under test (`lang`)
that make the parser take its branch, so that a behaviour enumerates sources and
compiles them at once; `text` is what was read. After the last body, functions that
call a function that was given up are given up too, in the rounds of the code.

`C0Meaning` carries statements out on values by name. It shares no definition with
the compiler but the words of the language (levels, instruction names), and it looks at
a whole text, with brackets and separators, where the compiler reads token by token.
`CompiledMeansSource` is stated there, in a module of its own, so that the proofs do not
reach its recursive operators.

`C0Jit` is the generated C by what it does: one C function for each function, labels
and gotos, its own division and shifts, no counters and no checks. A store outside
its stack is the outcome `undefined`, a call beyond `Fuel` instructions `runs on`.
libtcc is external: it may be missing, and refuses two functions of one C name
(`Safe` stands for `sanitize_fn_name`).

`Compiler0Tool` is `main` of `lin_c0.c` for `vm`, `vmfull`, `image`, `run`, `roundtrip`,
`jit`, `roundtrip-jit` and `jit-verify`. The encoder's refusals come in the order of
`c0_image_encode`; an image is the record that `Linbc1` loads.

### 2.7 Settlement

`Settlement` extends `Store`: `at[p]` is where `main` of the host is, `t[p]` its loop
counter, `img[p]` the engine it was given (what `settle_swap` returns for each swap, or
an error of LinVM), `receipt` the receipt file. A call of the store is not atomic here:
the host waits in `InCall` while the store takes its own steps, and any of them may be
the last one before a crash or a power loss. Whatever ended a run, the next one starts
at the first swap on the directory as it is. The receipt is written without a sync, so
a power loss may take it away.

## 3. Runs

| Run | Module, states | Checks |
|---|---|---|
| `store_durability` | `MCStore`, 37,416 | `TypeOK`, `MemtableIsLog`, `CursorsAgree`, `AckedDurable`, `CheckpointAgrees`, `AckedOnlyGrows`, that `Store` implements `DurableLog`, and the inductive invariant |
| `store_processes` | `MCStore`, 441,000 | `LockExclusion`, `MemtableIsLog` and, with fairness, `CallsReturn`, for two processes under every fault: decay, lossy syncs, read errors and lost names |
| `vm` | `MCVmExec`, 418,034 | `VmTypeOK` (nothing stale is read), `FramesBounded`, `UndefinedNeedsNullary`, `StepsExact`, `ArithmeticDefined`, `Finishes`, `ReadsTheInput` |
| `bc1_load` | `MCBc1Run`, 27,336 | `DeclaredOnly`, `NoBadFunction`, `Answers` |
| `verifier` | `MCReceiptVerifier`, 610 | `VerifiedHasBatch`, `SpotIsValid`, `AnchorStands`, `FraudIsCancelled` |
| `expr` | `MCExpr`, 2,707,736 | `ChildrenComeFirst`, `RecursionBounded`, `ParsesTheGrammar`, `VmAgreesWithEval`, `LowerNeverFull`, `PassingReceiptIsTrue` |
| `compiler0` | `MCCompiler0`, 2,782,000 | `CompiledIsDeclared`, `ExactlyRunnable`, `CompiledRunsClean`, `CompiledMeansSource`, `ImageRunsAsSource`, `NativeAgrees` |
| `settlement` | `MCSettlement`, 86,968 | `ReceiptIsWholeBatch`, `AttestedIsDurable`, `RecordComesLast` |

Four more runs end in a counterexample, each to a sentence of the repository that
the code does not live up to:

| Run | The sentence | What the code does |
|---|---|---|
| `store_lockout` | "Uncommitted operations are discarded on crash or close." (`store_c0.h:80`) | a checkpoint with operations staged records a root the log does not give; after a close every open is refused |
| `store_dangling` | a failed commit leaves the queue "intact for a retry ... never dangling pointers" (`store_c0.c:628`) | a commit that fails in its sync has freed the buffers and keeps counting them |
| `bc1_fullstack` | an accepted image never refers to undeclared memory (`docs/LINBC1_FORMAT.rulel:81`) | the result of a call is pushed unchecked; a full stack and a function without parameters suffice |
| `c0_arrays` | arrays used as scalars are among what is refused (`docs/V2_LINVM_AS_COMPILER0_NOZIG.rulel`) | a local that code already uses as a scalar may be declared again as an array |

Smaller disagreements that the models contain without a run of their own are notes of
the hazards in `PROJECT.json`: a prefix of a failed batch is replayed; a sync that
succeeds after one that failed counts as durable; a read error during replay truncates
acknowledged frames and the open answers `STORE_OK`; the name of a new WAL is not synced
before the first checkpoint; the encoder writes images whose names or code exceed the loader's
totals, which `roundtrip` reports as a divergence; a receipt commits to the whole of a source
of which only the first expression within 511 characters was run; the memory ceiling leaves arrays out;
a dispute over products that overflow reverts; native shifts by 64 and more differ
from interpreted ones.

### Bounds, and why they are enough

- `MaxWal = 3`, `MaxStaged = 2`, two keys, one value (`store_durability`). Three slots
  hold a batch of two that fails in the middle after an acknowledged frame, or a
  commit that meets the limit; two keys are needed to tell a wrong order from a wrong
  key; a DEL supplies the second value. Keys are symmetric. The properties of the log
  do not depend on the number of processes, since the lock admits one (proved), so
  they are checked with one process and the four faults of a reliable medium.
- `MaxWal = 2`, one key, two processes (`store_processes`): both processes can be in
  open, one can crash with a torn frame behind it, and the other replays it, or cuts it
  because it cannot be read.
- `MaxStack = 3`, `MaxDepth = 2`, `MaxLocals = 2`, `MaxArrs = 1`, `MaxArrLen = 2`,
  `StepLimit = 9` (`vm`): every limit is reached by some program of three
  instructions, by a call from a full stack and by recursion; `StepLimit` lets a
  callee return before it. `Bits = 6` keeps shifts by the width and beyond apart from
  shifts below it and makes products wrap; operands are the ends of the range, the
  ends of the shift counts and small values of both signs.
- `MaxFns`, `MaxIns`, `MaxRegions`, `MaxStrBytes`, `MaxC0Cells` (`bc1_load`) are set so
  that a whole image is at, and a defective one just past, each of them.
- `MaxUint = 200000`, `TreeDepth = 2`, two batch ids (`verifier`): the four swaps are
  one valid, one losing k by less than a thousandth, one draining the pool, one whose
  k does not fit; a fraudulent leaf sits at the root, on either side of a pair, and at
  index 3 of four. Two ids share a root.

- `Bits = 4`, `ArenaCap = 7`, `ParserMaxDepth = 1`, `MaxArgs = 2`, `LowerCap = 8`
  (`expr`): all texts of three characters over the whole alphabet, of six and seven over
  the parts of it that make operators, parentheses and calls. The arena and the depth
  are met by texts of six characters, the argument limit by calls with three; code for
  a full arena is as long as `LowerCap` allows. `MaxExpr = 6` cuts texts of seven, and texts
  with `return `, blanks and semicolons around an expression go through `expr_clean`.
- `MaxStack = 4`, `MaxDepth = 2`, `MaxLocals = 2`, `MaxArrs = 1`, `MaxArrLen = 2`,
  `StepLimit = 14` (`compiler0`): bodies of up to 7 tokens of expressions (five operators
  of different levels, a sign, parentheses), 12 of control (if chains, while, for,
  nested), 9 to 12 of arrays, 4 of calls between two or three functions in every order
  of definition, 6 of the rejected and special forms; tokens that a choice forces
  (closing brackets, semicolons) are not counted. Loops go round twice before the step
  limit, recursion meets the depth limit, the third local and the second array are too
  many. `MaxIns = 11` and `MaxStrBytes = 8` (with names of 1, 4 and 6 bytes, `NameLen`) let
  images of one and of several functions be at, and past, the loader's totals; most are
  below.
- Two swaps, one applied and one rejected, three engines, `MaxWal = 9`, `MaxStaged = 3`,
  one process (`settlement`): the log has room for a whole batch on top of half of one,
  and a third run meets the limit. The lock makes more processes take turns. Syncs
  that fail are left to `store_durability`: what the host adds is to stop at the first
  call that does not answer `STORE_OK`, which short writes make it do as well.

Deadlock is checked in all runs but `verifier`: a contract may rest with nothing to
do. `VmExec` and `Bc1Run` have an explicit stuttering action for a host that has its
answer.

### Fairness

- `Store`: weak fairness on `CallStep(p)`: code that has entered a call goes on to its
  return unless its process dies, which disables the step. No fairness on clients or
  faults. Because each call holds the lock from its first step, no strong fairness is
  needed.
- `VmExec`, `Bc1Run`: weak fairness on the interpreter's loop (and the `printf` after
  it); the loop waits for nobody.
- `ReceiptVerifier`: weak fairness on `Dispute(b)` for each batch. This is an assumption
  about the environment, the one the optimistic model of `README.md` (lines 30 and 141)
  rests on: somebody watches every batch. What `FraudIsCancelled` then says of the
  contract is that a dispute is possible wherever the swap sits in its tree. A batch
  whose dispute reverts is not covered.
- `ExprReceipt`, `Compiler0Tool` and `Settlement` have safety properties only and state no
  fairness.

## 4. Proofs

| Theorem | Module | Statement |
|---|---|---|
| `TypeCorrect`, `OneHolder`, `CursorsStayInStep` | `StoreProofs` | `Spec => []TypeOK`, `[]LockExclusion`, `[]CursorsAgree` |
| `Durability`, `AcknowledgedGrows` | `StoreProofs` | `Spec => []AckedDurable`, `AckedOnlyGrows` |
| `MemtableIsTheLog`, `CheckpointsAgree` | `StoreProofs` | `Spec => []MemtableIsLog`, `[]CheckpointAgrees` |
| `InductiveHolds` | `StoreProofs` | `Spec => []Inductive`, the invariant behind all of these |
| `StoreImplementsLog` | `StoreProofs` | `Spec => ImplementsDurableLog`, given `ReliableMedium` and no `retrySync` |
| `ReceiptsAreWhole` | `SettlementProofs` | `HostSpec => []ReceiptIsWholeBatch` |
| `AttestedStays` | `SettlementProofs` | `HostSpec => []AttestedIsDurable`; the property has `ReliableMedium` as a hypothesis |
| `RecordsLast` | `SettlementProofs` | `HostSpec => []RecordComesLast`, given `ReliableMedium` and `EnginesAgree` |
| `StepsKeepInvariant` | `LinVMProofs` | every step of the interpreter preserves `VmInv` |
| `NoJunkIsRead`, `StackAndDepthBounded`, `StepLimitIsExact`, `OnlyNullaryOverflows` | `VmExecProofs` | the four parts of `VmInv`, of `VmExec` |
| `ArithmeticHasOneAnswer` | `VmExecProofs` | `Spec => []ArithmeticDefined` |
| `InputIsRead` | `VmExecProofs` | `Spec => ReadsTheInput` |
| `AcceptedIsDeclared`, `AcceptedHasGoodFunctions` | `Bc1RunProofs` | `DeclaredOnly` and `NoBadFunction`, of every image |
| `MarksHaveBatches`, `SpotsAreValid` | `ReceiptVerifierProofs` | `Spec => []VerifiedHasBatch`, `[]SpotIsValid` |
| `AnchorsStand` | `ReceiptVerifierProofs` | `Spec => AnchorStands` |
| `ParserRecursionBounded`, `ArenaInOrder` | `ExprProofs` | `Spec => []RecursionBounded`, `[]ChildrenComeFirst` |
| `LoweringFits`, `CompiledAgrees`, `PassedReceiptTrue` | `ExprProofs` | `Spec => []LowerNeverFull`, `[]VmAgreesWithEval`, `[]PassingReceiptIsTrue` |
| `CompiledDeclared`, `AcceptedExactly` | `Compiler0Proofs` | `BuildSpec => []CompiledIsDeclared`, `[]ExactlyRunnable` |
| `CompiledKeepsStack` | `Compiler0Proofs` | `Spec => []CompiledRunsClean`, of `Compiler0Tool` |
| `CompiledLocalsInFrame` | `Compiler0Proofs` | accepted functions meet what the proofs about LinVM assume of a module |

**Store.** Assumption: `ConstantsAssumption`, which only keeps the marker values apart.
The argument has layers, each used by the next; `Inductive` is their conjunction. `StructInv` (types, lock, cursors
within the file, the limit met by a whole batch before its first frame) is inductive by
itself and gives the first three theorems; the clause about a commit in progress is what
`CursorsAgree` lacks. `ValidInv` says that the slots a process relies on verify.
`DurableInv`, under `ReliableMedium`, says that what is not dirty is on the medium
(`SyncedInv`) and that an acknowledged log is clean, whole and below anything a process
may still cut or write (`AckedInv`): without that last clause a recovery could cut, or a
retry rewrite, an acknowledged frame. `Durability` holds for every set of faults, with
`ReliableMedium` as a hypothesis of the property itself, in all its four parts: after a sync
that fails and drops its pages the second sync of line 675 answers for frames that are not
there, a byte that decays or cannot be read makes a recovery cut the log in front of it, and a
WAL whose name was lost is made again empty. On a reliable medium the name is durable with
the file (`ReliableLoss`) and only torn slots are cut (`ReliableCut`).

`MemtableInv` says where the table of a handle comes from at every place of a call: the
slots replayed so far, or the log and the queue. `MemtableIsLog` alone is lost by a step of
`CommitPublish`, which moves operations from the queue to the log: the invariant adds that
the frames behind the log are the ones staged, and that a commit in its sync has freed all
of them. `CheckpointInv` says that a checkpoint, in the directory or on the medium, is the
root of slots that are `Protected`: valid, clean, and below everything a process accounts
for, so that no later recovery cuts them. It needs a reliable medium and clients that
checkpoint with nothing staged; `store_lockout` shows the others.

`StoreImplementsLog` takes `Recoverable`, what a reopening would replay, for the abstract
log. `CommitWrite` adds a frame to it or, when a retry writes a frame again that is there,
changes nothing; `CommitSync` acknowledges it; a power loss shortens it, never below what
is acknowledged; every other step leaves it alone, the truncation of a torn tail included. Two things had to
be added for that. `ImageHolds`: the medium has no valid frame where the file has none yet,
or a power loss could make the log longer. `TailHolds`: what lies behind the log of a handle
is the beginning of its queue, or a commit would answer for frames nobody staged. A retry
after a failed sync breaks the second, hence the hypothesis on clients.

**Settlement.** Assumption: `HostAssumption`, the users of a batch differ, as in `BATCH`, and
what the host puts are keys and values of the store. Every step of the host is a step of
the store or leaves the store alone (`HostStepIsStore`), so that the lemmas of `StoreProofs`
apply as they stand; `StoreHolds` is what is used of them. The host never commits again
after a failure, which gives `MemtableHolds` without a hypothesis on `Client`. `RunInv`
says where the store is when the host is at a given place, that its queue is the beginning
of the three PUTs of the next swap, and that its log ends with the swaps settled by this
run (`RunTail`), after whatever earlier runs left: with `SlotInv` (no slot holds anything
but a PUT of a batch) that is why the root is the one of the batch. `AttestInv` makes the
log `Protected` from the checkpoint on, and keeps it so for a receipt that only the medium
still has (`receiptDisk`): the file is not synced, and a power loss may bring an older one
back. `OrderHolds` says of every part of the log a replay
would accept that a record has its account entry and all earlier records before it.
`EnginesAgree` is a hypothesis of `RecordsLast` because a run with an engine that gives
another amount puts the account first, and a failure then leaves the new amount beside the
old record.

**LinVM.** Assumptions: the limits are naturals, contexts start fresh (`FreshContexts`), and a
host's module has its locals inside the frame (`SoundModules`). The last is the duty of
whoever builds a `VmFn` table; `ModuleOf` meets it for `LINBC1` images, which is proved as
part of `AcceptedIsDeclared`. Of hosts `HostAssumption` asks what the C types give: cells that
are bound are words, inputs are bytes, and a byte is a word. `VmExecProofs` adds `ContextInv` to `VmInv`: whatever a host
binds, writes and enables before a call, its context keeps its fields and has only known
intrinsics enabled.
`VmInv` adds `CallersHaveRoom` to the properties: a caller stands behind the call it waits
for (`Awaits`), and its stack has given up as many cells as its callee has parameters. That is
why the unchecked push of a result is in bounds unless the callee takes none, and past the end
by one cell at most: `FramesBounded` has that cell, in the newest frame of a machine whose
`status` is `undefined`, as its one exception, and `UndefinedNeedsNullary` says which instruction
causes it. `LinVMProofs` has one lemma per action and is used
by all compositions.

`ArithmeticDefined` is not a matter of single steps but of the operators, at every pair of
words: `Wrap` ends in a word by the definition of `%`, a quotient is at most its dividend
except for the one the guard of `lin_wdiv` excludes, a shifted word stays between its bounds,
and a sum of distinct powers of two below `Pow2[Bits]` is a word after `Wrap`. The facts about
`Pow2` and about sums of bits are recursive functions of a bit number; each is shown by the
least number at which it would fail, since the natural numbers have least elements and the
induction principle itself cannot be instantiated.

`InputIsRead` compares what a program reads with what the host wrote. `InputInv` says that
every region in its place holds its input (`RegionHolds`): the payload is as long as the
input, and each byte taken out of the cells is the one put in. Binding another region and
writing again are what could lose it; the steps of a program leave regions alone
(`InputsKept`). That `Filled` gives such cells is a matter of bits: a bit of a byte is a bit of
its cell (`ByteBit`), bytes shifted to different places have no bit in common (`ShiftedBits`,
`ApartInCell`), and a cleared cell has none, so that or-ing all bytes into cleared cells leaves
each of them readable (`FilledReads`). `StepReads` then follows the two intrinsics that answer
from a region.

**Bc1Run.** `RunInv` adds that every function of the module is `Declared`: operands
name declared locals, targets inside the code and functions of the module, and no more
arrays than slots. The main step shows that an image without a `LoadError` yields such a
module, by the least failing index of each loop of the loader.

**ReceiptVerifier.** Assumptions: `VerifierAssumption` (the sets of inputs have their types,
proofs are no longer than `TreeDepth`) and `DigestAssumption` (no proof hashes to zero; a
digest being what was hashed, there are no collisions either). `MarkInv` adds that anchors
are roots to `VerifiedHasBatch`; the guard that the batch is not settled is what keeps an
anchor from leaving a mark behind. `SpotInv` and `AnchorsStand` rest on one fact: a swap
from which a climb reaches a root is a leaf of its tree. Climb and tree are recursive
functions of the level, one going up and the other down; that they meet is shown by the
least level at which they would not.

**ExprReceipt.** Assumptions: `ParserAssumption` (limits are naturals, a call may have an
argument), `ToolAssumption` (digits are numbers, an environment fits the locals of a frame)
and `LimitsAssumption`, which relates the limits of three headers nobody compares: a full
arena and a `ret` fit `LIN_LOWER_CAP`, half of an arena fits the operand stack, and as many
steps as there is code are within the step limit. `ExprInv` has three parts.

`ParseInv` bounds where an activation can be in the list: number `i` started at a depth `d`
and with a rank (its minimum, or past all of them for `parse_primary`) such that
`i <= 5 * d + rank`, and the next one started where it had come to. The bound on the length
alone is not inductive, because a return says nothing of what the caller goes on to call.
Nodes refer back because an operand that waits in an activation is already in the arena.

`ShapeInv` says that the trees in the arena lie side by side: an operand that waits, and the
node just returned, is a tree made of consecutive nodes that no other tree shares. From it
follows what a reader of `lower_arena` has to believe: it emits at most one instruction for
each node, and a tree of `n` nodes needs a stack of at most half of them (a left operand waits
in one cell while the right one is computed).

`ToolInv` says what each stage of a tool may rely on. Its core is `Plan`: the code lowered from
a tree, split at every instruction, with the stack that has to be there before it. The lemma
`TreeTranslates` makes a plan for every node out of the plans of its children, by the least
node that would have none; `LowerGives` carries it to `lower_arena`. `RunAdvances` then shows
that each step of LinVM takes a run from one entry of its plan to the next, and that it ends
with the value of the evaluator, or at the first division by zero the evaluator meets. A plan
is all a run needs: operands are there and the stack has room, so no other exit is taken.
For a file that was changed, `FileOK` keeps what `create` wrote: `verify` compares the root of
the fields it reads with the root it recomputes.

**Compiler0.** Assumption: `CompilerAssumption`, a source is made of lists, of numbers that
fit in a word and of operators the compiler knows. `BuildInv` has four parts. `ModuleInv`:
there is a function for each signature. `BodyInv`: the code so far is sound, where a jump may
also go right behind the code, since `FnCode` goes on there; and so is every item of `work`,
that is, what will be patched is a jump, where a loop returns to has been written, and what
will be emitted names a local there is. The code alone is not inductive: a patch could hit
anything. `CompiledIsDeclared` for the functions finished. `RunnableInv`: a compiled
function that is not accepted was given up after all had been compiled, and no set closed
under calls loses a member in the rounds of `c0_resolve_deps`. `CompiledLocalsInFrame`
discharges `SoundModules` for the second producer of modules.

`CompiledKeepsStack` is about the composition: what the compiler wrote, run by the
interpreter. A height is a number of operands in front of an instruction. `Heights` gives one
to every instruction so that each finds what it takes, the next one is where the difference
leads, and a `ret` finds exactly one; `Aimed` says that a jump goes where the height is the
one behind it, whichever way it is left. Of finished code both hold (`Flat`). While a body is
compiled neither can: jumps wait for their targets, and the code that will balance the stack
is still in `work`. So `BodyFits` says that the work left is a path (`Path`): from the height
at the end of the code, item by item, each item adding what it promises (`Rise`) and each
finding the height it was made for (`ItemFits`), down to an empty stack; and that only jumps
that some item will patch are not aimed yet (`Open`). An item that patches remembers nothing
of the height: it is required to meet, where it will patch, the height behind the jump. That
is what makes both arms of a short circuit, and the front and the back of a loop, agree.
There is one lemma for each group of items; they build on a few about joining and dividing paths. An
accepted function is `Flat` when `FnEnd` closes it, its callees' arities being fixed by then
(`ArityInv`), and `c0_resolve_deps` leaves no callee that was given up (`RunnableInv`).

On the source route `FramesFit` relates the machine to this: each frame stands in an accepted
function, the newest with as many operands as the height of its instruction, every caller with
one less, for the answer of its callee. One lemma for each kind of step shows that the machine keeps it.
Heights exist for code of any length by construction, instruction by instruction, so that no
induction over the code is needed.

Model-checked only:

- liveness (`CallsReturn`, `Finishes`, `Answers`, `FraudIsCancelled`): fairness and
  ENABLED are out of the prover's reach;
- `ParsesTheGrammar`, `CompiledMeansSource` and `NativeAgrees`: the grammar, the meaning of
  a source and the generated C are recursive in texts and fuel, and what they compute needs
  induction over data;
- `ImageRunsAsSource`: it relates two runs, of which no variable keeps the first, through the
  table of arrays that the encoder writes, a `SelectSeq`; what a `SelectSeq` returns is known
  only through theorems with an operator as a parameter.

## 5. Not modelled

- Pure functions fixed elsewhere: SHA-256, hex, text handling, printing.
- `store_get` and the getters (they only read); memory exhaustion in `memtable_put`
  outside a commit.
- `computeLCR2Leaf`, `verifyLCR2Inclusion`: views that no state change of the contract
  uses; events.
- Of compiler-0: the tokenizer and the search for function headers in a text (a source
  is given by signatures and tokens), empty statements, `lin_c0_check.c` (it reads a
  source and prints what it finds), the audit commands that hash what is modelled
  here, and the C stack that deep nesting may exhaust.
- Of receipts: JSON and hex, changes of the digest of the source in a file.
- The other programs beside the settlement host: they settle in memory, measure, or
  print a Merkle tree. The cache gateway, a single-threaded example.
- The Stage-0 Zig compiler, the programs written in LIN, the OpenCL back end, scripts and
  benchmarks: see `components`.

## 6. Plan

Done: the store and the settlement host over it, the interpreter with its hosts and
regions, the loader and its tool, the contract, the expression front end, the compiler,
the image encoder and the JIT.

Proved: every safety property of the store, of the settlement host, of the contract, of the
interpreter and its hosts, of the loader, of the expression tools but for the grammar itself,
of `c0_build` and of running what it built on LinVM.

What is left is the list of what is only model-checked, and the parts of section 5 that no
module models. The checker of sources (`lin_c0_check.c`) is the largest of those.
