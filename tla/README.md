# A TLA+ model of VXCC

VXCC is a compiler backend: a frontend hands it blocks of an SSA-like
intermediate representation (IR), it optimises them, lowers them to a flat IR
(LLIR) and emits x86-64 assembly. It is sequential C. What is hard about it is
not concurrency but *order and staleness*: passes that rewrite what they walk
over, analyses read after the thing they describe has changed, resources given
out by several loops that trust one another's limits, and integer boundaries.
The models treat each pass as the loop it is, one iteration per step, so that
the properties hold between any two iterations and not only at the end.

## Inventory

| Part | State | Operations | What is hard, and what makes it correct |
|---|---|---|---|
| Arena allocator, `ir/fastalloc.c` | current chunk, bytes left, retired chunks | `fastalloc`, `fastrealloc`, `faststrdup`, `fastfreeall` | growing in place, failure halfway; blocks stay disjoint and inside their chunk |
| LLIR optimiser, `vx_opt_ll` in `ir/passes.c`, `ir/opt/{dce,inline_vars,vars,ll_jumps}.c`, `ir/transform/cmov_expand.c` | the operation list of a root block, its label table | the passes, in a fixed sequence with repetitions | list edited while walked, code that is not SSA any more; behaviour is unchanged, jumps keep their labels, the block keeps its exit |
| Preparation, `vx_llir_prep_lower`, `ir/lifetimes.c`, `ir/transform/share_slots.c`, `ir/opt/ll_binary.c` | lifetimes, which variables were merged | lifetimes, merge loop, tidying | lifetimes follow text order, control follows jumps; a variable alive in an operation is marked for it, merging changes nothing |
| x86 allocation, `targets/x86/cg.c:1384-1691` | locations of variables, stack offset, pending moves | call scan, hot registers, return value, arguments, slots, prologue, moves | three loops give out the same registers; no sharing, scratch stays free, arguments arrive |
| x86 emission, `targets/x86/cg.c:300-1382` | scratch registers in use, the text | one function per operation | two scratch registers, operands overwritten before they are read, calls, the balance of the frame; every operation does what it means and nothing else, with instructions that exist |
| x86 conditionals, `targets/x86/llir_conditionals.c` | the operation list, condition codes | fuse a comparison with its jump | flags must survive to their user |
| Lowering, `ir/transform/{lower_loops,ssair_llir_lower,ll_if_invert,ll_finalize}.c` | nested blocks, labels, loop states | if, loops, break, continue | parallel assignment done one by one, whole-block renames |
| SSA construction, `ir/transform/{normalize,single_assign,single_assign_conditional}.c` | nested blocks, declarations | rename, add states to loops, results to ifs | order of nested renames |
| SSA optimiser, `vx_opt`, `ir/eval.c`, `ir/opt/*.c` | nested blocks | constants, comparisons, patterns, joining, if and loop reductions, cmov, tail calls | machine words, what "might be" means, values copied out of blocks; behaviour is unchanged on the type's words |
| IR and builder, `ir/{ir,builder,transform,analysis}.c` | operation lists, declaration and label tables | insert, remove, detach, rename, new variable, new label | two lists sharing operations, stale declarations |
| Verifiers, `ir/verify*.c` | none | check a block | called between stages; what they accept the next stage assumes |
| Pipeline, `vx_CU_compile` in `ir/ir.c:382-495` | the blocks of a compilation unit, the stage | the stages in order, the emission of each block | every stage for all blocks, errors returned or ignored |
| Targets, `targets/targets.c` | architecture, flags | parse a target string | prefixes of names |
| Text format, `s-expr/*.c` | a tree of nodes | read, parse, emit | round trip |
| Dump, command line, ETC.A stub, build program | – | – | no logic of the compiler's own |

The parts interact by calls only, in the order of `vx_CU_compile`: SSA
construction, `vx_opt`, lowering, `vx_opt_ll`, `vx_llir_prep_lower`, heat,
emission. They share the IR objects, all of which live in the arena.

`PROJECT.json` says of every part which modules model it and what they leave out.

## Modules

    Fastalloc  <- MCFastalloc          FastallocProofs
    OpLists <~ Builder <- MCBuilder    BuilderProofs
    Words      <- MCWords
    Ssair <- Cir, SsaOpt, Lower <- Compile <- MCCompile
                             |
    Llir <- LlPasses <-------+ (INSTANCE)
                     <- LlOpt  <- MCLlOpt
                     <- LlPrep <- MCLlPrep
         <- X86Conditionals <- MCX86Conditionals   X86ConditionalsProofs
    Llir <- LlirProofs, LlPasses <- LlPassesProofs, LlOpt <- LlOptProofs, LlPrep <- LlPrepProofs
    X86Alloc   <- MCX86Alloc           X86AllocProofs
    X86Machine <- X86Emit <- MCX86Emit

`<-` is EXTENDS, `<~` is implemented by.

**Fastalloc** (`ir/fastalloc.c`). `chunk`, `chunk_left` and `chunks` are the
static variables of the file; a pointer is the number of a malloc'ed chunk and
an offset. `block[h]` is what pointer `h` of the compiler points to and the
size its owner believes in, `capacity` what malloc gave. `Allocate`, `Strdup`
and `Reallocate` (with its three cases `Keep`, `Grow`, `Move`) are the functions,
with either C library call failing at any time (`OutOfMemory`); `FreeAll` is
`fastfreeall`, which nothing in the sources calls. malloc'ed chunks are never
adjacent in the model: the comparison in `fastrealloc` of pointers into different
chunks never holds.

**OpLists** is what the passes take a block for: a sequence of operations, edited
at the operation a walk has come to. **Builder** is what there is: operations
linked by `next`, with a pointer to their block, and blocks with a pointer to
theirs (`heap`). Its operators are the functions of `ir/builder.c`; its actions
are the visits of the passes that edit the list they walk over
(`for (op = block->first; op; op = op->next)`), each with every call it makes:
`RemoveHere` (`vx_opt_vars`), `RemoveCode` (`vx_opt_ll_dce`), `InsertBefore`,
`InsertBehind`, `JoinCompute`, `ReduceIf`, `Normalize`, `LowerLoop`. `moved` are
the blocks that were emptied into others and keep a stale `first`. The passes start
from functions in which the verifier finds nothing wrong with the parents
(`FunctionsAssumption`): no operation is in two places, no block is held twice, a
while loop holds two blocks and a C loop four.

**Words** runs the passes of `vx_opt` and `vx_opt_preLower` that rewrite single
operations, on one block without nested ones: variables have `Width` bits, the
immediates of the compiler `LongBits` (`long long`). `Outcome` is the meaning of
a block: what it stores and returns, computed on words of `Width` bits.

**Ssair** is the nested IR (ifs, while, C and infinite loops, break and continue)
with its meaning, `Outcome`, and the queries of `ir/analysis.c`. **Cir** are the
passes from CIR to SSA and the verifier, **SsaOpt** those of `vx_opt` that work
on nested blocks, **Lower** is the way to `Llir`: `WhileToInfinite`,
`IfSwapCases`, `IfInvert`, `LowerInto` and `FixDecl`. **Compile** composes them
to `vx_CU_compile` for one function: `todo` is the sequence of passes still to
run, and every step is a pass or a verifier. `vx_opt` runs all its passes on one block
before the next, from the innermost blocks outwards (`OptBegin`); `vx_opt_preLower` makes six
such rounds (five here, as `vx_opt_comparisions` rewrites nothing `Compile` has and is part of
`Words`), one per call of `RecCallInOut`, in each of which a function (`opt_pre` as a
whole in the first and the last) is called on every block before the next round
starts. `BlockPass` is one of these calls. The nested function (`fn`) becomes the flat one (`prog`) in
`LowerPass`; the passes of `LlPasses` follow.

**Llir** is the flat IR and what it means: `Observations` are what can be seen of
a block executed for a number of steps, the values it has stored so far and, once it
returns, those it returns; `SameBehaviour(old, new, ..)` says that all that is seen of
one block is seen of the other, which may take more steps. Operations the
passes do not tell apart are one operation (`SUB`, `ADD`, `STORE`).

**LlPasses** has one operator per pass: `Iterate(pass, prog, at)` is one
iteration of its loop at operation `at`, giving the changed block and the
operation to go on with, including the operations skipped or visited again
because the list changed under the loop.

**LlOpt** runs the sequence of `vx_opt_ll` (`Passes`); **LlPrep** runs
`vx_llir_prep_lower`: lifetimes (`Lifetime`), the two nested loops of
`share_slots` with its `goto recheck` (`NextVar`, `NextVar2`, `Absorb`,
`GiveUp`), then the tidying passes. `LiveAt`, the reference the computed
lifetimes are compared with, follows the flow of control. Priorities count
marks only: the addition for an output that is also the first *argument* concerns
calls, which `Llir` has not.

**X86Conditionals** is `vx_llir_x86`: the search from every comparison for the
conditionals it decides (`Compare`, `Fuse`, `LookOn`, `StopLooking`, one operation
per step), the walk for the conditionals left over (`TestVar`), the removal of
unused results (`RemoveOne`). `RunX86` is the machine: flags remember what set
them, an instruction that reads flags nothing usable has set loses the block.
Operations not yet converted mean what `ops.cdef` says, so the same interpreter
runs the block between any two steps, and `ObservationsX86` are what its prefixes
store and return. Of the 37 operations that carry
`x86_affect_flags` those of `Llir` are kept: a comparison other than `UGT` (which has
no mark), `ADD`, `SUB`, `NOT` and the converted ones. `Decides(p, i, j)` says of a block what it
takes for the comparison at `i` to decide the conditional at `j`, `FlagsSurvive` that every
conditional has such a comparison.

**X86Alloc** is the part of `vx_cg_x86stupid_gen` before the first instruction of
the body: `ScanCall` (arguments of called functions), `NextHot` (registers to
hot variables), `ReturnInRax`, `AssignArg`, `AssignSlot`, `Prologue`, `MoveArg`. A
block is what these loops read of it: sizes, heats, address-taken flags,
arguments, calls, the returned variable. `content` is the machine's side: which
argument's value each register and slot holds, from the calling convention on.

**X86Machine** are locations and the machine: registers with their partial
writes, memory, flags, calls and the frame, and which instructions an assembler
takes (`Assembles`). **X86Emit** is `emiti` and everything it calls. An operator
of the emission gives a sequence of instructions; the number `k` of scratch registers in use,
which the code keeps in `RegLut[..]->stored`, is handed down explicitly. A step
emits one operation and executes it on the machine, beside the
meaning of the operation on variables and memory (`meant`), which knows no
locations. `Supported` names the operands for which the generator has no right
instructions; each is among the divergences below.

Definitions whose name ends in `_Something` after the name of another definition
are deliberately broken variants of it; nothing uses them, and putting one in
place of the definition must break the property it is paired with in
`PROJECT.json`.

## Runs

| Run | Instance | Shows |
|---|---|---|
| `fastalloc` | 2 handles, requests of 0, 2, 3 and 5 bytes, chunks of 4 bytes or twice the request, 3 chunks | `BlocksDisjoint`, `BlocksInChunk`, `ChunksReachable` (every chunk is the current one or recorded), `ChunkAdvances` (the bump pointer never goes back, in a chunk or to an older one) |
| `builder` | 7 operations and 8 blocks; a function with an if, a while loop or a C loop between others, and an if in a C loop | `ImplementsLists` (the linked lists are the sequences of `OpLists`, and every walk goes on where that says), `ParentsRight`, no list goes in a circle (`TypeOK`) |
| `words` | blocks of 3 to 7 operations from every operation of the passes, on two inputs and a constant; words of 3 bits, immediates of 5 | `BehaviourPreserved` after every pass, `UsesDeclared` (nothing read is removed, or made later), `Normalised` (what the passes promise the next stage about comparisons and constants) |
| `compile` | functions with an if, a loop, one in the other, two nested loops, loops of two states, break and continue, in SSA, in CIR, and with `if_eval`; every choice of operations from pools of 3 | `BehaviourPreserved` after every pass from CIR to the optimised flat block, `SingleAssignment`, `NotRejected` (the verifier accepts what the passes made), `LoweredWellFormed`, `JumpsFindLabels` |
| `compile_shifted` | a loop of two states the next values of which are (second, difference) | `BehaviourPreserved` is violated (below) |
| `llopt` | all blocks of up to 3 operations from a pool of 14 and a return; blocks with the jumps of an if with both cases and of a loop, with any operation or none in each place; 3 variables, values 0..2 | `BehaviourPreserved` after every iteration, `JumpsDeclared`, `EndsWithExit`, `Terminates` |
| `llprep` | straight blocks of up to 3 operations and a return, and blocks with a part a forward jump skips; a parameter, three variables of one size and one of another | `AliveInOp`, `BehaviourPreserved`, `Terminates` |
| `llprep_branches` | blocks with the jumps of an if with both cases | `AliveInOp` is violated (below) |
| `x86conditionals` | every comparison with any single operation behind it, two of them with any two, a store a jump skips; 4 variables, values 0..3, parameters less, equal, greater and of either sign | `ConditionsKept` after every step: where the flags of each comparison reach its conditional (`FlagsSurvive`), the block does what it did; `AllConverted` |
| `x86conditionals_between` | the blocks `MCBetween` | `ConditionsDecide` is violated (below) |
| `x86alloc` | 3 variables of 8 kinds, 2 integer and 1 float argument registers, 5 lists of calls, with and without result and red zone | `RegistersUnshared`, `ScratchFree`, `SlotsDisjoint`, `CallRegistersFree`, `ArgumentsDelivered`, `FrameCovered` |
| `x86emit` | a leaf with variables of 8, 4 and 1 bytes in registers and in the red zone, a function with calls and no stack, one with calls and slots; every operation on every choice of variables and numbers, from three states of the machine | `BehaviourPreserved` (every variable and cell, flags, calls, jumps, results and the caller's frame), `Encodable` |

*Bounds.* In `Fastalloc` every comparison is between a request, the space left and
the chunk size; requests below, at and above both boundaries occur, and three
chunks let one be retired twice over. In the LLIR runs a pass looks at one
operation, its label and the operations up to a stop; two labels and blocks of up
to three free places have every order of a copy, the overwriting of its source or
target, a label and a jump. `Steps` says for how many operations one block is
executed when behaviours are compared, `More` how many the other may take to show
the same; a block that does not return within them is compared by what it stored so
far. The runs take one number each, with which the shortest and the longest block of the
instance return or go round a loop several times; the proof takes all. In `Compile` both executions are bounded and the one of
the rewritten function gets more fuel; it must continue what the source did
(`Follows`). `ConstevalIterations` (and `Iterations`) is 1 or 2 instead of 6 and
`JumpIterations` 2 instead of 4: iterations repeat the same passes on their own
output. In `X86Conditionals` a violation needs a comparison, one operation that disturbs it and
a user. In `X86Alloc`, registers beyond the fixed ones are symmetric in the code up
to their order, so two and one run out as six and eight do; the proofs cover the
real numbers. In `Words`, 3 and 5 bits have words, their signs, and immediates
no word is equal to, which is all that is told apart of 8 to 64. In `X86Emit` the
emission of an operation reads nothing of those before it, and each one gives
back the scratch registers it took, so one operation (`MaxOps`) from arbitrary
states in which machine and meaning agree is the step of an induction over any
function; the three starts give every variable several values and the flags four
states. `Words` of `X86Emit` makes a byte 4 values and a pointer 16: partial
writes, truncation and both extensions still differ.

*Fairness.* `LlOpt` and `LlPrep` have weak fairness of `Next` for `Terminates`. The
compiler is a sequential program: a loop that can take another iteration does.
The other modules state safety only. `CHECK_DEADLOCK FALSE` is set where a run
ends: the pass is over.

*Refinement.* `ImplementsLists` maps `Builder` to `OpLists`: the lists are what
following `next` from `first` gives, except that blocks given away count as
empty, and the walk is the sequence of the operations still in front of it. An
unlinked operation keeps its `next` (`vx_IrOp_removeSuccessor` explains why);
clearing it would stop the walk, which is the paired mutant.

## Where the code differs from its promises

Shown by a run that expects the violation:

* `compile_shifted`: the outputs of a loop body are renamed to the loop states
  one after the other (`ssair_llir_lower.c:178-199`), so a state whose next value is
  another state takes its new value.
* `llprep_branches`: `extendLifetimeSegment` gives up at a `goto`
  (`lifetimes.c:16-20`), so a variable used in both cases of an if is not marked
  for the operations between, and `share_slots` may merge it with one that is in
  use there. The `llprep` run shows that without a `goto` lifetimes are right and
  merging is sound, also for variables that only touch.
* `x86conditionals_between`: a comparison looks for its users up to the next
  operation with `x86_affect_flags`. `UGT` lacks the mark (`ops.cdef:279-289`), is
  turned into a `cmp` all the same, and the jump behind it reads the flags of the
  wrong comparison. `ConditionsKept` is an implication for that reason:
  `FlagsSurvive` is the condition on a block under which the pass is right, which
  neither the pass nor an earlier stage establishes.

Met while modelling, and left out of the inputs of the passing runs (or named by
`Supported` of `X86Emit`), so that these show what holds for the rest:

* CIR: a case of an if that does not assign a variable the other one assigns
  returns an unset one; a variable that is read and assigned in a case; a while
  loop inside an if is not converted (`MksaStates` does not enter cases); an
  assignment inside an if inside a loop; an if without else is rejected.
* `vx_opt`: `vx_Irblock_mightbe` says no for what it does not know (`eval.c:27`),
  so with `if_eval`, the default, an if with a then case always takes it;
  the joined operation may be in a case that was not taken
  (`join_compute.c:40`), or a LOAD before a store (`:64`); `a <= c` becomes
  `a < c + 1` for the greatest `c` too (`comparisions.c:51`); constants are folded
  in 64 bits (`constant_eval.c:20`); a load
  or store at an argument of the function reads through the null pointer that is
  the argument's declaration (`simple_patterns.c:89`).
* Lowering: the old state read after the next one was made
  (`ssair_llir_lower.c:199`), break inside an if without results (`:229`), a result
  of a case that is also the argument of a call (`:42`), an immediate as the
  condition of an if whose cases are swapped (`swap_if_cases.c:39`).
* `vx_opt_ll`: `cmov_expand` writes the else value to the output in front of the CMOV
  (`cmov_expand.c:21-27`), which may have the output as its condition or value, as
  a loop state does that a frontend writes so, or after `inlineVars` put it there.
  `CmovsApart` names the blocks without such a CMOV.
* Conditionals: a zero moved with `xor` between comparison and use (`cg.c:410`,
  IMM has no `x86_affect_flags`); a condition code added behind the old condition
  (`llir_conditionals.c:84`).
* Allocation: the prologue reserves `128 - stackOff` bytes instead of `stackOff`
  for a leaf without red zone (`cg.c:1679-1681`), the returned variable gets RAX
  even if its address is taken (`cg.c:1559-1563`, against the assertion at 1085),
  arguments on the stack are looked for below rbp (`cg.c:1606`).
* Emission: the epilogue pops rbp without putting rsp back (`cg.c:369`); the first
  of two results overwrites RAX (`:912`); an addition of a variable in memory to
  one in a register, or of bytes, becomes a `lea` that cannot be written
  (`:1248`, `:206`); `imul` into memory or of bytes; `movzx` and `movsx` into memory, of which 4
  to 8 bytes leaves half of it (`:517`); division and shift (`:851`, `:894`) do not
  save RAX, RDX and RCX, never move a quotient to its output, do not clear RDX and
  shift in place; a narrow register is "widened" by overwriting it (`:1798`);
  LOAD_EA and STORE_EA with three operands in memory need a third scratch register
  (`:1731`); boolean NOT is emitted as `not` (`:1287`); `loc_opt_copy` of an
  address without a factor never returns (`:146`); XMM8 and XMM9 are not in
  `RegLut` (`:63`, `:1710`).

## Proofs

`FastallocProofs` proves, for any handles, sizes, chunk size and number of chunks,
`TypeCorrect`, `Disjoint` and `InChunk`. The inductive invariant `IInv` adds to
the three properties the accounting of the current chunk (offset plus bytes
left is its capacity) and that every block lies in the part of its chunk already
handed out (`BlocksUsed`); without the latter nothing keeps a new block
from overlapping an old one. `NewCapacity >= bytes` is all that is needed of
the chunk size.

`Reachable` and `ChunkAdvances` rest on the same invariant: `NextReachable` goes
through the actions that replace the chunk, and `ChunkStep` says of each action
where the current pointer goes.

`X86AllocProofs` proves `Unshared`, `ScratchRegistersFree`,
`CallArgumentRegistersFree`, `SlotsNeverOverlap`, `FrameHoldsSlots`,
`ArgumentsArrive` and `TypesKept`, that is all the safety properties of `X86Alloc`,
for any blocks, variables and argument registers
(pairwise different and none of the fixed ones, `X86AllocAssumption`).
The inductive invariant says, beside the types, how far each loop has come:
calls scanned so far are covered by `calledInt` (`CallsCounted`), and which registers each stage has given out (`Accounted`):
hot registers have a rank below `k` and are beyond every argument and call
register, arguments seen so far are in the registers of their rank or not yet
anywhere, and RAX is the returned variable's alone. Disjointness of registers
follows because the three loops draw from ranges these facts separate.
For the stack, `SlotInv` adds that every slot ends at or below `stackOff` and is not
empty (`SlotsBelow`): the next slot starts at `stackOff`, so it overlaps none, and
where there is a slot `stackOff` is positive. `RoomForSlots` says what the prologue
then does: it enters a frame and reserves `stackOff` bytes, unless a leaf's slots
fit the red zone. That no slot is empty rests on `WellFormed`: arguments have a
size of 1 to 64 bytes.
`ArgumentsArrive` needs the moves. `DeliveryInv` says of every argument passed in a
register that, once it was looked at, it lives where it arrives or a move is
pending for it (`Settled`), from that register (`MovesFrom`); that the register still
holds it and nothing else (`Arrived`), because no other variable lives there
(`OwnRegister`), so no move goes there; and that where a move has been made its
target holds the argument (`Delivered`) and no later move goes to the same place.

`LlOptProofs` proves that **`vx_opt_ll` changes nothing a block does**
(`OptimiserCorrect`), for any well-formed block with CMOVs apart, any number of
variables, labels and values, and any number of iterations of its passes; and
`JumpsFindLabels`, `NeverRunsOff` and `TypesKept`. `More = Nat` is a hypothesis of
`OptimiserCorrect`: the rewritten block may take any number of steps to show what
the other one does, where a run has to give a bound. The argument:

* `LlirProofs` begins with the theory of step functions: what can be reached from a state is the
  smallest set closed under the step, and an execution follows another if every step of
  one is answered by some steps of the other, or none, that restore a relation
  between them. What finite executions need of induction over numbers goes over sets of
  numbers (`SetInduction`, from the well-foundedness of `Nat`), so no induction theorem with an
  operator as a parameter is used.
* It then applies this to blocks: types of operations, the step of every kind of
  operation, `Bisimulation`, and `EquivalentBehaves`, which leads from equivalence to the
  `SameBehaviour` that the runs check.
* `LlPassesProofs` gives every pass its relation between the states of the old and the new block:
  positions shifted by what was cut out, and values equal except in variables nothing
  reads, for code that is removed (`DeletionEquivalent`, `UnreachableCutEquivalent`);
  the same state, in which between an IMM and the end of its reach its output has its value,
  for `inlineVars` (`LockstepEquivalent`); a longer and a shorter way to the same
  place for jumps; one step against two in `cmov_expand`. `IterateImproves` sums
  them up: one iteration of any pass, at any operation.
* `IInv` of `LlOptProofs` is what links the iterations. `IterateImproves` needs of
  `cmov_expand` that the CMOV at hand is not overwritten, which is no invariant by
  itself: the passes before it move values about. `CmovInv` is: CMOVs with an else value are apart
  as long as `cmov_expand` has not begun, are all ahead of it while it runs, and are
  gone afterwards. `IterateDerived` shows that a pass makes up no operands but
  those of an IMM, which keeps them apart.

`LlPrepProofs` proves that **merging variables is right if lifetimes are**
(`SharingKeepsMarks`, `SharingCorrect`), for any well-formed block that reads no variable
before it was given a value (`Assigned`), any variables and sizes; and `TypesKept`. Without a
hypothesis `AliveInOp` and `BehaviourPreserved` do not hold: `llprep_branches` refutes the first. The
hypothesis is about the block alone: `LifetimesCover(source)` says that `Lifetime` marks each
variable for the operations that touch it and those it is alive at, and that a mark is ahead of
wherever it is alive. `LifetimesRight` shows that it holds for
every block that `RunsDown`, in which jumps only lead down and nothing but the last
operation leaves (no loop, and ifs without else), as all blocks of the `llprep` run do;
`PreparationCorrect` puts the two together. Again `More = Nat`. The argument:

* `LiveAt` counts rounds. Each round but the last ones adds an operation, so after as many as the
  block has the set is closed (`LiveAtClosed`), and it is within every closed set (`LiveAtLeast`); everything
  else about what is alive is shown by naming such a set.
* If control runs down, what is alive is touched further down (`TouchedBelow`) and was written
  further up (`WrittenAbove`, from the least operation it is alive at), and `Lifetime`
  marks all in between.
* The test of `share_slots` leaves two variables whose marks are disjoint or meet in one operation only
  (`CanMergeApart`). Then neither is written where control goes on to where the other is alive
  (`ApartNoClash`): the first mark of a variable is ahead of where it is alive, so where both are marked
  one of them is just ending.
* The block with the variable renamed is in step with the block before, with the same values under their
  new names in all variables that are alive (`Mirrors`, `StepMirrors`, `RenamedEquivalent`).
* `IInv` is that the block does the same as the source, and while variables are merged that the marks, of which
  a merged variable has those of both, are right for the block as renamed so far
  (`MergeMarked`). TLC has checked it on the instances of `llprep` and `llprep_branches` too. The passes that follow are
  cases of `IterateImproves`.

`BuilderProofs` proves that **the linked lists are sequences**, whatever edits them
(`BuilderImplementsLists`), for any functions, and any numbers of operations and blocks; and
`ParentsAlwaysRight` and `ListsEnd`. The argument:

* `Path` says that the pointers lead from one operation through a sequence of others to
  an end; paths join, split and can be redirected. `Acyclic` says that no set of
  operations leads only into itself. That holds for all operations and not only for those in
  a list, since a removed one keeps its `next`, and a walk or a stale `first` may
  still be there: from everywhere there is a path to NULL (`PathExists`), what the loops
  find is that path (`ChainIs`), and it is not longer than there are operations
  (`PathFits`).
* `Rep(heap, L, U)` is that the blocks `U` have the lists `L`. Each function of the
  builder has a lemma of what it does to `L` (`AddAllOpIs`, `InsertOpAfterIs`,
  `InsertAllOpAfterIs`, `RemoveOpIs`, ...). The lists
  of two blocks have no operation in common, as its `parent` is one of them
  (`RepApart`), so writing one `next` leaves the others.
* `IInv` is `Rep` of the lists in use, and who holds what: a block is held once
  (`Unshared`), knows the block of its holder (`Held`), and is empty and held by none as long
  as it is not used (`Unused`). Without `Unshared`, a splice out of a block leaves
  another `if` with a block that was given away. `Walking` says that every loop going on is at
  an operation in the list of its block or at the end, and in a block that the operation of the
  loop around it holds; so an edit at the innermost loop is in no list in which an
  outer one stands (`OuterLoops`), and the rests of the outer walks stay what they were.
* `GoneOn` concludes from what a visit left (`Done`) that the invariant holds again and that
  the walk goes on with the rest `OpLists` says. There is one lemma per action
  (`RemoveHereIs`, ..., `LowerLoopIs`); the two that take loops apart are followed from one call
  of the builder to the next (`Stage`), with a parent that is wrong in between.
* `InitIs` shows that the heap of a tree is right (`Laid`); `NextIs` has the steps.

`X86ConditionalsProofs` proves `TypesKept` and `AllConvertedAlways`, for any block of the
operations the pass may meet (`ProgramsAssumption`). `NoComparison` is one
operation further than `AllConverted` while users are looked for (`Walked`): the
comparison has been replaced, and the position moves on only with the insertion
behind it. That a converted jump has no output rests on jumps having none before (`Fits`).

It then proves that **comparisons and jumps through flags decide what they did through variables**
(`FusingCorrect`): `ConditionsKept` for any block, variables, values and choice of registers, again
with `More = Nat`. As in the property, the blocks are those with `FlagsSurvive`; on others the
statement is false (`x86conditionals_between`). The argument:

* `BisimulationX86` and `EquivalentX86` are the theory of `LlirProofs` for the machine with flags.
* The walks consist of three rewrites, and each is shown to be invisible: a comparison in two
  operations, one that sets the flags and one that reads them (`SplitEquivalent`, one step against
  two); a conditional that reads the flags of a comparison above instead of its result
  (`FusedEquivalent`, the same states, in which from that comparison down to the conditional the flags
  and the result agree); and the removal of a result nothing reads (`RemovedEquivalent`).
* All three keep `FlagsOk`: what reads flags has a comparison above, with nothing between that ends them and no
  label through which control could come in from elsewhere. Without it an operation behind the one that is
  rewritten could read what was just cut out.
* `Kept` links the steps. While users are looked for the block is not whole (the comparison has lost its output),
  so `Sound` is about the block as it would be left if the search ended now (`Whole`): a comparison split at once, and then
  one jump fused at a time. `Searches` says of each conditional still there that it goes by the comparison at
  hand, and then the search gets to it, or by a later one, and then the search
  stops earlier or is for another variable (`Later`); `Walks` says the same between two searches. So none is left
  for the second walk, and the third only removes.

Model-checked only: everything
about words, nested IR, the pipeline and the emission, of which
`Ssair`, `Words` and `X86Emit` have recursive operators; and `Terminates`, as
liveness under fairness is out of the prover's reach. `AliveInOp` and `BehaviourPreserved` of
`LlPrep` are proved under the hypotheses named above.

## Not modelled

* Memory reached through pointers (`PLACE`, `LOAD`) in the flat IR, so the
  substitution of a copy of an address-taken variable (`inline_vars.c:107`);
  `Words` and `X86Emit` have loads, stores and addresses.
* FOR and REPEAT loops; `vx_opt_if_opts` beyond removing what follows a jump: an if with
  a then case does not reach it; `reduce_loops`, whose loop passes over
  everything but ifs and then asks for loops, and `loop_simplify`, which is about
  FOR; `vx_opt_cmov`, whose assertion that the condition is a block (`cmov.c:61`)
  fails for every if it gets to; `rets_to_args`, which nothing calls; the search for tail
  calls (`tailcall.c`), of which the result, TAILCALL, is emitted by `X86Emit`.
* Floats, conditional moves, bit tests and symbols in the emission;
  `BITEXTRACT` in the blocks of the conditionals runs: it becomes a `bt`, which sets
  the carry flag, read with "nz", which `RunX86` treats as lost.
* Several functions in one compilation unit, assembler and data entries
  (`ir.c:469-487` falls from one into the other), and the composition of the
  stages behind `vx_opt_ll`, each of which has a run of its own.
* Targets, the text format, dump, command line and build program: they keep no
  state the compiler depends on. argparse is third-party code.

## Plan

1. Pointers in `Llir` (`PLACE`), so that inlining is checked against aliasing.
2. `X86Alloc` composed with `X86Emit`: the frames the allocation makes as the
   frames of the emission, and what is alive across a call.
3. `tailcall.c` and the entries of a compilation unit.
4. Proofs about words and nested IR, which would need `Words` and `Ssair` without
   recursive operators.
