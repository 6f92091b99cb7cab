# Verification of epic-cc: the compiled stack, the code, and the core it runs on

epic-cc is a whole-program C compiler for 8-bit PIC microcontrollers. These
parts have no data stack. The compiler therefore gives every function's locals
**fixed addresses** and lets functions that are never active together share
them (a *compiled stack*). If two activations that are alive at the same time
share a byte, the program computes wrong values, only for some call path, only
when an interrupt arrives at some instruction. The same parts have banked RAM,
paged code and one accumulator, and the compiler keeps track of a machine
register it cannot see (the bank, PCLATH, W, the flags) in order to leave
instructions out; a wrong guess is wrong code on one path. The project models
both: where values live, and what the emitted code does with them.

## 1. The system and its components

The driver (`src/crates/driver`) runs clang, parses its IR (`irparse`, `ir`),
checks and prunes the whole program (`wholeprog`), lowers it (`legalize`),
builds the call graph (`callgraph`), allocates every byte of RAM (`alloc` over
`device`), selects instructions (`isel*`), moves and inserts bank selects
(`schedule`, `banking`, `peephole`, `outline`), assembles (`asm`), and the
tests run the result on the simulator (`sim`) and its debugger adapter
(`gdbserver`). The passes are pure functions of a module run one after the
other by one process; the concurrency is in the compiled program, between its
main context and its interrupt handlers, and in the simulator, between the core,
its timers, the USB engine, the harness and the debugger.

| component | state | operations | what makes it correct | where it is hard |
|---|---|---|---|---|
| `alloc` | slot of each value in its frame, frame base of each function, save areas, slot and global addresses | liveness, coalescing, colouring, homing of results and arguments; topological placement, per-site dip, interrupt regions, rounding of runtime routines, placement order and its fallback, reordering | no activation's bytes are bytes an older one still needs; saved contexts survive; globals and frames are disjoint; it ends | any interleaving of calls and nested interrupts; holes at bank ends; bases derived before a later step moves something |
| `device` | RAM regions, access window | `region_for`, `gpr_start` | addresses are implemented RAM | region and bank boundaries do not coincide |
| `callgraph` | edges, depth | build, recursion refusal, depth check | the return stack never overflows | interrupts nest on the deepest chain |
| `legalize` | the module | runtime calls, interrupt copies, dispatch candidates | every function belongs to one context; every dispatch lists what can be stored there | a fixpoint through stored function pointers |
| `isel` and the other `isel*` | what W holds, a store put off, the flag a comparison left; per-function bank and register knowledge | lowering of each IR instruction, runtime routines, calls, dispatches, table readers, phi copies, prologues | the emitted code computes what the IR says; saved registers cover what handlers write | beliefs that outlive what made them true; carries and borrows at byte boundaries; an edge's copies one after the other |
| `schedule`, `banking`, `peephole`, `outline` | predicted bank, last PCLATH literal | sinking, hoisting, bank-select insertion, elision, factoring | the prediction holds at run time on every path | calls and joins between a prediction and its use |
| `asm`, `irparse`, `ir`, `wholeprog` | symbol tables | parsing, encoding, pruning | round trips, reachability | large but pure |
| `sim` core | pc, return stack, nesting stack, masks, request latches, timers | step, request, RETFIE, RESET | nesting rules, no lost request, exact resumption | several sources per latch, masks written wholesale, entries that bypass the push path |
| `sim` USB engine, EEPROM | descriptors, toggles, FIFO; unlock sequence | host tokens, bus reset; unlocked writes | descriptor ownership, toggle agreement | tokens between any two instructions |
| `gdbserver` | breakpoints, watches, stop reason | resume, step, poll watches | a stop is reported at the instruction that caused it | two stop reasons in one step |

They interact by values (each pass consumes the module the previous one
returns), except in the simulator, where the harness, the timers and the
firmware share registers and latches and meet at instruction boundaries.
PROJECT.json lists every component with its status and every hazard at its line.

## 2. The modules

| module | models | kind |
|---|---|---|
| `DeviceRam` | `device` regions and the placement arithmetic of `alloc` (`place_contiguous`, `frame_end`, `live_high`, `bank_key`, `routine_base`) | operators |
| `OverlayAlloc` | the allocator: `callgraph`, the driver's depth check, steps 5 to 7 of `allocate_inner` | state machine |
| `Overlay` | the program running on the layout: activations on the return stack, calls, dispatches, interrupts; extends `OverlayAlloc` | state machine, properties |
| `FrameFlow` | `frame_layout`'s analyses of one function: uses through pointers, escape, liveness, intervals, dominators | operators |
| `FrameColour` | `frame_layout`'s pins (phis, copies, lanes, diamonds) and greedy colouring; extends `FrameFlow` | operators |
| `HomeSlots` | `home_results`, `home_args`, `homed_callee`; extends `FrameColour` | operators |
| `FrameRun` | step 2 and the bases of `allocate_inner`, the ordering of phi copies, then the program on bytes of RAM; extends `HomeSlots` and `DeviceRam` | state machine, properties |
| `IsrSplit` | `legalize`'s interrupt duplication, routine split and dispatch candidates, then the program running through its stored callbacks | state machine, properties |
| `InterruptNesting` | what the allocator takes for granted about interrupts | abstract specification |
| `Pic18Interrupts` | the PIC18 core's interrupts and return stack; implements `InterruptNesting` | state machine, properties |
| `Pic14Text` | the PIC14 selector's text as the later passes see it: calls, dispatches, table readers, handler prologue and epilogue, PCLATH passes | operators |
| `Banking` | `banking`'s label analysis; extends `Pic14Text` | operators |
| `Pic14Passes` | selection, bank selects, peephole, then the core running the text | state machine, properties |
| `Mcu14` | the PIC14 core's ALU, flags, skips and bit operations | operators |
| `Isel14`, `Lower14`, `Routines14` | `isel`'s emission helpers and beliefs; its lowering of each instruction; the runtime routines | operators |
| `Words` | multi-byte integers, the meaning the recipes are held against | operators |
| `Recipes14` | the selector and the core in turns beside the IR's meaning; extends `Routines14` | state machine, properties |
| `Schedule` | the bank-switch scheduler; extends `Lower14` | state machine, properties |
| `MCOverlay`, `MCFrameRun`, `MCIsrSplit`, `MCPic18Interrupts`, `MCPic14Passes`, `MCRecipes14`, `MCSchedule`, `MCPic18Banks` | devices, firmware, and program families for TLC | instances |
| `Pic18Text` | the PIC18 selector's text with the bank it believes in: operands, labels, forward edges, calls, dispatches, branches, switches | operators |
| `HandlerSaves` | a handler's prologue and epilogue, and the narrowing of both; extends `Pic18Text` | operators |
| `Pic18Select` | blocks and their joins, functions in emission order, exit banks, routines, the whole text; extends `HandlerSaves` | operators |
| `Pic18Banks` | the text run on the PIC18 with nested handlers; extends `Pic18Select` | state machine, properties |
| `OverlayTypeProof`, `OverlayProof` | the placement arithmetic, type correctness of `Overlay`; frame safety, save areas and globals, banks and implemented RAM | proofs |
| `IsrSplitProof` | type correctness of `IsrSplit`; its contexts and activations | proofs |
| `Pic18InterruptsProof` | the invariants of `Pic18Interrupts` and the refinement of `InterruptNesting` | proofs |
| `MachineProof` | `Mcu14`: what an instruction does, that a turn has an end, two turns side by side | proofs |
| `SelectorProof`, `RecipesProof` | what each lowering of `Isel14` and `Lower14` keeps true of the selector; the machine beside it | proofs |
| `ScheduleProof` | order, bank switches, skips and meaning under the scheduler | proofs |

The modules meet where the passes do. `FrameRun` decides what `Overlay` takes as an
input (which slots are live across a call, which callees are homed), `IsrSplit!Apart`
is the hypothesis of `Overlay`'s proof, `Pic18Interrupts` implements the rules by
which `Overlay` is interrupted, and `Schedule` moves the lines `Lower14` emits.

### DeviceRam

A frame is a sequence of slot widths. `Cursor(b, ws)` is the walk the code
performs in `frame_end`, `live_high` and step 7: each slot at the lowest address
at or above the previous slot's end where it fits inside one bank. `FrameEnd`,
`LiveHigh` and the slot addresses are readings of that one walk, as in the code
they are three loops over `place_contiguous`. A placement past the last bank
panics in the code; here it answers an address at or above `NoRoom` (65536), and
the actions that would use it are refused.

### OverlayAlloc

The input `prog` is a record (see the module's header): functions, slot widths,
call sites with the caller slots live across each, handlers, runtime routines,
homed callees, globals. It is chosen in `Init` from the constant `Programs`, of
which `IsProgram` states what earlier passes guarantee. `stage` is the point of
`allocate_inner` reached:

| `stage` | actions | code |
|---|---|---|
| `callgraph` | `AcceptCallGraph`, `Refuse` | `callgraph::build`, `check_depth`, `dfs_depth` |
| `globals` | `PlaceGlobals` | step 6 with the globals first |
| `main` | `AssignMain(f)` | step 5, one function of the topological order; the order among ready functions is left open |
| `low`, `high` | `OpenLowRegion`, `OpenHighRegion`, `AssignRegion(f)` | step 5b: `isr_base`, `lo_base`, `hi_base`, the save areas, `assign_region` |
| (bases done) | `GlobalsAboveFrames`, `FallBackToGlobalsFirst`, `BasesAboveGlobals` | the placement decision and its one retry |
| `slots` | `PlaceLocals` | step 7: dipped frames keep their order, straddling ones are reordered |
| `run`, `refused` | | the layout is complete; a panic or diagnostic |

`dip` is the scope `allocate_with_pool` tries (`Off`, `Isr`, `All`); every scope is
explored, so the properties hold whichever one the caller keeps.

### Overlay

`stack` is the hardware return stack as activations `[fn, held]`: `held` is what
an older activation still needs (the site's live slots while it waits for a
call, its whole frame when an interrupt stopped it). Calls take any candidate of
the site, and a handler may preempt between any two steps unless its level or a
higher one runs.

### FrameFlow, FrameColour, HomeSlots, FrameRun

A function is blocks of instructions over SSA values. `FrameFlow` follows
`frame_layout` up to the live interval of every value, `[first, last]` in the order
of the text; a loop matters there, since an interval is all that colouring sees of it.
`FrameColour` decides which value may sit in the slot of another it is made from
(`Pins`, `Diamonds`, each behind the guards of the code) and colours greedily.
`HomeSlots` keeps some values out of the frame: a call's result may stay in the
return bytes until its one read, an argument may be computed into the callee's
parameter.

| `stage` of `FrameRun` | action | code |
|---|---|---|
| `results` | `HomeResults` | `home_results` |
| `args` | `HomeArgs` | `home_args`, `final_tgt`, `homed_callee` |
| `frames` | `LayFrames` | `frame_layout` of every function |
| `bases` | `PlaceFrames` | bases with dips, addresses, and the order of every edge's phi copies: a cycle is broken through a temporary or the program refused |
| `run` | `Compute`, `Skip`, `Store`, `Asm`, `Call`, `Return`, `TakeEdge` | the program |

The run keeps two things: `mem`, what each byte of RAM holds, and `env`, what the IR
says each value is. A value is a token, never a number: two different values are
different tokens, so a byte that was overwritten shows. `Needed` is what the next
instruction reads; the properties say that those bytes still hold those tokens.

### IsrSplit

A function has one static frame, so two contexts that can be alive together must
not run the same function. `prog` is the module: direct calls, stores and
dispatches of function pointers, whole-object copies, operations that become
runtime routines. A function is a pair of its name and a tag, `"orig"` or the
priority of a copy (`f_isr`, `f_isr_high`). Three rounds recompute who runs what:

| `round` | adjacency | last action | code |
|---|---|---|---|
| `user` | direct calls, addresses taken, registers called through | `Duplicate` | `duplicate_isr_shared`, `drop_dead_isr_originals` |
| `routine` | direct calls, routine calls | `SplitRoutines` | `split_isr_routines` |
| `dispatch` | all of them, over the rewritten module | `FillCallees` | `fill_indirect_callees` |

Inside a round `stage` is the context being computed (`main`, `low`, `high`).
`Expand` is one step of `reachable`, `JoinStored` one turn of the store-edge loop of
`isr_context_for`, `ContextDone` its exit. `mark` is the context when stores last
joined it: the loop goes on exactly when the closure grew past `mark`, which is the
code's exit condition, including the exit it takes too early (section 6).
`params` is `param_stores`, `stored` and `spellings` are what the rewrite tells the
filler. `AcceptCallGraph` is `callgraph::build`; `Refuse` every panic on the way.

Then the program runs: calls, stores, object copies, the compare-and-call chain of
`emit_indirect_call` (`Dispatch`, with its trap loop), and handlers preempting by
level. `held` is what each field holds, `stack` the activations.

What the passing family leaves out, because the code is wrong or silent there and
section 6 or a hazard says so: a field dispatched both by a handler and by main, a
callback of a handler that dispatches another field or uses a routine, handlers that
register callbacks for each other, and fields stored partly by name and partly not.

### InterruptNesting and Pic18Interrupts

`Pic18Interrupts` follows `Pic18::step` of the simulator: a ready high request,
else a ready low one, else one instruction, and then the timers. Instructions
that touch no control state are `Execute`. The firmware is any program that keeps
three rules the compiler's output keeps: calls and returns balance inside a
context, RETFIE is executed only by a handler at its own entry depth, and no
handler raises the enable bit of a level that is running. The timers' counting is
abstracted to "may overflow in this step", which includes never. `entries` and
`owed` are history variables: where on the stack the open entries are, and which
timers have an event that no entry with their source enabled has served.

`NestsProperly` states that the core implements `InterruptNesting`. The mapping
reads the live contexts off the real stacks: their levels from the top of
`isr_stack`, the resumption points from the entries of `stack`. `Overlay!Preempt`
and `Overlay!ReturnFromInterrupt` use the same rules, so what the allocator's
model assumes of interrupts is what the core's model delivers.

### Pic14Text, Banking, Pic14Passes

A line keeps what the text passes look at: a label, a transfer, the bank an operand is
in, a bank select, a write of PCLATH. `Pic14Text!Select` makes the text from a program's
functions as `isel` does, a page set before each transfer and the PCLATH passes after.
`Banking` is the analysis of `assign_banks`: walks of every function from its label,
joined at labels and exits until nothing changes. `Pic14Passes` then has one action per
arm of each pass's scan (`ScanLabel`, `ScanCall`, `ScanSelect`, `ScanAsm`, `ScanOperand`,
`ScanOther`; `ElideSet`, `KeepSet`, `ForgetLiteral`, `PassLine`), and the machine running
the text: bank bits, PCLATH, the return stack, table jumps, and an interrupt between any
two lines. The scan's belief (`known`, `cur`) is left in `believed` at each line, to be
held against the machine when it gets there.

### Mcu14, Isel14, Lower14, Routines14, Words, Recipes14

`Mcu14!Exec` is one instruction of the core on W, the carry and zero flags and the
file registers, all bytes. A selector is a record `g` of the lines emitted so far and
of what the code believes: the slot W holds, whether that slot's byte is committed, a
store put off, the flag that stands for the boolean just made. `Isel14` are the emission
helpers that read and change those beliefs, `Lower14` the arm of `emit_inst` for each
instruction, `Routines14` the bodies of the runtime routines. `Words` says what the
instructions mean. In `Recipes14` the selector lowers the next instruction when the
machine has reached the end of the text (`LowerNext`), the machine executes it
(`Turn`; `RoutineTurn` inside a routine), and `val` is what the IR says every register and
global is. A handler may rewrite a global between two IR instructions (`Interrupt`).

### Pic18Text, HandlerSaves, Pic18Select, Pic18Banks

On the PIC18 the selector itself leaves out bank selects: `bsr` is the bank it believes
BSR to hold. `Operand` emits a MOVLB only when that differs; `EmitLabel` forgets it unless
the edges recorded by `NoteBranch` agree; `Joined` takes what all predecessors of a block
ended with; `EmitCall` what the callee is known to leave (`ExitBank`, callees being emitted
first). One operator stands for each emitting function of the code, in its order, with the
same belief before and after; what the instructions compute is left out.

`EmitPrologue` and `EmitEpilogue` save and restore every register class of a handler;
`Narrow` then drops, line by line, the classes that `Needs` does not find written in the
bodies the handler reaches. `Scan` is the code's table of what a mnemonic writes, `Effects`
of `Pic18Banks` the simulator's: they are separate on purpose.

`Pic18Banks` runs the text: a register class holds the context that wrote it last, BSR the
bank, and a handler may start between any two instructions, the high one inside the low
one.

### Schedule

`Phase1` is one swap out of an excursion (`try_sink`, `try_hoist`), `Phase2` one splice of
a constant store into a gap, each under all the guards of the code; the state is the text.
`overtaken` notes that a splice went over a line its guards do not look at, away from a later
reader of W, or behind a skip.
`SameResult` runs the original and the present text from the same machine states.

## 3. The runs

| run | question | bounds | states |
|---|---|---|---|
| `overlay18` | PIC18 with two handlers: types, frames, saved contexts, globals, routines | 2 RAM regions of 14 and 13 bytes with a gap, banks of 10 bytes, access window of 4 bytes, save areas of 3 and 2 bytes, 192 programs of 6 or 7 functions, three dip scopes | 41632 |
| `overlay14` | banked mid-range part: the proof's inductive invariant, globals first, frames in implemented RAM | 3 banks of 5 bytes, 288 programs, with and without a handler | 15762 |
| `terminates` | every compilation ends | programs that fit, that are refused for each reason, that fall back | 303 |
| `frames` | coloured, coalesced and homed values on real bytes | 1457 compilations: merges with two phis and every mix of arms, the same in a loop, loops that carry and swap values, homed results and arguments with calls and assembly in between, memory objects lent to callees; with and without dips; one bank of 37 bytes, blocks under 32 instructions | 96798 |
| `phi_copies` | the copies of an edge do not destroy each other's sources (section 6) | the merges `frames` leaves out | stops |
| `interrupts` | nesting, resumption, latches, stack view, liveness | 2 stack levels for calls (plus one per entry), 2 places in main, 1 per handler, INT0 and Timer0, at most 1 stale nesting entry at a RESET | 135444 |
| `split` | every context has its own functions, every dispatch finds what its field holds, compilation ends | 153 programs of up to 7 functions: one or two handlers, two callbacks, a helper, a setter, a handle, a routine, two-field objects, five refusals | 12199 |
| `stored_copy` | a dispatch in main of a handler's field (section 6) | one program | small |
| `passes14` | banks, pages and contexts of the emitted text | 688 programs of main, two functions, a table reader and a handler, in one or two pages and three or four banks | 108422 |
| `banks18` | no bank select and no save that the PIC18 selector leaves out was needed | 567 programs of main, two functions, a routine and two handlers over three banks: two arms or a loop between two operands, every form of branch and switch, with copies and calls on the edges; ten kinds of handler work, alone and nested, two banks of the save area | 503333 |
| `recipes` | emitted code against the IR's meaning | about 19500 pairs of a program (one to four instructions) and an input: 9 values of a byte, 8 of two bytes, 7 of four, chosen at sign, carry and byte boundaries; one handler run; a routine in turns of at most 20 instructions | 153350 |
| `schedule` | what the scheduler keeps of a text | 21918 texts: any three of 28 instructions over two banks, bit tests round an excursion, a constant store with a skip before the gap, and one with a reader of W behind it; run from 2 machine states | 66698 |

**Why the bounds are enough.** The device instances keep what the arithmetic can
tell apart and shrink the rest: a region that ends inside a bank, a gap, a window
that ends inside a bank, slots of one and two bytes so that a slot can be pushed
over a boundary, a routine that straddles one. The programs vary what is live at
each site independently, contain a function called from two sites with different
live sets, a dispatch with two candidates, a runtime routine called from a dipped
caller, frames whose heat order differs, and two handlers, one of which calls. Two
levels are all the hardware has, so deeper nesting does not exist; the stack of
the core is deep enough that each context can have a call open when it is
preempted.

The programs of `IsrSplit` combine every way a callback reaches a handler's field (by
name, through a setter, through a copied handle, in one field of a shared object)
with every way a helper is shared. A second callback, helper or setter of the same
kind meets the same rules: the passes look at one function, one store and one
dispatch at a time, against sets that these programs already make overlap in every
way.

A merge in `frames` has two phis because one copy can only be disturbed by another, and
arms drawn from a constant, two values from before the branch and one of each branch's
own; both textual orders of the branches occur, and loops with the latch before and
after the body. One bank holds everything, since `overlay18` and `overlay14` are about banks.

A recipe works byte by byte and its cases are carry, borrow, sign and zero of a byte, so
every width has values where each byte is at an edge (0, 1, 127, 128, 254, 255). Slots
are in place, apart, or in another bank. Chains of three or four instructions are enough
for a belief to be made, survive something and be used, and each belief is also checked
where it stands (`BeliefHolds`), whether or not the next instruction uses it.

In `passes14` and `banks18` a belief about a bank is made, carried over at most one join, call, loop or
handler, and used; three or four banks make both selection bits of the PIC14 matter. In
`banks18` the two arms of a join end in the same bank, in different ones, or in one set by
a call, and each register class is written by some handler directly or by a callee.

`CHECK_DEADLOCK FALSE` is set because the systems do stop: a compilation ends in
`refused`, a program returns or traps, and the simulated core halts on SLEEP. In
`recipes` and `schedule` an explicit last step stutters and deadlock is checked.

**Fairness.** The two `CompileSpec`s have weak fairness on the allocator's and on
`legalize`'s step: one process that runs until it returns or panics. `Pic18Interrupts!Spec` has weak fairness on
`Step`: `run` is a loop around `step`. Nothing is assumed of the harness, the timers
or of which instruction the firmware executes. `HighServed` therefore assumes
that the firmware keeps unmasking (`[]<>gieh`), and `LowServed` also that high
requests stop, since a high request is always taken first. `Schedule` has weak fairness of
its pass. In `Recipes14` `CoreRuns` says that unless the program ends, steps that are not
the handler's happen again and again: the core's clock, not a scheduler, drives it. It is
what weak fairness of the core's actions would say, since one of them is always
enabled before the end, written so that TLC need not evaluate ENABLED of a long recipe.

Properties and what would break them:

* `FrameSafety`: an older activation's needed bytes are disjoint from every newer
  frame. Broken when a dip, a rounding, a reordering or a region forgets a site.
* `SaveSafety`: a handler's save area is disjoint from what other activations need
  and from other save areas. `GlobalsSafe`: frames and save areas are disjoint
  from globals, in both placement orders. `RoutineInOneBank`, `FramesMapped`: the
  bank and region rules, after every later step that moves a frame.
* `AllocTerminates`: the fallback is taken once, every function gets a base.
* `OneActivation`: no function is active twice. Broken when a context is computed too
  small, a call inside a copy is not renamed, or a stored pointer keeps the spelling
  of another context. `Apart`: what the call graph lets the contexts reach is
  disjoint, which is the hypothesis `WellSplit` of the allocator's proof, here a
  result. `NeverTraps`: the stored spelling is among the dispatch's candidates.
  `SplitTerminates`: the store-edge loop ends.
* `MaskedWhileRunning`, `NestsProperly`: no level is entered twice, and RETFIE
  resumes exactly what was interrupted. `StkptrExact`: the register view of the
  stack is exact whenever the main program can read it. `Timer0Kept`: a Timer0
  overflow is consumed only by an entry that serves it. `HighServed`, `LowServed`.

* `LocalsHold`, `ResultsHold`, `ArgsHold`: whatever path the program takes, an operand's
  bytes hold the value it names. Broken when an interval, a pin, a home or a dip lets a
  later write reach a slot still read. `RefusedForSwap`: only an edge whose copies truly
  wait for each other is refused.
* `OperandInItsBank`, `TransfersLand`: every operand is reached with its bank selected,
  every transfer goes where the source meant. `BeliefHolds` (of `Pic14Passes`): what the
  scan believed at a line is so whenever the machine is there. `ContextKept`: an interrupt
  gives back the bank bits and PCLATH as they were (in `Pic18Banks`: every register class,
  saved or not).
* `BeliefHolds` (of `Recipes14`), `ValuesHold`, `ExitRight`, `Ends`: what the selector believes
  of W, a deferred store and the flags is so; every value is what the IR says; the branch
  taken and the value returned are right; and no routine loops for ever.
* `SameUnlessOvertaken`: a text means the same as before unless a splice went over a use
  of its byte or of W, left a later reader of W behind, or parted a skip from its target. `NeverMoreSwitches`: no step adds a bank switch. `Ends`.

Each property of each passing run is paired in PROJECT.json with a mutated
definition (a dropped guard, a wrong end, a missing reset) that breaks it.

## 4. What is proved

All theorems are for every value of the constants. Those about `Overlay` assume
`BanksAssumption` (regions non-empty, ascending), `WindowAssumption`, `SaveAssumption`
(sizes are naturals) and `ProgramsAssumption` (every program satisfies `IsProgram`);
those about `IsrSplit` assume its own `ProgramsAssumption`, and those about
`Pic18Interrupts` assume `CodeAssumption`. `Recipes14` assumes that a program's operands
have the widths their instruction takes and lie in file registers, that an operation has an
operand in a register (the selector panics otherwise), that the results of logic are not
globals and no result of a call is put where calls return theirs (`ProgramsAssumption`: what
LLVM and the allocator give); that the cells the recipes name exist (`CellsAssumption`); and that
a routine's lines are instructions over the cells (`RoutinesAssumption`). `Schedule` assumes
that its texts are non-empty sequences of instructions over the cells, no longer than a turn
(`TextsAssumption`), and that the machine states they start in are states of that core
(`MachinesAssumption`). TLC evaluates all of these in every run.

| theorem | statement | module |
|---|---|---|
| `TypeCorrect` | `Spec => []TypeOK` | `OverlayTypeProof` |
| `FrameInvHolds` | `Spec => [](WellSplit => FrameInv)` | `OverlayProof` |
| `FrameSafetyHolds` | `Spec => [](WellSplit => FrameSafety)` | `OverlayProof` |
| `SaveSafetyHolds` | `Spec => [](WellSplit /\ NoLoneHigh => SaveSafety)` | `OverlayProof` |
| `GlobalsSafeHolds` | `Spec => [](WellSplit /\ NoLoneHigh => GlobalsSafe)` | `OverlayProof` |
| `FramesMappedHolds` | `Spec => []FramesMapped` | `OverlayProof` |
| `RoutineInOneBankHolds` | `Spec => [](RoutinesFit /\ Core # "baseline" => RoutineInOneBank)` | `OverlayProof` |
| `TypeCorrect` | `Spec => []TypeOK` | `IsrSplitProof` |
| `CallsKeepContextsApart` | `Spec => []CallsApart` | `IsrSplitProof` |
| `ApartWithoutDispatch` | `Spec => [](prog.sites = {} => Apart)` | `IsrSplitProof` |
| `OneActivationWhenApart` | `Spec => [](ContextsApart => OneActivation)` | `IsrSplitProof` |
| `OneActivationWithoutDispatch` | `Spec => [](prog.sites = {} => OneActivation)` | `IsrSplitProof` |
| `TypeCorrect` | `Spec => []TypeOK` | `Pic18InterruptsProof` |
| `NoSecondEntry` | `Spec => []MaskedWhileRunning` | `Pic18InterruptsProof` |
| `StkptrTrue` | `Spec => []StkptrExact` | `Pic18InterruptsProof` |
| `Timer0Latched` | `Spec => []Timer0Kept` | `Pic18InterruptsProof` |
| `ImplementsNesting` | `Spec => NestsProperly`, i.e. `Spec => Nesting!Spec` | `Pic18InterruptsProof` |
| `TypeCorrect` | `Spec => []TypeOK` | `RecipesProof` |
| `BeliefsHold` | `Spec => []BeliefHolds` | `RecipesProof` |
| `TypeCorrect` | `Spec => []TypeOK` | `ScheduleProof` |
| `OrderHolds` | `Spec => []IInv`: the lines are a reordering of the text that crosses no label and no transfer | `ScheduleProof` |
| `SwitchesNeverGrow` | `Spec => NeverMoreSwitches` | `ScheduleProof` |
| `SkipsKeepTargets` | `Spec => [](~overtaken => SkipsAimed)` | `ScheduleProof` |
| `MeaningKept` | `Spec => []SameUnlessOvertaken` | `ScheduleProof` |

So every safety invariant the runs check of `Overlay` and of `Pic18Interrupts` is a
theorem, and so is the refinement between the core and what the allocator takes for granted
of it. Of `IsrSplit`, the theorems say what the duplication guarantees of every program and
what rests on its treatment of pointers. Of `Recipes14` what the selector believes is a
theorem, for any program, any interleaving of interrupts and any bound on a turn; of `Schedule`,
every safety property is, the meaning of the text included. Five hypotheses occur:

* `WellSplit`: no function is reachable from two contexts, which is what the interrupt
  duplication of `legalize` is for. `ApartWithoutDispatch` proves it of every program
  without calls through pointers, `CallsKeepContextsApart` of the calls of every program,
  and `IsrSplit!Apart` checks the rest. Where the duplication fails (run `stored_copy`),
  so does the conclusion.
* `prog.sites = {}`: no function calls through a pointer. With such calls the conclusion is
  false of the code: in findings 2, 9 and 10 two contexts come to share a function or a
  routine through one.
* `ContextsApart`: what the accepted call graph lets main, the low and the high handlers
  execute is disjoint, dispatches included. It is the conclusion of `Apart` for any
  program, so `OneActivationWhenApart` says that sharing between contexts is the only way
  to two activations.
* `NoLoneHigh`: a high handler does not come alone. Finding 7 is a program without it, and
  there `SaveSafety` is false of the code.
* `RoutinesFit`: a runtime routine's frame, put at the first byte of a region or BSR bank,
  ends in that bank. It is the comment in the code, "A routine frame is at most 22 bytes, so
  one step past the current bank always fits", and true of the instances TLC runs. Baseline
  parts are excluded because their routines are not rounded.

**Frames.** `FrameSafety` is not inductive: it speaks of the running program
and says nothing of how the bases came about. `FrameInv` adds

1. `Settled`: which functions the current loop has placed;
2. `CallBases`: a placed callee is at or above `LiveHigh` of every site that can
   call it (and at or above its callers' ends when dips are off);
3. `RegionOrder`: the main context ends below the low region, both below the high;
4. `SlotsInFrame`, `HeldBelowCallee`: what step 7 makes of it, a slot is inside its
   frame, and one held across a call ends at or below the callee's base. Here the
   proof needs the rule that a dipped frame is never reordered;
5. `StackContexts`: on the stack, a context appears only above its handler;
6. `HeldBelow`: what an activation holds ends at or below every newer frame's base.

`FrameSafety` follows from 4 and 6. `FrameStep` proves that each action preserves
the conjunction; the calls use 2 through 4, the interrupts 3 and 5. It rests on
the lemmas about `DeviceRam`: the recursive walk `Cursor` exists and is monotone
(`CursorWalk`), `SlotInFrame`, `LiveHighCovers`, `RoutineBaseAbove`. These are proved
from the least counterexample, since induction schemes over data are out of the
prover's reach.

**Save areas and globals.** `SaveInv` says where an area lies from the moment it is carved:
above the end of everything its handler can interrupt, and below the base of every frame of
its own context and of the one above it (`LowAreaPlaced`, `HighAreaPlaced`); and that a
level has at most one handler on the stack (`OneOfEach`). That the fallback carves afresh is
`SavesCarved`: going back to the bases forgets the areas. `GlobalsInv` says that the globals
are on one side of everything: with the globals first they end below the start of the
overlay, and every base and area is at or above it (`GlobalsBelow`); with the frames
first, every frame ends below them (`GlobalsAbove`). An area's end is below the base of
its handler's frame, which places it too (`AreaSpan`).

**Banks.** A base is accepted only where its frame ends below `NoRoom`, so
`place_contiguous` found a bank for every slot on the way (`PlaceInBank`, `RoomLeft`); a frame
is reordered only when the reordered one ends where the first did, so the same holds of it. A settled routine is where
`round_if_routine` put it (`RoutinesPlaced`): either its frame was inside one bank as it
was, or it moved to a bank start, where `RoutinesFit` applies.

**Contexts.** That no function is reached from two contexts is not inductive while the
closures are being computed and the module is rewritten twice. `ApartInv` has four parts:

1. `ContextsOK`: a context whose closure is finished is closed under calls, and contains
   its roots from the start;
2. `HandlersAlone`: until the duplication a context holds its roots, functions that can be
   called, and registers, never another handler, because nothing calls or stores one;
3. `RoutineNames`: no function has the name of a runtime routine;
4. `Separated`: after the duplication some assignment of functions to contexts keeps the
   contexts disjoint and is closed under calls, and the contexts computed in the
   routine round lie in it, routines aside.

`Duplicate` supplies the assignment (`DuplicateSeparates`: main has the functions that were
there, a priority its own functions and its copies, whose calls `ClonedCaller` follows), and
`SplitRoutines` narrows it to the contexts just computed and adds each context's own
routines (`SplitSeparates`). `StackInv` then speaks of the running program: `NoCycle`, no
set of functions each called by one of the set, which is what `Recursive` refused
(`CycleRecursive`); and `Levelled`, each activation has a level, is reached from
that level's roots, and is called by the one below it when both are of one level. Two
activations of one function would be at two levels, so in two contexts, or at one, so on
a cycle. The searches in `Executes` and `Recursive` are recursive functions; that they
exist and end closed (`IterationExists`, `ExecutesClosed`) is proved from the least
counterexample.

**Interrupts.** `IInv` adds to the four invariants that entries stand at ascending positions
of the stack (`Ascending`), so that the newest is the floor of the running handler, calls
and returns above it leave the older ones alone, and RETFIE at the floor pops exactly what
the entry pushed; and that of two live levels the older is low and the newer high
(`Outranking`), which holds because a live level has its enable bit off. The refinement maps
`entries`, the tops of `isr_stack` and the stack to the sequence of contexts of
`InterruptNesting`: an entry appends a context that outranks the last (`EntryNests`),
RETFIE drops the last one and resumes where it was interrupted (`LeaveNests`), RESET starts
again, and every other step moves the running context or stutters (`WorkNests`).

**Beliefs.** `BeliefHolds` compares a record of the selector with the machine, and nothing in
either says why they should agree. The invariant makes the emitted lines the link. On the
selector's side (`SelectorProof`) a belief is readable in the code: W is believed to hold a
cell only when the last line stored or loaded that cell and no skip is before it (`Held`), a
store is put off only of a cell that is no global, and while no flag is remembered (`Deferred`),
and a flag's boolean is remembered only when the last four lines are its test (`Told`); besides,
each jump has its label or goes to one still owed, and the code ends in no skip. This is
`Selector`, and there is one lemma per recipe: its code is either a block (plain code that ends in
no skip, after which nothing is believed) or goes through `WStore`, `WLoad` and `Emit`, which
`WStoreIs`, `WLoadIs` and `EmitMark` treat once. `InstIs` collects them, `LowerIs` adds the collapsed
branch. The loops over bytes are left folds; `FoldStays`, proved by the least
counterexample, says that a fold stays in a set its steps stay in. On the machine's side
(`RecipesProof`) `Sure` says what the lines just before `pc` have done: the cell of a store or
load is equal to W, the zero flag tells of W after an operation, W is the boolean of the flag
tested. `FallsThrough` proves it of each line for its successor, `SkipsOver` that nothing is
claimed behind a skipped line, and a jump lands on a label, behind which nothing is claimed
either. A turn is a recursive function on states with fewer and fewer steps left: it exists
(`RunExists`) and what each step keeps it keeps (`TurnIs`). An interrupt changes globals, and no
belief is about one; a routine runs behind a call, where no belief is. At the end of
the code `Sure` and `Selector` together are `BeliefHolds`.

**Scheduling.** `Order` says that a bijection of positions takes the text to the lines, and that
between a line's old and new place there is no label and no transfer (`Reorders`). A swap and a
splice are such bijections (`SwapReorders`, `SpliceReorders`) and they compose (`Composed`): the
lines in between are the same before and after, up to order. For `NeverMoreSwitches` a line is charged when the nearest
line before it that needs a bank needs another. Outside the lines a move touches, the same lines are
charged, except that one line behind them may be newly so (`OneNewAfter`); the bundle's own
charge is gone, or the excursion's, so one switch goes for the one that comes (`OneForOne`). This needs that
the gap is in a run of instructions of one bank (`GapIs`), which is `run_start`'s doing.
`SkipsAimed` asks for a bijection in which the line behind a skip was behind it before.
A swap never touches a skip nor a line behind one (`SwapAims`), a bundle is neither a
skip nor behind one, and it is put behind one only when `Overtakes` says so (`SpliceAims`).
Without that exception the statement is false: finding 16.

**Meaning of a schedule.** `SameUnlessOvertaken` compares two runs, of the text and of what has
become of it, so its invariant only adds `IInv`; the work is in one move. `TurnsPaired`
(`MachineProof`) is the tool: a set of pairs of states, one of each run, such that from each pair
a step or two of either run lead to another pair with less to go. A swap takes the diagonal, the
states between the two lines aside. Its lines are no skips and none is skipped, and they commute in
every machine (`Commute`): one of them sets or clears a bit of a banked file, touching
neither W nor a flag, and the other names another file; this is `is_move_candidate` and
`file_collision`. A splice has three kinds of pairs (`Beside`). Up to the gap, and after any jump,
the two are in the same state (`Outside`). From the gap to the bundle's old place the spliced run
is two lines ahead, and they agree on all but the bundle's byte, already stored, and W
(`Behind`), which the line at the gap sets in both before another reads it: `~ReadsW` of it
is the code's, `WritesW` is not, nor is that no line in between names the byte; both are what
`Overtakes` excuses. Behind the old place only W differs and nothing reads it before it is
set (`Unread`, `~StillRead`): of this the code looks at one line, which is finding 17.

`FrameInv` is checked by a run. The other strengthenings (`SaveInv`, `GlobalsInv`,
`BankInv`, `IInv`, `ApartInv`, `StackInv`, and the invariants of `Recipes14` and `Schedule`) were
checked by TLC on the instances of `overlay18`, `overlay14`, `interrupts`, `split`, `recipes` and
`schedule`, or smaller ones, before they were proved. `Places` in `Pic18Interrupts` and the unions in
`IsrSplit` are written with parentheses since SANY and the prover bind `UNION` and
`\cup` differently.

**Only model-checked:** everything about `FrameRun`, `Pic14Passes` and `Pic18Banks`; of `Recipes14`,
`ValuesHold` and `ExitRight`, which say that the arithmetic of every recipe is right and would need an
induction over the bytes of a value; of `IsrSplit`, `NeverTraps`, and `Apart` and `OneActivation` of programs
with calls through pointers, where they hold only of families that keep clear of findings 2 and 9 to 11; and, because the proof system does not reason about
fairness, `AllocTerminates`, `SplitTerminates`, `HighServed`, `LowServed` and both `Ends`. The
fixpoints of `FrameFlow` and `Banking` are defined by
iteration over data, of which the prover has no induction; `HandlerSaves`,
`Pic18Select` and `Banking` declare RECURSIVE operators, which the prover does not take.

## 5. What is abstracted or left out

* `Overlay` takes liveness, homing and heat order as inputs: `live`, `homed` and `heat` are
  arbitrary there, and `FrameRun` shows what the compiler makes of them.
* `FrameRun` has one bank, so the rules that price a dip or a home by bank selects never
  apply and the heat order is left out. Walk accumulators, folded (unplaced) values,
  pointer phis, byval and sret copies and variadic regions are not modelled. `Once` in
  `FrameFlow` is only there to evaluate an argument once.
* Globals are one floating block and pinned bytes; bin packing of many globals and
  the retention pool are not modelled.
* The allocator's order among ready functions is open in the model and fixed in the
  code, so the model has more behaviours.
* `Pic14Passes` knows pages and banks, not addresses. `BSF`/`BCF` of the bank bits by hand
  occur only as the bank pass treats them; the baseline form (FSR banks) and MOVLB of
  PIC14E are not run. The family leaves out two reads in a row of a table that
  straddles a page (section 6).
* `Recipes14` covers the integer part of `isel`. Left out: soft floats, pointers through
  FSR, loads folded into their one use, values without a slot, dead results, phis
  threaded through W, the folds of whole loops (walks, CRC, NUL latches). Interrupts come
  between IR instructions: inside one, what a handler may write (globals, never slots) is
  not read twice. A division by zero gives a quotient of ones and the dividend as
  remainder, as the routines do; the IR leaves it undefined.
* `Schedule` leaves out INDF and FSR operands and the location vector.
* `Pic18Banks` knows banks and register classes, not values: FSR0, TBLPTR and W tracking,
  pointer and walk loops and module assembly are left out, and of the runtime routines one
  is modelled. The family leaves out the low handlers of finding 13 in section 6 and, as the
  assembly of findings 14 and 15, templates that select a bank or rotate with RRNCF. The
  values of PIC18 lowerings are not modelled.
* `isel-pic18`'s, `isel-pic14e`'s and `isel-pic-baseline`'s lowerings, `asm` and `irparse` are
  translations of the same kind as `isel`, for other cores and formats. They are tested
  differentially in the repository and listed as not or partly modelled.
* In `legalize`, callbacks have one signature; handles are globals (local and parameter
  handles follow the same path with one more lookup); pointer aliases, constant
  tables and the EC++ guard check are left out. Whole-object copies do not chain.
* The `fire_` hooks of the simulator bypass the masks on purpose and are left out.

## 6. Disagreements found

Two have a run of their own (1 and 2); for the others the program and the property are
named, to be put in the configuration of the run they belong to.

1. `phi_copies`: two phis of a merge trade arms (a conditional swap). One is pinned to the
   slot of a source the other's copy still reads on the same edge, and a forward edge
   runs that copy first.
2. `stored_copy`: a main-context dispatch may list the copy of a function that belongs
   to a handler. ADR-038 allows it because main preempts nothing; but the handler
   preempts main inside the copy and enters it again.
3. `schedule` with `SameResult`: a constant store is spliced in front of a line that still
   reads its byte; only the lines at the gap and at the store are compared.
4. `frames` with the loop header after its latches in the text (`LocalsHold`): a diamond
   pin in a loop takes the value's interval to end with the text, and the next turn
   reads a slot already overwritten.
5. `frames` with `MCChained` (`ArgsHold`): an argument passed on through a callee's parameter
   keeps only the last callee from dipping; the one in between dips, and a slot of main
   comes to lie on the parameter.
6. `passes14` with `Staged` (`TransfersLand`): the peephole takes PCLATH to survive a
   call, but a table reader that straddles a page has changed it.
7. `overlay18` with `ProgramLoneHigh` (`SaveSafety`): a module whose only handler has
   priority 1 gets a save area at the start of the region where its own frames are placed.
8. `overlay18` with `ProgramNested` and a stack of its depth (`HwStackFits`): the depth check
   ignores interrupt nesting, which the design documents say it accounts for.
9. `split` with `ProgramChain`, under `Spec` (`OneActivation`): the store-edge loop stops when
   the closure of what joined adds nothing, before it looks at what the joined callback
   itself reads.
10. `split` with `ProgramCallbackRoutine`, under `Spec` (`OneActivation`): runtime routines are
    split by direct calls only, so one used by a dispatched callback keeps main's frame.
11. `split` with `ProgramSelected`, under `Spec` (`NeverTraps`): a field with one store by name
    and one of a selected function dispatches only to the named one and traps on the other.
12. `interrupts` with Timer2 among the timers (`EventsKept`): Timer2 shares a request latch
    with INT0, so an entry for another source consumes its request.
13. `banks18` with `FlagOnly` (`OperandInItsBank`): the low handler's body relies on the MOVLB of
    its prologue, which the narrowing drops with the saves of W.
14. `banks18` with `AsmSelects` (`OperandInItsBank`): inline assembly with its own MOVLB does
    not end the belief about the bank, though the design says it does.
15. `banks18` with `AsmRotates` (`ContextKept`): the narrowing takes RRNCF to leave the flags
    alone, but it sets Z and N.
16. `schedule` with the texts `Parted` (`SameResult`): `find_dead_w_gap` does not look whether the
    line before the gap is a skip, so the bundle can be put between a skip and what it
    skips. The skip then drops the constant's load, and its old target always runs.
17. `schedule` with the texts `Later` (`SameResult`): phase 2 asks only the one line after the
    bundle whether it reads W. When that line neither reads nor sets W and the one after it
    reads it, that one gets what the line before the bundle left in W.

Three more were met on the way and have no property: a save area is carved by
addition and may run into a RAM gap; interrupt entry in the simulator pushes past the
31 levels without the assertion calls make; a low-priority context that registers a
callback for the high handler stores its own copy.

## 7. Plan

In order of importance; each entry names its modules, runs and theorems.

1. **Proofs about dispatches in `IsrSplit`**: `NeverTraps`, and `Apart` under the least restriction
   on who stores and who calls through a pointer.
2. **More of the allocator**: the refinement of an abstract stack allocator by `OverlayAlloc`.
3. **Proofs about `Pic14Passes`**: the scan's belief, which needs the fixpoint of `Banking` as a
   function.
4. **Recipes of the enhanced mid-range core**: `isel-pic14e` over `Recipes14`'s machine with
   its additional instructions and MOVLB.
5. **Pointers**: FSR walks of `isel` and `isel-pic14e`, with the bank bit of FSR.
6. **Simulator peripherals**: the USB engine (descriptor ownership, PKTDIS, toggles)
   and the EEPROM unlock sequence, with firmware and host interleaved.
7. **Debugger**: write watches and stop reasons of `gdbserver`.
8. **Code factoring**: `outline`, over the text of `Pic18Select`.
9. **Recipes of the PIC18**: the values of `isel-pic18`'s lowerings, as `Recipes14` does.
