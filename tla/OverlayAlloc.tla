---------------------------- MODULE OverlayAlloc ----------------------------
(***************************************************************************)
(* The compiled-stack allocator: no function has a run-time stack frame,   *)
(* every function's locals get fixed addresses, and two functions that are *)
(* never active together may share bytes.                                  *)
(*                                                                         *)
(* The module is the program of crates/callgraph (edges, recursion, depth) *)
(* followed by steps 5, 5b, 6 and 7 of crates/alloc allocate_inner: frame  *)
(* bases in topological order, the disjoint interrupt regions with their   *)
(* context-save areas, the globals, and the slots of each frame.           *)
(*                                                                         *)
(* The input program is a record:                                          *)
(*   funcs     its functions; main \in funcs                               *)
(*   width     per function, the widths of its coloured slots, in order    *)
(*   heat      per function, the slot order window_order would choose      *)
(*   sites     call sites [caller, callees, live]: live is the set of      *)
(*             caller slots whose value spans the call (result excluded);  *)
(*             an indirect call lists every candidate                      *)
(*   low, high the handlers: irq_priority # 1, and irq_priority = 1        *)
(*   routines  the runtime routines (multiply, divide, float)              *)
(*   homed     callees that receive a homed argument                       *)
(*   pinned    addresses of __at globals;   float  bytes of other globals  *)
(***************************************************************************)
EXTENDS DeviceRam, Functions

CONSTANTS
    Programs,        \* the programs the compiler is given
    StackDepth,      \* levels of the hardware return stack
    LowSaveBytes,    \* LOW_SAVE_BYTES (19): the low handler's save area
    IsrSaveBytes     \* ISR_SAVE_BYTES (7): a compatibility/high handler's area

ASSUME SaveAssumption == LowSaveBytes \in Nat /\ IsrSaveBytes \in Nat

(* What every module handed to alloc looks like: the earlier passes refuse *)
(* calls to unknown functions, and nothing calls an interrupt handler.     *)
IsProgram(p) ==
    /\ IsFiniteSet(p.funcs) /\ "main" \in p.funcs
    /\ p.low \subseteq p.funcs /\ p.high \subseteq p.funcs
    /\ "main" \notin p.low \cup p.high /\ p.low \cap p.high = {}
    /\ p.routines \subseteq p.funcs /\ p.homed \subseteq p.funcs
    /\ \A f \in p.funcs :
          /\ p.width[f] \in Seq(Nat \ {0})
          /\ p.heat[f] \in [1..Len(p.width[f]) -> 1..Len(p.width[f])]
          /\ \A k \in 1..Len(p.width[f]) :
                \E i \in 1..Len(p.width[f]) : p.heat[f][i] = k
    /\ IsFiniteSet(p.sites)
    /\ \A s \in p.sites :
          /\ s.caller \in p.funcs
          /\ s.callees \subseteq p.funcs \ (p.low \cup p.high)
          /\ s.live \subseteq 1..Len(p.width[s.caller])
    /\ p.float \in Nat /\ p.pinned \subseteq Nat /\ IsFiniteSet(p.pinned)

ASSUME ProgramsAssumption == \A p \in Programs : IsProgram(p)

VARIABLES
    prog,         \* the program being compiled
    dip,          \* Dip: where a callee may reuse dead caller slots
    framesFirst,  \* the overlay is below the globals (placed_frames is Some)
    stage,        \* the step the allocator is in
    start,        \* region_start of the overlay
    region,       \* where the interrupt region being assigned begins
    base,         \* frame base of each function
    done,         \* functions whose base the current loop has settled
    save,         \* isr_low_save, isr_save and isr_hi_save
    floatAt,      \* where the unpinned globals begin
    slots         \* address of every slot of every frame

allocVars == <<prog, dip, framesFirst, stage, start, region, base, done, save,
               floatAt, slots>>

None == -1
NoSaves == [low |-> None, isr |-> None, high |-> None]

-----------------------------------------------------------------------------
(* The call graph.                                                         *)

SitesOf(f) == {s \in prog.sites : f \in s.callees}
Callers(f) == {s.caller : s \in SitesOf(f)}
Callees(f) == UNION {s.callees : s \in {t \in prog.sites : t.caller = f}}

Closed(S) == \A s \in prog.sites : s.caller \in S => s.callees \subseteq S
(* reachable: the smallest set with the roots that calls never leave.      *)
Reach(roots) ==
    {f \in prog.funcs :
        \A S \in SUBSET prog.funcs : roots \subseteq S /\ Closed(S) => f \in S}

Handlers == prog.low \cup prog.high
MainRoots == {f \in prog.funcs : Callers(f) = {} /\ f \notin Handlers}
MainCtx == Reach(MainRoots)
LowCtx  == Reach(prog.low)
HighCtx == Reach(prog.high)

Recursive == \E f \in prog.funcs : f \in Reach(Callees(f))

(* dfs_depth: the longest chain of calls that starts at a function.        *)
Depth ==
    LET d[f \in prog.funcs] ==
            IF Callees(f) = {} THEN 1 ELSE 1 + Max({d[c] : c \in Callees(f)})
    IN  d
MaxDepth == Max({Depth[f] : f \in prog.funcs})

CallGraphFits == ~Recursive /\ MaxDepth <= StackDepth

-----------------------------------------------------------------------------
(* Frame arithmetic over the bases settled so far.                         *)

End(f) == FrameEnd(base[f], prog.width[f])

(* The caller-end rule: past the end of every caller's frame.              *)
OldBase(f) == Max({End(p) : p \in Callers(f)})

(* The per-site dip: past what each caller holds across its own call.      *)
DippedBase(f) ==
    Max({LiveHigh(base[s.caller], prog.width[s.caller], s.live) : s \in SitesOf(f)})

(* A dip that would leave the banks of the caller-end placement is refused. *)
SameBanks(d, o, f) ==
    /\ BankKey(d) = BankKey(o)
    /\ BankKey(FrameEnd(d, prog.width[f])) = BankKey(FrameEnd(o, prog.width[f]))

CalleeBase(f, mayDip) ==
    IF mayDip /\ f \notin prog.homed /\ SameBanks(DippedBase(f), OldBase(f), f)
    THEN DippedBase(f)
    ELSE OldBase(f)

(* round_if_routine                                                        *)
Rounded(f, b) ==
    IF f \in prog.routines /\ Core # "baseline"
    THEN RoutineBase(b, prog.width[f])
    ELSE b

(* Step 5 and step 5b compute a base the same way, but for the region a    *)
(* root starts at and for the scopes that may dip.                         *)
BaseIn(f, roots, at, mayDip) ==
    Rounded(f, IF f \in roots THEN at ELSE CalleeBase(f, mayDip))

MainBase(f) == BaseIn(f, {g \in prog.funcs : Callers(g) = {}}, start, dip = "All")
IsrBase(f, roots) == BaseIn(f, roots, region, dip # "Off")

(* The placement the code would compute runs past the last bank.           *)
Overflows(f, b) ==
    \/ FrameEnd(b, prog.width[f]) >= NoRoom
    \/ Callers(f) # {} /\ FrameEnd(OldBase(f), prog.width[f]) >= NoRoom

(* overlay_end                                                             *)
OverlayEnd == Max({start} \cup {End(f) : f \in prog.funcs})

PriorityMode == prog.low # {} /\ prog.high # {}

-----------------------------------------------------------------------------
(* Step 6, reduced to one block of floating bytes and the pinned bytes:    *)
(* the block goes to the lowest address where it fits and overlaps none.   *)

FloatFits(from) ==
    {a \in from..Banks[Len(Banks)].hi :
        /\ PlaceContiguous(a, prog.float) = a
        /\ prog.float > 1 => a % 2 = 0
        /\ \A p \in prog.pinned : p \notin a..(a + prog.float - 1)}

GlobalsFit(from) == prog.float = 0 \/ FloatFits(from) # {}
FloatStart(from) == IF prog.float = 0 THEN from ELSE Min(FloatFits(from))

FloatBytes == floatAt..(floatAt + prog.float - 1)

(* end_of_globals for a block that starts at a.                            *)
GlobalsEnd(a) ==
    Max({GprStart, a + prog.float} \cup {p + 1 : p \in prog.pinned})

-----------------------------------------------------------------------------
(* Step 7: slot addresses.                                                 *)

(* A caller some callee's base sits inside of keeps the colouring's order. *)
DippedInto(p) ==
    dip # "Off" /\ \E s \in prog.sites :
        s.caller = p /\ \E c \in s.callees : base[c] < End(p)

Permuted(ws, order) == [i \in 1..Len(ws) |-> ws[order[i]]]

(* Seeded fault: a frame some callee dips into is reordered too.           *)
ReorderedDipped(f) ==
    /\ HasWindow
    /\ base[f] <= WindowHi
    /\ base[f] + SumFunction(prog.width[f]) > WindowHi + 1
    /\ FrameEnd(base[f], Permuted(prog.width[f], prog.heat[f])) = End(f)

(* Only a frame that straddles the access window's end is reordered, and   *)
(* only when the reordered frame ends where the callees think it ends.     *)
Reordered(f) ==
    /\ ~DippedInto(f)
    /\ HasWindow
    /\ base[f] <= WindowHi
    /\ base[f] + SumFunction(prog.width[f]) > WindowHi + 1
    /\ FrameEnd(base[f], Permuted(prog.width[f], prog.heat[f])) = End(f)

SlotOrder(f) == IF Reordered(f) THEN prog.heat[f]
                ELSE [i \in 1..Len(prog.width[f]) |-> i]

SlotAddr(f) ==
    LET order == SlotOrder(f)
        walk  == Cursor(base[f], Permuted(prog.width[f], order))
        at(k) == CHOOSE i \in 1..Len(prog.width[f]) : order[i] = k
    IN  [k \in 1..Len(prog.width[f]) |-> walk[at(k)] - prog.width[f][k]]

-----------------------------------------------------------------------------
AllocInit ==
    /\ prog \in Programs
    /\ dip \in {"Off", "All"}
              \cup (IF Core = "pic18" /\ Handlers # {} THEN {"Isr"} ELSE {})
    /\ framesFirst = HasWindow
    /\ stage = "callgraph"
    /\ start = GprStart
    /\ region = GprStart
    /\ base = [f \in prog.funcs |-> GprStart]
    /\ done = {}
    /\ save = NoSaves
    /\ floatAt = GprStart
    /\ slots = [f \in prog.funcs |-> <<>>]

(* callgraph::build and the driver's depth check.                          *)
AcceptCallGraph ==
    /\ stage = "callgraph"
    /\ CallGraphFits
    /\ stage' = IF framesFirst THEN "main" ELSE "globals"
    /\ UNCHANGED <<prog, dip, framesFirst, start, region, base, done, save,
                   floatAt, slots>>

(* Step 5: the next function of the topological order.                     *)
AssignMain(f) ==
    /\ stage = "main"
    /\ f \notin done
    /\ Callers(f) \subseteq done
    /\ ~Overflows(f, MainBase(f))
    /\ base' = [base EXCEPT ![f] = MainBase(f)]
    /\ done' = done \cup {f}
    /\ UNCHANGED <<prog, dip, framesFirst, stage, start, region, save, floatAt,
                   slots>>

(* Seeded fault: the low frames start on their own save area.              *)
OpenLowRegionOnSave ==
    /\ stage = "main"
    /\ done = prog.funcs
    /\ Handlers # {}
    /\ LET isrBase == Max({start} \cup {End(f) : f \in MainCtx})
       IN  /\ save' = [save EXCEPT ![IF PriorityMode THEN "low" ELSE "isr"] = isrBase]
           /\ region' = isrBase
    /\ done' = prog.funcs \ LowCtx
    /\ stage' = "low"
    /\ UNCHANGED <<prog, dip, framesFirst, start, base, floatAt, slots>>

(* Seeded fault: the region clears main's own frame, not its callees'.     *)
OpenLowRegionOverRoots ==
    /\ stage = "main"
    /\ done = prog.funcs
    /\ Handlers # {}
    /\ region' = Max({start} \cup {End(f) : f \in MainRoots})
    /\ done' = prog.funcs \ LowCtx
    /\ stage' = "low"
    /\ UNCHANGED <<prog, dip, framesFirst, start, base, save, floatAt, slots>>

(* Step 5b: the low region (or the lone handler's) opens above the whole   *)
(* main context, above the save area carved at its start.                  *)
OpenLowRegion ==
    /\ stage = "main"
    /\ done = prog.funcs
    /\ Handlers # {}
    /\ LET isrBase == Max({start} \cup {End(f) : f \in MainCtx})
       IN  IF PriorityMode
           THEN /\ save' = [save EXCEPT !.low = isrBase]
                /\ region' = isrBase + LowSaveBytes
           ELSE IF Core = "pic18"
                THEN /\ save' = [save EXCEPT !.isr = isrBase]
                     /\ region' = isrBase + IsrSaveBytes
                ELSE /\ region' = isrBase
                     /\ UNCHANGED save
    /\ done' = prog.funcs \ LowCtx
    /\ stage' = "low"
    /\ UNCHANGED <<prog, dip, framesFirst, start, base, floatAt, slots>>

(* The high region opens above every frame placed so far.                  *)
OpenHighRegion ==
    /\ stage = "low"
    /\ done = prog.funcs
    /\ LET hiBase == Max({End(f) : f \in prog.funcs})
       IN  IF PriorityMode /\ Core = "pic18"
           THEN /\ save' = [save EXCEPT !.high = hiBase]
                /\ region' = hiBase + IsrSaveBytes
           ELSE /\ region' = hiBase
                /\ UNCHANGED save
    /\ done' = prog.funcs \ HighCtx
    /\ stage' = "high"
    /\ UNCHANGED <<prog, dip, framesFirst, start, base, floatAt, slots>>

RegionRoots == IF stage = "low" THEN prog.low ELSE prog.high

(* assign_region: the next function of the open interrupt context.         *)
AssignRegion(f) ==
    /\ stage \in {"low", "high"}
    /\ f \notin done
    /\ Callers(f) \subseteq done
    /\ ~Overflows(f, IsrBase(f, RegionRoots))
    /\ base' = [base EXCEPT ![f] = IsrBase(f, RegionRoots)]
    /\ done' = done \cup {f}
    /\ UNCHANGED <<prog, dip, framesFirst, stage, start, region, save, floatAt,
                   slots>>

BasesDone == done = prog.funcs /\ (stage = "high" \/ (stage = "main" /\ Handlers = {}))

(* Seeded fault: pinned globals are not looked for under the overlay.      *)
FramesFirstFitsUnpinned == GlobalsFit(OverlayEnd)

(* The overlay stays below the globals if no pinned byte is under its top  *)
(* and the floating ones fit above it.                                     *)
FramesFirstFits ==
    /\ \A p \in prog.pinned : p >= OverlayEnd
    /\ GlobalsFit(OverlayEnd)

GlobalsAboveFrames ==
    /\ BasesDone
    /\ framesFirst
    /\ FramesFirstFits
    /\ floatAt' = FloatStart(OverlayEnd)
    /\ stage' = "slots"
    /\ UNCHANGED <<prog, dip, framesFirst, start, region, base, done, save, slots>>

(* Seeded fault: the retry forgets that it is one.                         *)
FallBackForgetting ==
    /\ BasesDone
    /\ framesFirst
    /\ ~FramesFirstFits
    /\ stage' = "globals"
    /\ done' = {}
    /\ save' = NoSaves
    /\ UNCHANGED <<prog, dip, framesFirst, start, region, base, floatAt, slots>>

(* Otherwise the globals go first and the bases are derived again above.   *)
FallBackToGlobalsFirst ==
    /\ BasesDone
    /\ framesFirst
    /\ ~FramesFirstFits
    /\ framesFirst' = FALSE
    /\ stage' = "globals"
    /\ done' = {}
    /\ save' = NoSaves
    /\ UNCHANGED <<prog, dip, start, region, base, floatAt, slots>>

PlaceGlobals ==
    /\ stage = "globals"
    /\ GlobalsFit(GprStart)
    /\ floatAt' = FloatStart(GprStart)
    /\ start' = GlobalsEnd(FloatStart(GprStart))
    /\ stage' = "main"
    /\ UNCHANGED <<prog, dip, framesFirst, region, base, done, save, slots>>

BasesAboveGlobals ==
    /\ BasesDone
    /\ ~framesFirst
    /\ stage' = "slots"
    /\ UNCHANGED <<prog, dip, framesFirst, start, region, base, done, save,
                   floatAt, slots>>

PlaceLocals ==
    /\ stage = "slots"
    /\ slots' = [f \in prog.funcs |-> SlotAddr(f)]
    /\ stage' = "run"
    /\ UNCHANGED <<prog, dip, framesFirst, start, region, base, done, save, floatAt>>

(* The compiler stops with a diagnostic or a panic and emits nothing.      *)
Refuse ==
    /\ \/ stage = "callgraph" /\ ~CallGraphFits
       \/ stage = "globals" /\ ~GlobalsFit(GprStart)
       \/ /\ stage \in {"main", "low", "high"}
          /\ \E f \in prog.funcs \ done :
                /\ Callers(f) \subseteq done
                /\ Overflows(f, IF stage = "main" THEN MainBase(f)
                                                  ELSE IsrBase(f, RegionRoots))
    /\ stage' = "refused"
    /\ UNCHANGED <<prog, dip, framesFirst, start, region, base, done, save,
                   floatAt, slots>>

AllocNext ==
    \/ AcceptCallGraph
    \/ \E f \in prog.funcs : AssignMain(f) \/ AssignRegion(f)
    \/ OpenLowRegion
    \/ OpenHighRegion
    \/ GlobalsAboveFrames
    \/ FallBackToGlobalsFirst
    \/ PlaceGlobals
    \/ BasesAboveGlobals
    \/ PlaceLocals
    \/ Refuse
=============================================================================
