------------------------------- MODULE Overlay -------------------------------
(***************************************************************************)
(* The compiled program running on the layout OverlayAlloc computed.       *)
(*                                                                         *)
(* The hardware return stack is a sequence of activations.  The newest one *)
(* may read and write every slot of its frame; an older one still needs    *)
(* the slots whose values live across the call it is waiting on, or all of *)
(* them if an interrupt stopped it mid-body.  A handler also owns the save *)
(* area its prologue spilled the interrupted context into.  The layout is  *)
(* right when no activation's bytes are bytes an older one still needs.    *)
(***************************************************************************)
EXTENDS OverlayAlloc

VARIABLE stack    \* activations, oldest first: [fn, held]

vars == <<allocVars, stack>>

Top == stack[Len(stack)]
AllSlots(f) == 1..Len(prog.width[f])
Entered(f) == [fn |-> f, held |-> AllSlots(f)]
Running(S) == \E i \in 1..Len(stack) : stack[i].fn \in S

-----------------------------------------------------------------------------
(* __start calls main.                                                     *)
PowerOn ==
    /\ stage = "run"
    /\ stack = <<>>
    /\ stack' = <<Entered("main")>>
    /\ UNCHANGED allocVars

(* Seeded fault: the caller is taken to hold its callee's slots.           *)
CallHoldsCallee(s, c) ==
    /\ stack # <<>>
    /\ Top.fn = s.caller
    /\ c \in s.callees
    /\ stack' = Append([stack EXCEPT ![Len(stack)].held = AllSlots(c)], Entered(c))
    /\ UNCHANGED allocVars

(* The running function reaches call site s and enters candidate c.        *)
Call(s, c) ==
    /\ stack # <<>>
    /\ Top.fn = s.caller
    /\ c \in s.callees
    /\ stack' = Append([stack EXCEPT ![Len(stack)].held = s.live], Entered(c))
    /\ UNCHANGED allocVars

(* The running function returns; its caller owns its whole frame again.    *)
Return ==
    /\ Len(stack) > 1
    /\ Top.fn \notin Handlers
    /\ stack' = Append(SubSeq(stack, 1, Len(stack) - 2),
                       Entered(stack[Len(stack) - 1].fn))
    /\ UNCHANGED allocVars

(* An interrupt is taken between two instructions.  Low entry clears GIEL, *)
(* high entry clears GIEH, so a handler is preempted only by a higher one. *)
Preempt(h) ==
    /\ stack # <<>>
    /\ h \in Handlers
    /\ ~Running(prog.high)
    /\ h \in prog.low => ~Running(prog.low)
    /\ stack' = Append(stack, Entered(h))
    /\ UNCHANGED allocVars

(* RETFIE: the handler returns to exactly where the interrupt was taken,   *)
(* and what it interrupted holds what it held.                             *)
ReturnFromInterrupt ==
    /\ stack # <<>>
    /\ Top.fn \in Handlers
    /\ stack' = SubSeq(stack, 1, Len(stack) - 1)
    /\ UNCHANGED allocVars

RunNext ==
    \/ PowerOn
    \/ \E s \in prog.sites : \E c \in s.callees : Call(s, c)
    \/ Return
    \/ \E h \in Handlers : Preempt(h)
    \/ ReturnFromInterrupt

Next == (AllocNext /\ UNCHANGED stack) \/ RunNext

Init == AllocInit /\ stack = <<>>

Spec == Init /\ [][Next]_vars

(* The compiler is one process that runs to its end.                       *)
CompileSpec == Spec /\ WF_vars(AllocNext /\ UNCHANGED stack)

-----------------------------------------------------------------------------
SlotBytes(f, k) == slots[f][k]..(slots[f][k] + prog.width[f][k] - 1)
BytesOf(f, S) == UNION {SlotBytes(f, k) : k \in S}

AreaBytes(at, n) == IF at = None THEN {} ELSE at..(at + n - 1)

(* The save area the prologue of a handler spills into.                    *)
SaveBytesOf(f) ==
    IF f \notin Handlers THEN {}
    ELSE IF PriorityMode
         THEN IF f \in prog.high THEN AreaBytes(save.high, IsrSaveBytes)
                                 ELSE AreaBytes(save.low, LowSaveBytes)
         ELSE AreaBytes(save.isr, IsrSaveBytes)

FrameBytes(f) == BytesOf(f, AllSlots(f))

(* What legalize's interrupt duplication promises: each function belongs   *)
(* to one context only, so that no two contexts can be inside it at once.  *)
WellSplit ==
    /\ "main" \in MainCtx
    /\ MainCtx \cap LowCtx = {}
    /\ MainCtx \cap HighCtx = {}
    /\ LowCtx \cap HighCtx = {}

(* Every non-priority handler of a PIC18 program is on the low list.       *)
NoLoneHigh == PriorityMode \/ prog.high = {}

TypeOK ==
    /\ prog \in Programs
    /\ dip \in {"Off", "Isr", "All"}
    /\ framesFirst \in BOOLEAN
    /\ stage \in {"callgraph", "globals", "main", "low", "high", "slots", "run",
                  "refused"}
    /\ start \in Nat
    /\ region \in Nat
    /\ base \in [prog.funcs -> Nat]
    /\ done \subseteq prog.funcs
    /\ save \in [low : Nat \cup {None}, isr : Nat \cup {None}, high : Nat \cup {None}]
    /\ floatAt \in Nat
    /\ stage = "run" => \A f \in prog.funcs : slots[f] \in [AllSlots(f) -> Nat]
    /\ stack \in Seq([fn : prog.funcs, held : SUBSET Nat])
    /\ stack # <<>> => stage = "run"
    /\ \A i \in 1..Len(stack) : stack[i].held \subseteq AllSlots(stack[i].fn)

(***************************************************************************)
(* What an older activation still needs is never inside the frame of a     *)
(* newer one, whatever calls, dispatches and interrupts are under way: the *)
(* rule base(f) = max over call sites of live-high, the disjoint interrupt *)
(* regions and the step-7 reordering together keep it.                     *)
(***************************************************************************)
FrameSafety ==
    \A i, j \in 1..Len(stack) :
        i < j => BytesOf(stack[i].fn, stack[i].held) \cap FrameBytes(stack[j].fn) = {}

(***************************************************************************)
(* The context a handler saved is intact until it restores it: no          *)
(* activation's frame and no other handler's save area overlaps the area,  *)
(* and the area is not a byte the interrupted activations still need.      *)
(***************************************************************************)
SaveSafety ==
    \A i \in 1..Len(stack) :
        \A j \in 1..Len(stack) :
            /\ SaveBytesOf(stack[i].fn) \cap BytesOf(stack[j].fn, stack[j].held) = {}
            /\ i # j => SaveBytesOf(stack[i].fn) \cap SaveBytesOf(stack[j].fn) = {}

-----------------------------------------------------------------------------
(* The inductive invariant that carries FrameSafety, part by part.         *)

(* What the current loop has settled: an interrupt region re-derives its   *)
(* own context and nothing else.                                           *)
Settled ==
    /\ stage = "low" => prog.funcs \ LowCtx \subseteq done
    /\ stage = "high" => prog.funcs \ HighCtx \subseteq done
    /\ stage \in {"slots", "run"} => done = prog.funcs

(* A settled callee is above what each caller holds across the call; where *)
(* dips are off, above the whole frame of each caller.                     *)
CallBases ==
    \A s \in prog.sites : \A c \in s.callees \cap done :
        /\ s.caller \in done
        /\ LiveHigh(base[s.caller], prog.width[s.caller], s.live) <= base[c]
        /\ dip = "Off" => End(s.caller) <= base[c]

(* The interrupt regions, while one is open and after both are settled.    *)
RegionOrder ==
    /\ stage = "low" =>
          /\ \A f \in MainCtx : End(f) <= region
          /\ \A g \in LowCtx \cap done : region <= base[g]
    /\ stage = "high" =>
          /\ \A f \in MainCtx \cup LowCtx : End(f) <= region
          /\ \A g \in HighCtx \cap done : region <= base[g]
    /\ stage \in {"high", "slots", "run"} =>
          \A f \in MainCtx, g \in LowCtx : End(f) <= base[g]
    /\ stage \in {"slots", "run"} =>
          \A f \in MainCtx \cup LowCtx, g \in HighCtx : End(f) <= base[g]

(* A placed slot is inside its frame, and a slot held across a call ends   *)
(* at or below every frame the call can enter.                             *)
SlotEnd(f, k) == slots[f][k] + prog.width[f][k]
SlotsInFrame ==
    stage = "run" =>
        \A f \in prog.funcs : \A k \in AllSlots(f) :
            base[f] <= slots[f][k] /\ SlotEnd(f, k) <= End(f)
HeldBelowCallee ==
    stage = "run" =>
        \A s \in prog.sites : \A c \in s.callees : \A k \in s.live :
            SlotEnd(s.caller, k) <= base[c]

(* A context is on the stack only above the handler that entered it.       *)
StackContexts ==
    \A i \in 1..Len(stack) :
        \/ stack[i].fn \in MainCtx
        \/ stack[i].fn \in LowCtx /\ \E j \in 1..i : stack[j].fn \in prog.low
        \/ stack[i].fn \in HighCtx /\ \E j \in 1..i : stack[j].fn \in prog.high

(* What an activation holds ends at or below every newer frame.            *)
HeldBelow ==
    \A i, j \in 1..Len(stack) : i < j =>
        \A k \in stack[i].held : SlotEnd(stack[i].fn, k) <= base[stack[j].fn]

FrameInv ==
    /\ Settled
    /\ CallBases
    /\ RegionOrder
    /\ SlotsInFrame
    /\ HeldBelowCallee
    /\ StackContexts
    /\ HeldBelow

(***************************************************************************)
(* Globals keep their values for the whole run: no frame and no save area  *)
(* of any function shares a byte with a pinned or a floating global, in    *)
(* whichever order the overlay and the globals were placed.                *)
(***************************************************************************)
GlobalsSafe ==
    stage = "run" =>
        \A f \in prog.funcs :
            (FrameBytes(f) \cup SaveBytesOf(f)) \cap (FloatBytes \cup prog.pinned) = {}

(***************************************************************************)
(* A runtime routine's frame is inside one bank, because a bank select in  *)
(* the middle of a skip would change the instruction skipped: of its       *)
(* slots, after every rebase and reordering, all select the same bank.     *)
(***************************************************************************)
BankOf(a) == IF Core = "pic18" THEN a \div BankBytes ELSE BankKey(a)[1]

RoutineInOneBank ==
    stage = "run" =>
        \A f \in prog.routines :
            \A a, b \in FrameBytes(f) : BankOf(a) = BankOf(b)

(***************************************************************************)
(* Every byte the program uses is implemented RAM of the device: the       *)
(* allocator stops when demand exceeds it and never uses a gap.            *)
(***************************************************************************)
FramesMapped ==
    stage = "run" => \A f \in prog.funcs : \A a \in FrameBytes(f) : Mapped(a)

(***************************************************************************)
(* The hardware return stack never overflows: one level per activation,    *)
(* main included since __start calls it.                                   *)
(***************************************************************************)
HwStackFits == Len(stack) <= StackDepth

(***************************************************************************)
(* The allocator ends, with a layout or a refusal: the fallback to         *)
(* globals-first is taken at most once and every function is settled.      *)
(***************************************************************************)
AllocTerminates == <>(stage \in {"run", "refused"})
=============================================================================
