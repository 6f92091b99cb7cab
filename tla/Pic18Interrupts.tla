--------------------------- MODULE Pic18Interrupts ---------------------------
(***************************************************************************)
(* Interrupts and the return stack of the simulated PIC18 core, Pic18 of   *)
(* sim/src/lib.rs, which every end-to-end test of the compiler runs on.    *)
(*                                                                         *)
(* One step takes a latched, enabled request at the instruction boundary,  *)
(* or executes one instruction; its last act is to bank cycles into the    *)
(* timers, which may latch new requests.  Between steps the harness may    *)
(* latch a request.  Instructions are those that touch the control state;  *)
(* all others are Execute.  The firmware is any program that keeps the     *)
(* rules the compiler's output keeps: calls and returns balance within a   *)
(* context, only a handler executes RETFIE, and a handler never raises the *)
(* enable bit of a level that is running.                                  *)
(***************************************************************************)
EXTENDS Naturals, SequencesExt

CONSTANTS
    Code,         \* per level, the places of its code ("main" holds 0)
    Timers,       \* timer models the harness turned on: subset of {"TMR0", "TMR2"}
    StackLevels,  \* return addresses the hardware stack holds (31)
    Enables,      \* the sets of sources the firmware enables together
    StaleBound    \* model bound: how deep isr_stack may be at a RESET

Vector == [low |-> 24, high |-> 8]
Places == (UNION {Code[l] : l \in {"main", "low", "high"}}) \cup {8, 24}

Sources == {"INT0", "TMR0", "TMR2"}

ASSUME CodeAssumption ==
    /\ \A l \in {"main", "low", "high"} : Code[l] \subseteq Nat
    /\ 0 \in Code["main"]
    /\ Enables \subseteq SUBSET Sources
    /\ Timers \subseteq {"TMR0", "TMR2"}
    /\ StackLevels \in Nat

VARIABLES
    pc,
    stack,       \* return addresses, the newest last
    stkptr,      \* what the STKPTR register reads
    isr_stack,   \* levels entered and not yet left by RETFIE
    gieh, giel,  \* INTCON GIEH and GIEL
    enabled,     \* sources whose enable bit is set
    flags,       \* request flags of INTCON: subset of {"INT0", "TMR0"}
    pending, pending_lo, timer0_pending,   \* the request latches
    halted,
    entries,     \* history: the stack positions interrupt entries pushed at
    owed         \* history: timers with an event no enabled entry served

core    == <<pc, stack, stkptr, isr_stack, entries>>
masks   == <<gieh, giel, enabled>>
latches == <<flags, pending, pending_lo, timer0_pending, owed>>
vars    == <<core, masks, latches, halted>>

-----------------------------------------------------------------------------

(* The levels of the entries still open, and the running one.              *)
Live == SubSeq(isr_stack, Len(isr_stack) - Len(entries) + 1, Len(isr_stack))
Level == IF entries = <<>> THEN "main" ELSE Last(Live)
IsLive(l) == \E i \in 1..Len(Live) : Live[i] = l

(* Calls and returns of the running context stay above its entry.          *)
Floor == IF entries = <<>> THEN 0 ELSE Last(entries)

PendingSourceEnabled == enabled # {}

(* Seeded fault: a request also needs its flag, which firmware may clear.  *)
InterruptReadyByFlag ==
    gieh /\ \/ pending /\ PendingSourceEnabled /\ flags # {}
            \/ timer0_pending /\ "TMR0" \in enabled

(* interrupt_ready: readiness keys off the enables and the latches.        *)
InterruptReady ==
    gieh /\ \/ pending /\ PendingSourceEnabled
            \/ timer0_pending /\ "TMR0" \in enabled

(* Seeded fault: a low request also needs the flag of an enabled source.   *)
InterruptReadyLoByFlag ==
    pending_lo /\ gieh /\ giel /\ flags \cap enabled # {}

InterruptReadyLo ==
    pending_lo /\ gieh /\ giel /\ enabled \cap {"INT0", "TMR0"} # {}

(* tick_timer0 and tick_timer2 at the end of a step: whether the cycles    *)
(* banked reach an overflow depends on the timers' registers.  flags, the  *)
(* latches and owed are what the step left before the tick.                *)
Ticked(fl, pend, t0, ow) ==
    \E over0 \in {FALSE, "TMR0" \in Timers}, over2 \in {FALSE, "TMR2" \in Timers} :
        /\ timer0_pending' = (t0 \/ over0)
        /\ pending' = (pend \/ over2)
        /\ flags' = fl \cup (IF over0 THEN {"TMR0"} ELSE {})
        /\ owed' = ow \cup (IF over0 THEN {"TMR0"} ELSE {})
                      \cup (IF over2 THEN {"TMR2"} ELSE {})

Tick == Ticked(flags, pending, timer0_pending, owed) /\ UNCHANGED pending_lo

-----------------------------------------------------------------------------
Init ==
    /\ pc = 0 /\ stack = <<>> /\ stkptr = 0 /\ isr_stack = <<>>
    /\ gieh = FALSE /\ giel = FALSE /\ enabled = {} /\ flags = {}
    /\ pending = FALSE /\ pending_lo = FALSE /\ timer0_pending = FALSE
    /\ halted = FALSE
    /\ entries = <<>> /\ owed = {}

(* The harness latches a request (request_interrupt).                      *)
RequestInterrupt ==
    /\ pending' = TRUE
    /\ flags' = {"INT0", "TMR0"}
    /\ UNCHANGED <<core, masks, pending_lo, timer0_pending, owed, halted>>

(* request_low_interrupt                                                   *)
RequestLowInterrupt ==
    /\ pending_lo' = TRUE
    /\ flags' = {"INT0", "TMR0"}
    /\ UNCHANGED <<core, masks, pending, timer0_pending, owed, halted>>

(* Seeded fault: the interrupted instruction is taken for executed.        *)
PushEntryPast(l) ==
    /\ stack' = Append(stack, pc + 2)
    /\ entries' = Append(entries, Len(stack) + 1)
    /\ isr_stack' = Append(isr_stack, l)
    /\ pc' = Vector[l]
    /\ UNCHANGED <<stkptr, halted>>

(* Both entries push the interrupted pc with Vec::push: no depth check,    *)
(* and the STKPTR view stays as it was.                                    *)
PushEntry(l) ==
    /\ stack' = Append(stack, pc)
    /\ entries' = Append(entries, Len(stack) + 1)
    /\ isr_stack' = Append(isr_stack, l)
    /\ pc' = Vector[l]
    /\ UNCHANGED <<stkptr, halted>>

(* Seeded fault: an entry consumes the Timer0 latch whatever is enabled.   *)
EnterIsrConsumingAll ==
    /\ ~halted
    /\ InterruptReady
    /\ gieh' = FALSE
    /\ PushEntry("high")
    /\ Ticked(flags, pending /\ ~PendingSourceEnabled, FALSE, owed \ enabled)
    /\ UNCHANGED <<giel, enabled, pending_lo>>

(* A high request is taken: the latches of enabled sources are consumed.   *)
EnterIsr ==
    /\ ~halted
    /\ InterruptReady
    /\ gieh' = FALSE
    /\ PushEntry("high")
    /\ Ticked(flags, pending /\ ~PendingSourceEnabled,
              timer0_pending /\ "TMR0" \notin enabled, owed \ enabled)
    /\ UNCHANGED <<giel, enabled, pending_lo>>

(* Seeded fault: low entry leaves GIEL set.                                *)
EnterIsrLowUnmasked ==
    /\ ~halted
    /\ ~InterruptReady
    /\ InterruptReadyLo
    /\ pending_lo' = FALSE
    /\ PushEntry("low")
    /\ Ticked(flags, pending, timer0_pending, owed)
    /\ UNCHANGED <<gieh, giel, enabled>>

(* The low request is looked at only when no high one is ready.            *)
EnterIsrLow ==
    /\ ~halted
    /\ ~InterruptReady
    /\ InterruptReadyLo
    /\ pending_lo' = FALSE
    /\ giel' = FALSE
    /\ PushEntry("low")
    /\ Ticked(flags, pending, timer0_pending, owed)
    /\ UNCHANGED <<gieh, enabled>>

-----------------------------------------------------------------------------
(* The instruction at pc is executed only when no request is ready.        *)
Fetch == ~halted /\ ~InterruptReady /\ ~InterruptReadyLo

(* push_return and pop_return, which refresh the STKPTR view.              *)
Push(a) ==
    /\ stack' = Append(stack, a)
    /\ stkptr' = Len(stack) + 1
Pop ==
    /\ stack' = Front(stack)
    /\ stkptr' = Len(stack) - 1

Execute ==
    /\ Fetch
    /\ pc' \in Code[Level]
    /\ Tick
    /\ UNCHANGED <<stack, stkptr, isr_stack, entries, masks, halted>>

(* CALL, RCALL and PUSH: a push past the last level is an assertion.       *)
CallOrPush ==
    /\ Fetch
    /\ Len(stack) < StackLevels
    /\ \E a \in Code[Level] : Push(a)
    /\ pc' \in Code[Level]
    /\ Tick
    /\ UNCHANGED <<isr_stack, entries, masks, halted>>

(* Seeded fault: a handler returns past its own entry.                     *)
ReturnPastEntry ==
    /\ Fetch
    /\ stack # <<>>
    /\ Pop
    /\ pc' \in {Last(stack)} \cup Code[Level]
    /\ Tick
    /\ UNCHANGED <<isr_stack, entries, masks, halted>>

ReturnOrPop ==
    /\ Fetch
    /\ Len(stack) > Floor
    /\ Pop
    /\ pc' \in {Last(stack)} \cup Code[Level]
    /\ Tick
    /\ UNCHANGED <<isr_stack, entries, masks, halted>>

(* Seeded fault: the return address is popped without the view.            *)
RetfieUnsynced ==
    /\ Fetch
    /\ entries # <<>>
    /\ Len(stack) = Floor
    /\ stack' = Front(stack)
    /\ pc' = Last(stack)
    /\ isr_stack' = Front(isr_stack)
    /\ entries' = Front(entries)
    /\ gieh' = (gieh \/ Last(isr_stack) = "high")
    /\ giel' = (giel \/ Last(isr_stack) = "low")
    /\ Tick
    /\ UNCHANGED <<stkptr, enabled, halted>>

(* RETFIE re-enables the level it leaves and resumes what it interrupted.  *)
Retfie ==
    /\ Fetch
    /\ entries # <<>>
    /\ Len(stack) = Floor
    /\ Pop
    /\ pc' = Last(stack)
    /\ isr_stack' = Front(isr_stack)
    /\ entries' = Front(entries)
    /\ gieh' = (gieh \/ Last(isr_stack) = "high")
    /\ giel' = (giel \/ Last(isr_stack) = "low")
    /\ Tick
    /\ UNCHANGED <<enabled, halted>>

(* A write to INTCON or PIE1, wholesale: enables and flags together.       *)
WriteMasks ==
    /\ Fetch
    /\ pc' \in Code[Level]
    /\ gieh' \in BOOLEAN /\ giel' \in BOOLEAN
    /\ gieh' /\ ~gieh => ~IsLive("high")
    /\ giel' /\ ~giel => ~IsLive("low")
    /\ enabled' \in Enables
    /\ \E keep \in {{}, flags} : Ticked(keep, pending, timer0_pending, owed)
    /\ UNCHANGED <<stack, stkptr, isr_stack, entries, pending_lo, halted>>

(* RESET empties the stack and its view and starts over; the nesting       *)
(* stack, INTCON and the latches stay.                                     *)
ResetInstruction ==
    /\ Fetch
    /\ Len(isr_stack) <= StaleBound
    /\ stack' = <<>> /\ stkptr' = 0
    /\ entries' = <<>>
    /\ pc' = 0
    /\ Tick
    /\ UNCHANGED <<isr_stack, masks, halted>>

(* SLEEP ends the run; no interrupt wakes the core.                        *)
Sleep ==
    /\ Fetch
    /\ halted' = TRUE
    /\ pc' = pc
    /\ Tick
    /\ UNCHANGED <<stack, stkptr, isr_stack, entries, masks>>

Instruction ==
    \/ Execute \/ CallOrPush \/ ReturnOrPop \/ Retfie
    \/ WriteMasks \/ ResetInstruction \/ Sleep

Step == EnterIsr \/ EnterIsrLow \/ Instruction

Next == Step \/ RequestInterrupt \/ RequestLowInterrupt

Spec == Init /\ [][Next]_vars /\ WF_vars(Step)

-----------------------------------------------------------------------------
TypeOK ==
    /\ pc \in Places
    /\ stack \in Seq(Places)
    /\ stkptr \in Nat
    /\ isr_stack \in Seq({"low", "high"})
    /\ gieh \in BOOLEAN /\ giel \in BOOLEAN /\ halted \in BOOLEAN
    /\ enabled \subseteq Sources /\ flags \subseteq {"INT0", "TMR0"}
    /\ pending \in BOOLEAN /\ pending_lo \in BOOLEAN /\ timer0_pending \in BOOLEAN
    /\ entries \in Seq(1..Len(stack))
    /\ Len(entries) <= Len(isr_stack)
    /\ owed \subseteq Timers

(***************************************************************************)
(* The core keeps the nesting rules the overlay allocator relies on, and   *)
(* RETFIE resumes exactly what it interrupted: the live contexts, read off *)
(* the return stack and the nesting stack, behave as InterruptNesting      *)
(* says, across masks, calls inside handlers and resets.                   *)
(***************************************************************************)
Nested ==
    [i \in 1..(Len(entries) + 1) |->
        [level |-> IF i = 1 THEN "main" ELSE Live[i - 1],
         at    |-> IF i <= Len(entries) THEN stack[entries[i]] ELSE pc]]

Nesting == INSTANCE InterruptNesting WITH running <- Nested, Start <- 0
NestsProperly == Nesting!Spec

(* A running handler's own enable bit is off, also while a higher handler  *)
(* runs above it: what makes a second entry of its level impossible.       *)
MaskedWhileRunning ==
    /\ IsLive("high") => ~gieh
    /\ IsLive("low") => ~giel

(* STKPTR reads the true depth whenever no handler is running, whatever    *)
(* the handlers before did to the stack.                                   *)
StkptrExact == entries = <<>> => stkptr = Len(stack)

(* A Timer0 overflow stays latched until an entry with TMR0IE set serves   *)
(* it: entries that other sources cause do not consume it.                 *)
Timer0Kept == "TMR0" \in owed => timer0_pending

(* The same of every source: "Consume only the latches whose source is     *)
(* enabled, so a pending request on the other source survives the entry".  *)
EventsKept ==
    /\ Timer0Kept
    /\ "TMR2" \in owed => pending

(* A latched request whose source stays enabled is taken as long as the    *)
(* firmware keeps unmasking, even if it clears the request's flag.         *)
HighServed ==
    []<>gieh =>
        (pending /\ enabled # {} ~> pc = Vector["high"] \/ enabled = {} \/ halted)

(* A low request is taken once high requests stop, if both masks keep      *)
(* coming back.                                                            *)
LowServed ==
    []<>(gieh /\ giel) /\ <>[](~pending /\ ~timer0_pending) =>
        (pending_lo /\ "INT0" \in enabled
            ~> pc = Vector["low"] \/ "INT0" \notin enabled \/ halted)
=============================================================================
