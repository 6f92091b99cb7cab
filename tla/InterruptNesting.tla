-------------------------- MODULE InterruptNesting --------------------------
(***************************************************************************)
(* What the compiler takes for granted about interrupts when it gives each *)
(* context its own frames and each handler level its own save area: at     *)
(* most one activation of each level, a level entered only from a lower    *)
(* one, and an interrupted context resumed exactly where it stopped.       *)
(***************************************************************************)
EXTENDS Naturals, Sequences

CONSTANTS
    Places,    \* where a context may be in its code
    Start,     \* where the main context starts
    Vector     \* where a handler of each level starts

Levels == {"low", "high"}
Outranks(a, b) == b = "main" \/ (a = "high" /\ b = "low")

VARIABLE running    \* the live contexts, oldest first: [level, at]

Context(l, p) == [level |-> l, at |-> p]
Reset == <<Context("main", Start)>>

Init == running = Reset

(* The newest context moves in its own code; the others stand still.       *)
Work ==
    \E p \in Places : running' = [running EXCEPT ![Len(running)].at = p]

Enter(l) ==
    /\ \A i \in 1..Len(running) : Outranks(l, running[i].level)
    /\ running' = Append(running, Context(l, Vector[l]))

Leave ==
    /\ Len(running) > 1
    /\ running' = SubSeq(running, 1, Len(running) - 1)

Restart == running' = Reset

Next == Work \/ (\E l \in Levels : Enter(l)) \/ Leave \/ Restart

Spec == Init /\ [][Next]_running
=============================================================================
