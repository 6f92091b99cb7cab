------------------------------ MODULE Schedule ------------------------------
(***************************************************************************)
(* The bank-switch scheduler, between the PIC14 selector and the pass that *)
(* inserts bank selects: it swaps an instruction out from between two of   *)
(* another bank, then carries a constant store back over an instruction    *)
(* that may not move.  Lines are Mcu14's instructions; an action is one    *)
(* swap or one splice.                                                     *)
(***************************************************************************)
EXTENDS Lower14

CONSTANTS Texts,        \* the texts to schedule
          Machines,     \* the machine states a text may start in
          MaxTurn       \* no text is longer

\* What the selector hands over is a sequence of lines, never an empty one.
ASSUME TextsAssumption ==
    \A t \in Texts :
        /\ t # <<>> /\ t \in Seq({t[p] : p \in DOMAIN t}) /\ Len(t) <= MaxTurn
        /\ \A p \in DOMAIN t : IsLine(t[p]) /\ (Len(t[p]) = 3 <=> t[p][1] \in FileOps \union BitOps)
ASSUME MachinesAssumption == Machines \subseteq Machine(Cells) /\ MaxTurn \in Nat

VARIABLES text, lines, stage, at, overtaken
vars == <<text, lines, stage, at, overtaken>>

NoBank == -1

-----------------------------------------------------------------------------
(* Classification.                                                         *)

IsInsn(l) == l[1] \notin {"label", "goto", "call", "return"}
IsLiteral(l) == l[1] \in LiteralOps
FileAddr(l) == IF IsLiteral(l) \/ l[2] \in {STATUS, PCLATH} THEN None ELSE l[2]

\* Common RAM is in every bank.
Bank(l) ==
    IF FileAddr(l) = None \/ FileAddr(l) % 128 >= 112 THEN NoBank ELSE BankOf(FileAddr(l))

FlagBit(l) == l[1] \in BitOps /\ l[2] = STATUS
\* Instructions with a destination, W or the file register.
Selectable(l) == Len(l) = 3 /\ l[1] \notin BitOps

ReadsW(l) ==
    \/ l[1] \in {"movwf", "addwf", "andwf", "iorwf", "subwf", "xorwf"}
    \/ IsLiteral(l) /\ l[1] # "movlw"
WritesW(l) == IsLiteral(l) \/ (Selectable(l) /\ l[3] = "w")
TouchesFlags(l) ==
    \/ FlagBit(l)
    \/ l[1] = "clrf" \/ (IsLiteral(l) /\ l[1] # "movlw")
    \/ Selectable(l) /\ l[1] \notin {"incfsz", "decfsz"}
IsSkip(l) == l[1] \in SkipOps

\* Positions i..j are instructions of one straight-line region.
InRegion(ls, i, j) == i >= 1 /\ j <= Len(ls) /\ \A p \in i..j : IsInsn(ls[p])

IsSkipTarget(ls, i) == i > 1 /\ IsInsn(ls[i - 1]) /\ IsSkip(ls[i - 1])

SameFile(a, b) == FileAddr(a) # None /\ FileAddr(a) = FileAddr(b)

-----------------------------------------------------------------------------
(* The first phase: a lone instruction swapped with a neighbour.           *)

IsMoveCandidate(ls, i) ==
    LET l == ls[i]
    IN  /\ Bank(l) # NoBank
        /\ ~IsSkip(l) /\ ~IsSkipTarget(ls, i)
        /\ ~TouchesFlags(l) /\ ~ReadsW(l) /\ ~WritesW(l)

\* The instruction is only of another bank than the one before.
ExcursionAhead(ls, i) ==
    /\ InRegion(ls, i - 1, i + 1)
    /\ IsMoveCandidate(ls, i)
    /\ NoBank \notin {Bank(ls[i - 1]), Bank(ls[i + 1])} /\ Bank(ls[i - 1]) # Bank(ls[i])

Excursion(ls, i) ==
    /\ InRegion(ls, i - 1, i + 1)
    /\ IsMoveCandidate(ls, i)
    /\ Bank(ls[i - 1]) # NoBank
    /\ Bank(ls[i - 1]) = Bank(ls[i + 1]) /\ Bank(ls[i - 1]) # Bank(ls[i])

Swap(ls, i) == [ls EXCEPT ![i] = ls[i + 1], ![i + 1] = ls[i]]

\* The successor may be a skip.
SinksPastSkip(ls, i) == ~SameFile(ls[i], ls[i + 1])

Sinks(ls, i) == ~IsSkip(ls[i + 1]) /\ ~SameFile(ls[i], ls[i + 1])
Hoists(ls, i) == ~IsSkipTarget(ls, i - 1) /\ ~SameFile(ls[i], ls[i - 1])

-----------------------------------------------------------------------------
(* The second phase: a constant's load and store, past an instruction that *)
(* reads W.                                                                *)

Bundle(ls, i, bank) ==
    /\ ls[i + 1][1] = "movlw" /\ ~IsSkipTarget(ls, i + 1)
    /\ ls[i + 2][1] = "movwf" /\ Bank(ls[i + 2]) = bank

\* The instructions before i that need its predecessor's bank.
RunStart(ls, i, bank) ==
    CHOOSE s \in 1..i - 1 :
        /\ \A p \in s..i - 1 : IsInsn(ls[p]) /\ Bank(ls[p]) = bank
        /\ s = 1 \/ ~IsInsn(ls[s - 1]) \/ Bank(ls[s - 1]) # bank

Gaps(ls, i, bank) == {g \in RunStart(ls, i, bank) + 1..i - 1 : ~ReadsW(ls[g])}
FirstGap(ls, i, bank) ==
    CHOOSE g \in Gaps(ls, i, bank) : \A h \in Gaps(ls, i, bank) : g <= h

Movable(ls, i) ==
    LET bank == Bank(ls[i - 1])
        gap == FirstGap(ls, i, bank)
    IN  /\ InRegion(ls, i - 1, i + 2)
        /\ bank # NoBank /\ bank # Bank(ls[i])
        /\ ~IsMoveCandidate(ls, i) /\ ~IsSkip(ls[i]) /\ ~IsSkipTarget(ls, i)
        /\ Bundle(ls, i, bank)
        /\ InRegion(ls, i, i + 3) => ~ReadsW(ls[i + 3])
        /\ ~SameFile(ls[i + 2], ls[i])
        /\ Gaps(ls, i, bank) # {}
        /\ ~SameFile(ls[i + 2], ls[gap - 1]) /\ ~SameFile(ls[i + 2], ls[gap])

\* The bundle is put in, and stays where it was; or is put back there.
SplicedTwice(ls, i, gap) ==
    SubSeq(ls, 1, gap - 1) \o SubSeq(ls, i + 1, i + 2) \o SubSeq(ls, gap, Len(ls))
SplicedBack(ls, i, gap) == SubSeq(ls, 1, i) \o SubSeq(ls, i + 1, Len(ls))

Spliced(ls, i, gap) ==
    SubSeq(ls, 1, gap - 1) \o SubSeq(ls, i + 1, i + 2) \o SubSeq(ls, gap, i)
    \o SubSeq(ls, i + 3, Len(ls))

\* Some line from p on reads W and none before it is sure to have set it.
StillRead(ls, p) ==
    \E q \in p..Len(ls) :
        /\ ReadsW(ls[q])
        /\ \A r \in p..q - 1 : ~(InRegion(ls, p, r) /\ WritesW(ls[r]) /\ ~IsSkipTarget(ls, r))

\* The bundle goes over an instruction that names its byte, over one that
\* leaves W as it was for a later reader, away from a later reader of its own,
\* or between a skip and what it skips.
Overtakes(ls, i, gap) ==
    \/ IsSkip(ls[gap - 1])
    \/ \E p \in gap..i : SameFile(ls[i + 2], ls[p])
    \/ ~WritesW(ls[gap])
    \/ StillRead(ls, i + 3)

-----------------------------------------------------------------------------
Init ==
    /\ text \in Texts
    /\ lines = text
    /\ stage = "phase1"
    /\ at = 2
    /\ overtaken = FALSE

\* The first position from at on that holds, and no other.
First(P(_), i) == P(i) /\ \A p \in at..i - 1 : ~P(p)

Phase1 ==
    /\ stage = "phase1"
    /\ \E i \in at..Len(lines) - 1 :
        /\ First(LAMBDA p : Excursion(lines, p), i)
        /\ lines' = IF Sinks(lines, i) THEN Swap(lines, i)
                    ELSE IF Hoists(lines, i) THEN Swap(lines, i - 1) ELSE lines
        /\ at' = i + 1
    /\ UNCHANGED <<text, stage, overtaken>>

Phase1Ends ==
    /\ stage = "phase1"
    /\ \A i \in at..Len(lines) - 1 : ~Excursion(lines, i)
    /\ stage' = "phase2"
    /\ at' = 2
    /\ UNCHANGED <<text, lines, overtaken>>

\* The search starts again after each splice.
Phase2 ==
    /\ stage = "phase2"
    /\ \E i \in at..Len(lines) - 2 :
        LET gap == FirstGap(lines, i, Bank(lines[i - 1]))
        IN  /\ First(LAMBDA p : Movable(lines, p), i)
            /\ lines' = Spliced(lines, i, gap)
            /\ overtaken' = (overtaken \/ Overtakes(lines, i, gap))
    /\ UNCHANGED <<text, stage, at>>

Phase2Ends ==
    /\ stage = "phase2"
    /\ \A i \in at..Len(lines) - 2 : ~Movable(lines, i)
    /\ stage' = "done"
    /\ UNCHANGED <<text, lines, at, overtaken>>

Finished == stage = "done" /\ UNCHANGED vars

Next == Phase1 \/ Phase1Ends \/ Phase2 \/ Phase2Ends \/ Finished

\* The pass is a loop nothing interrupts.
Spec == Init /\ [][Next]_vars /\ WF_vars(Next)

-----------------------------------------------------------------------------
(* Properties.                                                             *)

\* Type invariant: no line is lost, added or changed, and the barriers stay
\* where they are.
TypeOK ==
    /\ stage \in {"phase1", "phase2", "done"} /\ at \in 2..Len(lines) + 1
    /\ overtaken \in BOOLEAN
    /\ Len(lines) = Len(text)
    /\ \A p \in DOMAIN text : ~IsInsn(text[p]) => lines[p] = text[p]
    /\ \A l \in {text[p] : p \in DOMAIN text} :
            Cardinality({p \in DOMAIN text : text[p] = l})
                = Cardinality({p \in DOMAIN lines : lines[p] = l})

\* A run from any machine state, to the text's end: what memory holds there,
\* and where the text left.
Outcome(ls, m) ==
    LET done == TurnOf(Cells, MaxTurn, ls, m, 1)
    IN  <<done.m.mem, IF done.pc > Len(ls) THEN <<>> ELSE ls[done.pc]>>

\* Each text still computes what it did before it was scheduled: the module's
\* "provably-independent instruction groups".
SameResult == \A m \in Machines : Outcome(lines, m) = Outcome(text, m)

\* Until a bundle overtakes a use of its byte or of W or parts a skip from its
\* target, no swap and no splice
\* changes what the text computes: skips keep their targets, a value in W
\* reaches its reader, and each byte's reads and writes keep their order.
SameUnlessOvertaken == overtaken \/ SameResult

\* Lines that need a bank the nearest such line before them does not.
Needs(ls, p) == IsInsn(ls[p]) /\ Bank(ls[p]) # NoBank
Switching(ls) ==
    {p \in DOMAIN ls : Needs(ls, p) /\ \E q \in 1..p - 1 :
        /\ Needs(ls, q) /\ Bank(ls[q]) # Bank(ls[p])
        /\ \A r \in q + 1..p - 1 : ~Needs(ls, r)}
Switches(ls) == Cardinality(Switching(ls))

\* A swap or a splice never adds a bank switch to those it is there to save.
NeverMoreSwitches == [][Switches(lines') <= Switches(lines)]_vars

\* The restarted search ends: no two bundles pass each other for ever.
Ends == <>(stage = "done")
=============================================================================
