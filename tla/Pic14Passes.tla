----------------------------- MODULE Pic14Passes -----------------------------
(***************************************************************************)
(* The text passes of the PIC14 pipeline, selection, bank selects, PCLATH  *)
(* peephole, followed by the machine running the final text.               *)
(*                                                                         *)
(* Both passes trust a prediction of a machine register: the bank pass     *)
(* that the selection bits hold known banks, the peephole that PCLATH      *)
(* still holds the last literal written.  A wrong prediction drops a       *)
(* needed write, and the program reads another bank or jumps to another    *)
(* page.  The machine below has both registers, a call stack and an        *)
(* interrupt at any point.                                                 *)
(***************************************************************************)
EXTENDS Banking

CONSTANT Programs     \* the programs compiled (records, see Pic14Text)

FuncsOf(p) == {p.order[k] : k \in DOMAIN p.order}

\* What selection guarantees: every function has a page and a body, its
\* text names them only, the entry and the handler are in page 0.
IsProgram(p) ==
    /\ p.core \in {"pic14", "pic14e"}
    /\ DOMAIN p.page = FuncsOf(p)
    /\ DOMAIN p.base \subseteq FuncsOf(p)
    /\ DOMAIN p.body = FuncsOf(p) \ DOMAIN p.base
    /\ p.page["start"] = 0
    /\ p.isr \in FuncsOf(p) => p.page[p.isr] = 0

ASSUME ProgramsAssumption == \A p \in Programs : IsProgram(p)

VARIABLES
    prog,       \* the program compiled
    stage,      \* "isel", "labels", "banking", "peephole", "run"
    text,       \* input of the current pass; the final text in "run"
    out,        \* its output so far: [line, belief]
    next,       \* the line the pass looks at
    labelBanks, \* what the label analysis found
    known, cur, \* the tracked bank, and whether it is trusted
    tracked,    \* the literal last written to PCLATH, or none
    belief,     \* belief[i]: banks the bank pass thinks possible at line i
    pc, rp, pclath, stack,  \* the machine
    saved,      \* what a handler, or the hardware for it, put aside
    entry       \* history: <<bank, PCLATH>> when the handler was entered

passVars == <<stage, text, out, next, labelBanks, known, cur, tracked, belief>>
machineVars == <<pc, rp, pclath, stack, saved, entry>>
vars == <<prog, passVars, machineVars>>

NoLiteral == <<"none">>
NoContext == <<>>

Init ==
    /\ prog \in Programs
    /\ stage = "isel" /\ text = <<>> /\ out = <<>> /\ next = 1
    /\ labelBanks = <<>> /\ known = TRUE /\ cur = 0 /\ tracked = NoLiteral
    /\ belief = <<>>
    /\ pc = 0 /\ rp = 0 /\ pclath = <<"zero">> /\ stack = <<>>
    /\ saved = NoContext /\ entry = NoContext

-----------------------------------------------------------------------------
(* Selection and the label analysis.                                       *)

Select ==
    /\ stage = "isel"
    /\ text' = Text(prog)
    /\ stage' = "labels"
    /\ UNCHANGED <<prog, out, next, labelBanks, known, cur, tracked, belief, machineVars>>

AnalyseLabels ==
    /\ stage = "labels"
    /\ labelBanks' = LabelBanks(text)
    /\ stage' = "banking"
    /\ UNCHANGED <<prog, text, out, next, known, cur, tracked, belief, machineVars>>

-----------------------------------------------------------------------------
(* The bank pass: one scan over the text.                                  *)

Believed == IF known THEN {cur} ELSE Unknown

Scanning(ops) == stage = "banking" /\ next <= Len(text) /\ text[next].op \in ops

\* Copy the current line, reached with the banks in before, behind selects.
CopyBehind(selects, before) ==
    /\ out' = out \o [k \in DOMAIN selects |-> [line |-> selects[k], belief |-> Unknown]]
                  \o <<[line |-> text[next], belief |-> before]>>
    /\ next' = next + 1
    /\ UNCHANGED <<prog, stage, text, labelBanks, tracked, belief, machineVars>>

Copy == CopyBehind(<<>>, Believed)

Track(b) == known' = TRUE /\ cur' = b
Lose == known' = FALSE /\ cur' = cur
Keep == UNCHANGED <<known, cur>>

\* A label: the bank every path to it agrees on, or nothing.
ScanLabel ==
    /\ Scanning({"label"})
    /\ IF IsSingle(labelBanks[next])
       THEN Track(TheBank(labelBanks[next]))
       ELSE known' = IsBank0Only(text) /\ cur' = cur
    /\ CopyBehind(<<>>, IF known' THEN {cur'} ELSE Unknown)

\* The callee walked from the last tracked bank, trusted or not.
ScanCallTrusting ==
    /\ Scanning({"call"})
    /\ LET exit == ExitBank(text, text[next].at, {cur})
       IN  IF IsBank0Only(text) THEN known' = TRUE /\ cur' = cur
           ELSE IF IsSingle(exit) THEN Track(TheBank(exit)) ELSE Lose
    /\ Copy

\* A call: the callee's exit bank, walked from the bank tracked here.
ScanCall ==
    /\ Scanning({"call"})
    /\ LET exit == ExitBank(text, text[next].at, Believed)
       IN  IF IsBank0Only(text) THEN known' = TRUE /\ cur' = cur
           ELSE IF IsSingle(exit) THEN Track(TheBank(exit)) ELSE Lose
    /\ Copy

\* A bank select already in the text.
ScanSelect ==
    /\ Scanning(Selects)
    /\ LET effect == SelectEffect(text[next])
       IN  IF IsSingle(effect) THEN Track(TheBank(effect)) ELSE Lose
    /\ Copy

ScanAsm == Scanning({"asm"}) /\ Lose /\ Copy

\* An operand: selects its bank unless it is the tracked one.
ScanOperand ==
    /\ Scanning({"use", "skip"})
    /\ LET b == OperandBank(text[next])
       IN  /\ b # NoBank
           /\ Track(b)
           /\ CopyBehind(IF known /\ cur = b THEN <<>>
                         ELSE BankSelect(prog.core, known, cur, b), {b})

ScanOther ==
    /\ stage = "banking" /\ next <= Len(text)
    /\ text[next].op \notin Selects \cup {"label", "call", "asm"}
    /\ OperandBank(text[next]) = NoBank
    /\ Keep /\ Copy

BankingDone ==
    /\ stage = "banking" /\ next > Len(text)
    /\ stage' = "peephole"
    /\ text' = [k \in DOMAIN out |-> out[k].line]
    /\ belief' = [k \in DOMAIN out |-> out[k].belief]
    /\ out' = <<>> /\ next' = 1
    /\ UNCHANGED <<prog, labelBanks, known, cur, tracked, machineVars>>

-----------------------------------------------------------------------------
(* The peephole: drop a PCLATH pair equal to the tracked literal.          *)

Peeping(ops) == stage = "peephole" /\ next <= Len(text) /\ text[next].op \in ops

CopyLine ==
    /\ out' = Append(out, [line |-> text[next], belief |-> belief[next]])
    /\ next' = next + 1
    /\ UNCHANGED <<prog, stage, text, labelBanks, known, cur, belief, machineVars>>

\* The pair writes what PCLATH is thought to hold.
ElideSet ==
    /\ Peeping({"set"}) /\ tracked = text[next].at
    /\ next' = next + 1
    /\ UNCHANGED <<prog, stage, text, out, labelBanks, known, cur, tracked, belief, machineVars>>

KeepSet ==
    /\ Peeping({"set"}) /\ tracked # text[next].at
    /\ tracked' = text[next].at
    /\ CopyLine

\* A label, a block of assembly, a write from W: nothing is known.
ForgetLiteral ==
    /\ Peeping({"label", "asm", "pclath"})
    /\ tracked' = NoLiteral
    /\ CopyLine

PassLine ==
    /\ stage = "peephole" /\ next <= Len(text)
    /\ text[next].op \notin {"set", "label", "asm", "pclath"}
    /\ UNCHANGED tracked
    /\ CopyLine

\* The text is final and the machine comes out of reset.
PeepholeDone ==
    /\ stage = "peephole" /\ next > Len(text)
    /\ stage' = "run"
    /\ text' = [k \in DOMAIN out |-> out[k].line]
    /\ belief' = [k \in DOMAIN out |-> out[k].belief]
    /\ pc' = LineOf(text', <<"start">>)
    /\ out' = <<>> /\ next' = 1 /\ labelBanks' = <<>>
    /\ UNCHANGED <<prog, known, cur, tracked, rp, pclath, stack, saved, entry>>

-----------------------------------------------------------------------------
(* The machine.  pc 0 is a program that jumped to a wrong page.            *)

Running(ops) == stage = "run" /\ pc \in DOMAIN text /\ text[pc].op \in ops
Here == text[pc]

Halted == stage = "run" /\ (pc = 0 \/ pc > Len(text) \/ Here.op = "sleep")

\* The line of a name, where PCLATH selects its page.
Landing(name) ==
    IF PageOf(prog, pclath) = prog.page[name[1]] THEN LineOf(text, name) ELSE 0

AfterNext == PastLabels(text, pc + 1) + 1

\* What each select does to the two bits.
SelectBits(l) ==
    CASE l.op = "bsf5" -> (rp \div 2) * 2 + 1
      [] l.op = "bcf5" -> (rp \div 2) * 2
      [] l.op = "bsf6" -> 2 + (rp % 2)
      [] l.op = "bcf6" -> rp % 2
      [] l.op = "movlb" -> l.bank

Execute ==
    /\ Running({"label", "use"})
    /\ pc' = pc + 1
    /\ UNCHANGED <<prog, passVars, rp, pclath, stack, saved, entry>>

Skip ==
    /\ Running({"skip"})
    /\ pc' \in {pc + 1, AfterNext}
    /\ UNCHANGED <<prog, passVars, rp, pclath, stack, saved, entry>>

SelectBank ==
    /\ Running(Selects \ {"status"})
    /\ rp' = SelectBits(Here)
    /\ pc' = pc + 1
    /\ UNCHANGED <<prog, passVars, pclath, stack, saved, entry>>

\* Inline assembly leaves the bits in any state.
Assembly ==
    /\ Running({"asm"})
    /\ rp' \in Banks
    /\ pc' = pc + 1
    /\ UNCHANGED <<prog, passVars, pclath, stack, saved, entry>>

WritePclath ==
    /\ Running({"set"})
    /\ pclath' = Here.at
    /\ pc' = pc + 1
    /\ UNCHANGED <<prog, passVars, rp, stack, saved, entry>>

SaveContext ==
    /\ Running({"save"})
    /\ saved' = <<rp, pclath>>
    /\ pc' = pc + 1
    /\ UNCHANGED <<prog, passVars, rp, pclath, stack, entry>>

RestorePclath ==
    /\ Running({"pclath"})
    /\ pclath' = saved[2]
    /\ pc' = pc + 1
    /\ UNCHANGED <<prog, passVars, rp, stack, saved, entry>>

RestoreStatus ==
    /\ Running({"status"})
    /\ rp' = saved[1]
    /\ pc' = pc + 1
    /\ UNCHANGED <<prog, passVars, pclath, stack, saved, entry>>

Goto ==
    /\ Running({"goto"})
    /\ pc' = Landing(Here.at)
    /\ UNCHANGED <<prog, passVars, rp, pclath, stack, saved, entry>>

Call ==
    /\ Running({"call"})
    /\ stack' = Append(stack, pc + 1)
    /\ pc' = Landing(Here.at)
    /\ UNCHANGED <<prog, passVars, rp, pclath, saved, entry>>

\* MOVWF PCL takes the high bits of the address from PCLATH.
TableJump ==
    /\ Running({"jump"})
    /\ pc' = IF pclath = <<"high", Here.at[1]>> THEN pc + 1 ELSE 0
    /\ UNCHANGED <<prog, passVars, rp, pclath, stack, saved, entry>>

Return ==
    /\ Running({"return"}) /\ stack # <<>>
    /\ pc' = Last(stack) /\ stack' = Front(stack)
    /\ UNCHANGED <<prog, passVars, rp, pclath, saved, entry>>

\* The PIC14E core restores the bank and PCLATH from its shadows.
ReturnFromInterrupt ==
    /\ Running({"retfie"}) /\ entry # NoContext
    /\ pc' = Last(stack) /\ stack' = Front(stack)
    /\ IF prog.core = "pic14e" THEN rp' = saved[1] /\ pclath' = saved[2]
       ELSE UNCHANGED <<rp, pclath>>
    /\ saved' = NoContext /\ entry' = NoContext
    /\ UNCHANGED <<prog, passVars>>

\* An interrupt between any two instructions of the main context.
Interrupt ==
    /\ stage = "run" /\ pc \in DOMAIN text
    /\ prog.isr \in FuncsOf(prog) /\ entry = NoContext
    /\ stack' = Append(stack, pc)
    /\ pc' = LineOf(text, <<prog.isr>>)
    /\ entry' = <<rp, pclath>>
    /\ saved' = IF prog.core = "pic14e" THEN <<rp, pclath>> ELSE NoContext
    /\ UNCHANGED <<prog, passVars, rp, pclath>>

Compile ==
    \/ Select \/ AnalyseLabels
    \/ ScanLabel \/ ScanCall \/ ScanSelect \/ ScanAsm \/ ScanOperand \/ ScanOther
    \/ BankingDone
    \/ ElideSet \/ KeepSet \/ ForgetLiteral \/ PassLine \/ PeepholeDone

Run ==
    \/ Execute \/ Skip \/ SelectBank \/ Assembly \/ WritePclath
    \/ SaveContext \/ RestorePclath \/ RestoreStatus
    \/ Goto \/ Call \/ TableJump \/ Return \/ ReturnFromInterrupt \/ Interrupt

Next == Compile \/ Run
Spec == Init /\ [][Next]_vars

-----------------------------------------------------------------------------
(* Properties.                                                             *)

\* What banking (crates/banking) inserts is enough: whatever path led
\* here, calls, joins, skips and interrupts included, an operand is
\* reached with the bank it lies in selected.
OperandInItsBank ==
    Running({"use", "skip"}) /\ Here.bank # NoBank => rp = Here.bank

\* The tracked bank, at every line and not only where an operand uses it,
\* holds on the machine: what label_provable_banks and func_exit_bank
\* promise of joins and calls.
BeliefHolds == stage = "run" /\ pc \in DOMAIN text => rp \in belief[pc]

\* PCLATH selects the page of its target at every CALL and GOTO, and the
\* page and window of its table at every computed jump: the discipline of
\* isel's emit_pclath_restore, with what the peephole leaves of it.
TransfersLand ==
    /\ Running({"call", "goto"}) => PageOf(prog, pclath) = prog.page[Here.at[1]]
    /\ Running({"jump"}) => pclath = <<"high", Here.at[1]>>

\* A handler returns with the bank and the PCLATH it interrupted.
ContextKept ==
    [][entry # NoContext /\ entry' = NoContext => <<rp', pclath'>> = entry]_vars

=============================================================================
