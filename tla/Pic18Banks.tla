----------------------------- MODULE Pic18Banks -----------------------------
(***************************************************************************)
(* The emitted text on the machine: BSR selects the bank of every banked   *)
(* operand, a handler may start between any two instructions, the high one *)
(* inside the low one.  A register class holds the context that last wrote *)
(* it (0 main, 1 low, 2 high), BSR the bank.                               *)
(***************************************************************************)
EXTENDS Pic18Select

CONSTANT Programs       \* the programs compiled, one per behaviour

VARIABLES prog,     \* the program
          text,     \* its text
          pc,       \* the line about to run
          stack,    \* return addresses
          regs,     \* what each register class holds
          saved,    \* the save areas of the low (1) and the high (2) handler
          held      \* per running handler: its context and the registers it met

vars == <<prog, text, pc, stack, regs, saved, held>>

Areas == {1, 2}
Running == IF held = <<>> THEN 0 ELSE Last(held).ctx

-----------------------------------------------------------------------------
(* The instruction set.                                                    *)

\* What an instruction writes besides its file operand.  Rotates without
\* carry set the flags too; W and status go together for a literal add.
Effects ==
    [movlw |-> {"W"}, addlw |-> {"W", "STATUS"}, movf_w |-> {"W", "STATUS"},
     addwf_w |-> {"W", "STATUS"}, subwf_w |-> {"W", "STATUS"}, decfsz_w |-> {"W"},
     movwf |-> {}, setf |-> {}, bsf |-> {}, btfsc |-> {}, btfss |-> {}, decfsz |-> {},
     clrf |-> {"STATUS"}, incf |-> {"STATUS"}, rrcf |-> {"STATUS"}, swapf |-> {},
     rrncf |-> {"STATUS"}, mulwf |-> {"PROD"}, tblrd |-> {"TABLAT"},
     tblrd_inc |-> {"TABLAT", "TBLPTR"}, lfsr0 |-> {"FSR0"}, lfsr1 |-> {"FSR1"},
     movff |-> {}, rlncf |-> {"STATUS"}]

Written(l) ==
    CASE l.op = "jump" -> {"STATUS"}
      [] IsInstruction(l) -> Effects[l.m] \cup ({l.reg} \ {""})
      [] OTHER -> {}

After(l) ==
    [r \in Classes |->
        IF l.op = "movlb" /\ r = "BSR" THEN l.bank
        ELSE IF r \in Written(l) THEN Running ELSE regs[r]]

\* The lines of labels, and where control goes from a line.
At(t, name) == CHOOSE i \in DOMAIN t : t[i].op = "label" /\ t[i].at = name

RECURSIVE PastLabels(_)
PastLabels(i) == IF text[i].op = "label" THEN PastLabels(i + 1) ELSE i

TableEntries(i) ==
    LET base == At(text, text[i].at)
    IN  {j \in DOMAIN text : j > base /\ \A k \in base + 1..j : text[k].op = "goto"}

Successors(i) ==
    LET l == text[i]
    IN  CASE l.op = "goto" -> {At(text, l.at)}
          [] l.op = "branch" -> {i + 1, At(text, l.at)}
          [] l.op = "skip" -> {i + 1, PastLabels(i + 1) + 1}
          [] l.op = "jump" -> TableEntries(i)
          [] OTHER -> {i + 1}

-----------------------------------------------------------------------------
Init ==
    /\ prog \in Programs
    /\ text = Text(prog)
    /\ pc = At(text, <<"main">>)
    /\ stack = <<>>
    /\ regs = [r \in Classes |-> 0]
    /\ saved = [a \in Areas |-> [r \in Classes |-> 0]]
    /\ held = <<>>

\* An instruction, branch or label.
Step ==
    /\ text[pc].op \in {"label", "ins", "skip", "movlb", "goto", "branch", "jump"}
    /\ pc' \in Successors(pc)
    /\ regs' = After(text[pc])
    /\ UNCHANGED <<prog, text, stack, saved, held>>

Call ==
    /\ text[pc].op = "call"
    /\ pc' = At(text, text[pc].at)
    /\ stack' = Append(stack, pc + 1)
    /\ UNCHANGED <<prog, text, regs, saved, held>>

\* main's return restarts it.
Return ==
    /\ text[pc].op = "return"
    /\ pc' = IF stack = <<>> THEN At(text, <<"main">>) ELSE Last(stack)
    /\ stack' = IF stack = <<>> THEN stack ELSE Front(stack)
    /\ UNCHANGED <<prog, text, regs, saved, held>>

SaveReg ==
    /\ text[pc].op = "save"
    /\ saved' = [saved EXCEPT ![Running][text[pc].reg] = regs[text[pc].reg]]
    /\ pc' = pc + 1
    /\ UNCHANGED <<prog, text, stack, regs, held>>

\* MOVF, which restores W, sets the flags.
RestoreReg ==
    /\ text[pc].op = "restore"
    /\ LET r == text[pc].reg
       IN  regs' = [c \in Classes |->
                       IF c = r THEN saved[Running][r]
                       ELSE IF r = "W" /\ c = "STATUS" THEN Running
                       ELSE regs[c]]
    /\ pc' = pc + 1
    /\ UNCHANGED <<prog, text, stack, saved, held>>

Interrupt(ctx, f) ==
    /\ f # ""
    /\ Running < ctx
    /\ held' = Append(held, [ctx |-> ctx, regs |-> regs])
    /\ stack' = Append(stack, pc)
    /\ pc' = At(text, <<f>>)
    /\ UNCHANGED <<prog, text, regs, saved>>

Retfie ==
    /\ text[pc].op = "retfie"
    /\ pc' = Last(stack)
    /\ stack' = Front(stack)
    /\ held' = Front(held)
    /\ UNCHANGED <<prog, text, regs, saved>>

Next ==
    \/ Step
    \/ Call
    \/ Return
    \/ SaveReg
    \/ RestoreReg
    \/ Interrupt(1, prog.low)
    \/ Interrupt(2, prog.high)
    \/ Retfie

Spec == Init /\ [][Next]_vars

-----------------------------------------------------------------------------
\* A banked operand is only touched while BSR selects its bank: the select
\* that was left out, kept across a call, or dropped with a handler's saves
\* was not needed on any path, whatever interrupts it.
OperandInItsBank ==
    LET l == text[pc]
    IN  (IsInstruction(l) \/ l.op \in {"save", "restore"}) /\ l.bank # NoBank
            => regs["BSR"] = l.bank

\* A handler returns with every register class as it met it, though it only
\* saves the classes the scan of its text found it may write.
ContextKept == text[pc].op = "retfie" => regs = Last(held).regs
=============================================================================
