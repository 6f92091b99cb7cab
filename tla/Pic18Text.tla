------------------------------ MODULE Pic18Text ------------------------------
(***************************************************************************)
(* The assembly text PIC18 instruction selection emits, with the bank it   *)
(* believes BSR to hold, reduced to what that belief and the handlers'     *)
(* context saves depend on.                                                *)
(*                                                                         *)
(* A name is a sequence: <<"f">> a function, <<"f", "b">> a block of it,   *)
(* <<"f", "tmp", n>> a fresh label.  A line is [op, at, m, bank, reg]:     *)
(*   label, goto, branch, call   at is the name (branch: conditional)      *)
(*   return, retfie                                                        *)
(*   ins, skip       mnemonic m on an operand in bank (NoBank: access RAM, *)
(*                   a literal); reg is the register class its operand     *)
(*                   writes or moves, "" when none                         *)
(*   movlb           MOVLB bank                                            *)
(*   jump            ADDWF PCL into the table at the label at              *)
(*   save, restore   the move of class reg to and from a handler's area    *)
(*                                                                         *)
(* A program p gives the functions in module order; kind[f] is "plain",    *)
(* "recipe" (a runtime routine) or "naked"; body[f] is a sequence of       *)
(* blocks [name, items, term], the operand banks of a recipe, or lines;    *)
(* high and low name the handlers ("" for none; a lone handler is high);   *)
(* area is the bank of the low handler's save area.                        *)
(***************************************************************************)
EXTENDS Integers, SequencesExt

Banks == 0..3
NoBank == 4

Line(op) == [op |-> op, at |-> <<>>, m |-> "", bank |-> NoBank, reg |-> ""]
To(op, name) == [Line(op) EXCEPT !.at = name]
Select(b) == [Line("movlb") EXCEPT !.bank = b]
Ins(m, b, r) == [Line("ins") EXCEPT !.m = m, !.bank = b, !.reg = r]
Test(m, b) == [Line("skip") EXCEPT !.m = m, !.bank = b]

-----------------------------------------------------------------------------
(* The emitter: the lines so far, the believed bank, the banks recorded on *)
(* forward edges to fresh labels, whether a select was emitted since the   *)
(* terminator began, the end bank of each block, and the label counter.    *)

Fresh == [out |-> <<>>, bsr |-> NoBank, join |-> [n \in {} |-> NoBank],
          dirty |-> FALSE, ends |-> [n \in {} |-> NoBank], tmp |-> 0]

IsFresh(name) == Len(name) = 3
IsBranch(l) == l.op \in {"goto", "branch"}

\* A forward edge to a fresh label records the bank, or that edges disagree.
NoteBranch(e, name) ==
    LET met == name \in DOMAIN e.join /\ e.join[name] # e.bsr
    IN  [n \in DOMAIN e.join \cup {name} |->
            IF n # name THEN e.join[n] ELSE IF met THEN NoBank ELSE e.bsr]

Emit(e, l) ==
    [e EXCEPT !.out = Append(@, l),
              !.join = IF IsBranch(l) /\ IsFresh(l.at) THEN NoteBranch(e, l.at) ELSE @]

\* Every label forgets the bank, unless the fall-through and the recorded
\* edges agree on one.
EmitLabel(e, name) ==
    LET agreed == name \in DOMAIN e.join /\ e.join[name] = e.bsr
    IN  [Emit(e, To("label", name)) EXCEPT
            !.bsr = IF agreed THEN e.bsr ELSE NoBank,
            !.join = [n \in DOMAIN e.join \ {name} |-> e.join[n]]]

\* An instruction on an operand, after the select its bank needs.
Operand(e, l) ==
    LET ready == l.bank = NoBank \/ e.bsr = l.bank
        s == [Emit(e, Select(l.bank)) EXCEPT !.bsr = l.bank, !.dirty = TRUE]
    IN  Emit(IF ready THEN e ELSE s, l)

EmitLines(e, ls) == FoldLeft(Emit, e, ls)
Operands(e, ls) == FoldLeft(Operand, e, ls)

\* The n-th fresh label of f from now, and the emitter once k are taken.
Tmp(e, f, n) == <<f, "tmp", e.tmp + n>>
Take(e, k) == [e EXCEPT !.tmp = @ + k]

-----------------------------------------------------------------------------
(* Instructions.  exits maps a function to the bank it leaves, NoBank when *)
(* that is not known.                                                      *)

ExitOf(exits, g) == IF g \in DOMAIN exits THEN exits[g] ELSE NoBank
Agreed(banks) == IF \E b \in Banks : banks = {b} THEN CHOOSE b \in banks : TRUE ELSE NoBank

\* Seeded fault: the belief survives the call.
EmitCallKeeping(e, exits, g) == Emit(e, To("call", <<g>>))

\* A call leaves the bank the callee does, if that is known.
EmitCall(e, exits, g) ==
    [Emit(e, To("call", <<g>>)) EXCEPT !.bsr = ExitOf(exits, g)]

\* One candidate of a dispatch: its two address bytes compared, its call.
Candidate(e, exits, f, g, b, done) ==
    LET next == Tmp(e, f, 0)
        Byte(s) == EmitLines(Operand(s, Ins("movf_w", b, "")),
                             <<Ins("addlw", NoBank, ""), To("branch", next)>>)
        called == EmitCall(Byte(Byte(Take(e, 1))), exits, g)
    IN  EmitLabel(Emit(called, To("goto", done)), next)

EmitDispatch(e, exits, f, it) ==
    LET done == Tmp(e, f, 0)
        tried == FoldLeft(LAMBDA s, g : Candidate(s, exits, f, g, it.bank, done),
                          Take(e, 1), it.at)
        trap == Tmp(tried, f, 0)
        end == EmitLabel(Emit(EmitLabel(Take(tried, 1), trap), To("goto", trap)), done)
        left == Agreed({ExitOf(exits, g) : g \in Range(it.at)})
    IN  IF left = NoBank THEN end ELSE [end EXCEPT !.bsr = left]

\* An equality compare of the bytes in it.banks, branching to yes or no.
EmitCompare(e, banks, yes, no) ==
    Emit(FoldLeft(LAMBDA s, b : Emit(Operand(s, Ins("subwf_w", b, "")), To("branch", no)),
                  e, banks), To("goto", yes))

\* A compare whose result is stored: cleared first, or chosen at a join.
EmitBool(e, f, it) ==
    LET yes == Tmp(e, f, 0)
        no == Tmp(e, f, 1)
        done == Tmp(e, f, 2)
        store == Ins("movwf", it.bank, "")
    IN  IF it.cleared
        THEN LET c == EmitCompare(Operand(Take(e, 3), Ins("clrf", it.bank, "")),
                                  it.banks, yes, no)
             IN  EmitLabel(Operand(EmitLabel(c, yes), Ins("incf", it.bank, "")), no)
        ELSE LET c == EmitLabel(EmitCompare(Take(e, 3), it.banks, yes, no), no)
                 z == EmitLines(c, <<Ins("movlw", NoBank, ""), To("goto", done)>>)
                 o == Emit(EmitLabel(z, yes), Ins("movlw", NoBank, ""))
             IN  Operand(EmitLabel(o, done), store)

EmitItem(e, exits, f, it) ==
    CASE it.op = "call" -> EmitCall(e, exits, it.at[1])
      [] it.op = "dispatch" -> EmitDispatch(e, exits, f, it)
      [] it.op = "bool" -> EmitBool(e, f, it)
      [] it.op = "asm" -> EmitLines(e, it.lines)
      [] OTHER -> Operand(e, it)

-----------------------------------------------------------------------------
(* Terminators.  A target is [to, copies]: a block of f and the copies     *)
(* that run on the edge.                                                   *)

Block(f, b) == <<f, b>>

Edge(e, f, t) == Emit(Operands(e, t.copies), To("goto", Block(f, t.to)))

\* The copies of an edge behind a label of their own.
Trampolines(e, f, ts) ==
    FoldLeft(LAMBDA s, t : Edge(EmitLabel(s, t[1]), f, t[2]), e, ts)

\* Branch lines after a test that leaves its answer in Z, or skips on a bit.
EmitCond(e, f, x) ==
    LET Direct(t) == t.copies = <<>>
        \* leave to name when the condition is c
        Leave(s, c, name) ==
            IF x.how = "bit"
            THEN EmitLines(Operand(s, Test(IF c THEN "btfsc" ELSE "btfss", x.bank)),
                           <<To("goto", name)>>)
            ELSE Emit(Operand(s, Ins("movf_w", x.bank, "")), To("branch", name))
        side == Tmp(e, f, 0)
    IN  IF Direct(x.t) /\ (x.how = "bit" \/ ~Direct(x.f))
        THEN Edge(Leave(e, TRUE, Block(f, x.t.to)), f, x.f)
        ELSE IF Direct(x.f)
        THEN Edge(Leave(e, FALSE, Block(f, x.f.to)), f, x.t)
        ELSE Trampolines(Edge(Leave(Take(e, 1), FALSE, side), f, x.t), f, <<<<side, x.f>>>>)

\* The compare's exits are the branch's, through trampolines for copies.
EmitFused(e, f, x) ==
    LET ts == SelectSeq(<<<<Tmp(e, f, 0), x.t>>, <<Tmp(e, f, 1), x.f>>>>,
                        LAMBDA t : t[2].copies # <<>>)
        Exit(n, t) == IF t.copies = <<>> THEN Block(f, t.to) ELSE Tmp(e, f, n)
    IN  Trampolines(EmitCompare(Take(e, 2), x.banks, Exit(0, x.t), Exit(1, x.f)), f, ts)

\* A chain of equality tests; each hit runs its edge in place.
EmitChain(e, f, x) ==
    LET Case(s, t) ==
            LET next == Tmp(s, f, 0)
                test == EmitLines(Operand(Take(s, 1), Ins("movf_w", x.bank, "")),
                                  <<Ins("addlw", NoBank, ""), To("branch", next)>>)
            IN  EmitLabel(Edge(test, f, t), next)
    IN  Edge(FoldLeft(Case, e, x.cases), f, x.f)

\* A jump table of GOTOs behind a bounds test, trampolines after it.
EmitTable(e, f, x) ==
    LET tbl == Tmp(e, f, 0)
        all == <<x.f>> \o x.cases
        Entry(n) == IF all[n].copies = <<>> THEN Block(f, all[n].to) ELSE Tmp(e, f, n)
        load == Ins("movf_w", x.bank, "")
        bound == EmitLines(Operand(Take(e, Len(all) + 1), load),
                           <<Ins("addlw", NoBank, ""), To("branch", Entry(1)),
                             Ins("movlw", NoBank, ""), Ins("movwf", NoBank, "PCLAT")>>)
        index == Operands(bound, <<load, Ins("addwf_w", x.bank, "")>>)
        gotos == [n \in 1..Len(x.cases) |-> To("goto", Entry(n + 1))]
        ts == SelectSeq([n \in DOMAIN all |-> <<Tmp(e, f, n), all[n]>>],
                        LAMBDA t : t[2].copies # <<>>)
    IN  Trampolines(EmitLines(EmitLabel(Emit(index, To("jump", tbl)), tbl), gotos), f, ts)

\* The result through W to the return slots, in access RAM.
EmitReturn(e, x) ==
    Emit(FoldLeft(LAMBDA s, b : Emit(Operand(s, Ins("movf_w", b, "")),
                                     Ins("movwf", NoBank, "RETVAL")),
                  e, x.banks), Line("return"))
=============================================================================
