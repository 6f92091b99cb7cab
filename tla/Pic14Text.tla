------------------------------ MODULE Pic14Text ------------------------------
(***************************************************************************)
(* The assembly text the PIC14 and PIC14E selectors hand to the text       *)
(* passes, reduced to what those passes look at: labels, transfers, skips, *)
(* the bank a file operand lies in, bank selects, and writes of PCLATH.    *)
(*                                                                         *)
(* A name is a sequence: <<"f">> is a function, <<"f", "1">> one of the    *)
(* selector's internal labels inside f.  A line is [op, at, bank]:         *)
(*   label, call, goto   at is the name                                    *)
(*   return, retfie, sleep                                                 *)
(*   use, skip           an instruction, or a skip test, on an operand in  *)
(*                       bank (NoBank: common RAM, mirrored register)      *)
(*   bsf5 bcf5 bsf6 bcf6 BSF/BCF STATUS, 5/6                               *)
(*   movlb               MOVLB bank                                        *)
(*   asm                 a block of inline assembly                        *)
(*   set                 the pair MOVLW at; MOVWF PCLATH                   *)
(*   save, pclath, status  the handler's copies of PCLATH and STATUS and   *)
(*                       the writes that restore them                      *)
(*   jump                ADDLW LOW(at); MOVWF PCL, into the table of at    *)
(*                                                                         *)
(* A program gives the functions in text order with the page of each, the  *)
(* page a table starts in, and each body as lines and selection items:     *)
(* icall, read, sread (a read of a staging routine), dispatch, ret.        *)
(***************************************************************************)
EXTENDS Integers, SequencesExt

Banks == 0..3
NoBank == 4

Line(op, at) == [op |-> op, at |-> at, bank |-> NoBank]
Banked(op, b) == [op |-> op, at |-> <<>>, bank |-> b]

Selects == {"bsf5", "bcf5", "bsf6", "bcf6", "movlb", "status"}

-----------------------------------------------------------------------------
(* The page discipline of instruction selection.                           *)

\* The page a PCLATH literal names: PAGE(f), HIGH(table base) or zero.
PageOf(p, tok) ==
    CASE tok[1] = "page" -> p.page[tok[2]]
      [] tok[1] = "high" -> p.base[tok[2]]
      [] OTHER -> 0

IsReader(p, f) == f \in DOMAIN p.base

\* The page PCLATH holds after a call of g returns.
PageAfter(p, g) == IF IsReader(p, g) THEN p.base[g] ELSE p.page[g]

SetPage(f) == Line("set", <<"page", f>>)

\* A reader in the page of its table jumps with what its caller wrote.
IsShort(p, t) == p.page[t] = p.base[t]
ReaderSet(p, t) == IF IsShort(p, t) THEN Line("set", <<"high", t>>) ELSE SetPage(t)

\* A reader taken to return in its own page.
RestoreFromEntry(p, cur, g) ==
    IF p.page[g] = p.page[cur] THEN <<>> ELSE <<SetPage(cur)>>

Restore(p, cur, g) ==
    IF PageAfter(p, g) = p.page[cur] THEN <<>> ELSE <<SetPage(cur)>>

CopyResult(b) == IF b = NoBank THEN <<>> ELSE <<Banked("use", b)>>

EmitCall(p, cur, item, follows) ==
    LET g == item.at[1]
    IN  <<SetPage(g), Line("call", <<g>>)>> \o CopyResult(item.bank)
        \o (IF follows /\ p.core = "pic14" THEN <<>> ELSE Restore(p, cur, g))

EmitRead(p, cur, item) ==
    LET t == item.at[1]
    IN  <<ReaderSet(p, t), Line("call", <<t>>)>> \o CopyResult(item.bank)
        \o Restore(p, cur, t)

\* The compare-and-call chain of an indirect call, its trap loop and its end.
EmitDispatch(p, cur, item) ==
    LET Next(g) == <<cur, "next", g>>
        Compare(g) == <<Banked("use", item.bank), Line("skip", <<>>), Line("goto", Next(g))>>
        Try(g) == Compare(g) \o Compare(g)
                  \o <<SetPage(g), Line("call", <<g>>)>> \o Restore(p, cur, g)
                  \o <<Line("goto", <<cur, "done">>), Line("label", Next(g))>>
    IN  FlattenSeq([k \in DOMAIN item.at |-> Try(item.at[k])])
        \o <<Line("label", <<cur, "trap">>), Line("goto", <<cur, "trap">>),
             Line("label", <<cur, "done">>)>>

\* The handler saves PCLATH and STATUS by hand where the core has no
\* shadow registers, and runs in page 0.
Prologue(p, f) ==
    IF f # p.isr THEN <<>>
    ELSE (IF p.core = "pic14" THEN <<Line("save", <<>>)>> ELSE <<>>)
         \o <<Line("set", <<"zero">>)>>

\* STATUS first, by an instruction that needs no bank, PCLATH forgotten.
EpilogueStatusOnly(p, f) ==
    IF f # p.isr THEN <<Line("return", <<>>)>>
    ELSE (IF p.core = "pic14" THEN <<Line("status", <<>>)>> ELSE <<>>)
         \o <<Line("retfie", <<>>)>>

Epilogue(p, f) ==
    IF f # p.isr THEN <<Line("return", <<>>)>>
    ELSE (IF p.core = "pic14" THEN <<Line("pclath", <<>>), Line("status", <<>>)>> ELSE <<>>)
         \o <<Line("retfie", <<>>)>>

EmitItem(p, f, k) ==
    LET body == p.body[f]
        item == body[k]
        follows == k < Len(body) /\ body[k + 1].op = "icall"
    IN  CASE item.op = "icall" -> EmitCall(p, f, item, follows)
          [] item.op = "read" -> EmitRead(p, f, item)
          [] item.op = "sread" ->
                <<ReaderSet(p, item.at[1]), Line("call", item.at)>> \o CopyResult(item.bank)
          [] item.op = "dispatch" -> EmitDispatch(p, f, item)
          [] item.op = "ret" -> Epilogue(p, f)
          [] OTHER -> <<item>>

-----------------------------------------------------------------------------
(* A write of PCLATH that a later one overwrites before any read.          *)

ReadsPclath == {"call", "goto", "return", "retfie", "asm", "jump", "save"}

OverwrittenBeforeRead(s, k) ==
    \E j \in k + 1..Len(s) :
        /\ s[j].op \in {"set", "pclath"}
        /\ \A m \in k + 1..j - 1 : s[m].op \notin ReadsPclath

AfterSkip(s, k) ==
    \E m \in 1..k - 1 : s[m].op = "skip" /\ \A n \in m + 1..k - 1 : s[n].op = "label"

DropDeadSets(s) ==
    LET Dead(k) == s[k].op = "set" /\ ~AfterSkip(s, k) /\ OverwrittenBeforeRead(s, k)
    IN  FlattenSeq([k \in DOMAIN s |-> IF Dead(k) THEN <<>> ELSE <<s[k]>>])

-----------------------------------------------------------------------------
\* A reader: its own page write unless it is short, the computed jump, and
\* the table's RETLW rows, reduced to one.
EmitReader(p, t) ==
    <<Line("label", <<t>>)>>
    \o (IF IsShort(p, t) THEN <<>> ELSE <<Line("set", <<"high", t>>)>>)
    \o <<Line("jump", <<t>>), Line("return", <<>>)>>

EmitFunc(p, f) ==
    IF IsReader(p, f) THEN EmitReader(p, f)
    ELSE LET items == FlattenSeq([k \in DOMAIN p.body[f] |-> EmitItem(p, f, k)])
         IN  DropDeadSets(<<Line("label", <<f>>)>> \o Prologue(p, f) \o items)

Text(p) == FlattenSeq([k \in DOMAIN p.order |-> EmitFunc(p, p.order[k])])
=============================================================================
