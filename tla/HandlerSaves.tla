---------------------------- MODULE HandlerSaves ----------------------------
(***************************************************************************)
(* The context a PIC18 handler saves and restores, by register class, and  *)
(* the narrowing that drops the lines of the classes nothing the handler   *)
(* reaches is seen to write.  The lone handler and the high one save to    *)
(* the common block and a carved area, reached without a bank; the low     *)
(* one saves W through a select of its own area's bank.                    *)
(***************************************************************************)
EXTENDS Pic18Text

Classes == {"W", "STATUS", "BSR", "FSR0", "FSR1", "PROD", "TABLAT", "TBLPTR", "PCLAT",
            "RETVAL"}

Save(r) == [Line("save") EXCEPT !.reg = r]
Restore(r) == [Line("restore") EXCEPT !.reg = r]
Saves(rs) == [k \in DOMAIN rs |-> Save(rs[k])]
Restores(rs) == [k \in DOMAIN rs |-> Restore(rs[k])]

\* Each entry is the class that keeps the line and the line.
Own(ls) == [k \in DOMAIN ls |-> <<ls[k].reg, ls[k]>>]

\* W is stored last and reloaded before STATUS; the low handler needs a
\* select for either, and BSR back after the second.
SaveTable(p, low) ==
    IF low
    THEN LET select == <<"W", Select(p.area)>>
             W(l) == <<"W", [l EXCEPT !.bank = p.area]>>
         IN  [pre  |-> Own(Saves(<<"RETVAL", "STATUS", "BSR", "FSR0", "FSR1", "PROD",
                                   "TABLAT", "PCLAT", "TBLPTR">>)) \o <<select, W(Save("W"))>>,
              post |-> Own(Restores(<<"RETVAL", "TBLPTR", "FSR0", "BSR", "FSR1", "PROD",
                                      "TABLAT", "PCLAT">>))
                       \o <<select, W(Restore("W"))>> \o Own(Restores(<<"STATUS", "BSR">>))]
    ELSE [pre  |-> Own(Saves(<<"TBLPTR", "FSR0", "STATUS", "BSR", "FSR1", "PROD", "TABLAT",
                               "PCLAT", "RETVAL", "W">>)),
          post |-> Own(Restores(<<"TBLPTR", "FSR0", "BSR", "RETVAL", "FSR1", "PROD",
                                  "TABLAT", "PCLAT", "W", "STATUS">>))]

LinesOf(t) == [k \in DOMAIN t |-> t[k][2]]

IsHandler(p, f) == f \in {p.high, p.low}
IsLow(p, f) == f = p.low

EmitPrologue(e, p, f) ==
    LET s == EmitLines(e, LinesOf(SaveTable(p, IsLow(p, f)).pre))
    IN  IF IsLow(p, f) THEN [s EXCEPT !.bsr = p.area] ELSE s

\* The belief ends here: the epilogue puts BSR back without it.
EmitEpilogue(e, p, f) ==
    [e EXCEPT !.out = @ \o LinesOf(SaveTable(p, IsLow(p, f)).post) \o <<Line("retfie")>>,
              !.bsr = IF IsLow(p, f) THEN NoBank ELSE @]

-----------------------------------------------------------------------------
(* What a line writes, as the scan of the emitted text has it.             *)

ScanTable ==
    [movlw |-> {"W"}, addlw |-> {"W", "STATUS"}, movf_w |-> {"W", "STATUS"},
     addwf_w |-> {"W", "STATUS"}, subwf_w |-> {"W", "STATUS"}, decfsz_w |-> {"W"},
     movwf |-> {}, setf |-> {}, bsf |-> {}, btfsc |-> {}, btfss |-> {}, decfsz |-> {},
     clrf |-> {"STATUS"}, incf |-> {"STATUS"}, rrcf |-> {"STATUS"}, swapf |-> {},
     rrncf |-> {}, mulwf |-> {"PROD"}, tblrd |-> {"TABLAT"}, tblrd_inc |-> {"TABLAT", "TBLPTR"},
     lfsr0 |-> {"FSR0"}, lfsr1 |-> {"FSR1"}, movff |-> {}]

IsInstruction(l) == l.op \in {"ins", "skip"}

\* A mnemonic the scan does not know keeps every class.
Scan(l) ==
    IF l.op = "movlb" THEN {"BSR"}
    ELSE IF l.op = "jump" THEN {"STATUS"}
    ELSE IF ~IsInstruction(l) THEN {}
    ELSE IF l.m \notin DOMAIN ScanTable THEN Classes
    ELSE ScanTable[l.m] \cup ({l.reg} \ {""})

\* Lines are compared as text, wherever they stand.
SaveLines(p, low) ==
    Range(LinesOf(SaveTable(p, low).pre)) \cup Range(LinesOf(SaveTable(p, low).post))

\* The bodies calls and jumps of f reach, given all the bodies by name.
RECURSIVE Reach(_, _)
Reach(bodies, fs) ==
    LET next == {f \in DOMAIN bodies : \E g \in fs : \E l \in Range(bodies[g]) :
                    l.op \in {"call", "goto"} /\ l.at = <<f>>}
    IN  IF next \subseteq fs THEN fs ELSE Reach(bodies, fs \cup next)

\* A call of something that has no body keeps every class.
Needs(p, bodies, f) ==
    LET lines == UNION {Range(bodies[g]) : g \in Reach(bodies, {f})}
        scanned == {l \in lines : l \notin SaveLines(p, IsLow(p, f))}
        unknown == \E l \in scanned : l.op = "call" /\ l.at[1] \notin DOMAIN bodies
    IN  IF unknown THEN Classes ELSE UNION {Scan(l) : l \in scanned}

\* Seeded fault: the restores are taken to change nothing themselves.
KeptPlain(p, f, needs) == needs

\* STATUS stays with W, whose restore sets flags, and the low handler's BSR
\* stays with its select.
Kept(p, f, needs) ==
    needs \cup (IF "W" \in needs THEN {"STATUS"} ELSE {})
          \cup (IF "W" \in needs /\ IsLow(p, f) THEN {"BSR"} ELSE {})

\* The body without the lines of the classes that are not kept: after the
\* entry label, and before each return.
Narrow(p, bodies, f) ==
    LET s == bodies[f]
        table == SaveTable(p, IsLow(p, f))
        kept == Kept(p, f, Needs(p, bodies, f))
        Dropped(k) ==
            \/ k - 1 \in DOMAIN table.pre /\ table.pre[k - 1][1] \notin kept
            \/ \E end \in {i \in DOMAIN s : s[i].op = "retfie"} :
                  LET n == k - end + Len(table.post) + 1
                  IN  n \in DOMAIN table.post /\ table.post[n][1] \notin kept
    IN  FlattenSeq([k \in DOMAIN s |-> IF Dropped(k) THEN <<>> ELSE <<s[k]>>])
=============================================================================
