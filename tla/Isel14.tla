------------------------------- MODULE Isel14 -------------------------------
(***************************************************************************)
(* The PIC14 selector's emission of one IR instruction at a time: the      *)
(* arithmetic recipes, and the beliefs that let it leave instructions out. *)
(* A selector g is                                                         *)
(*   out       the instructions emitted so far                             *)
(*   holds     the slot whose value W is believed to hold, or None         *)
(*   committed whether that slot's own byte holds it too                   *)
(*   defer     the slot whose store has been put off, or None              *)
(*   uses      the reads still expected of it                              *)
(*   rel       <<bit, skip>>: the flag and the skip that tell whether the  *)
(*             boolean just stored is set, or <<>>                         *)
(*   bools     the registers that hold a comparison's 0 or 1               *)
(*   tmp       the next fresh label                                        *)
(*                                                                         *)
(* A program p has code, a sequence of IR instructions                     *)
(* [op, ty, from, a, b, c, dst, pred], slot, the address of every register  *)
(* and global, and globals, the width of each of the latter.  ty is a      *)
(* width in bytes, 0 for i1.  An operand is <<"r", name>>, <<"k", bytes>>  *)
(* or <<>>.                                                                *)
(***************************************************************************)
EXTENDS Mcu14, SequencesExt, FiniteSets

None == 0
SCRATCH == 112
RETVAL == 113
PCLATH == 10

\* The blocks a conditional branch goes to.
TrueSide == <<"t">>
FalseSide == <<"f">>

Width(ty) == IF ty = 0 THEN 1 ELSE ty
BankOf(x) == x \div 128

IsConst(v) == v[1] = "k"
ByteK(v, i) == v[2][i + 1]
Addr(p, v) == p.slot[v[2]]

\* The reads of r in the whole function.
Uses(p, r) ==
    Cardinality({at \in (DOMAIN p.code) \X {"a", "b", "c"} :
                    p.code[at[1]][at[2]] = <<"r", r>>})

GlobalBytes(p) == UNION {p.slot[x]..p.slot[x] + p.globals[x] - 1 : x \in DOMAIN p.globals}

NewGen == [out |-> <<>>, holds |-> None, committed |-> FALSE, defer |-> None, uses |-> 0,
           rel |-> <<>>, bools |-> {}, tmp |-> 0]

WF(op, f) == <<op, f, "w">>
FF(op, f) == <<op, f, "f">>
UnlessC == <<"btfsc", STATUS, C>>
UnlessNC == <<"btfss", STATUS, C>>

-----------------------------------------------------------------------------
(* The W cache and the deferred store.                                     *)

Flush(g) ==
    IF g.defer = None \/ g.uses = 0 THEN [g EXCEPT !.defer = None]
    ELSE [g EXCEPT !.out = Append(@, <<"movwf", g.defer>>), !.holds = g.defer,
                   !.committed = TRUE, !.defer = None]

\* Plain lines, after which nothing is known of W.
EmitAll(g, lines) ==
    IF lines = <<>> THEN g
    ELSE [Flush(g) EXCEPT !.out = @ \o lines, !.holds = None, !.committed = FALSE, !.rel = <<>>]

Emit(g, i) == EmitAll(g, <<i>>)

\* A global is cached like any slot.
MarkAnyW(p, g, x) == [g EXCEPT !.holds = x, !.rel = <<>>]

\* An interrupt may rewrite a global at any time.
MarkW(p, g, x) == [g EXCEPT !.holds = IF x \in GlobalBytes(p) THEN None ELSE x, !.rel = <<>>]

WStore(p, g, x) ==
    LET f == IF g.defer = x THEN [g EXCEPT !.defer = None, !.committed = FALSE] ELSE Flush(g)
        h == IF f.holds = x /\ f.committed THEN f
             ELSE [Emit(f, <<"movwf", x>>) EXCEPT !.committed = TRUE]
    IN  MarkW(p, h, x)

WLoad(p, g, x) ==
    IF g.defer = x
    THEN [g EXCEPT !.defer = None, !.uses = IF @ > 0 THEN @ - 1 ELSE 0, !.holds = x,
                   !.committed = FALSE, !.rel = <<>>]
    ELSE LET f == Flush(g)
             h == IF f.holds = x THEN f
                  ELSE [Emit(f, WF("movf", x)) EXCEPT !.committed = TRUE]
         IN  MarkW(p, h, x)

LoadByte(p, g, v, i) ==
    IF IsConst(v) THEN Emit(g, <<"movlw", ByteK(v, i)>>) ELSE WLoad(p, g, Addr(p, v) + i)

XorByte(p, g, v, i) ==
    Emit(g, IF IsConst(v) THEN <<"xorlw", ByteK(v, i)>> ELSE WF("xorwf", Addr(p, v) + i))

UpTo(n) == [k \in 1..n |-> k - 1]

MoveValToSlot(p, g, v, n, dst) ==
    FoldLeft(LAMBDA h, i : IF IsConst(v) /\ ByteK(v, i) = 0 THEN Emit(h, <<"clrf", dst + i>>)
                           ELSE WStore(p, LoadByte(p, h, v, i), dst + i),
             g, UpTo(n))

\* The byte after the temporary is the one whose store is put off.
LaneStorePast(p, g, dst, name, n, i) ==
    IF (n = 1 \/ i = 0) /\ Uses(p, name) = 1
    THEN [Flush(g) EXCEPT !.defer = dst + n, !.uses = 1, !.holds = dst, !.committed = FALSE]
    ELSE WStore(p, g, dst)

\* The last byte of a temporary read once stays in W for its reader.
LaneStore(p, g, dst, name, n, i) ==
    IF (n = 1 \/ i = 0) /\ Uses(p, name) = 1
    THEN [Flush(g) EXCEPT !.defer = dst, !.uses = 1, !.holds = dst, !.committed = FALSE]
    ELSE WStore(p, g, dst)

-----------------------------------------------------------------------------
(* What the emitted tail says of the zero flag.                            *)

IsMovfW(i) == i[1] = "movf" /\ i[3] = "w"

SetsZFromW(i) ==
    \/ i[1] \in {"andlw", "iorlw", "xorlw", "addlw", "sublw"}
    \/ i[1] \in {"andwf", "iorwf", "xorwf", "addwf", "subwf"} /\ i[3] = "w"

PrevIsSkip(out, k) == k > 1 /\ out[k - 1][1] \in SkipOps

Witness(out, k) == (IsMovfW(out[k]) \/ SetsZFromW(out[k])) /\ ~PrevIsSkip(out, k)

AluResultFresh(g) ==
    LET n == Len(g.out)
    IN  /\ n > 0
        /\ \/ Witness(g.out, n)
           \/ n > 1 /\ g.out[n][1] = "movwf" /\ ~PrevIsSkip(g.out, n) /\ Witness(g.out, n - 1)

XorUnlessNop(p, g, v, i) ==
    IF AluResultFresh(g) /\ IsConst(v) /\ ByteK(v, i) = 0 THEN g ELSE XorByte(p, g, v, i)

\* Z = (a = b), the carry untouched.
CmpEq(p, g, a, b, n) ==
    LET first == LoadByte(p, g, a, 0)
        xored == XorUnlessNop(p, first, b, 0)
        lone(h, loaded) == Len(loaded.out) = Len(h.out) + 1 /\ IsMovfW(Last(loaded.out))
        dead == n > 1 /\ xored = first /\ lone(g, first)
        start == [g |-> IF dead THEN [xored EXCEPT !.out = Front(@)] ELSE xored,
                  file |-> IF dead THEN Last(first.out)[2] ELSE None]
        OrNext(s, i) ==
            LET parked == IF s.file # None THEN s.g ELSE Emit(s.g, <<"movwf", SCRATCH>>)
                loaded == LoadByte(p, parked, a, i)
                next == XorUnlessNop(p, loaded, b, i)
                unpark == s.file = None /\ next = loaded /\ lone(parked, loaded)
            IN  [g |-> IF s.file # None THEN Emit(next, WF("iorwf", s.file))
                       ELSE IF unpark
                       THEN Emit([next EXCEPT !.out = Front(Front(@))],
                                 WF("iorwf", Last(loaded.out)[2]))
                       ELSE Emit(next, WF("iorwf", SCRATCH)),
                 file |-> None]
    IN  FoldLeft(OrNext, start, [i \in 1..n - 1 |-> i]).g

-----------------------------------------------------------------------------
(* C = (a >= b): the sign bit complemented turns signed order to unsigned. *)

Flip(k, signed) == IF signed THEN XorB(k, 128) ELSE k

LoadCmp(p, v, i, signed) ==
    IF IsConst(v) THEN <<<<"movlw", Flip(ByteK(v, i), signed)>>>>
    ELSE IF signed THEN <<<<"movlw", 128>>, WF("xorwf", Addr(p, v) + i)>>
    ELSE <<WF("movf", Addr(p, v) + i)>>

CmpC8(p, a, b, signed) ==
    IF IsConst(a) THEN LoadCmp(p, b, 0, signed) \o <<<<"sublw", Flip(ByteK(a, 0), signed)>>>>
    ELSE IF ~signed THEN LoadCmp(p, b, 0, FALSE) \o <<WF("subwf", Addr(p, a))>>
    ELSE LoadCmp(p, a, 0, TRUE)
         \o (IF IsConst(b) /\ Flip(ByteK(b, 0), TRUE) # 0
             THEN <<<<"addlw", 256 - Flip(ByteK(b, 0), TRUE)>>>>
             ELSE <<<<"movwf", SCRATCH>>>> \o LoadCmp(p, b, 0, TRUE) \o <<WF("subwf", SCRATCH)>>)

\* One byte of the chain after the first: f - k or f - x, and the borrow,
\* with the true borrow left in C when the folded byte wraps.
FoldConst(f, k) ==
    IF k = 255 THEN <<WF("movf", f), UnlessC, <<"addlw", 1>>>>
    ELSE <<<<"movlw", k>>, UnlessNC, <<"addlw", 1>>, WF("subwf", f)>>

\* The borrow added to the subtrahend, whatever the subtrahend.
FoldAdding(x, sub) == <<UnlessNC, <<"addlw", 1>>, sub>>

FoldFile(x, sub) == <<UnlessNC, WF("incfsz", x), sub>>

\* The complemented high byte of b, in the temporary and in W.
FlipToTemp(x) == <<<<"movlw", 128>>, WF("xorwf", x), <<"movwf", RETVAL>>>>
FlipToScratch(x) == <<<<"movlw", 128>>, WF("xorwf", x), <<"movwf", SCRATCH>>>>

CmpCByte(p, a, b, i, flip) ==
    LET f == Addr(p, a) + i
        x == Addr(p, b) + i
    IN  IF IsConst(a) THEN
            (IF flip THEN FlipToTemp(x) \o FoldFile(RETVAL, <<"sublw", Flip(ByteK(a, i), TRUE)>>)
             ELSE <<WF("movf", x)>> \o FoldFile(x, <<"sublw", ByteK(a, i)>>))
        ELSE IF IsConst(b) THEN
            (IF flip THEN FlipToScratch(f) \o FoldConst(SCRATCH, Flip(ByteK(b, i), TRUE))
             ELSE FoldConst(f, ByteK(b, i)))
        ELSE IF flip THEN FlipToTemp(x) \o FlipToScratch(f) \o <<WF("movf", RETVAL)>>
                          \o FoldFile(RETVAL, WF("subwf", SCRATCH))
        ELSE <<WF("movf", x)>> \o FoldFile(x, WF("subwf", f))

CmpC(p, a, b, n, signed) ==
    IF n = 1 THEN CmpC8(p, a, b, signed)
    ELSE LoadCmp(p, b, 0, FALSE)
         \o (IF IsConst(a) THEN <<<<"sublw", ByteK(a, 0)>>>> ELSE <<WF("subwf", Addr(p, a))>>)
         \o FlattenSeq([i \in 1..n - 1 |-> CmpCByte(p, a, b, i, signed /\ i = n - 1)])

-----------------------------------------------------------------------------
(* A comparison's boolean, and the branch that reads it.                   *)

SkipFor == [Z |-> <<"btfsc", Z>>, NZ |-> <<"btfss", Z>>, C |-> <<"btfsc", C>>,
            NC |-> <<"btfss", C>>, CNZ |-> <<"btfsc", C>>, NCZ |-> <<"btfss", C>>]
Relation == [Z |-> <<Z, "btfss">>, NZ |-> <<Z, "btfsc">>, C |-> <<C, "btfss">>,
             NC |-> <<C, "btfsc">>, CNZ |-> <<>>, NCZ |-> <<>>]

StoreRelation(p, g, cond, dst) ==
    [WStore(p, g, dst) EXCEPT !.rel = Relation[cond]]

Materialize(p, g, cond, dst) ==
    LET test == <<SkipFor[cond][1], STATUS, SkipFor[cond][2]>>
        equal == IF cond = "CNZ" THEN <<<<"btfsc", STATUS, Z>>, <<"movlw", 0>>>>
                 ELSE IF cond = "NCZ" THEN <<<<"btfsc", STATUS, Z>>, <<"movlw", 1>>>>
                 ELSE <<>>
    IN  StoreRelation(p, EmitAll(g, <<<<"movlw", 0>>, test, <<"movlw", 1>>>> \o equal), cond, dst)

Condition(pred) ==
    CASE pred = "eq" -> "Z" [] pred = "ne" -> "NZ"
      [] pred \in {"ult", "slt"} -> "NC" [] pred \in {"uge", "sge"} -> "C"
      [] pred \in {"ugt", "sgt"} -> "CNZ" [] pred \in {"ule", "sle"} -> "NCZ"

Icmp(p, g, i) ==
    LET n == Width(i.ty)
        eq == i.pred \in {"eq", "ne"}
        carried == IF eq THEN g
                   ELSE EmitAll(g, CmpC(p, i.a, i.b, n, i.pred \in {"slt", "sge", "sgt", "sle"}))
        both == eq \/ (n > 1 /\ Condition(i.pred) \in {"CNZ", "NCZ"})
        tested == IF both THEN CmpEq(p, carried, i.a, i.b, n) ELSE carried
        done == Materialize(p, tested, Condition(i.pred), p.slot[i.dst])
    IN  [done EXCEPT !.bools = @ \union {i.dst}]

\* The skip that passes over the jump to the false side.
SkipWhenTrue(p, g, cond, bools) ==
    IF g.rel # <<>> /\ g.holds = Addr(p, cond) THEN <<<<g.rel[2], STATUS, g.rel[1]>>>>
    ELSE IF cond[2] \in bools THEN <<<<"btfss", Addr(p, cond), 0>>>>
    ELSE <<WF("movf", Addr(p, cond)), <<"btfsc", STATUS, Z>>>>

BrCond(p, g, i) ==
    EmitAll(g, IF IsConst(i.c) THEN <<<<"goto", IF ByteK(i.c, 0) # 0 THEN TrueSide ELSE FalseSide>>>>
               ELSE SkipWhenTrue(p, g, i.c, g.bools) \o <<<<"goto", FalseSide>>, <<"goto", TrueSide>>>>)

Select(p, g, i) ==
    LET da == p.slot[i.dst]
        n == Width(i.ty)
        else == <<"else", g.tmp>>
        end == <<"end", g.tmp>>
        test == EmitAll(g, SkipWhenTrue(p, g, i.c, {}) \o <<<<"goto", else>>>>)
        taken == EmitAll(MoveValToSlot(p, test, i.a, n, da), <<<<"goto", end>>, <<"label", else>>>>)
        both == Emit(MoveValToSlot(p, taken, i.b, n, da), <<"label", end>>)
    IN  IF IsConst(i.c) THEN MoveValToSlot(p, g, IF ByteK(i.c, 0) # 0 THEN i.a ELSE i.b, n, da)
        ELSE [both EXCEPT !.tmp = @ + 1]
=============================================================================
