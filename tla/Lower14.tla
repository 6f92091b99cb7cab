------------------------------ MODULE Lower14 ------------------------------
(***************************************************************************)
(* The PIC14 lowering of each IR instruction, from the recipes of Isel14:  *)
(* additions, subtractions, logic, constant shifts, width changes, copies, *)
(* loads and stores of globals, runtime calls, and the terminators.        *)
(***************************************************************************)
EXTENDS Isel14

\* The register operand of a commutative operation, and the other one.
RegOf(i) == IF IsConst(i.a) THEN i.b ELSE i.a
OtherOf(i) == IF IsConst(i.a) THEN i.a ELSE i.b

Bump(skip) == <<skip, <<"addlw", 1>>>>

-----------------------------------------------------------------------------
(* Additions and subtractions: a carry or a borrow between the bytes.      *)

AddFirst(p, i, dst) ==
    LET r == Addr(p, RegOf(i))
        o == OtherOf(i)
    IN  (IF IsConst(o) THEN <<WF("movf", r), <<"addlw", ByteK(o, 0)>>>>
         ELSE <<WF("movf", Addr(p, o)), WF("addwf", r)>>) \o <<<<"movwf", dst>>>>

SubFirst(p, i, dst) ==
    (IF IsConst(i.b) THEN <<<<"movlw", ByteK(i.b, 0)>>>> ELSE <<WF("movf", Addr(p, i.b))>>)
    \o <<WF("subwf", Addr(p, i.a)), <<"movwf", dst>>>>

\* The second and last byte: the carry out is not needed.
AddSecond(p, i, dst) ==
    LET r == Addr(p, RegOf(i)) + 1
        o == OtherOf(i)
    IN  (IF IsConst(o) THEN <<WF("movf", r)>> \o Bump(UnlessC) \o <<<<"addlw", ByteK(o, 1)>>>>
         ELSE <<WF("movf", Addr(p, o) + 1)>> \o Bump(UnlessC) \o <<WF("addwf", r)>>)
        \o <<<<"movwf", dst + 1>>>>

SubSecond(p, i, dst) ==
    (IF IsConst(i.b) THEN <<<<"movlw", ByteK(i.b, 1)>>>> ELSE <<WF("movf", Addr(p, i.b) + 1)>>)
    \o Bump(UnlessNC) \o <<WF("subwf", Addr(p, i.a) + 1), <<"movwf", dst + 1>>>>

\* The destination is not checked against the folded operand.
ChainReread(d, acc, x, skip, op) ==
    (IF d = acc THEN <<>> ELSE <<WF("movf", acc), <<"movwf", d>>>>)
    \o <<WF("movf", x), skip, WF("incfsz", x), FF(op, d)>>

\* One byte of a longer chain, in place in the destination d: the folded
\* operand is read again from its own byte where the destination leaves it
\* readable and no bank select would come between, and else from a copy.
ChainFile(d, acc, x, skip, op) ==
    IF d # x /\ BankOf(x) = BankOf(acc) /\ BankOf(x) = BankOf(d)
    THEN (IF d = acc THEN <<>> ELSE <<WF("movf", acc), <<"movwf", d>>>>)
         \o <<WF("movf", x), skip, WF("incfsz", x), FF(op, d)>>
    ELSE <<WF("movf", x), <<"movwf", SCRATCH>>, WF("movf", acc), <<"movwf", d>>,
           WF("movf", SCRATCH), skip, WF("incfsz", SCRATCH), FF(op, d)>>

ChainConst(d, acc, k, skip, wrapSkip, op, wrapOp) ==
    <<WF("movf", acc), <<"movwf", d>>>>
    \o (IF k = 255 THEN <<<<"movlw", 1>>, wrapSkip, FF(wrapOp, d)>>
        ELSE <<<<"movlw", k>>>> \o Bump(skip) \o <<FF(op, d)>>)

AddByte(p, i, j, dst) ==
    LET r == Addr(p, RegOf(i)) + j
        o == OtherOf(i)
    IN  IF IsConst(o) THEN ChainConst(dst + j, r, ByteK(o, j), UnlessC, UnlessNC, "addwf", "subwf")
        ELSE ChainFile(dst + j, r, Addr(p, o) + j, UnlessC, "addwf")

SubByte(p, i, j, dst) ==
    LET r == Addr(p, i.a) + j
    IN  IF IsConst(i.b)
        THEN ChainConst(dst + j, r, ByteK(i.b, j), UnlessNC, UnlessC, "subwf", "addwf")
        ELSE ChainFile(dst + j, r, Addr(p, i.b) + j, UnlessNC, "subwf")

\* k - a: the complement of a byte plus k plus one less the borrow.
SubFromByte(p, i, j, dst) ==
    LET k == ByteK(i.a, j)
        d == dst + j
    IN  <<WF("movf", Addr(p, i.b) + j), <<"movwf", d>>, FF("comf", d)>>
        \o (IF k = 255 THEN <<<<"movlw", 1>>, UnlessNC, FF("subwf", d)>>
            ELSE <<<<"movlw", k>>>> \o Bump(UnlessC) \o <<FF("addwf", d)>>)

Chain(Byte2(_), n) == FlattenSeq([j \in 1..n - 1 |-> Byte2(j)])

Add(p, g, i, dst) ==
    LET n == Width(i.ty)
        lines == AddFirst(p, i, dst)
    IN  CASE n = 1 -> WStore(p, EmitAll(g, Front(lines)), dst)
          [] n = 2 -> EmitAll(g, lines \o AddSecond(p, i, dst))
          [] OTHER -> EmitAll(g, lines \o Chain(LAMBDA j : AddByte(p, i, j, dst), n))

Sub(p, g, i, dst) ==
    LET n == Width(i.ty)
    IN  EmitAll(g,
            IF IsConst(i.a)
            THEN <<WF("movf", Addr(p, i.b)), <<"sublw", ByteK(i.a, 0)>>, <<"movwf", dst>>>>
                 \o Chain(LAMBDA j : SubFromByte(p, i, j, dst), n)
            ELSE SubFirst(p, i, dst)
                 \o (CASE n = 1 -> <<>> [] n = 2 -> SubSecond(p, i, dst)
                       [] OTHER -> Chain(LAMBDA j : SubByte(p, i, j, dst), n)))

-----------------------------------------------------------------------------
(* Bytewise logic, low byte last so that W ends with what a reader wants.  *)

FileOp == [and |-> "andwf", or |-> "iorwf", xor |-> "xorwf"]
LiteralOp == [and |-> "andlw", or |-> "iorlw", xor |-> "xorlw"]

LogicByte(p, g, i, dst, j) ==
    LET n == Width(i.ty)
        r == Addr(p, RegOf(i)) + j
        o == OtherOf(i)
        loaded == WLoad(p, g, r)
        zero == IsConst(o) /\ ByteK(o, j) = 0
    IN  IF ~IsConst(o)
        THEN LaneStore(p, Emit(WLoad(p, g, Addr(p, o) + j), WF(FileOp[i.op], r)), dst + j, i.dst, n, j)
        ELSE IF zero /\ i.op = "and" THEN Emit(g, <<"clrf", dst + j>>)
        ELSE IF zero /\ AluResultFresh(loaded) THEN LaneStore(p, loaded, dst + j, i.dst, n, j)
        ELSE LaneStore(p, Emit(WLoad(p, loaded, r), <<LiteralOp[i.op], ByteK(o, j)>>),
                       dst + j, i.dst, n, j)

Logic(p, g, i, dst) ==
    LET n == Width(i.ty)
    IN  FoldLeft(LAMBDA h, j : LogicByte(p, h, i, dst, j), g, [j \in 1..n |-> j % n])

-----------------------------------------------------------------------------
(* Shifts by a constant, and the width changes.                            *)

ClearC == <<"bcf", STATUS, C>>
SignToC(top) == <<<<"btfsc", top, 7>>, <<"bsf", STATUS, C>>, <<"btfss", top, 7>>, ClearC>>

RotateUp(x, n) == [j \in 1..n |-> FF("rlf", x + j - 1)]
RotateDown(x, n) == [j \in 1..n |-> FF("rrf", x + n - j)]

ShiftOnce(op, x, n) ==
    CASE op = "shl" -> <<ClearC>> \o RotateUp(x, n)
      [] op = "lshr" -> <<ClearC>> \o RotateDown(x, n)
      [] op = "ashr" -> SignToC(x + n - 1) \o RotateDown(x, n)

CopyByte(p, g, v, from, to) == WStore(p, LoadByte(p, g, v, from), to)

Repeat(s, k) == FlattenSeq([j \in 1..k |-> s])

Shift(p, g, i, dst) ==
    LET n == Width(i.ty)
        k == ByteK(i.b, 0)
        s == k \div 8
        slid == FoldLeft(LAMBDA h, j : CopyByte(p, h, i.a, n - j - s, dst + n - j),
                         g, [j \in 1..n - s |-> j])
    IN  IF i.op = "shl" /\ k > 0 /\ k % 8 = 0
        THEN EmitAll(slid, [j \in 1..s |-> <<"clrf", dst + j - 1>>])
        ELSE EmitAll(MoveValToSlot(p, g, i.a, n, dst), Repeat(ShiftOnce(i.op, dst, n), k))

\* The bytes below n copied one by one.
CopyLow(p, g, v, n, dst) ==
    FoldLeft(LAMBDA h, j : CopyByte(p, h, v, j, dst + j), g, UpTo(n))

Zext(p, g, i, dst) ==
    EmitAll(CopyLow(p, g, i.a, Width(i.from), dst),
            [j \in 1..Width(i.ty) - Width(i.from) |-> <<"clrf", dst + Width(i.from) + j - 1>>])

Sext(p, g, i, dst) ==
    LET n == Width(i.from)
        pos == <<"pos", g.tmp>>
        fill == <<"fill", g.tmp>>
        lines == <<<<"btfss", Addr(p, i.a) + n - 1, 7>>, <<"goto", pos>>, <<"movlw", 255>>,
                   <<"goto", fill>>, <<"label", pos>>, <<"movlw", 0>>, <<"label", fill>>>>
                 \o [j \in 1..Width(i.ty) - n |-> <<"movwf", dst + n + j - 1>>]
    IN  [EmitAll(CopyLow(p, g, i.a, n, dst), lines) EXCEPT !.tmp = @ + 1]

\* The bits a truncation to a boolean drops must go: any byte but 0 is true.
Trunc(p, g, i, dst) ==
    LET low == CopyLow(p, g, i.a, Width(i.ty), dst)
    IN  IF i.ty = 0 THEN EmitAll(low, <<<<"movlw", 1>>, FF("andwf", dst)>>) ELSE low

-----------------------------------------------------------------------------
(* Memory, calls, terminators.                                             *)

Load(p, g, i, dst) ==
    FoldLeft(LAMBDA h, j : WStore(p, Emit(h, WF("movf", Addr(p, i.a) + j)), dst + j),
             g, UpTo(Width(i.ty)))

PARAM_A == 64
PARAM_B == 68

\* The result comes back with its last byte still in W.
SeedResult(g, n) == [g EXCEPT !.holds = RETVAL + n - 1, !.committed = TRUE]

\* i.pred is the routine, i.ty the width of the result, i.from that of the
\* operands.
Call(p, g, i, dst) ==
    LET n == Width(i.from)
        args == MoveValToSlot(p, MoveValToSlot(p, g, i.a, n, PARAM_A), i.b, n, PARAM_B)
        called == EmitAll(args, <<<<"movlw", 0>>, <<"movwf", PCLATH>>, <<"call", i.pred>>>>)
        m == Width(i.ty)
    IN  FoldLeft(LAMBDA h, j : WStore(p, WLoad(p, h, RETVAL + m - j), dst + m - j),
                 SeedResult(called, m), [j \in 1..m |-> j])

\* A global that is one bit of a byte, bit i.from.
BitLoad(p, g, i, dst) ==
    WStore(p, EmitAll(g, <<<<"movlw", 0>>, <<"btfsc", Addr(p, i.a), i.from>>, <<"movlw", 1>>>>), dst)

BitStore(p, g, i, dst) ==
    LET clr == <<"clr", g.tmp>>
        end == <<"end", g.tmp>>
        set == <<"bsf", dst, i.from>>
        clear == <<"bcf", dst, i.from>>
    IN  IF IsConst(i.a) THEN Emit(g, IF ByteK(i.a, 0) = 0 THEN clear ELSE set)
        ELSE [EmitAll(g, <<WF("movf", Addr(p, i.a)), <<"btfsc", STATUS, Z>>, <<"goto", clr>>, set,
                           <<"goto", end>>, <<"label", clr>>, clear, <<"label", end>>>>)
              EXCEPT !.tmp = @ + 1]

Ret(p, g, i) ==
    Emit(FoldLeft(LAMBDA h, j : Emit(LoadByte(p, h, i.a, j), <<"movwf", RETVAL + j>>),
                  g, UpTo(Width(i.ty))),
         <<"return">>)

Inst(p, g, i) ==
    LET dst == p.slot[i.dst]
    IN  CASE i.op = "add" -> Add(p, g, i, dst)
          [] i.op = "sub" -> Sub(p, g, i, dst)
          [] i.op \in {"and", "or", "xor"} -> Logic(p, g, i, dst)
          [] i.op \in {"shl", "lshr", "ashr"} -> Shift(p, g, i, dst)
          [] i.op = "zext" -> Zext(p, g, i, dst)
          [] i.op = "sext" -> Sext(p, g, i, dst)
          [] i.op = "trunc" -> Trunc(p, g, i, dst)
          [] i.op \in {"freeze", "store"} -> MoveValToSlot(p, g, i.a, Width(i.ty), dst)
          [] i.op = "load" -> Load(p, g, i, dst)
          [] i.op = "bitload" -> BitLoad(p, g, i, dst)
          [] i.op = "bitstore" -> BitStore(p, g, i, dst)
          [] i.op = "icmp" -> Icmp(p, g, i)
          [] i.op = "select" -> Select(p, g, i)
          [] i.op = "call" -> Call(p, g, i, dst)
          [] i.op = "ret" -> Ret(p, g, i)
          [] i.op = "br" -> BrCond(p, g, i)

-----------------------------------------------------------------------------
(* A branch on one bit: an and with a single bit, a comparison of it with  *)
(* zero and the branch on that become a test of the bit in its slot.       *)

BitsSet(v) == {b \in 0..8 * Len(v[2]) - 1 : BitOf(v[2][b \div 8 + 1], b % 8) = 1}
IsZero(v) == IsConst(v) /\ BitsSet(v) = {}

CollapseShape(p) ==
    LET n == Len(p.code)
        and == p.code[n - 2]
        cmp == p.code[n - 1]
        top == 8 * Width(and.ty) - 1
    IN  /\ n > 2
        /\ and.op = "and" /\ cmp.op = "icmp" /\ p.code[n].op = "br"
        /\ cmp.pred \in {"eq", "ne"}
        /\ {cmp.a, cmp.b} \ {<<"r", and.dst>>} # {} /\ <<"r", and.dst>> \in {cmp.a, cmp.b}
        /\ \A v \in {cmp.a, cmp.b} \ {<<"r", and.dst>>} : IsZero(v)
        /\ p.code[n].c = <<"r", cmp.dst>>
        /\ {IsConst(and.a), IsConst(and.b)} = {TRUE, FALSE}
        \* a negative mask, as a sign bit is printed, does not collapse
        /\ \E b \in 0..top - 1 : BitsSet(OtherOf(and)) = {b}
        /\ Uses(p, cmp.dst) = 1 /\ Uses(p, and.dst) = 1

\* A value read once may never reach its slot.
Collapses(p) ==
    CollapseShape(p) /\ Uses(p, RegOf(p.code[Len(p.code) - 2])[2]) >= 2

BitBranch(p, g) ==
    LET n == Len(p.code)
        and == p.code[n - 2]
        b == CHOOSE x \in BitsSet(OtherOf(and)) : TRUE
        skip == IF p.code[n - 1].pred = "ne" THEN "btfss" ELSE "btfsc"
    IN  EmitAll(g, <<<<skip, Addr(p, RegOf(and)) + b \div 8, b % 8>>, <<"goto", FalseSide>>, <<"goto", TrueSide>>>>)

\* The selector after the kth instruction of p.
Lower(p, g, k) ==
    IF ~Collapses(p) \/ k < Len(p.code) - 2 THEN Inst(p, g, p.code[k])
    ELSE IF k < Len(p.code) THEN g
    ELSE BitBranch(p, g)
=============================================================================
