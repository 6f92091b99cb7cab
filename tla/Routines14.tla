----------------------------- MODULE Routines14 -----------------------------
(***************************************************************************)
(* The PIC14 runtime routines: multiplication, division and shifts by a    *)
(* variable count, as the code their recipes emit.  A routine is           *)
(* [op, n, core]: n is the width in bytes of its operands, which the       *)
(* caller has copied to PARAM_A and PARAM_B, and core the variant the      *)
(* optimisation level picks:                                               *)
(*   mul    loop, fast (one and two bytes)                                 *)
(*   udiv urem udivmod  compact, exact, coarse (two and four bytes)        *)
(*   shl lshr ashr      loop, fast                                         *)
(***************************************************************************)
EXTENDS Lower14

SCR == 72
REM == 88

NUM == PARAM_A
DEN == PARAM_B

L(l) == <<"label", l>>
To(l) == <<"goto", l>>
LoadTo(x, k) == <<<<"movlw", k>>, <<"movwf", x>>>>
Copy(from, to) == <<WF("movf", from), <<"movwf", to>>>>
IfBit(x, b) == <<"btfss", x, b>>
IfNot(x, b) == <<"btfsc", x, b>>

\* One line per byte, low byte first.
Each(Line(_), n) == [j \in 1..n |-> Line(j - 1)]
EachAll(Lines(_), n) == FlattenSeq([j \in 1..n |-> Lines(j - 1)])

ClearW(x, n) == Each(LAMBDA j : <<"clrf", x + j>>, n)
CopyW(from, to, n) == EachAll(LAMBDA j : Copy(from + j, to + j), n)

StoreRetval(x, n) == CopyW(x, RETVAL, n) \o <<<<"return">>>>

\* d += x and d -= x in place, the borrow or carry folded by the skip.
Accumulate(d, x, n, skip, op) ==
    <<WF("movf", x), FF(op, d)>>
    \o FlattenSeq([j \in 1..n - 1 |-> <<WF("movf", x + j), skip, WF("incfsz", x + j), FF(op, d + j)>>])

AddTo(d, x, n) == Accumulate(d, x, n, UnlessC, "addwf")
SubFrom(d, x, n) == Accumulate(d, x, n, UnlessNC, "subwf")

\* Where the last byte's carry is dropped, a plain increment will do.
AddToPlain(d, x) ==
    <<WF("movf", x), FF("addwf", d), WF("movf", x + 1), UnlessC, WF("incf", x + 1),
      FF("addwf", d + 1)>>

NegateInPlace(x, n) ==
    Each(LAMBDA j : FF("comf", x + j), n) \o <<FF("incf", x)>>
    \o FlattenSeq([j \in 1..n - 1 |-> <<IfNot(STATUS, Z), FF("incf", x + j)>>])

CountDown(cnt, l) == <<FF("decfsz", cnt), To(l)>>

-----------------------------------------------------------------------------
(* Multiplication: r = a * b, shifting a up and b down.                    *)

XorSwap(x, y) ==
    <<WF("movf", y), FF("xorwf", x), WF("movf", x), FF("xorwf", y), WF("movf", y), FF("xorwf", x)>>

Mul8Fast ==
    <<<<"clrf", SCR>>>>
    \o FlattenSeq([pass \in 1..8 |->
            <<WF("movf", NUM), IfNot(DEN, 0), FF("addwf", SCR)>>
            \o (IF pass < 8 THEN <<FF("rrf", DEN), FF("addwf", NUM)>> ELSE <<>>)])
    \o StoreRetval(SCR, 1)

\* Each pass adds a << k when bit k of the low multiplier byte is set; seven
\* passes a turn, and the multiplier moves down by seven.
Mul16Fast ==
    <<WF("movf", NUM + 1), IfBit(STATUS, Z), To(<<"start">>),
      WF("movf", NUM), WF("xorwf", DEN), FF("xorwf", NUM), FF("xorwf", DEN)>>
    \o Copy(DEN + 1, NUM + 1) \o <<<<"clrf", DEN + 1>>, L(<<"start">>)>>
    \o ClearW(SCR, 2) \o <<L(<<"chain">>)>>
    \o FlattenSeq([pass \in 1..7 |->
            <<IfBit(DEN, pass - 1), To(<<"skip", pass>>)>> \o AddToPlain(SCR, NUM)
            \o <<L(<<"skip", pass>>), ClearC>> \o RotateUp(NUM, 2)])
    \o <<WF("rlf", DEN), WF("rlf", DEN + 1), <<"movwf", DEN>>, <<"clrf", DEN + 1>>,
         FF("rlf", DEN + 1), WF("iorwf", DEN + 1), IfBit(STATUS, Z), To(<<"chain">>)>>
    \o StoreRetval(SCR, 2)

\* The shorter operand is made the multiplier, by two bytes exchanged.
ShorterFirst ==
    <<WF("movf", NUM + 1), IfBit(STATUS, Z), To(<<"noswap">>),
      WF("movf", DEN + 1), IfNot(STATUS, Z), To(<<"noswap">>)>>
    \o XorSwap(NUM, DEN) \o XorSwap(NUM + 1, DEN + 1) \o <<L(<<"noswap">>)>>

AnyLeft(x, n) ==
    IF n = 1 THEN <<FF("movf", x)>> ELSE <<WF("movf", x), WF("iorwf", x + 1)>>

Mul8Loop ==
    <<<<"clrf", SCR>>, L(<<"loop">>), IfBit(DEN, 0), To(<<"skip">>), WF("movf", NUM), FF("addwf", SCR),
      L(<<"skip">>), ClearC>> \o RotateUp(NUM, 1) \o <<ClearC>> \o RotateDown(DEN, 1)
    \o AnyLeft(DEN, 1) \o <<IfBit(STATUS, Z), To(<<"loop">>)>> \o StoreRetval(SCR, 1)

Mul16Loop ==
    ShorterFirst \o ClearW(SCR, 2) \o <<L(<<"loop">>), IfBit(DEN, 0), To(<<"skip">>)>>
    \o AddTo(SCR, NUM, 2)
    \o <<L(<<"skip">>), ClearC>> \o RotateUp(NUM, 2) \o <<ClearC>> \o RotateDown(DEN, 2)
    \o AnyLeft(DEN, 2) \o <<IfBit(STATUS, Z), To(<<"loop">>)>> \o StoreRetval(SCR, 2)

\* Signed 16 by 16 to 32: the product of the bit patterns, less each operand
\* times 2^16 where the other is negative.  The multiplicand's upper half is
\* at SCR + 4.
MulS16 ==
    LET carryInto(d, x) == <<WF("movf", x), UnlessC, WF("incfsz", x), FF("addwf", d)>>
    IN  ClearW(SCR, 6)
        \o <<IfBit(NUM + 1, 7), To(<<"adone">>), WF("comf", DEN), <<"movwf", SCR + 2>>,
             WF("comf", DEN + 1), <<"movwf", SCR + 3>>, FF("incf", SCR + 2), IfNot(STATUS, Z),
             FF("incf", SCR + 3), L(<<"adone">>), IfBit(DEN + 1, 7), To(<<"bdone">>)>>
        \o SubFrom(SCR + 2, NUM, 2)
        \o <<L(<<"bdone">>), L(<<"loop">>), IfBit(DEN, 0), To(<<"skip">>)>>
        \o AddTo(SCR, NUM, 2) \o carryInto(SCR + 2, SCR + 4) \o carryInto(SCR + 3, SCR + 5)
        \o <<L(<<"skip">>), ClearC>> \o RotateUp(NUM, 2) \o RotateUp(SCR + 4, 2)
        \o <<ClearC>> \o RotateDown(DEN, 2) \o AnyLeft(DEN, 2)
        \o <<IfBit(STATUS, Z), To(<<"loop">>)>> \o StoreRetval(SCR, 4)

\* Sixteen turns over each half of the multiplier.
Mul32 ==
    LET turn(half) ==
            CopyW(DEN + 2 * half, SCR, 2) \o LoadTo(SCR + 2, 16)
            \o <<L(<<"loop", half>>), IfBit(SCR, 0), To(<<"skip", half>>)>>
            \o AddTo(SCR + 3, SCR + 7, 4)
            \o <<L(<<"skip", half>>), ClearC>> \o RotateUp(SCR + 7, 4) \o <<ClearC>>
            \o RotateDown(SCR, 2) \o CountDown(SCR + 2, <<"loop", half>>)
    IN  ClearW(SCR + 3, 4) \o CopyW(NUM, SCR + 7, 4) \o turn(0) \o turn(1)
        \o StoreRetval(SCR + 3, 4)

-----------------------------------------------------------------------------
(* Restoring division: the dividend shifts up into the remainder, and the  *)
(* quotient's bits take its place.                                         *)

\* The one-byte divide keeps a second remainder byte for the carry.
BorrowByte(skip) == <<<<"movlw", 0>>, skip, <<"addlw", 1>>>>
TakeDen(rem, den, n) ==
    IF n > 1 THEN SubFrom(rem, den, n)
    ELSE <<WF("movf", den), FF("subwf", rem)>> \o BorrowByte(UnlessNC) \o <<FF("subwf", rem + 1)>>
GiveBack(rem, den, n) ==
    IF n > 1 THEN AddTo(rem, den, n)
    ELSE <<WF("movf", den), FF("addwf", rem)>> \o BorrowByte(UnlessC) \o <<FF("addwf", rem + 1)>>

RemWidth(n) == IF n = 1 THEN 2 ELSE n
ShiftIn(rem, n) == <<ClearC>> \o RotateUp(NUM, n) \o RotateUp(rem, RemWidth(n))

\* The count is stepped in W, and the counter byte keeps its value.
DivideForever(rem, den, cnt, n) ==
    <<L(<<"loop">>)>> \o ShiftIn(rem, n) \o TakeDen(rem, den, n)
    \o <<IfBit(STATUS, C), To(<<"restore">>), <<"bsf", NUM, 0>>, To(<<"next">>), L(<<"restore">>)>>
    \o GiveBack(rem, den, n) \o <<L(<<"next">>), WF("decfsz", cnt), To(<<"loop">>)>>

DivideLoop(rem, den, cnt, n) ==
    <<L(<<"loop">>)>> \o ShiftIn(rem, n) \o TakeDen(rem, den, n)
    \o <<IfBit(STATUS, C), To(<<"restore">>), <<"bsf", NUM, 0>>, To(<<"next">>), L(<<"restore">>)>>
    \o GiveBack(rem, den, n) \o <<L(<<"next">>)>> \o CountDown(cnt, <<"loop">>)

\* Four bytes keep the counter above the copy of the divisor.
CNT(n) == IF n = 4 THEN SCR + 8 ELSE SCR + 2

Compact(rem, den, cnt, n) ==
    ClearW(rem, RemWidth(n)) \o LoadTo(cnt, 8 * n) \o DivideLoop(rem, den, cnt, n)

\* W = the bit length of the byte at x.
BitLen8(x, id) ==
    FlattenSeq([k \in 1..7 |->
        <<IfBit(x, 8 - k), To(<<"below", id, k>>), <<"movlw", 9 - k>>, To(<<"len", id>>),
          L(<<"below", id, k>>)>>])
    \o <<IfBit(x, 0), To(<<"zero", id>>), <<"movlw", 1>>, To(<<"len", id>>),
         L(<<"zero", id>>), <<"movlw", 0>>, L(<<"len", id>>)>>

\* The bit length of an n-byte value, from its highest byte that is not 0.
BitLen(x, n, dst, tmp, base, id) ==
    FlattenSeq([k \in 1..n - 1 |->
        <<WF("movf", x + n - k), IfNot(STATUS, Z), To(<<"byte", id, k>>), <<"movwf", tmp>>>>
        \o LoadTo(base, 8 * (n - k)) \o <<To(<<"top", id>>), L(<<"byte", id, k>>)>>])
    \o Copy(x, tmp) \o <<<<"clrf", base>>, L(<<"top", id>>)>>
    \o BitLen8(tmp, id) \o <<WF("addwf", base), <<"movwf", dst>>>>

AnyByte(x, n) == <<WF("movf", x)>> \o [j \in 1..n - 1 |-> WF("iorwf", x + j)]

\* Whole bytes first, where there are four.
BytePrescale(rem, cnt) ==
    <<L(<<"pb">>), <<"movlw", 8>>, WF("subwf", cnt), IfBit(STATUS, C), To(<<"pbits">>), <<"movwf", cnt>>>>
    \o Copy(rem + 2, rem + 3) \o Copy(rem + 1, rem + 2) \o Copy(rem, rem + 1) \o Copy(NUM + 3, rem)
    \o Copy(NUM + 2, NUM + 3) \o Copy(NUM + 1, NUM + 2) \o Copy(NUM, NUM + 1)
    \o <<<<"clrf", NUM>>, To(<<"pb">>), L(<<"pbits">>), WF("movf", cnt)>>

\* Runs exactly the quotient's significant bits: k of them, the others
\* shifted in beforehand.
Exact(rem, n, k, bl, tmp) ==
    LET cnt == CNT(n)
    IN  AnyByte(DEN, n) \o <<IfBit(STATUS, Z), To(<<"bl">>)>> \o LoadTo(k, 8 * n)
        \o <<To(<<"pre">>), L(<<"bl">>)>>
        \o BitLen(DEN, n, bl, tmp, tmp + 1, "d") \o BitLen(NUM, n, cnt, tmp, tmp + 1, "n")
        \o <<WF("movf", bl), WF("subwf", cnt), IfBit(STATUS, C), To(<<"none">>), <<"addlw", 1>>,
             <<"movwf", k>>, L(<<"pre">>)>>
        \o ClearW(rem, n) \o <<WF("movf", k), <<"sublw", 8 * n>>, <<"movwf", cnt>>>>
        \o (IF n = 4 THEN BytePrescale(rem, cnt) ELSE <<>>)
        \o <<IfNot(STATUS, Z), To(<<"run">>), L(<<"ps">>)>> \o ShiftIn(rem, n) \o CountDown(cnt, <<"ps">>)
        \o <<L(<<"run">>)>> \o Copy(k, cnt) \o DivideLoop(rem, DEN, cnt, n)
        \o <<To(<<"tail">>), L(<<"none">>)>> \o CopyW(NUM, rem, n) \o ClearW(NUM, n) \o <<L(<<"tail">>)>>

\* A divisor known to be large leaves fewer quotient bits to find.
CoarseHead(rem, n) ==
    ClearW(rem, n)
    \o (IF n = 2
        THEN <<<<"movlw", 64>>, WF("subwf", DEN), IfNot(STATUS, C), To(<<"far">>),
               <<"movlw", 8>>, WF("subwf", DEN), IfNot(STATUS, C), To(<<"near">>)>>
        ELSE <<WF("movf", DEN + 3), WF("iorwf", DEN + 2), IfBit(STATUS, Z), To(<<"far">>),
               FF("movf", DEN + 1), IfBit(STATUS, Z), To(<<"near">>)>>)
    \o LoadTo(CNT(n), 8 * n) \o DivideLoop(rem, DEN, CNT(n), n)

CoarseTails(rem, n) ==
    LET bits(l, t) ==
            <<L(l)>> \o LoadTo(CNT(2), t) \o <<L(<<"pre", l>>)>> \o ShiftIn(rem, 2)
            \o CountDown(CNT(2), <<"pre", l>>) \o LoadTo(CNT(2), 16 - t) \o <<To(<<"loop">>)>>
    IN  IF n = 2 THEN bits(<<"far">>, 4) \o bits(<<"near">>, 3)
        ELSE <<L(<<"far">>)>> \o Copy(NUM + 2, rem) \o Copy(NUM + 3, rem + 1) \o Copy(NUM, NUM + 2)
             \o Copy(NUM + 1, NUM + 3) \o ClearW(NUM, 2) \o LoadTo(CNT(4), 16)
             \o <<To(<<"loop">>), L(<<"near">>)>> \o Copy(NUM + 3, rem) \o Copy(NUM + 2, NUM + 3)
             \o Copy(NUM + 1, NUM + 2) \o Copy(NUM, NUM + 1) \o <<<<"clrf", NUM>>>>
             \o LoadTo(CNT(4), 24) \o <<To(<<"loop">>)>>

\* The answer a divide returns, the other half spilled by the fused ones.
DivAnswer(op, rem, n) ==
    IF op \in {"urem", "srem"} THEN StoreRetval(rem, n)
    ELSE (IF op \in {"udivmod", "sdivmod"} THEN CopyW(rem, REM, n) ELSE <<>>) \o StoreRetval(NUM, n)

Unsigned(op, n, core) ==
    CASE core = "compact" ->
            (IF n = 4 THEN CopyW(DEN, SCR + 4, 4) ELSE <<>>)
            \o Compact(SCR, IF n = 4 THEN SCR + 4 ELSE DEN, CNT(n), n) \o DivAnswer(op, SCR, n)
      [] core = "exact" ->
            (IF n = 2 THEN Exact(SCR, 2, SCR + 3, SCR + 4, SCR + 5)
             ELSE Exact(SCR, 4, SCR + 4, SCR + 5, SCR + 6)) \o DivAnswer(op, SCR, n)
      [] core = "coarse" -> CoarseHead(SCR, n) \o DivAnswer(op, SCR, n) \o CoarseTails(SCR, n)

\* Divide the magnitudes; the quotient is negative when the signs differ,
\* the remainder when the dividend is.
Signed(op, n) ==
    LET flags == IF n = 4 THEN SCR + 10 ELSE SCR
        rem == IF n = 4 THEN SCR ELSE SCR + 1
        cnt == IF n = 4 THEN SCR + 8 ELSE SCR + 3
        den == IF n = 4 THEN SCR + 4 ELSE DEN
        fix(x, b, l) == <<IfBit(flags, b), To(l)>> \o NegateInPlace(x, n) \o <<L(l)>>
    IN  <<<<"clrf", flags>>, IfBit(NUM + n - 1, 7), To(<<"den">>), <<"bsf", flags, 1>>, <<"bsf", flags, 0>>>>
        \o NegateInPlace(NUM, n) \o <<L(<<"den">>), IfBit(DEN + n - 1, 7), To(<<"go">>)>>
        \o NegateInPlace(DEN, n) \o <<<<"movlw", 1>>, FF("xorwf", flags), L(<<"go">>)>>
        \o (IF n = 4 THEN CopyW(DEN, den, 4) ELSE <<>>)
        \o Compact(rem, den, cnt, n)
        \o (IF op # "srem" THEN fix(NUM, 0, <<"store">>) ELSE <<>>)
        \o (IF op # "sdiv" THEN fix(rem, 1, <<"rem">>) ELSE <<>>)
        \o DivAnswer(op, rem, n)

-----------------------------------------------------------------------------
(* Shifts by a variable count, taken modulo the width.                     *)

ByteMove(op, n, k) ==
    LET top == NUM + n - 1
        vacated == [j \in 1..k |-> IF op = "shl" THEN NUM + j - 1 ELSE NUM + n - k + j - 1]
        clear == [j \in 1..k |-> <<"clrf", vacated[j]>>]
    IN  (IF op = "shl" THEN EachAll(LAMBDA j : Copy(NUM + n - k - 1 - j, top - j), n - k)
         ELSE EachAll(LAMBDA j : Copy(NUM + k + j, NUM + j), n - k))
        \o (IF op # "ashr" THEN clear
            ELSE <<IfNot(top, 7), To(<<"neg", k>>)>> \o clear
                 \o <<To(<<"filled", k>>), L(<<"neg", k>>), <<"movlw", 255>>>>
                 \o [j \in 1..k |-> <<"movwf", vacated[j]>>] \o <<L(<<"filled", k>>)>>)

Stage(op, n, bit, k) ==
    <<IfBit(SCR, bit), To(<<"clear", bit>>)>> \o ByteMove(op, n, k)
    \o <<<<"bcf", SCR, bit>>, L(<<"clear", bit>>)>>

BytePrefix(op, n, fast) ==
    (IF n = 4 THEN Stage(op, n, 4, 2) ELSE <<>>) \o (IF fast THEN Stage(op, n, 3, 1) ELSE <<>>)

ShiftBody(op, n, fast) ==
    <<WF("movf", DEN), <<"andlw", 8 * n - 1>>, <<"movwf", SCR>>>>
    \o (IF n > 1 /\ (fast \/ (n = 4 /\ op # "ashr")) THEN BytePrefix(op, n, fast) ELSE <<>>)
    \o <<FF("movf", SCR), IfNot(STATUS, Z), To(<<"done">>), L(<<"loop">>)>>
    \o ShiftOnce(op, NUM, n) \o CountDown(SCR, <<"loop">>) \o <<L(<<"done">>)>> \o StoreRetval(NUM, n)

-----------------------------------------------------------------------------
RoutineCode(r) ==
    CASE r.op = "mul" ->
            (CASE r.n = 1 -> IF r.core = "fast" THEN Mul8Fast ELSE Mul8Loop
               [] r.n = 2 -> IF r.core = "fast" THEN Mul16Fast ELSE Mul16Loop
               [] OTHER -> Mul32)
      [] r.op = "smul" -> MulS16
      [] r.op \in {"udiv", "urem", "udivmod"} -> Unsigned(r.op, r.n, r.core)
      [] r.op \in {"sdiv", "srem", "sdivmod"} -> Signed(r.op, r.n)
      [] r.op \in {"shl", "lshr", "ashr"} -> ShiftBody(r.op, r.n, r.core = "fast")
=============================================================================
