------------------------------- MODULE Mcu14 -------------------------------
(***************************************************************************)
(* The mid-range core's arithmetic: the working register W, the carry and  *)
(* zero flags of STATUS, and file registers, one byte each.  An            *)
(* instruction is a tuple:                                                 *)
(*   <<"movlw", k>> ... <<"xorlw", k>>    literal, to W                    *)
(*   <<"movf", f, d>> ... <<"rrf", f, d>> file register, to d ("w" or "f") *)
(*   <<"movwf", f>>  <<"clrf", f>>                                         *)
(*   <<"btfsc", f, b>> <<"btfss", f, b>> <<"bcf", f, b>> <<"bsf", f, b>>   *)
(*   <<"label", l>>  <<"goto", l>>  <<"call", r>>  <<"return">>            *)
(* STATUS can be named as a file by the bit instructions only.  Banks,     *)
(* pages and the digit carry are left out: no recipe here reads them.      *)
(***************************************************************************)
EXTENDS Integers, Sequences

CONSTANT Cells      \* the file registers in use

Byte == 0..255
STATUS == 3
C == 0
Z == 2

BitOf(x, b) == (x \div 2^b) % 2

NibbleAnd ==
    [q \in (0..15) \X (0..15) |->
        BitOf(q[1], 0) * BitOf(q[2], 0) + 2 * (BitOf(q[1], 1) * BitOf(q[2], 1))
        + 4 * (BitOf(q[1], 2) * BitOf(q[2], 2)) + 8 * (BitOf(q[1], 3) * BitOf(q[2], 3))]

AndB(x, y) == 16 * NibbleAnd[<<x \div 16, y \div 16>>] + NibbleAnd[<<x % 16, y % 16>>]
OrB(x, y) == x + y - AndB(x, y)
XorB(x, y) == x + y - 2 * AndB(x, y)

LiteralOps == {"movlw", "addlw", "sublw", "andlw", "iorlw", "xorlw"}
SkipOps == {"btfsc", "btfss", "incfsz", "decfsz"}
FileOps == {"movf", "addwf", "subwf", "andwf", "iorwf", "xorwf", "incf", "decf", "comf",
            "incfsz", "decfsz", "rlf", "rrf"}
BitOps == {"btfsc", "btfss", "bcf", "bsf"}

\* The lines there are.
IsLine(i) ==
    \/ i[1] \in LiteralOps /\ i[2] \in Byte
    \/ i[1] \in {"movwf", "clrf"} /\ i[2] \in Cells
    \/ i[1] \in FileOps /\ i[2] \in Cells /\ i[3] \in {"w", "f"}
    \/ i[1] \in BitOps /\ i[2] \in Cells /\ i[3] \in 0..7
    \/ i[1] \in BitOps /\ i[2] = STATUS /\ i[3] \in {C, Z}
    \/ i[1] \in {"label", "goto", "call", "return"}

\* The byte an instruction computes from its operand x, W and the carry.
Value(op, x, w, c) ==
    CASE op \in {"movlw", "movf"} -> x
      [] op \in {"addlw", "addwf"} -> (x + w) % 256
      [] op \in {"sublw", "subwf"} -> (x - w) % 256
      [] op \in {"andlw", "andwf"} -> AndB(x, w)
      [] op \in {"iorlw", "iorwf"} -> OrB(x, w)
      [] op \in {"xorlw", "xorwf"} -> XorB(x, w)
      [] op \in {"incf", "incfsz"} -> (x + 1) % 256
      [] op \in {"decf", "decfsz"} -> (x - 1) % 256
      [] op = "comf" -> 255 - x
      [] op = "rlf" -> ((2 * x) % 256) + c
      [] op = "rrf" -> (x \div 2) + 128 * c

\* C is the carry of an addition and the absence of a borrow.
Carry(op, x, w, c) ==
    CASE op \in {"addlw", "addwf"} -> (x + w) \div 256
      [] op \in {"sublw", "subwf"} -> IF x >= w THEN 1 ELSE 0
      [] op = "rlf" -> x \div 128
      [] op = "rrf" -> x % 2
      [] OTHER -> c

Zero(op, v, z) ==
    IF op \in {"movlw", "rlf", "rrf", "incfsz", "decfsz"} THEN z
    ELSE IF v = 0 THEN 1 ELSE 0

Bit(m, f, b) == IF f = STATUS THEN (IF b = C THEN m.c ELSE m.z) ELSE BitOf(m.mem[f], b)

SetBit(m, f, b, to) ==
    IF f = STATUS THEN (IF b = C THEN [m EXCEPT !.c = to] ELSE [m EXCEPT !.z = to])
    ELSE [m EXCEPT !.mem[f] = @ + (to - BitOf(@, b)) * 2^b]

Alu(m, op, x, toFile, f) ==
    LET v == Value(op, x, m.w, m.c)
        n == [m EXCEPT !.c = Carry(op, x, m.w, m.c), !.z = Zero(op, v, m.z)]
    IN  IF toFile THEN [n EXCEPT !.mem[f] = v] ELSE [n EXCEPT !.w = v]

\* One instruction that is not a label or a transfer.
Exec(m, i) ==
    LET op == i[1]
        f == i[2]
    IN  CASE op = "movwf" -> [m EXCEPT !.mem[f] = m.w]
          [] op = "clrf" -> [m EXCEPT !.mem[f] = 0, !.z = 1]
          [] op \in {"btfsc", "btfss"} -> m
          [] op = "bcf" -> SetBit(m, f, i[3], 0)
          [] op = "bsf" -> SetBit(m, f, i[3], 1)
          [] op \in LiteralOps -> Alu(m, op, f, FALSE, f)
          [] OTHER -> Alu(m, op, m.mem[f], i[3] = "f", f)

\* Whether the instruction after i is skipped.
Skips(m, i) ==
    CASE i[1] = "btfsc" -> Bit(m, i[2], i[3]) = 0
      [] i[1] = "btfss" -> Bit(m, i[2], i[3]) = 1
      [] i[1] \in {"incfsz", "decfsz"} -> Value(i[1], m.mem[i[2]], m.w, m.c) = 0
      [] OTHER -> FALSE

-----------------------------------------------------------------------------
(* A turn: instructions of code one after another, at most max of them,    *)
(* up to its end, a call, a return, a jump backward or a jump out.         *)

Machine(cells) == [w : Byte, c : 0..1, z : 0..1, mem : [cells -> Byte]]

AtTurnsEnd(code, s) ==
    s.pc > Len(code) \/ s.left = 0 \/ code[s.pc][1] \in {"call", "return"}

Step(code, s) ==
    LET i == code[s.pc]
        at == {j \in DOMAIN code : i[1] = "goto" /\ code[j] = <<"label", i[2]>>}
        to == CHOOSE j \in at : TRUE
    IN  IF i[1] = "label" THEN [s EXCEPT !.pc = @ + 1, !.left = @ - 1]
        ELSE IF i[1] # "goto"
        THEN [m |-> Exec(s.m, i), pc |-> s.pc + (IF Skips(s.m, i) THEN 2 ELSE 1), left |-> s.left - 1]
        ELSE IF at = {} THEN [s EXCEPT !.left = 0]
        ELSE [s EXCEPT !.pc = to, !.left = IF to < s.pc THEN 0 ELSE @ - 1]

TurnOf(cells, max, code, m, pc) ==
    LET run[s \in [m : Machine(cells), pc : 1..Len(code) + 2, left : 0..max]] ==
            IF AtTurnsEnd(code, s) THEN s ELSE run[Step(code, s)]
    IN  run[[m |-> m, pc |-> pc, left |-> max]]
=============================================================================
