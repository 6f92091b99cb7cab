----------------------------- MODULE Recipes14 -----------------------------
(***************************************************************************)
(* The code the PIC14 selector emits, run on the core's arithmetic beside  *)
(* what the IR says.  The selector takes the next IR instruction when the  *)
(* machine has reached the end of what is emitted, so that its beliefs     *)
(* about W, the flags and the slots can be held against the machine at     *)
(* that point; between two instructions an interrupt handler may rewrite a *)
(* global.                                                                 *)
(*                                                                         *)
(* A program is [code, slot, globals, input]: input gives the registers    *)
(* and globals set before the first instruction and the bytes they may     *)
(* hold.                                                                   *)
(***************************************************************************)
EXTENDS Routines14, Words

CONSTANTS Programs,         \* the programs, see above
          Routines,         \* the runtime routines they call
          Junk,             \* what a file register and W hold at first
          MaxInterrupts,    \* bound on the handler's runs in one behaviour
          MaxTurn           \* machine instructions run in one step, at most

-----------------------------------------------------------------------------
(* What LLVM and the allocator guarantee of a program.  An operation has   *)
(* an operand in a register: LLVM folds it otherwise, and the selector     *)
(* relies on it (isel/src/lib.rs:2868, 3050, 2405).                        *)

BytesOf(x, n) == x..x + n - 1
InSlot(p, r, n) == r \in DOMAIN p.slot /\ BytesOf(p.slot[r], n) \subseteq Cells

IsRegister(p, v, n) == v[1] = "r" /\ InSlot(p, v[2], n)
IsOperand(p, v, n) ==
    \/ v[1] = "k" /\ v[2] \in Seq(Byte) /\ Len(v[2]) >= n
    \/ IsRegister(p, v, n)
HasRegister(p, i) == IsRegister(p, i.a, 1) \/ IsRegister(p, i.b, 1)

\* Operands of the width the operation takes, a result in its slot.  The
\* results of logic are not globals, and no call's result is put where the
\* routine returns it.
IsInst(p, i) ==
    LET n == Width(i.ty)
        w == Width(i.from)
    IN  /\ i.ty \in 0..4
        /\ i.op \notin {"br", "ret"} => InSlot(p, i.dst, n)
        /\ i.op \in {"add", "sub", "and", "or", "xor", "icmp"} =>
              IsOperand(p, i.a, n) /\ IsOperand(p, i.b, n) /\ HasRegister(p, i)
        /\ i.op \in {"and", "or", "xor"} => BytesOf(p.slot[i.dst], n) \intersect GlobalBytes(p) = {}
        /\ i.op \in {"shl", "lshr", "ashr"} =>
              IsOperand(p, i.a, n) /\ i.b[2][1] \in 0..8 * n - 1
        /\ i.op = "zext" => IsOperand(p, i.a, w) /\ i.from \in 0..4 /\ w <= n
        /\ i.op = "sext" => IsRegister(p, i.a, w) /\ i.from \in 0..4 /\ w <= n
        /\ i.op \in {"trunc", "freeze", "store", "ret"} => IsOperand(p, i.a, n)
        /\ i.op = "load" => IsRegister(p, i.a, n)
        /\ i.op = "bitload" => IsRegister(p, i.a, 1) /\ i.from \in 0..7
        /\ i.op = "bitstore" => IsOperand(p, i.a, 1) /\ i.from \in 0..7
        /\ i.op = "icmp" =>
              i.pred \in {"eq", "ne", "ult", "uge", "ugt", "ule", "slt", "sge", "sgt", "sle"}
        /\ i.op = "select" => IsOperand(p, i.a, n) /\ IsOperand(p, i.b, n)
        /\ i.op \in {"select", "br"} => IsOperand(p, i.c, 1)
        /\ i.op = "call" =>
              /\ IsOperand(p, i.a, w) /\ IsOperand(p, i.b, w) /\ i.from \in 0..4
              /\ i.pred \in Routines /\ p.slot[i.dst] # RETVAL

Ops == {"add", "sub", "and", "or", "xor", "shl", "lshr", "ashr", "zext", "sext", "trunc",
        "freeze", "store", "load", "bitload", "bitstore", "icmp", "select", "call", "ret", "br"}

IsProgram(p) ==
    /\ p.code \in Seq({p.code[j] : j \in DOMAIN p.code})
    /\ \A j \in DOMAIN p.code : p.code[j].op \in Ops /\ IsInst(p, p.code[j])
    /\ \A x \in DOMAIN p.slot : p.slot[x] \in Nat
    /\ DOMAIN p.globals \subseteq DOMAIN p.input /\ DOMAIN p.input \subseteq DOMAIN p.slot
    /\ \A x \in DOMAIN p.input : p.input[x] \subseteq Seq(Byte)
    /\ \A x \in DOMAIN p.globals : \A v \in p.input[x] : Len(v) = p.globals[x]

\* The cells the recipes name themselves.
Named == {SCRATCH, PCLATH} \union BytesOf(RETVAL, 4) \union BytesOf(PARAM_A, 4) \union BytesOf(PARAM_B, 4)

ASSUME CellsAssumption ==
    Cells \subseteq Nat \ {None, STATUS} /\ Named \subseteq Cells /\ Junk \in Byte /\ MaxTurn \in Nat
ASSUME ProgramsAssumption == \A p \in Programs : IsProgram(p)
\* Every line of a routine is an instruction over the cells.
ASSUME RoutinesAssumption ==
    \A r \in Routines :
        LET code == RoutineCode(r)
        IN  /\ Len(code) \in Nat /\ DOMAIN code = 1..Len(code)
            /\ \A j \in DOMAIN code : IsLine(code[j])

VARIABLES prog, k, g, m, pc, call, val, exit, interrupts
vars == <<prog, k, g, m, pc, call, val, exit, interrupts>>

-----------------------------------------------------------------------------
(* What the IR says: val[r] is the value of r, low byte first.             *)

Of(v, n) == IF IsConst(v) THEN SubSeq(v[2], 1, n) ELSE val[v[2]]
IsTrue(x) == x # Zeros(Len(x))
Truth(b) == IF b THEN <<1>> ELSE <<0>>

Compare(pred, a, b) ==
    CASE pred = "eq" -> a = b [] pred = "ne" -> a # b
      [] pred = "ult" -> LessU(a, b) [] pred = "uge" -> ~LessU(a, b)
      [] pred = "ugt" -> LessU(b, a) [] pred = "ule" -> ~LessU(b, a)
      [] pred = "slt" -> LessS(a, b) [] pred = "sge" -> ~LessS(a, b)
      [] pred = "sgt" -> LessS(b, a) [] pred = "sle" -> ~LessS(b, a)

Bytewise(Op(_, _), a, b) == [j \in DOMAIN a |-> Op(a[j], b[j])]

NegateIf(x, neg) == IF neg THEN Negate(x) ELSE x
DivideS(a, b) ==
    LET d == DivideW(Absolute(a), Absolute(b))
    IN  [quo |-> NegateIf(d.quo, Sign(a) # Sign(b)), rem |-> NegateIf(d.rem, Sign(a) = 1)]

\* A variable count is taken modulo the width, which is a power of two.
CountOf(b, n) == b[1] % (8 * n)

CallValue(r, a, b) ==
    CASE r.op = "mul" -> MulW(a, b)
      [] r.op = "smul" -> MulW(SignExtend(a, 4), SignExtend(b, 4))
      [] r.op \in {"udiv", "udivmod"} -> DivideW(a, b).quo
      [] r.op = "urem" -> DivideW(a, b).rem
      [] r.op \in {"sdiv", "sdivmod"} -> DivideS(a, b).quo
      [] r.op = "srem" -> DivideS(a, b).rem
      [] r.op = "shl" -> Shl(a, CountOf(b, r.n))
      [] r.op = "lshr" -> Lshr(a, CountOf(b, r.n))
      [] r.op = "ashr" -> Ashr(a, CountOf(b, r.n))

\* The remainder a fused divide spills.
Spilled(r, a, b) == IF r.op = "udivmod" THEN DivideW(a, b).rem ELSE DivideS(a, b).rem

Meaning(i) ==
    LET n == Width(i.ty)
        a == Of(i.a, n)
        b == Of(i.b, n)
    IN  CASE i.op = "add" -> AddW(a, b)
          [] i.op = "sub" -> SubW(a, b)
          [] i.op = "and" -> Bytewise(AndB, a, b)
          [] i.op = "or" -> Bytewise(OrB, a, b)
          [] i.op = "xor" -> Bytewise(XorB, a, b)
          [] i.op = "shl" -> Shl(a, ByteK(i.b, 0))
          [] i.op = "lshr" -> Lshr(a, ByteK(i.b, 0))
          [] i.op = "ashr" -> Ashr(a, ByteK(i.b, 0))
          [] i.op = "zext" -> ZeroExtend(a, n)
          [] i.op = "sext" -> SignExtend(a, n)
          [] i.op = "trunc" -> IF i.ty = 0 THEN <<a[1] % 2>> ELSE SubSeq(a, 1, n)
          [] i.op \in {"freeze", "load", "store"} -> a
          [] i.op = "bitload" -> <<BitOf(a[1], i.from)>>
          [] i.op = "bitstore" -> [val[i.dst] EXCEPT ![1] =
                @ + 2^i.from * ((IF IsTrue(a) THEN 1 ELSE 0) - BitOf(@, i.from))]
          [] i.op = "icmp" -> Truth(Compare(i.pred, a, b))
          [] i.op = "select" -> IF IsTrue(Of(i.c, 1)) THEN a ELSE b
          [] i.op = "call" -> CallValue(i.pred, a, b)

Assigns(i) == i.op \notin {"br", "ret"}
Fused(i) == i.op = "call" /\ i.pred.op \in {"udivmod", "sdivmod"}

After(i) ==
    IF ~Assigns(i) THEN val
    ELSE (i.dst :> Meaning(i)) @@ val
         @@ (IF Fused(i) THEN "rem" :> Spilled(i.pred, Of(i.a, i.pred.n), Of(i.b, i.pred.n))
             ELSE <<>>)

-----------------------------------------------------------------------------
(* The machine.                                                            *)

Library == [r \in Routines |-> RoutineCode(r)]

Running == call # <<>>
Idle == ~Running /\ exit = <<>> /\ pc > Len(g.out)

-----------------------------------------------------------------------------
Init ==
    /\ prog \in Programs
    /\ \E v \in [DOMAIN prog.input -> UNION {prog.input[x] : x \in DOMAIN prog.input}] :
        /\ \A x \in DOMAIN v : v[x] \in prog.input[x]
        /\ val = v
        /\ m = [w |-> Junk, c |-> Junk % 2, z |-> Junk % 2,
                mem |-> [f \in Cells |->
                    IF \E x \in DOMAIN v : f - prog.slot[x] + 1 \in DOMAIN v[x]
                    THEN LET x == CHOOSE y \in DOMAIN v : f - prog.slot[y] + 1 \in DOMAIN v[y]
                         IN  v[x][f - prog.slot[x] + 1]
                    ELSE Junk]]
    /\ k = 1
    /\ g = NewGen
    /\ pc = 1
    /\ call = <<>>
    /\ exit = <<>>
    /\ interrupts = 0

\* The next IR instruction is lowered.
LowerNext ==
    /\ Idle /\ k <= Len(prog.code)
    /\ g' = Lower(prog, g, k)
    /\ val' = After(prog.code[k])
    /\ k' = k + 1
    /\ UNCHANGED <<prog, m, pc, call, exit, interrupts>>

\* What the emitted code stands at: a call, a return, a jump out, or none.
At(code, p) == IF p <= Len(code) THEN code[p] ELSE <<"end">>
Leaves(code, i) ==
    i[1] = "goto" /\ \A j \in DOMAIN code : code[j] # <<"label", i[2]>>

\* The emitted code runs, up to a call or the end of the program.
Turn ==
    LET done == TurnOf(Cells, MaxTurn, g.out, m, pc)
        i == At(g.out, done.pc)
    IN  /\ ~Running /\ exit = <<>> /\ pc <= Len(g.out)
        /\ m' = done.m
        /\ pc' = IF i[1] = "call" THEN done.pc + 1 ELSE done.pc
        /\ call' = IF i[1] = "call" THEN <<i[2], 1>> ELSE <<>>
        /\ exit' = IF i[1] = "return" THEN <<"return">>
                   ELSE IF Leaves(g.out, i) THEN i[2] ELSE <<>>
        /\ UNCHANGED <<prog, k, g, val, interrupts>>

\* A routine runs, up to a turn of a loop or its return.
RoutineTurn ==
    LET code == Library[call[1]]
        done == TurnOf(Cells, MaxTurn, code, m, call[2])
    IN  /\ Running
        /\ m' = done.m
        /\ call' = IF At(code, done.pc)[1] = "return" THEN <<>> ELSE <<call[1], done.pc>>
        /\ UNCHANGED <<prog, k, g, pc, val, exit, interrupts>>

\* The handler rewrites a global, and leaves W and STATUS as they were.
Interrupt ==
    /\ Idle /\ k <= Len(prog.code) /\ interrupts < MaxInterrupts
    /\ \E x \in DOMAIN prog.globals, v \in UNION {prog.input[y] : y \in DOMAIN prog.globals} :
        /\ v \in prog.input[x]
        /\ val' = [val EXCEPT ![x] = v]
        /\ m' = [m EXCEPT !.mem = [f \in Cells |->
                    IF f - prog.slot[x] + 1 \in DOMAIN v THEN v[f - prog.slot[x] + 1] ELSE @[f]]]
    /\ interrupts' = interrupts + 1
    /\ UNCHANGED <<prog, k, g, pc, call, exit>>

Done == k > Len(prog.code) /\ (Idle \/ exit # <<>>)
Finished == Done /\ UNCHANGED vars

Next == LowerNext \/ Turn \/ RoutineTurn \/ Interrupt \/ Finished

\* The core runs on whatever the handler does: weak fairness of LowerNext,
\* Turn and RoutineTurn together, one of which is enabled until Done and
\* which alone change vars and leave interrupts as it is.
CoreRuns == []<>Done \/ []<><<UNCHANGED interrupts>>_vars

Spec == Init /\ [][Next]_vars /\ CoreRuns

-----------------------------------------------------------------------------
(* Properties.                                                             *)

\* Type invariant: the machine's registers are bytes and bits, every address
\* the selector believes something of is a cell, and the flag it remembers is
\* the carry or zero.
TypeOK ==
    /\ m.w \in Byte /\ m.c \in 0..1 /\ m.z \in 0..1
    /\ \A f \in Cells : m.mem[f] \in Byte
    /\ g.holds \in Cells \union {None} /\ g.defer \in Cells \union {None}
    /\ g.rel = <<>> \/ (g.rel[1] \in {C, Z} /\ g.rel[2] \in SkipOps)
    /\ exit \in {<<>>, TrueSide, FalseSide, <<"return">>}
    /\ pc \in 1..Len(g.out) + 1 /\ k \in 1..Len(prog.code) + 1

\* What the selector believes when it lowers the next instruction is so: a
\* committed cell has W's value; a comparison's flag still tells its boolean,
\* which is in W; and a tail that is taken to have set the zero flag from W
\* has.  Each belief lets later code leave out a load, a store or a test
\* (emit_w_load, emit_w_store, alu_result_fresh, emit_cond_branch).
BeliefHolds ==
    Idle =>
        /\ g.holds # None /\ g.committed => m.mem[g.holds] = m.w
        /\ g.rel # <<>> => m.w = (IF g.rel[2] = "btfss" THEN Bit(m, STATUS, g.rel[1])
                                  ELSE 1 - Bit(m, STATUS, g.rel[1]))
        /\ AluResultFresh(g) => m.z = (IF m.w = 0 THEN 1 ELSE 0)

Reads(i) == {i[s][2] : s \in {t \in {"a", "b", "c"} : i[t] # <<>> /\ ~IsConst(i[t])}}

\* The results a collapsed branch never computes.
Elided ==
    IF ~Collapses(prog) THEN {}
    ELSE {prog.code[j].dst : j \in Len(prog.code) - 2..Len(prog.code) - 1}

Live ==
    DOMAIN val \intersect
        ((UNION {Reads(prog.code[j]) : j \in k..Len(prog.code)} \ Elided)
         \union DOMAIN prog.globals \union {"rem"})

ByteAt(f) == IF g.defer = f THEN m.w ELSE m.mem[f]

\* Every value a later instruction reads, every global, and the remainder a
\* fused divide spills, is what the IR says: in its slot, or in W where its
\* store has been put off.  It is the recipes' carries, borrows, aliased
\* destinations and elided loads that could make it otherwise.
ValuesHold ==
    Idle => \A r \in Live : \A j \in DOMAIN val[r] : ByteAt(prog.slot[r] + j - 1) = val[r][j]

\* The code leaves by the side its condition names, or returns the value its
\* operand has, whichever flag, boolean byte or bit test the branch reads.
ExitRight ==
    LET last == prog.code[Len(prog.code)]
    IN  /\ exit \in {TrueSide, FalseSide} => (exit = TrueSide) = IsTrue(Of(last.c, 1))
        /\ exit = <<"return">> => \A j \in 1..Width(last.ty) :
                m.mem[RETVAL + j - 1] = Of(last.a, Width(last.ty))[j]

\* Every program and every routine ends: no count is lost, no divisor of zero
\* and no shift count makes a loop run for ever.
Ends == <>(k > Len(prog.code) /\ exit # <<>>)
=============================================================================
