---------------------------- MODULE RecipesProof ----------------------------
(***************************************************************************)
(* For every program, every state of the machine and every interrupt: the  *)
(* machine is in the state the selector's beliefs were made from           *)
(* (BeliefHolds), and everything keeps its type (TypeOK).                  *)
(*                                                                         *)
(* The argument: a belief is readable in the last lines of the code        *)
(* (SelectorProof), so it is enough that the machine, wherever it is, has  *)
(* done what the lines just before it say (Sure). A step that falls        *)
(* through establishes that for its own line; a skip passes over one line, *)
(* before which nothing is claimed; a jump lands on a label, after which   *)
(* nothing is. A turn is a bounded recursion on steps, so what each step   *)
(* keeps holds at its end. An interrupt rewrites globals, of which nothing *)
(* is claimed; a routine runs after a call, after which nothing is.        *)
(***************************************************************************)
EXTENDS SelectorProof

-----------------------------------------------------------------------------
(* The machine at pc: what the instructions just before it have done.      *)

\* W has been set to 0 and, unless the flag's test skipped it, to 1.
Testing(out, pc0, sk, b) ==
    /\ pc0 > 1 /\ out[pc0 - 1] = <<"movlw", 0>> /\ ~PrevIsSkip(out, pc0 - 1)
    /\ sk \in {"btfsc", "btfss"} /\ b \in {C, Z} /\ out[pc0] = <<sk, STATUS, b>>

Taken(mm, sk, b) == IF sk = "btfsc" THEN Bit(mm, STATUS, b) ELSE 1 - Bit(mm, STATUS, b)

ZeroTold(mm) == mm.z = (IF mm.w = 0 THEN 1 ELSE 0)

\* A store or a load leaves W and its cell alike, an operation's zero flag
\* tells of W, and W tells of a flag that has been tested.
CopySure(p, out, q, mm) ==
    \A x \in Cells : /\ q > 1 /\ out[q - 1] \in {<<"movwf", x>>, WF("movf", x)}
                     /\ ~PrevIsSkip(out, q - 1) /\ x \notin GlobalBytes(p)
                     => mm.mem[x] = mm.w
ZeroSure(out, q, mm) ==
    /\ q > 1 /\ Witness(out, q - 1) => ZeroTold(mm)
    /\ q > 2 /\ out[q - 1][1] = "movwf" /\ ~PrevIsSkip(out, q - 1) /\ Witness(out, q - 2) => ZeroTold(mm)
BlankSure(out, q, mm) ==
    q > 1 /\ out[q - 1] = <<"movlw", 0>> /\ ~PrevIsSkip(out, q - 1) => mm.w = 0
TestSure(out, q, mm) ==
    \A sk \in {"btfsc", "btfss"}, b \in {C, Z} :
        /\ q > 2 /\ Testing(out, q - 1, sk, b) => Taken(mm, sk, b) = 1
        /\ q > 3 /\ Testing(out, q - 2, sk, b) /\ out[q - 1] = <<"movlw", 1>>
            => mm.w = Taken(mm, sk, b)
        /\ q > 4 /\ Testing(out, q - 3, sk, b) /\ out[q - 2] = <<"movlw", 1>> /\ out[q - 1][1] = "movwf"
            => mm.w = Taken(mm, sk, b)

Sure(p, out, q, mm) ==
    CopySure(p, out, q, mm) /\ ZeroSure(out, q, mm) /\ BlankSure(out, q, mm) /\ TestSure(out, q, mm)

\* Code reached by a jump starts at its label.
AtLabel(out, pc0) == pc0 <= Len(out) /\ out[pc0][1] = "label"
Known(p, out, pc0, mm) == AtLabel(out, pc0) \/ Sure(p, out, pc0, mm)

IInv ==
    /\ prog \in Programs /\ k \in 1..Len(prog.code) + 1
    /\ g \in Selector(prog, <<>>, Sides) /\ m \in Machine(Cells)
    /\ pc \in 1..Len(g.out) + 1 /\ Known(prog, g.out, pc, m)
    /\ call # <<>> =>
        /\ pc > 1 /\ g.out[pc - 1][1] = "call"
        /\ call[1] \in Routines /\ call[2] \in 1..Len(Library[call[1]]) + 2
    /\ exit \in {<<>>, TrueSide, FalseSide, <<"return">>}

-----------------------------------------------------------------------------
(* A step keeps what is sure.                                              *)

(* What the selector emits are instructions over the cells.                *)
LEMMA LineIs ==
  ASSUME NEW i \in Lines
  PROVE  /\ IsLine(i)
         /\ i[1] = "call" => i[2] \in Routines
<1>1. i \in LiteralOps \X Byte => i[1] \in LiteralOps /\ i[2] \in Byte
  OBVIOUS
<1>2. i \in {"movwf", "clrf"} \X Cells => i[1] \in {"movwf", "clrf"} /\ i[2] \in Cells
  OBVIOUS
<1>3. i \in FileOps \X Cells \X {"w", "f"} => i[1] \in FileOps /\ i[2] \in Cells /\ i[3] \in {"w", "f"}
  OBVIOUS
<1>4. i \in BitOps \X Cells \X (0..7) => i[1] \in BitOps /\ i[2] \in Cells /\ i[3] \in 0..7
  OBVIOUS
<1>5. i \in BitOps \X {STATUS} \X {C, Z} => i[1] \in BitOps /\ i[2] = STATUS /\ i[3] \in {C, Z}
  OBVIOUS
<1>6. i \in Plain => IsLine(i) /\ i[1] # "call"
  <2>1. "call" \notin LiteralOps /\ "call" \notin FileOps /\ "call" \notin BitOps
    BY OpsApart DEF Transfers
  <2> QED BY <1>1, <1>2, <1>3, <1>4, <1>5, <2>1 DEF Plain, IsLine
<1>7. i \in {"label", "goto"} \X Labels => i[1] \in {"label", "goto"}
  OBVIOUS
<1>8. i \in {"call"} \X Routines => i[1] = "call" /\ i[2] \in Routines
  OBVIOUS
<1>9. i = <<"return">> => i[1] = "return"
  OBVIOUS
<1> QED BY <1>6, <1>7, <1>8, <1>9 DEF Lines, IsLine

(* What it emitted is code.                                                *)
LEMMA EmittedCode ==
  ASSUME NEW base, NEW ahead, NEW out \in Emitted(base, ahead)
  PROVE  IsCode(out) /\ \A j \in 1..Len(out) : out[j] \in Lines
<1>1. out \in Seq(Lines)
  BY DEF Emitted
<1> QED BY <1>1, LineIs DEF IsCode

(* A flag is a bit.                                                        *)
LEMMA BitIs ==
  ASSUME NEW mm \in Machine(Cells), NEW b \in {C, Z}
  PROVE  Bit(mm, STATUS, b) \in 0..1
  BY MachineIs DEF Bit

(* After a transfer nothing is sure, and nothing is claimed.               *)
LEMMA SureOfNothing ==
  ASSUME NEW p, NEW out, NEW q \in Nat, q > 1 => out[q - 1][1] \in Transfers, NEW mm
  PROVE  Sure(p, out, q, mm)
<1>1. Transfers \cap {"movwf", "movf", "movlw", "btfsc", "btfss"} = {}
  BY DEF Transfers
<1>2. Transfers \cap {"andlw", "iorlw", "xorlw", "addlw", "sublw", "andwf", "iorwf", "xorwf", "addwf", "subwf"} = {}
  BY DEF Transfers
<1>3. CopySure(p, out, q, mm)
  BY <1>1 DEF CopySure, WF
<1>4. ZeroSure(out, q, mm)
  BY <1>1, <1>2 DEF ZeroSure, Witness, IsMovfW, SetsZFromW
<1>5. BlankSure(out, q, mm)
  BY <1>1 DEF BlankSure
<1>6. TestSure(out, q, mm)
  <2> SUFFICES ASSUME NEW sk \in {"btfsc", "btfss"}, NEW b \in {C, Z}
               PROVE  /\ ~(q > 2 /\ Testing(out, q - 1, sk, b))
                      /\ ~(q > 3 /\ out[q - 1] = <<"movlw", 1>>)
                      /\ ~(q > 4 /\ out[q - 1][1] = "movwf")
    BY DEF TestSure
  <2> QED BY <1>1 DEF Testing
<1> QED BY <1>3, <1>4, <1>5, <1>6 DEF Sure

(* A literal load changes W alone.                                         *)
LEMMA MovlwIs ==
  ASSUME NEW mm \in Machine(Cells), NEW i, i[1] = "movlw", i[2] \in Byte, NEW e, e = Exec(mm, i)
  PROVE  e.w = i[2] /\ e.c = mm.c /\ e.z = mm.z
<1>1. "movlw" \in LiteralOps /\ "movlw" \notin Transfers
  BY DEF LiteralOps, Transfers
<1>2. IsLine(i)
  BY <1>1 DEF IsLine
<1>3. ToW(mm, "movlw", i[2], e)
  BY <1>1, <1>2, ExecIs
<1>4. Value("movlw", i[2], mm.w, mm.c) = i[2]
  BY DEF Value
<1>5. Carry("movlw", i[2], mm.w, mm.c) = mm.c
  BY DEF Carry
<1>6. Zero("movlw", i[2], mm.z) = mm.z
  BY DEF Zero
<1> QED BY <1>3, <1>4, <1>5, <1>6 DEF ToW, Flags

(* What is sure before an instruction that does not skip makes what is     *)
(* claimed after it sure.                                                  *)
LEMMA FallsThrough ==
  ASSUME NEW p, NEW out, IsCode(out), NEW q \in 1..Len(out), NEW mm \in Machine(Cells),
         Sure(p, out, q, mm), out[q][1] \notin Transfers, ~Skips(mm, out[q]),
         NEW e, e = Exec(mm, out[q])
  PROVE  Sure(p, out, q + 1, e)
<1> DEFINE i == out[q]
<1>1. IsLine(i) /\ q \in Nat /\ q > 0 /\ (q + 1) - 1 = q /\ (q + 1) - 2 = q - 1 /\ (q + 1) - 3 = q - 2
  BY DEF IsCode
<1>2. /\ e \in Machine(Cells)
      /\ i[1] = "movwf" => i[2] \in Cells /\ e.w = mm.w /\ e.c = mm.c /\ e.z = mm.z /\ e.mem[i[2]] = e.w
      /\ i[1] \in LiteralOps => i[2] \in Byte /\ ToW(mm, i[1], i[2], e)
      /\ i[1] \in FileOps => i[2] \in Cells /\ mm.mem[i[2]] \in Byte
             /\ (i[3] # "f" => ToW(mm, i[1], mm.mem[i[2]], e))
  BY <1>1, ExecIs
<1>a. i[1] = "movlw" /\ i[2] \in Byte => e.w = i[2] /\ e.c = mm.c /\ e.z = mm.z
  BY MovlwIs
<1>3. i = <<"movlw", 0>> => e.w = 0
  BY <1>a DEF Byte
<1>4. i = <<"movlw", 1>> => e.w = 1 /\ e.c = mm.c /\ e.z = mm.z
  BY <1>a DEF Byte
<1>5. i[1] \in {"btfsc", "btfss"} => e = mm
  BY ExecCases
<1>6. i[1] \in {"btfsc", "btfss"} =>
        (i[1] = "btfsc" => Bit(mm, i[2], i[3]) # 0) /\ (i[1] = "btfss" => Bit(mm, i[2], i[3]) # 1)
  BY DEF Skips
<1>7. CopySure(p, out, q + 1, e)
  <2> SUFFICES ASSUME NEW x \in Cells, i \in {<<"movwf", x>>, WF("movf", x)} PROVE e.mem[x] = e.w
    BY <1>1 DEF CopySure
  <2>1. CASE i = <<"movwf", x>>
    BY <1>2, <2>1
  <2>2. CASE i = WF("movf", x)
    <3>1. i[1] = "movf" /\ i[2] = x /\ i[3] # "f" /\ "movf" \in FileOps
      BY <2>2 DEF WF, FileOps
    <3>2. ToW(mm, "movf", mm.mem[x], e)
      BY <1>2, <3>1
    <3>3. Value("movf", mm.mem[x], mm.w, mm.c) = mm.mem[x]
      BY DEF Value
    <3> QED BY <3>2, <3>3 DEF ToW
  <2> QED BY <2>1, <2>2
<1>8. ZeroSure(out, q + 1, e)
  <2>1. ASSUME Witness(out, q) PROVE ZeroTold(e)
    <3>1. IsMovfW(i) \/ SetsZFromW(i)
      BY <2>1 DEF Witness
    <3> DEFINE op == i[1]
    <3>2. op \notin {"movlw", "rlf", "rrf", "incfsz", "decfsz"}
          /\ (op \in LiteralOps \/ (op \in FileOps /\ i[3] # "f"))
      BY <3>1 DEF IsMovfW, SetsZFromW, LiteralOps, FileOps
    <3>3. \A v : Zero(op, v, mm.z) = IF v = 0 THEN 1 ELSE 0
      BY <3>2 DEF Zero
    <3>4. PICK x : ToW(mm, op, x, e)
      BY <1>2, <3>2
    <3> QED BY <3>3, <3>4 DEF ToW, Flags, ZeroTold
  <2>2. ASSUME i[1] = "movwf", q > 1, Witness(out, q - 1) PROVE ZeroTold(e)
    <3>1. ZeroTold(mm)
      BY <2>2 DEF Sure, ZeroSure
    <3> QED BY <1>2, <2>2, <3>1 DEF ZeroTold
  <2> QED BY <1>1, <2>1, <2>2 DEF ZeroSure
<1>9. BlankSure(out, q + 1, e)
  BY <1>1, <1>3 DEF BlankSure
<1>10. TestSure(out, q + 1, e)
  <2> SUFFICES ASSUME NEW sk \in {"btfsc", "btfss"}, NEW b \in {C, Z}
               PROVE  /\ Testing(out, q, sk, b) => Taken(e, sk, b) = 1
                      /\ q > 2 /\ Testing(out, q - 1, sk, b) /\ i = <<"movlw", 1>> => e.w = Taken(e, sk, b)
                      /\ q > 3 /\ Testing(out, q - 2, sk, b) /\ out[q - 1] = <<"movlw", 1>> /\ i[1] = "movwf"
                            => e.w = Taken(e, sk, b)
    BY <1>1 DEF TestSure
  <2>1. Bit(mm, STATUS, b) \in 0..1
    BY BitIs
  <2>2. ASSUME Testing(out, q, sk, b) PROVE Taken(e, sk, b) = 1
    <3>1. i = <<sk, STATUS, b>>
      BY <2>2 DEF Testing
    <3>2. i[1] = sk /\ i[2] = STATUS /\ i[3] = b
      BY <3>1
    <3> QED BY <1>5, <1>6, <2>1, <3>2 DEF Taken
  <2>3. e.c = mm.c /\ e.z = mm.z => Taken(e, sk, b) = Taken(mm, sk, b)
    BY DEF Taken, Bit
  <2>4. ASSUME q > 2, Testing(out, q - 1, sk, b), i = <<"movlw", 1>> PROVE e.w = Taken(e, sk, b)
    <3>1. Taken(mm, sk, b) = 1
      BY <2>4 DEF Sure, TestSure
    <3> QED BY <1>4, <2>3, <2>4, <3>1
  <2>5. ASSUME q > 3, Testing(out, q - 2, sk, b), out[q - 1] = <<"movlw", 1>>, i[1] = "movwf"
        PROVE  e.w = Taken(e, sk, b)
    <3>1. mm.w = Taken(mm, sk, b)
      BY <2>5 DEF Sure, TestSure
    <3> QED BY <1>2, <2>3, <2>5, <3>1
  <2> QED BY <2>2, <2>4, <2>5
<1> QED BY <1>7, <1>8, <1>9, <1>10 DEF Sure

(* When it skips, nothing is claimed of the place skipped to but what was  *)
(* sure before.                                                            *)
LEMMA SkipsOver ==
  ASSUME NEW p, NEW out, IsCode(out), NEW q \in 1..Len(out), NEW mm \in Machine(Cells),
         Sure(p, out, q, mm), out[q][1] \notin Transfers, Skips(mm, out[q]),
         NEW e, e = Exec(mm, out[q])
  PROVE  Sure(p, out, q + 2, e) /\ out[q][1] \in SkipOps
<1> DEFINE i == out[q]
<1>1. q \in Nat /\ q > 0 /\ (q + 2) - 1 = q + 1 /\ (q + 1) - 1 = q /\ (q + 2) - 2 = q /\ (q + 2) - 3 = q - 1
  BY DEF IsCode
<1>2. i[1] \in SkipOps
  BY DEF Skips, SkipOps
<1>3. PrevIsSkip(out, q + 1)
  BY <1>1, <1>2 DEF PrevIsSkip
<1>4. i[1] \notin {"movlw", "movwf"}
  BY <1>2 DEF SkipOps
<1>5. CopySure(p, out, q + 2, e)
  BY <1>1, <1>3 DEF CopySure
<1>6. ZeroSure(out, q + 2, e)
  BY <1>1, <1>3 DEF ZeroSure, Witness
<1>7. BlankSure(out, q + 2, e)
  BY <1>1, <1>3 DEF BlankSure
<1>8. TestSure(out, q + 2, e)
  <2> SUFFICES ASSUME NEW sk \in {"btfsc", "btfss"}, NEW b \in {C, Z}
               PROVE  /\ ~Testing(out, q + 1, sk, b)
                      /\ Testing(out, q, sk, b) => e.w = Taken(e, sk, b)
                      /\ i # <<"movlw", 1>>
    BY <1>1 DEF TestSure
  <2>1. ~Testing(out, q + 1, sk, b)
    BY <1>1, <1>4 DEF Testing
  <2>2. ASSUME Testing(out, q, sk, b) PROVE e.w = Taken(e, sk, b)
    <3>1. i = <<sk, STATUS, b>> /\ q > 1 /\ out[q - 1] = <<"movlw", 0>> /\ ~PrevIsSkip(out, q - 1)
      BY <2>2 DEF Testing
    <3>2. i[1] = sk /\ i[2] = STATUS /\ i[3] = b
      BY <3>1
    <3>3. e = mm
      BY <3>2, ExecCases
    <3>4. mm.w = 0
      BY <3>1 DEF Sure, BlankSure
    <3>5. (sk = "btfsc" => Bit(mm, STATUS, b) = 0) /\ (sk = "btfss" => Bit(mm, STATUS, b) = 1)
      BY <3>2 DEF Skips
    <3> QED BY <3>3, <3>4, <3>5 DEF Taken
  <2>3. i # <<"movlw", 1>>
    BY <1>4
  <2> QED BY <2>1, <2>2, <2>3
<1> QED BY <1>2, <1>5, <1>6, <1>7, <1>8 DEF Sure

-----------------------------------------------------------------------------
(* Turns keep what is known.                                               *)

KnownStates(p, out, max) ==
    {s \in States(out, max) : s.pc \in 1..Len(out) + 1 /\ Known(p, out, s.pc, s.m)}

(* A step within the emitted code keeps what is known.                     *)
LEMMA KnownStep ==
  ASSUME NEW p, NEW ahead, NEW out \in Emitted(<<>>, ahead), NEW max \in Nat,
         NEW s \in KnownStates(p, out, max), ~AtTurnsEnd(out, s), NEW e, e = Step(out, s)
  PROVE  e \in KnownStates(p, out, max)
<1> DEFINE q == s.pc
           i == out[q]
<1>0. IsCode(out) /\ Len(out) \in Nat /\ DOMAIN out = 1..Len(out)
  BY EmittedCode DEF IsCode
<1>1. /\ s \in States(out, max) /\ q \in 1..Len(out) /\ s.m \in Machine(Cells) /\ s.left \in 1..max
      /\ i[1] \notin {"call", "return"} /\ Known(p, out, q, s.m)
  <2>1. s \in States(out, max) /\ q \in 1..Len(out) + 1 /\ Known(p, out, q, s.m)
    BY DEF KnownStates
  <2>2. s.m \in Machine(Cells) /\ s.left \in 0..max
    BY <1>0, <2>1, StateIs
  <2> QED BY <1>0, <2>1, <2>2 DEF AtTurnsEnd
<1>2. e \in States(out, max)
  BY <1>0, <1>1, StepIs
<1>3. StepTo(out, s, e)
  BY <1>0, <1>1, StepCases
<1>a. \A mm, pc0, left : St(mm, pc0, left).m = mm /\ St(mm, pc0, left).pc = pc0
  BY DEF St
<1> SUFFICES e.pc \in 1..Len(out) + 1 /\ Known(p, out, e.pc, e.m)
  BY <1>2 DEF KnownStates
<1>4. CASE i[1] = "label" /\ e = St(s.m, q + 1, s.left - 1)
  <2>1. (q + 1) - 1 = q /\ q + 1 \in 1..Len(out) + 1 /\ q + 1 \in Nat
    BY <1>0, <1>1
  <2>2. Sure(p, out, q + 1, s.m)
    BY <1>4, <2>1, SureOfNothing DEF Transfers
  <2> QED BY <1>4, <1>a, <2>1, <2>2 DEF Known
<1>5. CASE /\ i[1] \notin {"label", "goto"}
           /\ e = St(Exec(s.m, i), q + (IF Skips(s.m, i) THEN 2 ELSE 1), s.left - 1)
  <2>1. i[1] \notin Transfers
    BY <1>1, <1>5 DEF Transfers
  <2>2. Sure(p, out, q, s.m)
    BY <1>5, <1>1 DEF Known, AtLabel
  <2>3. CASE ~Skips(s.m, i)
    <3>1. Sure(p, out, q + 1, Exec(s.m, i))
      BY <1>0, <1>1, <2>1, <2>2, <2>3, FallsThrough
    <3>2. e.pc = q + 1 /\ e.m = Exec(s.m, i)
      BY <1>5, <1>a, <2>3
    <3> QED BY <1>0, <1>1, <3>1, <3>2 DEF Known
  <2>4. CASE Skips(s.m, i)
    <3>1. Sure(p, out, q + 2, Exec(s.m, i)) /\ i[1] \in SkipOps
      BY <1>0, <1>1, <2>1, <2>2, <2>4, SkipsOver
    <3>2. e.pc = q + 2 /\ e.m = Exec(s.m, i)
      BY <1>5, <1>a, <2>4
    <3>3. q # Len(out)
      <4>1. out # <<>> => out[Len(out)][1] \notin SkipOps
        BY DEF Emitted
      <4>2. out # <<>>
        BY <1>0, <1>1
      <4> QED BY <3>1, <4>1, <4>2
    <3> QED BY <1>0, <1>1, <3>1, <3>2, <3>3 DEF Known
  <2> QED BY <2>3, <2>4
<1>6. CASE i[1] = "goto" /\ e = St(s.m, q, 0)
  <2>1. q \in 1..Len(out) + 1
    BY <1>0, <1>1
  <2> QED BY <1>1, <1>6, <1>a, <2>1
<1>7. CASE \E j \in DOMAIN out : out[j] = <<"label", i[2]>> /\ e \in {St(s.m, j, 0), St(s.m, j, s.left - 1)}
  <2>1. PICK j \in 1..Len(out) : out[j] = <<"label", i[2]>> /\ e \in {St(s.m, j, 0), St(s.m, j, s.left - 1)}
    BY <1>0, <1>7
  <2>2. e.pc = j /\ out[j][1] = "label" /\ j <= Len(out) /\ j \in 1..Len(out) + 1
    BY <1>0, <1>a, <2>1
  <2> QED BY <2>2 DEF Known, AtLabel
<1> QED BY <1>3, <1>4, <1>5, <1>6, <1>7 DEF StepTo

(* So does a turn.                                                         *)
LEMMA KnownTurn ==
  ASSUME NEW p, NEW ahead, NEW out \in Emitted(<<>>, ahead), NEW mm \in Machine(Cells),
         NEW q \in 1..Len(out) + 1, Known(p, out, q, mm),
         NEW e, e = TurnOf(Cells, MaxTurn, out, mm, q)
  PROVE  e \in KnownStates(p, out, MaxTurn) /\ AtTurnsEnd(out, e)
<1> DEFINE I == KnownStates(p, out, MaxTurn)
<1>0. IsCode(out) /\ Len(out) \in Nat /\ MaxTurn \in Nat
  BY EmittedCode, CellsAssumption DEF IsCode
<1>1. St(mm, q, MaxTurn) \in I
  <2>1. q \in 1..Len(out) + 2 /\ MaxTurn \in 0..MaxTurn
    BY <1>0
  <2>2. /\ St(mm, q, MaxTurn) \in States(out, MaxTurn)
        /\ St(mm, q, MaxTurn).m = mm /\ St(mm, q, MaxTurn).pc = q
    BY <1>0, <2>1, StateIs
  <2> QED BY <2>2 DEF KnownStates
<1>2. I \subseteq States(out, MaxTurn)
  BY DEF KnownStates
<1>3. \A s \in I : ~AtTurnsEnd(out, s) => Step(out, s) \in I
  BY <1>0, KnownStep
<1> HIDE DEF I
<1>4. e \in I /\ AtTurnsEnd(out, e)
  BY <1>0, <1>1, <1>2, <1>3, TurnIs
<1> QED BY <1>4 DEF I

(* A turn of a routine keeps the registers bytes.                          *)
LEMMA RoutineKeeps ==
  ASSUME NEW r \in Routines, NEW mm \in Machine(Cells), NEW q \in 1..Len(RoutineCode(r)) + 2,
         NEW e, e = TurnOf(Cells, MaxTurn, RoutineCode(r), mm, q)
  PROVE  e.m \in Machine(Cells) /\ e.pc \in 1..Len(RoutineCode(r)) + 2
<1> DEFINE code == RoutineCode(r)
           I == States(code, MaxTurn)
<1>0. IsCode(code) /\ Len(code) \in Nat /\ MaxTurn \in Nat
  BY RoutinesAssumption, CellsAssumption DEF IsCode
<1> HIDE DEF code
<1>1. St(mm, q, MaxTurn) \in I
  <2>1. q \in 1..Len(code) + 2 /\ MaxTurn \in 0..MaxTurn
    BY <1>0 DEF code
  <2> QED BY <1>0, <2>1, StateIs
<1>2. \A s \in I : ~AtTurnsEnd(code, s) => Step(code, s) \in I
  BY <1>0, StepIs
<1>3. e = TurnOf(Cells, MaxTurn, code, mm, q)
  BY DEF code
<1>4. e \in I
  <2>1. I \subseteq States(code, MaxTurn)
    OBVIOUS
  <2> HIDE DEF I
  <2> QED BY <1>0, <1>1, <1>2, <1>3, <2>1, TurnIs
<1> QED BY <1>0, <1>4, StateIs DEF code

(* More code leaves what is sure at its start as it is.                    *)
LEMMA SureMore ==
  ASSUME NEW p, NEW out, NEW more, Extending(out, more), Len(out) \in Nat, Len(more) \in Nat, NEW mm,
         Sure(p, out, Len(out) + 1, mm)
  PROVE  Sure(p, more, Len(out) + 1, mm)
<1> DEFINE q == Len(out) + 1
<1>1. \A j \in 1..Len(out) : more[j] = out[j]
  BY DEF Extending
<1>2. q \in Nat /\ \A d \in 1..4 : q > d => q - d \in 1..Len(out)
  OBVIOUS
<1>3. \A d \in 1..4 : q > d => more[q - d] = out[q - d]
  BY <1>1, <1>2
<1>a. q - 1 - 1 = q - 2 /\ q - 2 - 1 = q - 3 /\ q - 3 - 1 = q - 4
      /\ (q - 1 > 1 <=> q > 2) /\ (q - 2 > 1 <=> q > 3) /\ (q - 3 > 1 <=> q > 4)
      /\ (q > 4 => q > 3) /\ (q > 3 => q > 2) /\ (q > 2 => q > 1)
  BY <1>2
<1>4. /\ q > 1 => more[q - 1] = out[q - 1] /\ PrevIsSkip(more, q - 1) = PrevIsSkip(out, q - 1)
      /\ q > 2 => more[q - 2] = out[q - 2] /\ PrevIsSkip(more, q - 2) = PrevIsSkip(out, q - 2)
      /\ q > 3 => more[q - 3] = out[q - 3] /\ PrevIsSkip(more, q - 3) = PrevIsSkip(out, q - 3)
      /\ q > 4 => more[q - 4] = out[q - 4]
  <2>1. ASSUME q > 1
        PROVE  more[q - 1] = out[q - 1] /\ PrevIsSkip(more, q - 1) = PrevIsSkip(out, q - 1)
    <3>1. more[q - 1] = out[q - 1] /\ (q - 1 > 1 => more[q - 2] = out[q - 2])
      BY <1>3, <1>a, <2>1
    <3> QED BY <1>a, <3>1 DEF PrevIsSkip
  <2>2. ASSUME q > 2
        PROVE  more[q - 2] = out[q - 2] /\ PrevIsSkip(more, q - 2) = PrevIsSkip(out, q - 2)
    <3>1. more[q - 2] = out[q - 2] /\ (q - 2 > 1 => more[q - 3] = out[q - 3])
      BY <1>3, <1>a, <2>2
    <3> QED BY <1>a, <3>1 DEF PrevIsSkip
  <2>3. ASSUME q > 3
        PROVE  more[q - 3] = out[q - 3] /\ PrevIsSkip(more, q - 3) = PrevIsSkip(out, q - 3)
    <3>1. more[q - 3] = out[q - 3] /\ (q - 3 > 1 => more[q - 4] = out[q - 4])
      BY <1>3, <1>a, <2>3
    <3> QED BY <1>a, <3>1 DEF PrevIsSkip
  <2>4. q > 4 => more[q - 4] = out[q - 4]
    BY <1>3
  <2> QED BY <2>1, <2>2, <2>3, <2>4
<1>b. q > 4 => PrevIsSkip(more, q - 4) = PrevIsSkip(out, q - 4)
  <2>1. q - 4 - 1 = q - 5 /\ (q > 4 /\ q - 4 > 1 => q - 5 \in 1..Len(out))
    BY <1>2
  <2> QED BY <1>1, <2>1 DEF PrevIsSkip
<1> HIDE DEF q
<1>5. CopySure(p, more, q, mm)
  BY <1>4 DEF Sure, CopySure, q
<1>6. ZeroSure(more, q, mm)
  BY <1>4, <1>a DEF Sure, ZeroSure, Witness, q
<1>7. BlankSure(more, q, mm)
  BY <1>4 DEF Sure, BlankSure, q
<1>8. TestSure(more, q, mm)
  <2>1. TestSure(out, q, mm)
    BY DEF Sure, q
  <2>2. ASSUME NEW j, NEW l, NEW sk, NEW b, l = j - 1, more[j] = out[j], more[l] = out[l],
               PrevIsSkip(more, l) = PrevIsSkip(out, l)
        PROVE  Testing(more, j, sk, b) <=> Testing(out, j, sk, b)
    BY <2>2 DEF Testing
  <2>3. \A sk, b : q > 2 => (Testing(more, q - 1, sk, b) <=> Testing(out, q - 1, sk, b))
    BY <1>4, <1>a, <2>2
  <2>4. \A sk, b : q > 3 => (Testing(more, q - 2, sk, b) <=> Testing(out, q - 2, sk, b))
    BY <1>4, <1>a, <2>2
  <2>5. \A sk, b : q > 4 => (Testing(more, q - 3, sk, b) <=> Testing(out, q - 3, sk, b))
    <3>1. q > 4 => PrevIsSkip(more, q - 4) = PrevIsSkip(out, q - 4)
      BY <1>b
    <3> QED BY <1>4, <1>a, <2>2, <3>1
  <2>6. ASSUME NEW sk \in {"btfsc", "btfss"}, NEW b \in {C, Z}
        PROVE  /\ q > 2 /\ Testing(more, q - 1, sk, b) => Taken(mm, sk, b) = 1
               /\ q > 3 /\ Testing(more, q - 2, sk, b) /\ more[q - 1] = <<"movlw", 1>> => mm.w = Taken(mm, sk, b)
               /\ q > 4 /\ Testing(more, q - 3, sk, b) /\ more[q - 2] = <<"movlw", 1>> /\ more[q - 1][1] = "movwf"
                    => mm.w = Taken(mm, sk, b)
    <3>1. /\ q > 2 /\ Testing(out, q - 1, sk, b) => Taken(mm, sk, b) = 1
          /\ q > 3 /\ Testing(out, q - 2, sk, b) /\ out[q - 1] = <<"movlw", 1>> => mm.w = Taken(mm, sk, b)
          /\ q > 4 /\ Testing(out, q - 3, sk, b) /\ out[q - 2] = <<"movlw", 1>> /\ out[q - 1][1] = "movwf"
               => mm.w = Taken(mm, sk, b)
      BY <2>1 DEF TestSure
    <3> QED BY <1>4, <1>a, <2>3, <2>4, <2>5, <3>1
  <2> QED BY <2>6 DEF TestSure
<1> QED BY <1>5, <1>6, <1>7, <1>8 DEF Sure, q

-----------------------------------------------------------------------------
(* The actions.                                                            *)

(* The program a state runs is one the compiler is given.                  *)
LEMMA ProgIs ==
  ASSUME IInv
  PROVE  IsProgram(prog) /\ Len(prog.code) \in Nat /\ DOMAIN prog.code = 1..Len(prog.code)
<1>1. IsProgram(prog)
  BY ProgramsAssumption DEF IInv
<1> QED BY <1>1 DEF IsProgram

(* What has been emitted, and the beliefs about it.                        *)
LEMMA OutIs ==
  ASSUME NEW p, NEW h \in Selector(p, <<>>, Sides)
  PROVE  /\ h.out \in Emitted(<<>>, Sides) /\ Len(h.out) \in Nat /\ DOMAIN h.out = 1..Len(h.out)
         /\ \A j \in 1..Len(h.out) : h.out[j] \in Lines
         /\ h \in Gen(p) /\ Held(p, h) /\ Told(h)
<1>1. h \in Loose(p, <<>>, Sides) /\ Held(p, h) /\ Told(h)
  BY DEF Selector
<1>2. h \in Gen(p) /\ h.out \in Seq(Lines) /\ h.out \in Emitted(<<>>, Sides)
  BY <1>1, LooseIs
<1> QED BY <1>1, <1>2

(* The first state, with the code of the first instruction.                *)
LEMMA InitInv == Init => IInv
<1> SUFFICES ASSUME Init PROVE IInv
  OBVIOUS
<1>1. prog \in Programs /\ k = 1 /\ g = NewGen /\ pc = 1 /\ call = <<>> /\ exit = <<>>
  BY DEF Init
<1>2. IsProgram(prog)
  BY <1>1, ProgramsAssumption
<1>3. k \in 1..Len(prog.code) + 1
  <2>1. Len(prog.code) \in Nat
    BY <1>2 DEF IsProgram
  <2> QED BY <1>1, <2>1
<1>4. g \in Selector(prog, <<>>, Sides)
  <2>1. g.out = <<>> /\ g.holds = None /\ g.committed = FALSE /\ g.defer = None /\ g.rel = <<>>
    BY <1>1 DEF NewGen
  <2>2. g \in Gen(prog)
    BY <1>1 DEF NewGen, Gen
  <2>3. <<>> \in Emitted(<<>>, Sides)
    BY DEF Emitted, Extending, Lands
  <2> QED BY <2>1, <2>2, <2>3 DEF Selector, Loose, Held, Deferred, Told
<1>5. m \in Machine(Cells)
  <2>1. PICK v \in [DOMAIN prog.input -> UNION {prog.input[x] : x \in DOMAIN prog.input}] :
          /\ \A x \in DOMAIN v : v[x] \in prog.input[x]
          /\ m = [w |-> Junk, c |-> Junk % 2, z |-> Junk % 2,
                  mem |-> [f \in Cells |->
                    IF \E x \in DOMAIN v : f - prog.slot[x] + 1 \in DOMAIN v[x]
                    THEN LET x == CHOOSE y \in DOMAIN v : f - prog.slot[y] + 1 \in DOMAIN v[y]
                         IN  v[x][f - prog.slot[x] + 1]
                    ELSE Junk]]
    BY DEF Init
  <2>2. Junk \in Byte /\ Junk % 2 \in 0..1
    BY CellsAssumption DEF Byte
  <2>3. \A x \in DOMAIN v : v[x] \in Seq(Byte)
    BY <1>2, <2>1 DEF IsProgram
  <2>4. \A x \in DOMAIN v : \A j \in DOMAIN v[x] : v[x][j] \in Byte
    BY <2>3
  <2>5. m.mem \in [Cells -> Byte]
    <3>1. ASSUME NEW f \in Cells
          PROVE  (IF \E x \in DOMAIN v : f - prog.slot[x] + 1 \in DOMAIN v[x]
                  THEN LET x == CHOOSE y \in DOMAIN v : f - prog.slot[y] + 1 \in DOMAIN v[y]
                       IN  v[x][f - prog.slot[x] + 1]
                  ELSE Junk) \in Byte
      <4>1. CASE \E x \in DOMAIN v : f - prog.slot[x] + 1 \in DOMAIN v[x]
        <5> DEFINE x == CHOOSE y \in DOMAIN v : f - prog.slot[y] + 1 \in DOMAIN v[y]
        <5>1. x \in DOMAIN v /\ f - prog.slot[x] + 1 \in DOMAIN v[x]
          BY <4>1
        <5>2. v[x][f - prog.slot[x] + 1] \in Byte
          BY <2>4, <5>1
        <5> QED BY <4>1, <5>2
      <4>2. CASE ~\E x \in DOMAIN v : f - prog.slot[x] + 1 \in DOMAIN v[x]
        BY <2>2, <4>2
      <4> QED BY <4>1, <4>2
    <3>2. m.mem = [f \in Cells |->
                    IF \E x \in DOMAIN v : f - prog.slot[x] + 1 \in DOMAIN v[x]
                    THEN LET x == CHOOSE y \in DOMAIN v : f - prog.slot[y] + 1 \in DOMAIN v[y]
                         IN  v[x][f - prog.slot[x] + 1]
                    ELSE Junk]
      BY <2>1, Zenon
    <3> QED BY <3>1, <3>2
  <2>6. m = [w |-> Junk, c |-> Junk % 2, z |-> Junk % 2, mem |-> m.mem]
    BY <2>1, Zenon
  <2> QED BY <2>2, <2>5, <2>6, MachineIs
<1>6. Len(g.out) = 0
  BY <1>1 DEF NewGen
<1>7. Known(prog, g.out, pc, m)
  BY <1>1, SureOfNothing DEF Known
<1> QED BY <1>1, <1>3, <1>4, <1>5, <1>6, <1>7 DEF IInv

(* Lowering the next instruction: what was emitted stays, what is sure of  *)
(* it too.                                                                 *)
LEMMA LowerNextInv ==
  ASSUME IInv, LowerNext
  PROVE  IInv'
<1>1. /\ Idle /\ k <= Len(prog.code) /\ g' = Lower(prog, g, k) /\ k' = k + 1
      /\ prog' = prog /\ m' = m /\ pc' = pc /\ call' = call /\ exit' = exit
  BY DEF LowerNext
<1>2. call = <<>> /\ pc > Len(g.out)
  BY <1>1 DEF Idle, Running
<1>3. IsProgram(prog) /\ Len(prog.code) \in Nat /\ k \in DOMAIN prog.code
  BY <1>1, ProgIs DEF IInv
<1>4. g \in Selector(prog, <<>>, Sides) /\ pc \in 1..Len(g.out) + 1 /\ Known(prog, g.out, pc, m)
  BY DEF IInv
<1>5. Len(g.out) \in Nat /\ pc = Len(g.out) + 1
  BY <1>2, <1>4, OutIs
<1>6. g' \in Selector(prog, <<>>, Sides) /\ Extending(g.out, g'.out)
  BY <1>1, <1>3, <1>4, LowerIs
<1>7. Len(g'.out) \in Nat /\ Len(g'.out) >= Len(g.out)
  BY <1>6, OutIs DEF Extending
<1>8. Sure(prog, g.out, pc, m)
  BY <1>4, <1>5 DEF Known, AtLabel
<1>9. Sure(prog, g'.out, pc, m)
  BY <1>5, <1>6, <1>7, <1>8, SureMore
<1>10. pc \in 1..Len(g'.out) + 1
  BY <1>5, <1>7
<1>11. k' \in 1..Len(prog.code) + 1
  BY <1>1, <1>3
<1>12. prog' \in Programs /\ m' \in Machine(Cells) /\ exit' \in {<<>>, TrueSide, FalseSide, <<"return">>}
  BY <1>1 DEF IInv
<1> QED BY <1>1, <1>2, <1>6, <1>9, <1>10, <1>11, <1>12 DEF IInv, Known

(* The program's turn.                                                     *)
LEMMA TurnInv ==
  ASSUME IInv, Turn
  PROVE  IInv'
<1> DEFINE done == TurnOf(Cells, MaxTurn, g.out, m, pc)
           i == At(g.out, done.pc)
<1>1. /\ ~Running /\ exit = <<>> /\ pc <= Len(g.out) /\ m' = done.m
      /\ pc' = (IF i[1] = "call" THEN done.pc + 1 ELSE done.pc)
      /\ call' = (IF i[1] = "call" THEN <<i[2], 1>> ELSE <<>>)
      /\ exit' = (IF i[1] = "return" THEN <<"return">> ELSE IF Leaves(g.out, i) THEN i[2] ELSE <<>>)
      /\ prog' = prog /\ k' = k /\ g' = g
  BY DEF Turn
<1>2. /\ g \in Selector(prog, <<>>, Sides) /\ pc \in 1..Len(g.out) + 1 /\ Known(prog, g.out, pc, m)
      /\ m \in Machine(Cells) /\ prog \in Programs /\ k \in 1..Len(prog.code) + 1
  BY DEF IInv
<1>3. /\ g.out \in Emitted(<<>>, Sides) /\ Len(g.out) \in Nat /\ DOMAIN g.out = 1..Len(g.out)
      /\ \A j \in 1..Len(g.out) : g.out[j] \in Lines
  BY <1>2, OutIs
<1>4. done \in KnownStates(prog, g.out, MaxTurn)
  BY <1>2, <1>3, KnownTurn
<1> HIDE DEF done
<1>5. done.pc \in 1..Len(g.out) + 1 /\ Known(prog, g.out, done.pc, done.m) /\ done.m \in Machine(Cells)
  <2>1. MaxTurn \in Nat
    BY CellsAssumption
  <2> QED BY <1>3, <1>4, <2>1, StateIs DEF KnownStates
<1>6. i[1] \in {"call", "goto", "return"} => done.pc \in 1..Len(g.out) /\ i = g.out[done.pc] /\ i \in Lines
  <2>1. CASE done.pc <= Len(g.out)
    BY <1>3, <1>5, <2>1 DEF At
  <2>2. CASE ~(done.pc <= Len(g.out))
    <3>1. i = <<"end">>
      BY <2>2 DEF At
    <3> QED BY <3>1
  <2> QED BY <2>1, <2>2
<1>7. CASE i[1] = "call"
  <2>1. done.pc \in 1..Len(g.out) /\ i = g.out[done.pc] /\ i[2] \in Routines
    BY <1>6, <1>7, LineIs
  <2>2. pc' \in 1..Len(g.out) + 1 /\ pc' > 1 /\ pc' - 1 = done.pc /\ pc' \in Nat
    BY <1>1, <1>3, <1>7, <2>1
  <2>3. g.out[pc' - 1][1] = "call"
    BY <1>7, <2>1, <2>2
  <2>4. Known(prog, g.out, pc', m')
    BY <2>2, <2>3, SureOfNothing DEF Known, Transfers
  <2>5. call' = <<i[2], 1>> /\ exit' = <<>>
    BY <1>1, <1>7 DEF Leaves
  <2>6. 1 \in 1..Len(Library[i[2]]) + 2
    <3>1. Library[i[2]] = RoutineCode(i[2])
      BY <2>1 DEF Library
    <3>2. Len(RoutineCode(i[2])) \in Nat
      BY <2>1, RoutinesAssumption
    <3> QED BY <3>1, <3>2
  <2>7. call'[1] \in Routines /\ call'[2] \in 1..Len(Library[call'[1]]) + 2
    BY <2>1, <2>5, <2>6
  <2>8. m' \in Machine(Cells)
    BY <1>1, <1>5
  <2> HIDE DEF i
  <2> QED BY <1>1, <1>2, <2>2, <2>3, <2>4, <2>5, <2>7, <2>8 DEF IInv, Library
<1>8. CASE i[1] # "call"
  <2>1. pc' = done.pc /\ call' = <<>> /\ m' = done.m
    BY <1>1, <1>8
  <2>2. exit' \in {<<>>, TrueSide, FalseSide, <<"return">>}
    <3>1. CASE i[1] = "return"
      BY <1>1, <3>1
    <3>2. CASE i[1] # "return" /\ ~Leaves(g.out, i)
      BY <1>1, <3>2
    <3>3. CASE i[1] # "return" /\ Leaves(g.out, i)
      <4>1. i[1] = "goto" /\ \A j \in DOMAIN g.out : g.out[j] # <<"label", i[2]>>
        BY <3>3 DEF Leaves
      <4>2. done.pc \in DOMAIN g.out /\ g.out[done.pc] = i
        BY <1>3, <1>6, <4>1
      <4>3. Lands(g.out, Sides)
        BY <1>3 DEF Emitted
      <4>4. i[2] \in Sides
        BY <4>1, <4>2, <4>3 DEF Lands
      <4> QED BY <1>1, <3>3, <4>4 DEF Sides
    <3> QED BY <3>1, <3>2, <3>3
  <2> HIDE DEF i
  <2> QED BY <1>1, <1>2, <1>5, <2>1, <2>2 DEF IInv
<1> QED BY <1>7, <1>8

(* A routine's turn.                                                       *)
LEMMA RoutineTurnInv ==
  ASSUME IInv, RoutineTurn
  PROVE  IInv'
<1> DEFINE code == Library[call[1]]
           done == TurnOf(Cells, MaxTurn, code, m, call[2])
<1>1. /\ call # <<>> /\ m' = done.m
      /\ call' = (IF At(code, done.pc)[1] = "return" THEN <<>> ELSE <<call[1], done.pc>>)
      /\ prog' = prog /\ k' = k /\ g' = g /\ pc' = pc /\ exit' = exit
  BY DEF RoutineTurn, Running
<1>2. /\ pc > 1 /\ g.out[pc - 1][1] = "call" /\ call[1] \in Routines /\ call[2] \in 1..Len(code) + 2
      /\ pc \in 1..Len(g.out) + 1 /\ m \in Machine(Cells) /\ g \in Selector(prog, <<>>, Sides)
  BY <1>1 DEF IInv
<1>3. code = RoutineCode(call[1])
  BY <1>2 DEF Library
<1>4. done.m \in Machine(Cells) /\ done.pc \in 1..Len(code) + 2
  BY <1>2, <1>3, RoutineKeeps
<1> HIDE DEF done
<1>5. Known(prog, g.out, pc, m')
  <2>1. pc \in Nat
    BY <1>2, OutIs
  <2> QED BY <1>2, <2>1, SureOfNothing DEF Known, Transfers
<1>6. call' # <<>> => call' = <<call[1], done.pc>>
  BY <1>1
<1>7. call' # <<>> => /\ call'[1] \in Routines
                      /\ call'[2] \in 1..Len(Library[call'[1]]) + 2
  BY <1>2, <1>4, <1>6
<1>8. m' \in Machine(Cells)
  BY <1>1, <1>4
<1> QED BY <1>1, <1>2, <1>5, <1>7, <1>8 DEF IInv, Library

(* An interrupt changes nothing but globals.                               *)
LEMMA InterruptInv ==
  ASSUME IInv, Interrupt
  PROVE  IInv'
<1>1. Idle /\ prog' = prog /\ k' = k /\ g' = g /\ pc' = pc /\ call' = call /\ exit' = exit
  BY DEF Interrupt
<1>2. PICK x \in DOMAIN prog.globals : \E v \in prog.input[x] :
        m' = [m EXCEPT !.mem = [f \in Cells |->
                IF f - prog.slot[x] + 1 \in DOMAIN v THEN v[f - prog.slot[x] + 1] ELSE @[f]]]
  BY DEF Interrupt
<1>21. PICK v \in prog.input[x] :
        m' = [m EXCEPT !.mem = [f \in Cells |->
                IF f - prog.slot[x] + 1 \in DOMAIN v THEN v[f - prog.slot[x] + 1] ELSE @[f]]]
  BY <1>2
<1>3. call = <<>> /\ pc > Len(g.out)
  BY <1>1 DEF Idle, Running
<1>4. /\ g \in Selector(prog, <<>>, Sides) /\ pc \in 1..Len(g.out) + 1 /\ Known(prog, g.out, pc, m)
      /\ m \in Machine(Cells) /\ IsProgram(prog)
  BY ProgIs DEF IInv
<1>5. m.mem \in [Cells -> Byte] /\ m = [w |-> m.w, c |-> m.c, z |-> m.z, mem |-> m.mem]
      /\ m.w \in Byte /\ m.c \in 0..1 /\ m.z \in 0..1
  BY <1>4, MachineIs
<1> DEFINE mem == [f \in Cells |-> IF f - prog.slot[x] + 1 \in DOMAIN v THEN v[f - prog.slot[x] + 1] ELSE m.mem[f]]
<1>6. m' = [w |-> m.w, c |-> m.c, z |-> m.z, mem |-> mem]
  <2>1. m' = [m EXCEPT !.mem = mem]
    BY <1>21
  <2> HIDE DEF mem
  <2> QED BY <1>5, <2>1
<1>7. v \in Seq(Byte) /\ Len(v) = prog.globals[x] /\ prog.slot[x] \in Nat
  BY <1>4 DEF IsProgram
<1>8. mem \in [Cells -> Byte]
  <2>1. \A j \in DOMAIN v : v[j] \in Byte
    BY <1>7
  <2> QED BY <1>5, <2>1
<1>9. \A f \in Cells : f \notin GlobalBytes(prog) => mem[f] = m.mem[f]
  <2> SUFFICES ASSUME NEW f \in Cells, f - prog.slot[x] + 1 \in DOMAIN v
               PROVE  f \in GlobalBytes(prog)
    OBVIOUS
  <2>1. f \in Nat
    BY CellsAssumption
  <2>2. f - prog.slot[x] + 1 \in 1..Len(v) /\ Len(v) \in Nat
    BY <1>7
  <2>3. f \in prog.slot[x]..prog.slot[x] + prog.globals[x] - 1
    <3>1. prog.slot[x] \in Nat /\ prog.globals[x] = Len(v)
      BY <1>7
    <3>2. f \in prog.slot[x]..prog.slot[x] + Len(v) - 1
      BY <2>1, <2>2, <3>1
    <3> QED BY <3>1, <3>2, Zenon
  <2> QED BY <2>3 DEF GlobalBytes
<1> HIDE DEF mem
<1>10. m' \in Machine(Cells) /\ m'.w = m.w /\ m'.c = m.c /\ m'.z = m.z /\ m'.mem = mem
  BY <1>5, <1>6, <1>8, MachineIs
<1>11. Sure(prog, g.out, pc, m)
  <2>1. Len(g.out) \in Nat
    BY <1>4, OutIs
  <2> QED BY <1>3, <1>4, <2>1 DEF Known, AtLabel
<1>12. CopySure(prog, g.out, pc, m')
  BY <1>9, <1>10, <1>11 DEF Sure, CopySure
<1>13. ZeroSure(g.out, pc, m') /\ BlankSure(g.out, pc, m')
  BY <1>10, <1>11 DEF Sure, ZeroSure, ZeroTold, BlankSure
<1>14. TestSure(g.out, pc, m')
  <2>1. \A sk, b : Taken(m', sk, b) = Taken(m, sk, b)
    BY <1>10 DEF Taken, Bit
  <2> QED BY <1>10, <1>11, <2>1 DEF Sure, TestSure
<1>15. Known(prog, g.out, pc, m')
  BY <1>12, <1>13, <1>14 DEF Known, Sure
<1> QED BY <1>1, <1>3, <1>4, <1>10, <1>15 DEF IInv

(* Every step keeps the invariant.                                         *)
LEMMA StepInv ==
  ASSUME IInv, [Next]_vars
  PROVE  IInv'
<1>1. CASE LowerNext
  BY <1>1, LowerNextInv
<1>2. CASE Turn
  BY <1>2, TurnInv
<1>3. CASE RoutineTurn
  BY <1>3, RoutineTurnInv
<1>4. CASE Interrupt
  BY <1>4, InterruptInv
<1>5. CASE UNCHANGED vars
  BY <1>5 DEF vars, IInv
<1> QED BY <1>1, <1>2, <1>3, <1>4, <1>5 DEF Next, Finished

(* The invariant has the types.                                            *)
LEMMA InvType == IInv => TypeOK
<1> SUFFICES ASSUME IInv PROVE TypeOK
  OBVIOUS
<1>1. m \in Machine(Cells) /\ g \in Selector(prog, <<>>, Sides)
  BY DEF IInv
<1>2. m.w \in Byte /\ m.c \in 0..1 /\ m.z \in 0..1 /\ m.mem \in [Cells -> Byte]
  BY <1>1, MachineIs
<1>3. g \in Gen(prog)
  BY <1>1, OutIs
<1>4. g.holds \in Cells \union {None} /\ g.defer \in Cells \union {None}
      /\ g.rel \in {<<>>} \cup ({C, Z} \X {"btfsc", "btfss"})
  BY <1>3 DEF Gen
<1>5. g.rel = <<>> \/ (g.rel[1] \in {C, Z} /\ g.rel[2] \in SkipOps)
  BY <1>4 DEF SkipOps
<1> QED BY <1>2, <1>4, <1>5 DEF TypeOK, IInv

(* What is sure where the code ends is what the selector believes.         *)
LEMMA InvBelief == IInv => BeliefHolds
<1> SUFFICES ASSUME IInv, Idle
             PROVE  /\ g.holds # None /\ g.committed => m.mem[g.holds] = m.w
                    /\ g.rel # <<>> => m.w = (IF g.rel[2] = "btfss" THEN Bit(m, STATUS, g.rel[1])
                                              ELSE 1 - Bit(m, STATUS, g.rel[1]))
                    /\ AluResultFresh(g) => m.z = (IF m.w = 0 THEN 1 ELSE 0)
  BY DEF BeliefHolds
<1> DEFINE q == Len(g.out)
<1>1. /\ g \in Selector(prog, <<>>, Sides) /\ pc \in 1..q + 1 /\ Known(prog, g.out, pc, m) /\ pc > q
  BY DEF IInv, Idle
<1>2. q \in Nat /\ g \in Gen(prog) /\ Held(prog, g) /\ Told(g)
  BY <1>1, OutIs
<1>3. pc = q + 1 /\ pc - 1 = q /\ pc - 2 = q - 1 /\ pc - 3 = q - 2 /\ pc - 4 = q - 3
  BY <1>1, <1>2
<1>4. Sure(prog, g.out, pc, m)
  BY <1>1, <1>2, <1>3 DEF Known, AtLabel
<1>5. g.holds \in Cells \cup {None} /\ g.rel \in {<<>>} \cup ({C, Z} \X {"btfsc", "btfss"})
  BY <1>2 DEF Gen
<1>6. ASSUME g.holds # None, g.committed PROVE m.mem[g.holds] = m.w
  <2>1. g.holds \in Cells /\ g.holds \notin GlobalBytes(prog) /\ Tail2(g.out, g.holds)
    BY <1>2, <1>5, <1>6 DEF Held
  <2> QED BY <1>2, <1>3, <1>4, <2>1 DEF Sure, CopySure, Tail2
<1>7. ASSUME g.rel # <<>>
      PROVE  m.w = (IF g.rel[2] = "btfss" THEN Bit(m, STATUS, g.rel[1])
                    ELSE 1 - Bit(m, STATUS, g.rel[1]))
  <2> DEFINE sk == IF g.rel[2] = "btfss" THEN "btfsc" ELSE "btfss"
             b == g.rel[1]
  <2>1. b \in {C, Z} /\ sk \in {"btfsc", "btfss"}
    BY <1>5, <1>7
  <2>2. /\ q > 3 /\ g.out[q - 3] = <<"movlw", 0>> /\ ~PrevIsSkip(g.out, q - 3)
        /\ g.out[q - 2] = <<sk, STATUS, b>> /\ g.out[q - 1] = <<"movlw", 1>> /\ g.out[q][1] = "movwf"
    BY <1>2, <1>7 DEF Told, TestTail
  <2>3. m.w = Taken(m, sk, b)
    <3> HIDE DEF sk, b, q
    <3>1. pc > 4 /\ pc - 3 > 1 /\ pc - 3 - 1 = q - 3
      BY <1>2, <1>3, <2>2
    <3>2. Testing(g.out, pc - 3, sk, b)
      BY <1>3, <2>1, <2>2, <3>1 DEF Testing
    <3> QED BY <1>3, <1>4, <2>1, <2>2, <3>1, <3>2 DEF Sure, TestSure
  <2>4. g.rel[2] = "btfss" <=> sk = "btfsc"
    OBVIOUS
  <2> QED BY <2>3, <2>4 DEF Taken
<1>8. ASSUME AluResultFresh(g) PROVE m.z = (IF m.w = 0 THEN 1 ELSE 0)
  <2>1. q > 0 /\ \/ Witness(g.out, q)
                 \/ q > 1 /\ g.out[q][1] = "movwf" /\ ~PrevIsSkip(g.out, q) /\ Witness(g.out, q - 1)
    BY <1>8 DEF AluResultFresh
  <2>2. ZeroTold(m)
    BY <1>2, <1>3, <1>4, <2>1 DEF Sure, ZeroSure
  <2> QED BY <2>2 DEF ZeroTold
<1> QED BY <1>6, <1>7, <1>8

(* The inductive invariant: whatever is lowered, run or interrupted, the   *)
(* emitted code ends in the instructions the selector's beliefs rest on,   *)
(* and the machine has done what they say.                                 *)
THEOREM InvHolds == Spec => []IInv
<1>1. Spec => Init /\ [][Next]_vars
  BY DEF Spec
<1> QED BY <1>1, InitInv, StepInv, PTL

(* The selector and the machine stay well typed for every program: what    *)
(* lowering emits (isel/src/lib.rs) is code over the cells whose jumps     *)
(* land, and a turn of it, of a routine or of an interrupt leaves bytes in *)
(* registers.                                                              *)
THEOREM TypeCorrect == Spec => []TypeOK
  BY InvHolds, InvType, PTL

(* For every program, whatever order interrupts rewrite globals in:        *)
(* whenever the run is at the end of the code emitted so far, W holds the  *)
(* cell the selector believes it holds (w_holds, set by wstore and wload), *)
(* Z tells of W where a test is to be left out (witness), and a remembered *)
(* flag still tells of its boolean.                                        *)
THEOREM BeliefsHold == Spec => []BeliefHolds
  BY InvHolds, InvBelief, PTL
=============================================================================
