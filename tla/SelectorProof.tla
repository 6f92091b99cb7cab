---------------------------- MODULE SelectorProof ----------------------------
(***************************************************************************)
(* For every program, what the selector emits and what it believes while   *)
(* it emits: every instruction's lowering takes a selector to a selector.  *)
(*                                                                         *)
(* A selector is its code and its beliefs: the code is lines over the      *)
(* cells that end in no skip, each jump has its label or goes to one still *)
(* owed, and each belief is readable in the last lines. W holds a cell     *)
(* when the last line loaded or stored it and was not skipped; a store is  *)
(* put off only where nothing rewrites the cell; a flag's boolean is       *)
(* remembered when the last four lines are its test. The recipes that      *)
(* believe nothing are blocks: plain code that ends in no skip.            *)
(***************************************************************************)
EXTENDS Recipes14, MachineProof, FiniteSetTheorems, SequenceTheorems

-----------------------------------------------------------------------------
(* Numbers, and sequences folded from the left.                            *)

(* The largest number of a finite set of them.                             *)
LEMMA MaxIs ==
  ASSUME NEW n \in Nat, NEW s \in SUBSET (1..n), s # {}
  PROVE  /\ Max(s) \in s /\ \A y \in s : Max(s) >= y
         /\ Max(s) \in 1..n /\ s \ {Max(s)} \in SUBSET (1..n)
<1> DEFINE D == {n - y : y \in s}
<1>1. D \subseteq Nat /\ D # {}
  <2>1. \A y \in s : y \in 1..n /\ n - y \in Nat
    OBVIOUS
  <2>2. PICK y \in s : TRUE
    OBVIOUS
  <2> QED BY <2>1, <2>2
<1>2. PICK d \in D : \A e \in D : d <= e
  <2> HIDE DEF D
  <2> QED BY <1>1, LeastNat
<1>3. \E x \in s : \A y \in s : x >= y
  <2>1. PICK x \in s : d = n - x
    BY <1>2
  <2>2. ASSUME NEW y \in s PROVE x >= y
    <3>1. n - y \in D /\ x \in 1..n /\ y \in 1..n
      OBVIOUS
    <3>2. n - x <= n - y
      BY <1>2, <2>1, <3>1
    <3> QED BY <3>1, <3>2
  <2> QED BY <2>2
<1> QED BY <1>3 DEF Max

(* A prefix of the numbers ends in its largest.                            *)
LEMMA MaxOfPrefix ==
  ASSUME NEW n \in Nat, NEW j \in 1..n
  PROVE  Max(1..j) = j /\ (1..j) \ {j} = 1..(j - 1)
<1>1. 1..j \in SUBSET (1..n) /\ 1..j # {} /\ j \in 1..j
  OBVIOUS
<1>2. Max(1..j) \in 1..j /\ \A y \in 1..j : Max(1..j) >= y
  BY <1>1, MaxIs
<1>3. Max(1..j) = j
  BY <1>1, <1>2
<1> QED BY <1>3

(* What a left fold over a sequence of n elements is defined to be.        *)
FoldOf(it, n, base, F) ==
    \A s \in SUBSET (1..n) :
        it[s] = IF s = {} THEN base ELSE F[<<Max(s), it[s \ {Max(s)}]>>]

(* A fold whose steps stay in T has values, and they are in T.             *)
LEMMA FoldExists ==
  ASSUME NEW n \in Nat, NEW T, NEW base \in T, NEW F \in [(1..n) \X T -> T]
  PROVE  \E it \in [SUBSET (1..n) -> T] : FoldOf(it, n, base, F)
<1> DEFINE Subs == SUBSET (1..n)
           next(c) == [s \in Subs |-> IF s = {} THEN base ELSE F[<<Max(s), c[s \ {Max(s)}]>>]]
           Steps(c, j) == /\ c \in [0..j -> [Subs -> T]] /\ c[0] = [s \in Subs |-> base]
                          /\ \A i \in 1..j : c[i] = next(c[i - 1])
           P == {j \in 0..n : \E c : Steps(c, j)}
<1>1. ASSUME NEW c \in [Subs -> T] PROVE next(c) \in [Subs -> T]
  BY MaxIs
<1>2. 0 \in P
  <2>1. [i \in 0..0 |-> [s \in Subs |-> base]] \in [0..0 -> [Subs -> T]]
    OBVIOUS
  <2>2. Steps([i \in 0..0 |-> [s \in Subs |-> base]], 0)
    BY <2>1
  <2> HIDE DEF Steps
  <2> QED BY <2>2
<1>3. ASSUME NEW j \in 1..n, j - 1 \in P PROVE j \in P
  <2>1. PICK c : Steps(c, j - 1)
    BY <1>3
  <2> HIDE DEF next, Subs
  <2> DEFINE d == [i \in 0..j |-> IF i = j THEN next(c[j - 1]) ELSE c[i]]
  <2>2. next(c[j - 1]) \in [Subs -> T]
    BY <2>1, <1>1
  <2>3. d \in [0..j -> [Subs -> T]]
    <3>1. \A i \in 0..j : i # j => i \in 0..(j - 1)
      OBVIOUS
    <3>2. \A i \in 0..j : d[i] \in [Subs -> T]
      BY <2>1, <2>2, <3>1
    <3> QED BY <3>2
  <2>4. ASSUME NEW i \in 1..j PROVE d[i] = next(d[i - 1])
    <3>1. d[i - 1] = c[i - 1]
      OBVIOUS
    <3>2. CASE i = j
      BY <3>1, <3>2
    <3>3. CASE i # j
      <4>1. i \in 1..(j - 1) /\ d[i] = c[i]
        BY <3>3
      <4> QED BY <2>1, <3>1, <4>1
    <3> QED BY <3>2, <3>3
  <2>5. d[0] = c[0] /\ c[0] = [s \in Subs |-> base]
    BY <2>1
  <2> HIDE DEF d
  <2>6. Steps(d, j)
    BY <2>3, <2>4, <2>5
  <2> HIDE DEF Steps
  <2> QED BY <2>6
<1>4. n \in P
  <2> HIDE DEF P
  <2> QED BY <1>2, <1>3, Climbs
<1>5. PICK c : Steps(c, n)
  BY <1>4
<1>6. IsFiniteSet(1..n) /\ Cardinality(1..n) = n
  BY FS_Interval
<1>7. \A s \in Subs : /\ IsFiniteSet(s) /\ Cardinality(s) \in 0..n
                    /\ (Cardinality(s) = 0 <=> s = {})
  <2> SUFFICES ASSUME NEW s \in Subs
               PROVE  /\ IsFiniteSet(s) /\ Cardinality(s) \in 0..n
                      /\ (Cardinality(s) = 0 <=> s = {})
    OBVIOUS
  <2>0. s \in SUBSET (1..n)
    OBVIOUS
  <2> HIDE DEF Subs
  <2>a. IsFiniteSet(s) /\ Cardinality(s) <= Cardinality(1..n)
    BY <1>6, <2>0, FS_Subset, Zenon
  <2>1. IsFiniteSet(s) /\ Cardinality(s) <= n
    BY <1>6, <2>a
  <2>2. Cardinality(s) \in Nat
    BY <2>1, FS_CardinalityType
  <2>3. Cardinality(s) = 0 <=> s = {}
    BY <2>1, FS_EmptySet
  <2> QED BY <2>1, <2>2, <2>3
<1> DEFINE it == [s \in Subs |-> c[Cardinality(s)][s]]
<1>8. it \in [Subs -> T]
  <2>1. c \in [0..n -> [Subs -> T]]
    BY <1>5
  <2> HIDE DEF Steps, Subs
  <2>2. \A s \in Subs : c[Cardinality(s)] \in [Subs -> T]
    BY <2>1, <1>7
  <2> QED BY <2>2
<1>9. ASSUME NEW s \in Subs
      PROVE  it[s] = IF s = {} THEN base ELSE F[<<Max(s), it[s \ {Max(s)}]>>]
  <2>1. CASE s = {}
    <3>1. Cardinality(s) = 0 /\ it[s] = c[0][s]
      BY <1>7, <2>1
    <3> QED BY <1>5, <2>1, <3>1
  <2>2. CASE s # {}
    <3> DEFINE x == Max(s)
               r == s \ {x}
               q == Cardinality(s)
    <3>1. x \in s /\ r \in Subs
      BY <2>2, MaxIs
    <3>2. q \in 1..n /\ Cardinality(r) = q - 1
      BY <1>7, <2>2, <3>1, FS_RemoveElement
    <3>3. c[q] = next(c[q - 1])
      BY <1>5, <3>2
    <3>4. next(c[q - 1])[s] = F[<<x, c[q - 1][r]>>]
      BY <2>2
    <3>5. it[s] = c[q][s] /\ it[r] = c[q - 1][r]
      BY <3>1, <3>2
    <3> QED BY <2>2, <3>3, <3>4, <3>5
  <2> QED BY <2>1, <2>2
<1> HIDE DEF it
<1> QED BY <1>8, <1>9 DEF FoldOf

(* A fold's values stay where each step leads.                             *)
LEMMA FoldStays ==
  ASSUME NEW n \in Nat, NEW T, NEW it, it[{}] \in T,
         \A s \in SUBSET (1..n) : s # {} /\ it[s \ {Max(s)}] \in T => it[s] \in T
  PROVE  \A j \in 0..n : it[1..j] \in T
<1> DEFINE P == {j \in 0..n : it[1..j] \in T}
<1>1. 0 \in P
  <2>1. 1..0 = {}
    OBVIOUS
  <2> QED BY <2>1
<1>2. ASSUME NEW j \in 1..n, j - 1 \in P PROVE j \in P
  <2>1. Max(1..j) = j /\ (1..j) \ {j} = 1..(j - 1)
    BY MaxOfPrefix
  <2>2. 1..j \in SUBSET (1..n) /\ 1..j # {}
    OBVIOUS
  <2>3. it[(1..j) \ {Max(1..j)}] \in T
    BY <1>2, <2>1
  <2>4. it[1..j] \in T
    BY <2>2, <2>3
  <2> QED BY <2>4
<1> HIDE DEF P
<1>3. \A j \in 0..n : j \in P
  BY <1>1, <1>2, Climbs
<1> QED BY <1>3 DEF P

-----------------------------------------------------------------------------
(* The instructions the selector emits, and what it emits of them.         *)

Plain ==
    (LiteralOps \X Byte) \cup ({"movwf", "clrf"} \X Cells)
    \cup (FileOps \X Cells \X {"w", "f"})
    \cup (BitOps \X Cells \X (0..7)) \cup (BitOps \X {STATUS} \X {C, Z})

Labels == {TrueSide, FalseSide} \cup ({"else", "end", "pos", "fill", "clr"} \X Nat)
Lines ==
    Plain \cup ({"label", "goto"} \X Labels) \cup ({"call"} \X Routines) \cup {<<"return">>}

(* Plain code after which nothing is skipped.                              *)
Block == {s \in Seq(Plain) : s # <<>> /\ s[Len(s)][1] \notin SkipOps}
Block0 == Block \cup {<<>>}

(* The operations that are plain code.                                     *)
LEMMA PlainLine ==
  /\ \A op \in LiteralOps, x \in Byte : <<op, x>> \in Plain
  /\ \A f \in Cells : <<"movwf", f>> \in Plain /\ <<"clrf", f>> \in Plain
  /\ \A op \in FileOps, f \in Cells : WF(op, f) \in Plain /\ FF(op, f) \in Plain
  /\ \A op \in BitOps, f \in Cells, b \in 0..7 : <<op, f, b>> \in Plain
  /\ \A op \in BitOps, b \in {C, Z} : <<op, STATUS, b>> \in Plain
  BY DEF Plain, WF, FF

(* One instruction that is no skip is a block.                             *)
LEMMA OneLine ==
  ASSUME NEW i \in Plain, i[1] \notin SkipOps
  PROVE  <<i>> \in Block
  BY DEF Block

(* Plain code before a block makes a block.                                *)
LEMMA BlockCat ==
  ASSUME NEW s \in Seq(Plain), NEW t \in Block
  PROVE  s \o t \in Block
<1>1. t \in Seq(Plain) /\ t # <<>>
  BY DEF Block
<1>2. Len(t) \in Nat /\ Len(t) > 0 /\ Len(s) \in Nat
  BY <1>1
<1>3. s \o t \in Seq(Plain) /\ Len(s \o t) = Len(s) + Len(t)
  BY <1>1
<1>4. (s \o t)[Len(s) + Len(t)] = t[Len(t)]
  BY <1>1, <1>2
<1>5. t[Len(t)][1] \notin SkipOps
  BY DEF Block
<1>6. s \o t # <<>> /\ (s \o t)[Len(s \o t)][1] \notin SkipOps
  BY <1>2, <1>3, <1>4, <1>5
<1> QED BY <1>3, <1>6 DEF Block

(* A block is plain code.                                                  *)
LEMMA BlockSeq == Block \subseteq Block0 /\ Block0 \subseteq Seq(Plain)
<1>1. <<>> \in Seq(Plain)
  OBVIOUS
<1> QED BY <1>1 DEF Block, Block0

(* Two blocks make one.                                                    *)
LEMMA Block0Cat ==
  ASSUME NEW s \in Block0, NEW t \in Block0
  PROVE  s \o t \in Block0
<1>1. CASE t \in Block
  BY <1>1, BlockCat, BlockSeq
<1>2. CASE t = <<>>
  BY <1>2, BlockSeq
<1> QED BY <1>1, <1>2 DEF Block0

(* Any number of blocks make one.                                          *)
LEMMA FlattenBlocks ==
  ASSUME NEW n \in Nat, NEW seqs, DOMAIN seqs = 1..n, seqs = [j \in 1..n |-> seqs[j]],
         \A j \in 1..n : seqs[j] \in Block0
  PROVE  FlattenSeq(seqs) \in Block0
<1>1. seqs \in Seq(Block0) /\ Len(seqs) = n
  OBVIOUS
<1>2. CASE n = 0
  <2>1. seqs = <<>>
    BY <1>1, <1>2
  <2> QED BY <1>1, <1>2, <2>1 DEF FlattenSeq, Block0
<1>3. CASE n # 0
  <2> DEFINE Subs == {1..j : j \in 0..n}
             F == [a \in (1..n) \X Block0 |-> a[2] \o seqs[a[1]]]
  <2>1. F \in [(1..n) \X Block0 -> Block0]
    BY Block0Cat
  <2>2. <<>> \in Block0
    BY DEF Block0
  <2>3. PICK it \in [SUBSET (1..n) -> Block0] : FoldOf(it, n, <<>>, F)
    <3> HIDE DEF F
    <3> QED BY <2>1, <2>2, FoldExists
  <2> DEFINE Eq(f) == f = [i \in 1..n |-> IF i = 1 THEN seqs[i] ELSE f[i - 1] \o seqs[i]]
             fl == CHOOSE f : Eq(f)
             w == [i \in 1..n |-> it[1..i]]
  <2>4. ASSUME NEW i \in 1..n PROVE it[1..i] = it[1..(i - 1)] \o seqs[i]
    <3>1. Max(1..i) = i /\ (1..i) \ {i} = 1..(i - 1)
      BY MaxOfPrefix
    <3>2. 1..i \in SUBSET (1..n) /\ 1..i # {} /\ 1..(i - 1) \in SUBSET (1..n)
      OBVIOUS
    <3>3. it[1..(i - 1)] \in Block0
      BY <3>2
    <3>4. F[<<i, it[1..(i - 1)]>>] = it[1..(i - 1)] \o seqs[i]
      BY <3>3
    <3> HIDE DEF F
    <3>5. it[1..i] = F[<<i, it[1..(i - 1)]>>]
      BY <2>3, <3>1, <3>2, Zenon DEF FoldOf
    <3> QED BY <3>4, <3>5, Zenon
  <2>5. it[1..1] = seqs[1]
    <3>0. it[{}] = <<>>
      <4>1. {} \in SUBSET (1..n)
        OBVIOUS
      <4> HIDE DEF F
      <4> QED BY <2>3, <4>1 DEF FoldOf
    <3>1. 1..(1 - 1) = {}
      OBVIOUS
    <3>4. 1 \in 1..n
      BY <1>3
    <3>5. it[1..1] = it[1..(1 - 1)] \o seqs[1]
      BY <2>4, <3>4
    <3>2. it[1..1] = <<>> \o seqs[1]
      BY <3>0, <3>1, <3>5
    <3>3. seqs[1] \in Seq(Plain)
      BY <1>3, BlockSeq
    <3> QED BY <3>2, <3>3
  <2>6. Eq(w)
    <3>1. ASSUME NEW i \in 1..n PROVE w[i] = IF i = 1 THEN seqs[i] ELSE w[i - 1] \o seqs[i]
      <4>1. CASE i = 1
        BY <2>5, <4>1
      <4>2. CASE i # 1
        <5>1. i - 1 \in 1..n /\ w[i] = it[1..i] /\ w[i - 1] = it[1..(i - 1)]
          BY <4>2
        <5> HIDE DEF w
        <5> QED BY <2>4, <4>2, <5>1
      <4> QED BY <4>1, <4>2
    <3> QED BY <3>1
  <2>7. Eq(fl)
    <3> HIDE DEF w
    <3> QED BY <2>6
  <2>8. FlattenSeq(seqs) = fl[n]
    BY <1>1, <1>3 DEF FlattenSeq
  <2>9. \A i \in 1..n : fl[i] \in Block0
    <3> HIDE DEF fl
    <3> DEFINE P == {i \in 0..n : i = 0 \/ fl[i] \in Block0}
    <3>1. 0 \in P
      OBVIOUS
    <3>2. ASSUME NEW i \in 1..n, i - 1 \in P PROVE i \in P
      <4>1. fl[i] = IF i = 1 THEN seqs[i] ELSE fl[i - 1] \o seqs[i]
        BY <2>7
      <4>2. fl[i] \in Block0
        BY <3>2, <4>1, Block0Cat
      <4> QED BY <4>2
    <3> HIDE DEF P
    <3>3. \A i \in 0..n : i \in P
      BY <3>1, <3>2, Climbs
    <3> QED BY <3>3 DEF P
  <2> HIDE DEF fl
  <2> QED BY <1>3, <2>8, <2>9
<1> QED BY <1>2, <1>3

-----------------------------------------------------------------------------
(* The recipes that are plain code.                                        *)

Reg(p, v, n) == Addr(p, v) \in Nat /\ \A j \in 0..n - 1 : Addr(p, v) + j \in Cells
Constant(v, n) == \A j \in 0..n - 1 : ByteK(v, j) \in Byte
Operand(p, v, n) == IF IsConst(v) THEN Constant(v, n) ELSE Reg(p, v, n)
Dest(dst, n) == dst \in Nat /\ \A j \in 0..n - 1 : dst + j \in Cells

(* A program's operands are constants or cells.                            *)
LEMMA OperandIs ==
  ASSUME NEW p, IsProgram(p), NEW v, NEW n \in Nat \ {0}
  PROVE  /\ IsOperand(p, v, n) => Operand(p, v, n)
         /\ IsRegister(p, v, n) => Reg(p, v, n) /\ ~IsConst(v)
<1>1. ASSUME IsRegister(p, v, n) PROVE Reg(p, v, n) /\ ~IsConst(v)
  <2>1. v[1] = "r" /\ v[2] \in DOMAIN p.slot /\ BytesOf(p.slot[v[2]], n) \subseteq Cells
    BY <1>1 DEF IsRegister, InSlot
  <2>2. p.slot[v[2]] \in Nat
    BY <2>1 DEF IsProgram
  <2>3. \A j \in 0..n - 1 : p.slot[v[2]] + j \in Cells
    BY <2>1, <2>2 DEF BytesOf
  <2>4. ~IsConst(v)
    BY <2>1 DEF IsConst
  <2> QED BY <2>2, <2>3, <2>4 DEF Reg, Addr
<1>2. ASSUME v[1] = "k", v[2] \in Seq(Byte), Len(v[2]) >= n PROVE IsConst(v) /\ Constant(v, n)
  <2>1. \A j \in 0..n - 1 : v[2][j + 1] \in Byte
    BY <1>2
  <2> QED BY <1>2, <2>1 DEF Constant, ByteK, IsConst
<1> QED BY <1>1, <1>2 DEF IsOperand, Operand

(* A program's results are in cells.                                       *)
LEMMA DestIs ==
  ASSUME NEW p, IsProgram(p), NEW x, NEW n \in Nat \ {0}, InSlot(p, x, n)
  PROVE  Dest(p.slot[x], n) /\ x \in DOMAIN p.slot
<1>1. x \in DOMAIN p.slot /\ BytesOf(p.slot[x], n) \subseteq Cells
  BY DEF InSlot
<1>2. p.slot[x] \in Nat
  BY <1>1 DEF IsProgram
<1> QED BY <1>1, <1>2 DEF BytesOf, Dest

(* Plain code after plain code is plain code.                              *)
LEMMA PlainCat ==
  /\ \A s, t \in Seq(Plain) : s \o t \in Seq(Plain)
  /\ \A s, t \in Seq(Plain), u \in Block : s \o t \o u \in Block
<1>1. \A s, t \in Seq(Plain) : s \o t \in Seq(Plain)
  OBVIOUS
<1> QED BY <1>1, BlockCat

(* Short sequences of plain instructions.                                  *)
LEMMA Tuples ==
  /\ <<>> \in Seq(Plain) /\ \A a \in Plain : <<a>> \in Seq(Plain)
  /\ \A a, b \in Plain : <<a, b>> \in Seq(Plain)
  /\ \A a, b, c \in Plain : <<a, b, c>> \in Seq(Plain)
  OBVIOUS

(* A block from its lines.                                                 *)
LEMMA Blocks ==
  /\ \A a, b \in Plain : b[1] \notin SkipOps => <<a, b>> \in Block
  /\ \A a, b, c \in Plain : c[1] \notin SkipOps => <<a, b, c>> \in Block
  /\ \A a, b, c, d \in Plain : d[1] \notin SkipOps => <<a, b, c, d>> \in Block
  BY DEF Block

Operand2(p, i, n) == Operand(p, i.a, n) /\ Operand(p, i.b, n) /\ (IsConst(i.a) => ~IsConst(i.b))

(* Of two operands one is a register.                                      *)
LEMMA RegOtherIs ==
  ASSUME NEW p, NEW i, NEW n, Operand2(p, i, n)
  PROVE  Reg(p, RegOf(i), n) /\ Operand(p, OtherOf(i), n)
  BY DEF Operand2, RegOf, OtherOf, Operand

SkipUnless == {UnlessC, UnlessNC}

(* The carry skips are plain.                                              *)
LEMMA SkipsPlain == SkipUnless \subseteq Plain
  BY PlainLine DEF SkipUnless, UnlessC, UnlessNC, BitOps

(* The literals of the recipes are bytes.                                  *)
LEMMA Literals ==
  /\ <<"addlw", 1>> \in Plain /\ \A x \in {0, 1, 128, 255} : <<"movlw", x>> \in Plain
<1>1. \A x \in {0, 1, 128, 255} : x \in Byte
  BY DEF Byte
<1> QED BY <1>1 DEF Plain, LiteralOps

(* Folding a carry into the accumulator is a block.                        *)
LEMMA BumpPlain ==
  ASSUME NEW skip \in SkipUnless PROVE Bump(skip) \in Block
  BY Literals, SkipsPlain, Blocks DEF Bump, SkipOps

(* The first two bytes of an addition are blocks.                          *)
LEMMA AddBlocks ==
  ASSUME NEW p, NEW i, NEW n \in Nat \ {0}, NEW dst, Operand2(p, i, n), Dest(dst, n)
  PROVE  /\ AddFirst(p, i, dst) \in Block
         /\ n > 1 => AddSecond(p, i, dst) \in Block
<1> DEFINE r == Addr(p, RegOf(i))
           o == OtherOf(i)
<1>1. r \in Cells /\ (n > 1 => r + 1 \in Cells)
  BY RegOtherIs DEF Reg
<1>2. IF IsConst(o) THEN ByteK(o, 0) \in Byte /\ (n > 1 => ByteK(o, 1) \in Byte)
      ELSE Addr(p, o) \in Cells /\ (n > 1 => Addr(p, o) + 1 \in Cells)
  BY RegOtherIs DEF Operand, Reg, Constant
<1>3. dst \in Cells /\ (n > 1 => dst + 1 \in Cells)
  BY DEF Dest
<1>4. AddFirst(p, i, dst) \in Block
  <2>1. <<"movwf", dst>> \in Plain /\ <<<<"movwf", dst>>>> \in Block
    BY <1>3, PlainLine, OneLine DEF SkipOps
  <2>2. CASE IsConst(o)
    <3>1. <<WF("movf", r), <<"addlw", ByteK(o, 0)>>>> \in Seq(Plain)
      BY <1>1, <1>2, <2>2, PlainLine DEF LiteralOps, FileOps
    <3> QED BY <2>1, <2>2, <3>1, BlockCat DEF AddFirst
  <2>3. CASE ~IsConst(o)
    <3>1. <<WF("movf", Addr(p, o)), WF("addwf", r)>> \in Seq(Plain)
      BY <1>1, <1>2, <2>3, PlainLine DEF LiteralOps, FileOps
    <3> QED BY <2>1, <2>3, <3>1, BlockCat DEF AddFirst
  <2> QED BY <2>2, <2>3
<1>5. ASSUME n > 1 PROVE AddSecond(p, i, dst) \in Block
  <2>1. <<"movwf", dst + 1>> \in Plain /\ <<<<"movwf", dst + 1>>>> \in Block
    BY <1>3, <1>5, PlainLine, OneLine DEF SkipOps
  <2>2. Bump(UnlessC) \in Seq(Plain)
    BY BumpPlain, BlockSeq DEF SkipUnless
  <2>3. CASE IsConst(o)
    <3>1. <<WF("movf", r + 1)>> \in Seq(Plain) /\ <<<<"addlw", ByteK(o, 1)>>>> \in Seq(Plain)
      BY <1>1, <1>2, <1>5, <2>3, PlainLine DEF LiteralOps, FileOps
    <3>2. <<WF("movf", r + 1)>> \o Bump(UnlessC) \o <<<<"addlw", ByteK(o, 1)>>>> \in Seq(Plain)
      BY <2>2, <3>1, PlainCat
    <3> QED BY <2>1, <2>3, <3>2, BlockCat DEF AddSecond
  <2>4. CASE ~IsConst(o)
    <3>1. <<WF("movf", Addr(p, o) + 1)>> \in Seq(Plain) /\ <<WF("addwf", r + 1)>> \in Seq(Plain)
      BY <1>1, <1>2, <1>5, <2>4, PlainLine DEF FileOps
    <3>2. <<WF("movf", Addr(p, o) + 1)>> \o Bump(UnlessC) \o <<WF("addwf", r + 1)>> \in Seq(Plain)
      BY <2>2, <3>1, PlainCat
    <3> QED BY <2>1, <2>4, <3>2, BlockCat DEF AddSecond
  <2> QED BY <2>3, <2>4
<1> QED BY <1>4, <1>5

(* The first two bytes of a subtraction are blocks.                        *)
LEMMA SubBlocks ==
  ASSUME NEW p, NEW i, NEW n \in Nat \ {0}, NEW dst, Reg(p, i.a, n), Operand(p, i.b, n),
         Dest(dst, n)
  PROVE  /\ SubFirst(p, i, dst) \in Block
         /\ n > 1 => SubSecond(p, i, dst) \in Block
<1>1. Addr(p, i.a) \in Cells /\ (n > 1 => Addr(p, i.a) + 1 \in Cells)
  BY DEF Reg
<1>2. IF IsConst(i.b) THEN ByteK(i.b, 0) \in Byte /\ (n > 1 => ByteK(i.b, 1) \in Byte)
      ELSE Addr(p, i.b) \in Cells /\ (n > 1 => Addr(p, i.b) + 1 \in Cells)
  BY DEF Operand, Reg, Constant
<1>3. dst \in Cells /\ (n > 1 => dst + 1 \in Cells)
  BY DEF Dest
<1>4. SubFirst(p, i, dst) \in Block
  <2>1. <<WF("subwf", Addr(p, i.a)), <<"movwf", dst>>>> \in Block
    BY <1>1, <1>3, PlainLine, Blocks DEF FileOps, SkipOps
  <2>2. IsConst(i.b) => <<<<"movlw", ByteK(i.b, 0)>>>> \in Seq(Plain)
    BY <1>2, PlainLine DEF LiteralOps
  <2>3. ~IsConst(i.b) => <<WF("movf", Addr(p, i.b))>> \in Seq(Plain)
    BY <1>2, PlainLine DEF FileOps
  <2> QED BY <2>1, <2>2, <2>3, BlockCat DEF SubFirst
<1>5. ASSUME n > 1 PROVE SubSecond(p, i, dst) \in Block
  <2>1. <<WF("subwf", Addr(p, i.a) + 1), <<"movwf", dst + 1>>>> \in Block
    BY <1>1, <1>3, <1>5, PlainLine, Blocks DEF FileOps, SkipOps
  <2>2. IsConst(i.b) => <<<<"movlw", ByteK(i.b, 1)>>>> \in Seq(Plain)
    BY <1>2, <1>5, PlainLine DEF LiteralOps
  <2>3. ~IsConst(i.b) => <<WF("movf", Addr(p, i.b) + 1)>> \in Seq(Plain)
    BY <1>2, <1>5, PlainLine DEF FileOps
  <2>4. Bump(UnlessNC) \in Seq(Plain)
    BY BumpPlain, BlockSeq DEF SkipUnless
  <2> QED BY <2>1, <2>2, <2>3, <2>4, PlainCat DEF SubSecond
<1> QED BY <1>4, <1>5

(* A byte of a carry chain from a file register is a block.                *)
LEMMA ChainFileBlock ==
  ASSUME NEW d \in Cells, NEW acc \in Cells, NEW x \in Cells, NEW skip \in SkipUnless,
         NEW op \in {"addwf", "subwf"}, SCRATCH \in Cells
  PROVE  ChainFile(d, acc, x, skip, op) \in Block
<1>1. \A f \in Cells : WF("movf", f) \in Plain /\ WF("incfsz", f) \in Plain /\ FF(op, f) \in Plain
                      /\ <<"movwf", f>> \in Plain /\ FF(op, f)[1] \notin SkipOps
  BY PlainLine DEF FileOps, FF, SkipOps
<1>2. skip \in Plain
  BY SkipsPlain
<1>3. <<WF("movf", x), skip, WF("incfsz", x), FF(op, d)>> \in Block
  BY <1>1, <1>2, Blocks
<1>4. <<WF("movf", acc), <<"movwf", d>>>> \in Seq(Plain)
  BY <1>1, Tuples
<1>5. <<WF("movf", x), <<"movwf", SCRATCH>>, WF("movf", acc), <<"movwf", d>>,
        WF("movf", SCRATCH), skip, WF("incfsz", SCRATCH), FF(op, d)>> \in Block
  <2>1. WF("movf", x) \in Plain /\ <<"movwf", SCRATCH>> \in Plain /\ WF("movf", acc) \in Plain
        /\ <<"movwf", d>> \in Plain /\ WF("movf", SCRATCH) \in Plain
        /\ WF("incfsz", SCRATCH) \in Plain /\ FF(op, d) \in Plain
    BY <1>1
  <2>2. FF(op, d)[1] \notin SkipOps
    BY <1>1
  <2> HIDE DEF SCRATCH
  <2> QED BY <1>2, <2>1, <2>2 DEF Block
<1> QED BY <1>3, <1>4, <1>5, BlockCat, Tuples DEF ChainFile

(* A byte of a carry chain from a constant is a block.                     *)
LEMMA ChainConstBlock ==
  ASSUME NEW d \in Cells, NEW acc \in Cells, NEW kk \in Byte, NEW skip \in SkipUnless,
         NEW wrapSkip \in SkipUnless, NEW op \in {"addwf", "subwf"},
         NEW wrapOp \in {"addwf", "subwf"}
  PROVE  ChainConst(d, acc, kk, skip, wrapSkip, op, wrapOp) \in Block
<1>1. FF(op, d) \in Plain /\ FF(wrapOp, d) \in Plain
      /\ FF(op, d)[1] \notin SkipOps /\ FF(wrapOp, d)[1] \notin SkipOps
  BY PlainLine DEF FileOps, FF, SkipOps
<1>2. <<WF("movf", acc), <<"movwf", d>>>> \in Seq(Plain)
  <2>1. WF("movf", acc) \in Plain /\ <<"movwf", d>> \in Plain
    BY PlainLine DEF FileOps
  <2> QED BY <2>1, Tuples
<1>3. <<<<"movlw", 1>>, wrapSkip, FF(wrapOp, d)>> \in Block
  BY <1>1, SkipsPlain, Literals, Blocks
<1>4. <<<<"movlw", kk>>>> \in Seq(Plain) /\ Bump(skip) \in Seq(Plain) /\ <<FF(op, d)>> \in Block
  BY <1>1, PlainLine, BumpPlain, BlockSeq, OneLine DEF LiteralOps
<1>5. <<<<"movlw", kk>>>> \o Bump(skip) \o <<FF(op, d)>> \in Block
  BY <1>4, PlainCat
<1> QED BY <1>2, <1>3, <1>5, BlockCat DEF ChainConst

(* Every later byte of a long addition or subtraction is a block.          *)
LEMMA ChainBlocks ==
  ASSUME NEW p, NEW i, NEW n \in Nat \ {0}, NEW dst, Dest(dst, n), SCRATCH \in Cells,
         NEW j \in 0..n - 1
  PROVE  /\ Operand2(p, i, n) => AddByte(p, i, j, dst) \in Block
         /\ Reg(p, i.a, n) /\ Operand(p, i.b, n) => SubByte(p, i, j, dst) \in Block
         /\ Constant(i.a, n) /\ Reg(p, i.b, n) => SubFromByte(p, i, j, dst) \in Block
<1>1. dst + j \in Cells
  BY DEF Dest
<1>2. ASSUME Operand2(p, i, n) PROVE AddByte(p, i, j, dst) \in Block
  <2>1. Addr(p, RegOf(i)) + j \in Cells
    BY <1>2, RegOtherIs DEF Reg
  <2>2. IF IsConst(OtherOf(i)) THEN ByteK(OtherOf(i), j) \in Byte
        ELSE Addr(p, OtherOf(i)) + j \in Cells
    BY <1>2, RegOtherIs DEF Operand, Constant, Reg
  <2> QED BY <1>1, <2>1, <2>2, ChainConstBlock, ChainFileBlock DEF AddByte, SkipUnless
<1>3. ASSUME Reg(p, i.a, n), Operand(p, i.b, n) PROVE SubByte(p, i, j, dst) \in Block
  <2>1. Addr(p, i.a) + j \in Cells
    BY <1>3 DEF Reg
  <2>2. IF IsConst(i.b) THEN ByteK(i.b, j) \in Byte ELSE Addr(p, i.b) + j \in Cells
    BY <1>3 DEF Operand, Constant, Reg
  <2> QED BY <1>1, <2>1, <2>2, ChainConstBlock, ChainFileBlock DEF SubByte, SkipUnless
<1>4. ASSUME Constant(i.a, n), Reg(p, i.b, n) PROVE SubFromByte(p, i, j, dst) \in Block
  <2> DEFINE d == dst + j
  <2>1. Addr(p, i.b) + j \in Cells /\ ByteK(i.a, j) \in Byte
    BY <1>4 DEF Constant, Reg
  <2>2. <<WF("movf", Addr(p, i.b) + j), <<"movwf", d>>, FF("comf", d)>> \in Seq(Plain)
    <3>1. WF("movf", Addr(p, i.b) + j) \in Plain /\ <<"movwf", d>> \in Plain /\ FF("comf", d) \in Plain
      BY <1>1, <2>1, PlainLine DEF FileOps
    <3> QED BY <3>1, Tuples
  <2>3. /\ FF("subwf", d) \in Plain /\ FF("addwf", d) \in Plain
        /\ FF("subwf", d)[1] \notin SkipOps /\ FF("addwf", d)[1] \notin SkipOps
    BY <1>1, PlainLine DEF FileOps, FF, SkipOps
  <2>4. <<<<"movlw", 1>>, UnlessNC, FF("subwf", d)>> \in Block
    BY <2>3, SkipsPlain, Literals, Blocks DEF SkipUnless
  <2>5. /\ <<<<"movlw", ByteK(i.a, j)>>>> \in Seq(Plain) /\ Bump(UnlessC) \in Seq(Plain)
        /\ <<FF("addwf", d)>> \in Block
    BY <2>1, <2>3, PlainLine, BumpPlain, BlockSeq, OneLine DEF LiteralOps, SkipUnless
  <2>6. <<<<"movlw", ByteK(i.a, j)>>>> \o Bump(UnlessC) \o <<FF("addwf", d)>> \in Block
    BY <2>5, PlainCat
  <2> QED BY <2>2, <2>4, <2>6, BlockCat DEF SubFromByte
<1> QED BY <1>2, <1>3, <1>4

\* The bytes after the first of a long addition or subtraction.
AddRest(p, i, dst, n) == Chain(LAMBDA j : AddByte(p, i, j, dst), n)
SubRest(p, i, dst, n) == Chain(LAMBDA j : SubByte(p, i, j, dst), n)
SubFromRest(p, i, dst, n) == Chain(LAMBDA j : SubFromByte(p, i, j, dst), n)

(* The later bytes together are a block.                                   *)
LEMMA ChainsPlain ==
  ASSUME NEW p, NEW i, NEW n \in Nat \ {0}, NEW dst, Dest(dst, n), SCRATCH \in Cells
  PROVE  /\ Operand2(p, i, n) => AddRest(p, i, dst, n) \in Block0
         /\ Reg(p, i.a, n) /\ Operand(p, i.b, n) =>
                SubRest(p, i, dst, n) \in Block0
         /\ Constant(i.a, n) /\ Reg(p, i.b, n) =>
                SubFromRest(p, i, dst, n) \in Block0
<1>1. n - 1 \in Nat /\ \A j \in 1..n - 1 : j \in 0..n - 1
  OBVIOUS
<1>2. ASSUME Operand2(p, i, n)
      PROVE  AddRest(p, i, dst, n) \in Block0
  <2> DEFINE s == [j \in 1..n - 1 |-> AddByte(p, i, j, dst)]
  <2>1. \A j \in 1..n - 1 : s[j] \in Block0
    BY <1>1, <1>2, ChainBlocks, BlockSeq
  <2>2. DOMAIN s = 1..n - 1 /\ s = [j \in 1..n - 1 |-> s[j]]
    OBVIOUS
  <2>3. AddRest(p, i, dst, n) = FlattenSeq(s)
    BY DEF Chain, AddRest, SubRest, SubFromRest
  <2> HIDE DEF s
  <2> QED BY <1>1, <2>1, <2>2, <2>3, FlattenBlocks
<1>3. ASSUME Reg(p, i.a, n), Operand(p, i.b, n)
      PROVE  SubRest(p, i, dst, n) \in Block0
  <2> DEFINE s == [j \in 1..n - 1 |-> SubByte(p, i, j, dst)]
  <2>1. \A j \in 1..n - 1 : s[j] \in Block0
    BY <1>1, <1>3, ChainBlocks, BlockSeq
  <2>2. DOMAIN s = 1..n - 1 /\ s = [j \in 1..n - 1 |-> s[j]]
    OBVIOUS
  <2>3. SubRest(p, i, dst, n) = FlattenSeq(s)
    BY DEF Chain, AddRest, SubRest, SubFromRest
  <2> HIDE DEF s
  <2> QED BY <1>1, <2>1, <2>2, <2>3, FlattenBlocks
<1>4. ASSUME Constant(i.a, n), Reg(p, i.b, n)
      PROVE  SubFromRest(p, i, dst, n) \in Block0
  <2> DEFINE s == [j \in 1..n - 1 |-> SubFromByte(p, i, j, dst)]
  <2>1. \A j \in 1..n - 1 : s[j] \in Block0
    BY <1>1, <1>4, ChainBlocks, BlockSeq
  <2>2. DOMAIN s = 1..n - 1 /\ s = [j \in 1..n - 1 |-> s[j]]
    OBVIOUS
  <2>3. SubFromRest(p, i, dst, n) = FlattenSeq(s)
    BY DEF Chain, AddRest, SubRest, SubFromRest
  <2> HIDE DEF s
  <2> QED BY <1>1, <2>1, <2>2, <2>3, FlattenBlocks
<1> QED BY <1>2, <1>3, <1>4

-----------------------------------------------------------------------------
(* Shifts and fills.                                                       *)

(* A sequence of plain instructions without skips is a block.              *)
LEMMA EachLine ==
  ASSUME NEW n \in Nat, NEW s, s = [j \in 1..n |-> s[j]],
         \A j \in 1..n : s[j] \in Plain /\ s[j][1] \notin SkipOps
  PROVE  s \in Block0 /\ (n > 0 => s \in Block)
<1>1. s \in Seq(Plain) /\ Len(s) = n
  OBVIOUS
<1>2. CASE n = 0
  <2>1. s = <<>>
    BY <1>1, <1>2
  <2> QED BY <1>2, <2>1 DEF Block0
<1>3. CASE n > 0
  <2>1. s[n][1] \notin SkipOps /\ s # <<>>
    BY <1>1, <1>3
  <2> QED BY <1>1, <2>1 DEF Block, Block0
<1> QED BY <1>2, <1>3

(* A shift by one is a block.                                              *)
LEMMA ShiftBlock ==
  ASSUME NEW op \in {"shl", "lshr", "ashr"}, NEW x, NEW n \in Nat \ {0}, Dest(x, n)
  PROVE  ShiftOnce(op, x, n) \in Block
<1>1. x \in Nat /\ \A j \in 1..n : x + j - 1 \in Cells /\ x + n - j \in Cells
  <2>1. \A j \in 1..n : j - 1 \in 0..n - 1 /\ n - j \in 0..n - 1
    OBVIOUS
  <2>2. \A j \in 0..n - 1 : x + j \in Cells
    BY DEF Dest
  <2>3. x \in Nat
    BY DEF Dest
  <2>4. \A j \in 1..n : x + (j - 1) = x + j - 1 /\ x + (n - j) = x + n - j
    BY <2>3
  <2> QED BY <2>1, <2>2, <2>3, <2>4
<1>2. RotateUp(x, n) \in Block
  <2> DEFINE s == [j \in 1..n |-> FF("rlf", x + j - 1)]
  <2>1. \A j \in 1..n : s[j] \in Plain /\ s[j][1] \notin SkipOps
    BY <1>1, PlainLine DEF FileOps, FF, SkipOps
  <2>2. s = [j \in 1..n |-> s[j]]
    OBVIOUS
  <2>3. RotateUp(x, n) = s
    BY DEF RotateUp
  <2> HIDE DEF s
  <2> QED BY <2>1, <2>2, <2>3, EachLine
<1>3. RotateDown(x, n) \in Block
  <2> DEFINE s == [j \in 1..n |-> FF("rrf", x + n - j)]
  <2>1. \A j \in 1..n : s[j] \in Plain /\ s[j][1] \notin SkipOps
    BY <1>1, PlainLine DEF FileOps, FF, SkipOps
  <2>2. s = [j \in 1..n |-> s[j]]
    OBVIOUS
  <2>3. RotateDown(x, n) = s
    BY DEF RotateDown
  <2> HIDE DEF s
  <2> QED BY <2>1, <2>2, <2>3, EachLine
<1>4. ClearC \in Plain /\ <<ClearC>> \in Seq(Plain)
  BY PlainLine, Tuples DEF ClearC, BitOps
<1>5. SignToC(x + n - 1) \in Seq(Plain)
  <2>1. x + n - 1 \in Cells
    BY <1>1
  <2>2. /\ <<"btfsc", x + n - 1, 7>> \in Plain /\ <<"bsf", STATUS, C>> \in Plain
        /\ <<"btfss", x + n - 1, 7>> \in Plain
    BY <2>1 DEF Plain, BitOps
  <2> QED BY <1>4, <2>2 DEF SignToC
<1>6. \A t \in Block : <<ClearC>> \o t \in Block /\ SignToC(x + n - 1) \o t \in Block
  BY <1>4, <1>5, BlockCat
<1>7. CASE op = "shl"
  BY <1>2, <1>6, <1>7 DEF ShiftOnce
<1>8. CASE op = "lshr"
  BY <1>3, <1>6, <1>8 DEF ShiftOnce
<1>9. CASE op = "ashr"
  BY <1>3, <1>6, <1>9 DEF ShiftOnce
<1> QED BY <1>7, <1>8, <1>9

(* A block any number of times is one.                                     *)
LEMMA RepeatBlock ==
  ASSUME NEW s \in Block, NEW kk \in Nat
  PROVE  Repeat(s, kk) \in Block0
<1> DEFINE t == [j \in 1..kk |-> s]
<1>1. DOMAIN t = 1..kk /\ t = [j \in 1..kk |-> t[j]] /\ \A j \in 1..kk : t[j] \in Block0
  BY BlockSeq
<1>2. Repeat(s, kk) = FlattenSeq(t)
  BY DEF Repeat
<1> HIDE DEF t
<1> QED BY <1>1, <1>2, FlattenBlocks

(* Clearing cells in a row is a block.                                     *)
LEMMA ClearsBlock ==
  ASSUME NEW x \in Nat, NEW n \in Nat, \A j \in 1..n : x + j - 1 \in Cells
  PROVE  [j \in 1..n |-> <<"clrf", x + j - 1>>] \in Block0
<1> DEFINE s == [j \in 1..n |-> <<"clrf", x + j - 1>>]
<1>1. \A j \in 1..n : s[j] \in Plain /\ s[j][1] \notin SkipOps
  BY PlainLine DEF SkipOps
<1>2. s = [j \in 1..n |-> s[j]]
  OBVIOUS
<1> HIDE DEF s
<1>3. s \in Block0
  BY <1>1, <1>2, EachLine
<1> QED BY <1>3 DEF s

-----------------------------------------------------------------------------
(* Comparisons.                                                            *)

(* Flipping the sign of a byte leaves a byte.                              *)
LEMMA FlipByte ==
  ASSUME NEW x \in Byte, NEW signed \in BOOLEAN
  PROVE  Flip(x, signed) \in Byte /\ (Flip(x, signed) # 0 => 256 - Flip(x, signed) \in Byte)
<1>1. 128 \in Byte
  BY DEF Byte
<1>2. Flip(x, signed) \in Byte
  BY <1>1, LogicBytes DEF Flip
<1> QED BY <1>2 DEF Byte

(* Loading a byte to compare is a block.                                   *)
LEMMA LoadCmpBlock ==
  ASSUME NEW p, NEW v, NEW n \in Nat \ {0}, Operand(p, v, n), NEW j \in 0..n - 1,
         NEW signed \in BOOLEAN
  PROVE  LoadCmp(p, v, j, signed) \in Block
<1>1. CASE IsConst(v)
  <2>1. ByteK(v, j) \in Byte
    BY <1>1 DEF Operand, Constant
  <2>2. <<"movlw", Flip(ByteK(v, j), signed)>> \in Plain
    BY <2>1, FlipByte, PlainLine DEF LiteralOps
  <2> QED BY <1>1, <2>2, OneLine DEF LoadCmp, SkipOps
<1>2. CASE ~IsConst(v)
  <2>1. Addr(p, v) + j \in Cells
    BY <1>2 DEF Operand, Reg
  <2>2. WF("xorwf", Addr(p, v) + j) \in Plain /\ WF("movf", Addr(p, v) + j) \in Plain
    BY <2>1, PlainLine DEF FileOps
  <2>3. /\ WF("xorwf", Addr(p, v) + j)[1] \notin SkipOps
        /\ WF("movf", Addr(p, v) + j)[1] \notin SkipOps
    BY DEF WF, SkipOps
  <2>4. /\ <<<<"movlw", 128>>, WF("xorwf", Addr(p, v) + j)>> \in Block
        /\ <<WF("movf", Addr(p, v) + j)>> \in Block
    BY <2>2, <2>3, Literals, Blocks, OneLine
  <2> QED BY <1>2, <2>4 DEF LoadCmp
<1> QED BY <1>1, <1>2

(* A one-byte comparison is a block.                                       *)
LEMMA CmpC8Block ==
  ASSUME NEW p, NEW a, NEW b, NEW n \in Nat \ {0}, Operand(p, a, n), Operand(p, b, n),
         SCRATCH \in Cells, NEW signed \in BOOLEAN
  PROVE  CmpC8(p, a, b, signed) \in Block
<1>1. /\ \A s \in BOOLEAN : LoadCmp(p, a, 0, s) \in Block /\ LoadCmp(p, b, 0, s) \in Block
      /\ 0 \in 0..n - 1
  BY LoadCmpBlock
<1>2. LoadCmp(p, a, 0, TRUE) \in Seq(Plain) /\ LoadCmp(p, b, 0, TRUE) \in Seq(Plain)
      /\ LoadCmp(p, b, 0, FALSE) \in Seq(Plain) /\ LoadCmp(p, b, 0, signed) \in Seq(Plain)
  BY <1>1, BlockSeq
<1>3. CASE IsConst(a)
  <2>1. ByteK(a, 0) \in Byte
    BY <1>1, <1>3 DEF Operand, Constant
  <2>2. <<"sublw", Flip(ByteK(a, 0), signed)>> \in Plain
    BY <2>1, FlipByte, PlainLine DEF LiteralOps
  <2>3. <<<<"sublw", Flip(ByteK(a, 0), signed)>>>> \in Block
    BY <2>2, OneLine DEF SkipOps
  <2> QED BY <1>2, <1>3, <2>3, BlockCat DEF CmpC8
<1>4. CASE ~IsConst(a) /\ ~signed
  <2>1. Addr(p, a) + 0 \in Cells /\ Addr(p, a) \in Nat
    BY <1>1, <1>4 DEF Operand, Reg
  <2>2. WF("subwf", Addr(p, a)) \in Plain
    BY <2>1, PlainLine DEF FileOps
  <2>3. <<WF("subwf", Addr(p, a))>> \in Block
    BY <2>2, OneLine DEF SkipOps, WF
  <2> QED BY <1>2, <1>4, <2>3, BlockCat DEF CmpC8
<1>5. CASE ~IsConst(a) /\ signed
  <2> DEFINE kk == Flip(ByteK(b, 0), TRUE)
             rest == <<<<"movwf", SCRATCH>>>> \o LoadCmp(p, b, 0, TRUE) \o <<WF("subwf", SCRATCH)>>
  <2>1. IsConst(b) /\ kk # 0 => <<<<"addlw", 256 - kk>>>> \in Block
    <3> SUFFICES ASSUME IsConst(b), kk # 0 PROVE <<<<"addlw", 256 - kk>>>> \in Block
      OBVIOUS
    <3>1. ByteK(b, 0) \in Byte
      BY <1>1 DEF Operand, Constant
    <3>2. <<"addlw", 256 - kk>> \in Plain
      BY <3>1, FlipByte, PlainLine DEF LiteralOps
    <3> QED BY <3>2, OneLine DEF SkipOps
  <2>2. <<"movwf", SCRATCH>> \in Plain /\ WF("subwf", SCRATCH) \in Plain
    BY PlainLine DEF FileOps
  <2>3. <<WF("subwf", SCRATCH)>> \in Block
    BY <2>2, OneLine DEF SkipOps, WF
  <2>4. rest \in Block
    BY <1>2, <2>2, <2>3, Tuples, PlainCat
  <2> DEFINE tail == IF IsConst(b) /\ kk # 0 THEN <<<<"addlw", 256 - kk>>>> ELSE rest
  <2>5. CmpC8(p, a, b, signed) = LoadCmp(p, a, 0, TRUE) \o tail
    BY <1>5 DEF CmpC8
  <2> HIDE DEF rest, kk
  <2>6. tail \in Block
    BY <2>1, <2>4
  <2> HIDE DEF tail
  <2>7. LoadCmp(p, a, 0, TRUE) \in Seq(Plain)
    BY <1>2
  <2>8. LoadCmp(p, a, 0, TRUE) \o tail \in Block
    BY <2>6, <2>7, BlockCat
  <2> QED BY <2>5, <2>8, Zenon
<1> QED BY <1>3, <1>4, <1>5

(* Folding a borrow into a byte is a block.                                *)
LEMMA FoldBlocks ==
  ASSUME NEW f \in Cells, NEW sub \in Plain, sub[1] \notin SkipOps
  PROVE  /\ FoldFile(f, sub) \in Block
         /\ \A x \in Byte : FoldConst(f, x) \in Block
<1>1. /\ WF("incfsz", f) \in Plain /\ WF("movf", f) \in Plain /\ WF("subwf", f) \in Plain
      /\ UnlessC \in Plain /\ UnlessNC \in Plain
  BY PlainLine, SkipsPlain DEF FileOps, SkipUnless
<1>2. FoldFile(f, sub) \in Block
  BY <1>1, Blocks DEF FoldFile
<1>3. ASSUME NEW x \in Byte PROVE FoldConst(f, x) \in Block
  <2>1. <<"movlw", x>> \in Plain
    BY PlainLine DEF LiteralOps
  <2>2. <<"addlw", 1>>[1] \notin SkipOps /\ WF("subwf", f)[1] \notin SkipOps
    BY DEF SkipOps, WF
  <2>3. /\ <<WF("movf", f), UnlessC, <<"addlw", 1>>>> \in Block
        /\ <<<<"movlw", x>>, UnlessNC, <<"addlw", 1>>, WF("subwf", f)>> \in Block
    BY <1>1, <2>1, <2>2, Literals, Blocks
  <2> QED BY <2>3 DEF FoldConst
<1> QED BY <1>2, <1>3

(* Flipping a sign into a scratch cell is a block.                         *)
LEMMA FlipBlocks ==
  ASSUME NEW f \in Cells, SCRATCH \in Cells, RETVAL \in Cells
  PROVE  FlipToTemp(f) \in Block /\ FlipToScratch(f) \in Block
<1>1. WF("xorwf", f) \in Plain /\ <<"movwf", RETVAL>> \in Plain /\ <<"movwf", SCRATCH>> \in Plain
  BY PlainLine DEF FileOps
<1>2. <<"movwf", RETVAL>>[1] \notin SkipOps /\ <<"movwf", SCRATCH>>[1] \notin SkipOps
  BY DEF SkipOps
<1> QED BY <1>1, <1>2, Literals, Blocks DEF FlipToTemp, FlipToScratch

(* Each byte of a long comparison is a block.                              *)
LEMMA CmpCByteBlock ==
  ASSUME NEW p, NEW a, NEW b, NEW n \in Nat \ {0}, Operand(p, a, n), Operand(p, b, n),
         IsConst(a) => ~IsConst(b), SCRATCH \in Cells, RETVAL \in Cells,
         NEW j \in 0..n - 1, NEW flip \in BOOLEAN
  PROVE  CmpCByte(p, a, b, j, flip) \in Block
<1> DEFINE f == Addr(p, a) + j
           x == Addr(p, b) + j
<1>1. /\ IsConst(a) => ByteK(a, j) \in Byte /\ x \in Cells
      /\ ~IsConst(a) => f \in Cells
      /\ IsConst(b) => ByteK(b, j) \in Byte
      /\ ~IsConst(b) => x \in Cells
  BY DEF Operand, Constant, Reg
<1> HIDE DEF f, x
<1>2. CASE IsConst(a)
  <2>1. Flip(ByteK(a, j), TRUE) \in Byte /\ ByteK(a, j) \in Byte /\ x \in Cells
    BY <1>1, <1>2, FlipByte
  <2>2. \A y \in Byte : <<"sublw", y>> \in Plain /\ <<"sublw", y>>[1] \notin SkipOps
    BY PlainLine DEF LiteralOps, SkipOps
  <2>3. FlipToTemp(x) \o FoldFile(RETVAL, <<"sublw", Flip(ByteK(a, j), TRUE)>>) \in Block
    BY <2>1, <2>2, FlipBlocks, FoldBlocks, BlockCat, BlockSeq
  <2>4. WF("movf", x) \in Plain
    BY <2>1, PlainLine DEF FileOps
  <2>5. <<WF("movf", x)>> \o FoldFile(x, <<"sublw", ByteK(a, j)>>) \in Block
    BY <2>1, <2>2, <2>4, FoldBlocks, BlockCat, Tuples
  <2> QED BY <1>2, <2>3, <2>5 DEF CmpCByte, f, x
<1>3. CASE ~IsConst(a) /\ IsConst(b)
  <2>1. Flip(ByteK(b, j), TRUE) \in Byte /\ ByteK(b, j) \in Byte /\ f \in Cells
    BY <1>1, <1>3, FlipByte
  <2>2. \A g0 \in Cells, y \in Byte : FoldConst(g0, y) \in Block
    <3>1. <<"addlw", 1>>[1] \notin SkipOps
      BY DEF SkipOps
    <3> QED BY <3>1, Literals, FoldBlocks
  <2>3. FlipToScratch(f) \o FoldConst(SCRATCH, Flip(ByteK(b, j), TRUE)) \in Block
    BY <2>1, <2>2, FlipBlocks, BlockCat, BlockSeq
  <2> QED BY <1>3, <2>1, <2>2, <2>3 DEF CmpCByte, f, x
<1>4. CASE ~IsConst(a) /\ ~IsConst(b)
  <2>1. f \in Cells /\ x \in Cells
    BY <1>1, <1>4
  <2>2. /\ WF("subwf", SCRATCH) \in Plain /\ WF("subwf", f) \in Plain
        /\ WF("movf", RETVAL) \in Plain /\ WF("movf", x) \in Plain
    BY <2>1, PlainLine DEF FileOps
  <2>3. WF("subwf", SCRATCH)[1] \notin SkipOps /\ WF("subwf", f)[1] \notin SkipOps
    BY DEF WF, SkipOps
  <2>4. FoldFile(RETVAL, WF("subwf", SCRATCH)) \in Block /\ FoldFile(x, WF("subwf", f)) \in Block
    BY <2>1, <2>2, <2>3, FoldBlocks
  <2>5. FlipToTemp(x) \o FlipToScratch(f) \in Seq(Plain)
    BY <2>1, FlipBlocks, PlainCat, BlockSeq
  <2>6. <<WF("movf", RETVAL)>> \in Seq(Plain) /\ <<WF("movf", x)>> \in Seq(Plain)
    BY <2>2, Tuples
  <2>7. FlipToTemp(x) \o FlipToScratch(f) \o <<WF("movf", RETVAL)>>
            \o FoldFile(RETVAL, WF("subwf", SCRATCH)) \in Block
    BY <2>4, <2>5, <2>6, PlainCat
  <2>8. <<WF("movf", x)>> \o FoldFile(x, WF("subwf", f)) \in Block
    BY <2>4, <2>6, BlockCat
  <2> QED BY <1>4, <2>7, <2>8 DEF CmpCByte, f, x
<1> QED BY <1>2, <1>3, <1>4

(* A long comparison is a block.                                           *)
LEMMA CmpCBlock ==
  ASSUME NEW p, NEW a, NEW b, NEW n \in Nat \ {0}, Operand(p, a, n), Operand(p, b, n),
         IsConst(a) => ~IsConst(b), SCRATCH \in Cells, RETVAL \in Cells, NEW signed \in BOOLEAN
  PROVE  CmpC(p, a, b, n, signed) \in Block
<1>1. CASE n = 1
  BY <1>1, CmpC8Block DEF CmpC
<1>2. CASE n # 1
  <2> DEFINE s == [j \in 1..n - 1 |-> CmpCByte(p, a, b, j, signed /\ j = n - 1)]
             second == IF IsConst(a) THEN <<<<"sublw", ByteK(a, 0)>>>> ELSE <<WF("subwf", Addr(p, a))>>
  <2>1. n - 1 \in Nat \ {0} /\ 0 \in 0..n - 1 /\ \A j \in 1..n - 1 : j \in 0..n - 1
    BY <1>2
  <2>2. \A j \in 1..n - 1 : s[j] \in Block0
    <3> SUFFICES ASSUME NEW j \in 1..n - 1 PROVE s[j] \in Block0
      OBVIOUS
    <3>1. (signed /\ j = n - 1) \in BOOLEAN /\ j \in 0..n - 1
      BY <2>1
    <3>2. CmpCByte(p, a, b, j, signed /\ j = n - 1) \in Block
      BY <3>1, CmpCByteBlock
    <3> QED BY <3>2, BlockSeq
  <2>3. DOMAIN s = 1..n - 1 /\ s = [j \in 1..n - 1 |-> s[j]]
    OBVIOUS
  <2>4. FlattenSeq(s) \in Block0
    <3> HIDE DEF s
    <3> QED BY <2>1, <2>2, <2>3, FlattenBlocks
  <2>5. LoadCmp(p, b, 0, FALSE) \in Block
    BY <2>1, LoadCmpBlock
  <2>6. second \in Block
    <3>1. CASE IsConst(a)
      <4>1. <<"sublw", ByteK(a, 0)>> \in Plain
        BY <2>1, <3>1, PlainLine DEF Operand, Constant, LiteralOps
      <4> QED BY <3>1, <4>1, OneLine DEF SkipOps
    <3>2. CASE ~IsConst(a)
      <4>1. Addr(p, a) \in Nat /\ Addr(p, a) + 0 \in Cells
        BY <2>1, <3>2 DEF Operand, Reg
      <4>2. WF("subwf", Addr(p, a)) \in Plain
        BY <4>1, PlainLine DEF FileOps
      <4> QED BY <3>2, <4>2, OneLine DEF SkipOps, WF
    <3> QED BY <3>1, <3>2
  <2>7. LoadCmp(p, b, 0, FALSE) \o second \in Block
    BY <2>5, <2>6, BlockCat, BlockSeq
  <2>8. CmpC(p, a, b, n, signed) = LoadCmp(p, b, 0, FALSE) \o second \o FlattenSeq(s)
    BY <1>2 DEF CmpC
  <2> HIDE DEF s, second
  <2>9. CASE FlattenSeq(s) \in Block
    BY <2>7, <2>8, <2>9, BlockCat, BlockSeq
  <2>10. CASE FlattenSeq(s) = <<>>
    <3>1. LoadCmp(p, b, 0, FALSE) \o second \in Seq(Plain)
      BY <2>7, BlockSeq
    <3>2. \A t \in Seq(Plain) : t \o <<>> = t
      OBVIOUS
    <3> QED BY <2>7, <2>8, <2>10, <3>1, <3>2
  <2> QED BY <2>4, <2>9, <2>10 DEF Block0
<1> QED BY <1>1, <1>2

-----------------------------------------------------------------------------
(* The selector's state while it emits: base is what had been emitted      *)
(* before, ahead the labels still to come.                                 *)

Extending(base, out) == Len(base) <= Len(out) /\ \A j \in 1..Len(base) : out[j] = base[j]

(* Every jump has its label, or goes to one of ahead.                      *)
Lands(out, ahead) ==
    \A j \in DOMAIN out : out[j][1] = "goto" =>
        out[j][2] \in ahead \/ \E l \in DOMAIN out : out[l] = <<"label", out[j][2]>>

Emitted(base, ahead) ==
    {out \in Seq(Lines) :
        /\ out # <<>> => out[Len(out)][1] \notin SkipOps
        /\ Extending(base, out) /\ Lands(out, ahead)}

Gen(p) ==
    [out : Seq(Lines), holds : Cells \cup {None}, committed : BOOLEAN, defer : Cells \cup {None},
     uses : Nat, rel : {<<>>} \cup ({C, Z} \X {"btfsc", "btfss"}),
     bools : SUBSET (DOMAIN p.slot), tmp : Nat]

Loose(p, base, ahead) == {h \in Gen(p) : h.out \in Emitted(base, ahead)}

(* The last instruction leaves x's value in W and in x alike.              *)
Tail2(out, x) ==
    /\ Len(out) > 0 /\ out[Len(out)] \in {<<"movwf", x>>, WF("movf", x)}
    /\ ~PrevIsSkip(out, Len(out))

(* The last four tell a flag's boolean.                                    *)
TestTail(out, rel) ==
    LET q == Len(out)
    IN  /\ q > 3 /\ out[q - 3] = <<"movlw", 0>> /\ ~PrevIsSkip(out, q - 3)
        /\ out[q - 2] = <<IF rel[2] = "btfss" THEN "btfsc" ELSE "btfss", STATUS, rel[1]>>
        /\ out[q - 1] = <<"movlw", 1>> /\ out[q][1] = "movwf"

Held(p, h) ==
    h.committed /\ h.holds # None => h.holds \notin GlobalBytes(p) /\ Tail2(h.out, h.holds)
Deferred(p, h) == h.defer # None => h.defer \notin GlobalBytes(p) /\ h.rel = <<>>
Told(h) == h.rel # <<>> => TestTail(h.out, h.rel)

Selector(p, base, ahead) ==
    {h \in Loose(p, base, ahead) : Held(p, h) /\ Deferred(p, h) /\ Told(h)}

(* Nothing is believed.                                                    *)
Blank(h) == h.holds = None /\ h.committed = FALSE /\ h.defer = None /\ h.rel = <<>>

(* Code that is complete but for the labels L1, L2 at a later time.        *)
Ending(s) == s # <<>> /\ s[Len(s)][1] \notin SkipOps
Jumps(s, L1, L2) ==
    /\ \A j \in DOMAIN s : s[j][1] = "goto" =>
            s[j][2] \in L2 \/ \E l \in DOMAIN s : s[l] = <<"label", s[j][2]>>
    /\ \A x \in L1 : x \in L2 \/ \E l \in DOMAIN s : s[l] = <<"label", x>>

(* A plain instruction is a line without control flow.                     *)
LEMMA PlainIs ==
  ASSUME NEW i \in Plain
  PROVE  i \in Lines /\ i[1] \notin {"label", "goto", "call", "return"}
  BY DEF Plain, Lines, LiteralOps, FileOps, BitOps

(* A block is complete code that owes no label.                            *)
LEMMA BlockIs ==
  ASSUME NEW s \in Block, NEW ahead
  PROVE  s \in Seq(Lines) /\ Ending(s) /\ Jumps(s, ahead, ahead)
<1>1. s \in Seq(Plain)
  BY BlockSeq
<1>2. \A j \in DOMAIN s : s[j] \in Plain
  BY <1>1
<1>3. s \in Seq(Lines)
  <2>1. \A j \in 1..Len(s) : s[j] \in Lines
    BY <1>1, <1>2, PlainIs
  <2> QED BY <1>1, <2>1
<1>4. \A j \in DOMAIN s : s[j][1] # "goto"
  BY <1>2, PlainIs
<1> QED BY <1>3, <1>4 DEF Jumps, Ending, Block

(* Complete code may be emitted after what is emitted.                     *)
LEMMA EmittedMore ==
  ASSUME NEW base, NEW L1, NEW L2, Len(base) \in Nat, NEW out \in Emitted(base, L1),
         NEW s \in Seq(Lines), Ending(s), Jumps(s, L1, L2)
  PROVE  /\ out \o s \in Emitted(base, L2)
         /\ Len(out \o s) = Len(out) + Len(s) /\ Len(out) \in Nat /\ Len(s) \in Nat \ {0}
         /\ \A j \in 1..Len(out) : (out \o s)[j] = out[j]
         /\ \A j \in 1..Len(s) : (out \o s)[Len(out) + j] = s[j]
<1>1. out \in Seq(Lines) /\ Extending(base, out) /\ Lands(out, L1)
  BY DEF Emitted
<1>2. Len(s) \in Nat /\ Len(s) > 0 /\ Len(out) \in Nat
  BY <1>1 DEF Ending
<1>3. out \o s \in Seq(Lines) /\ Len(out \o s) = Len(out) + Len(s)
  BY <1>1
<1>4. /\ \A j \in 1..Len(out) : (out \o s)[j] = out[j]
      /\ \A j \in 1..Len(s) : (out \o s)[Len(out) + j] = s[j]
  BY <1>1, <1>2
<1>5. \A j \in 1..Len(out) + Len(s) : j \in 1..Len(out) \/ j - Len(out) \in 1..Len(s)
  BY <1>2
<1>6. Extending(base, out \o s)
  BY <1>1, <1>2, <1>3, <1>4 DEF Extending
<1>7. Lands(out \o s, L2)
  <2> DEFINE t == out \o s
  <2>1. DOMAIN t = 1..Len(out) + Len(s) /\ DOMAIN out = 1..Len(out) /\ DOMAIN s = 1..Len(s)
    BY <1>1, <1>3
  <2> HIDE DEF t
  <2>2. \A x : (\E l \in DOMAIN s : s[l] = <<"label", x>>) => \E l \in DOMAIN t : t[l] = <<"label", x>>
    <3> SUFFICES ASSUME NEW x, NEW l \in DOMAIN s, s[l] = <<"label", x>>
                 PROVE  \E e \in DOMAIN t : t[e] = <<"label", x>>
      OBVIOUS
    <3>1. Len(out) + l \in DOMAIN t /\ t[Len(out) + l] = s[l]
      BY <1>2, <1>4, <2>1 DEF t
    <3> QED BY <3>1
  <2>3. \A x : (\E l \in DOMAIN out : out[l] = <<"label", x>>) => \E l \in DOMAIN t : t[l] = <<"label", x>>
    <3> SUFFICES ASSUME NEW x, NEW l \in DOMAIN out, out[l] = <<"label", x>>
                 PROVE  \E e \in DOMAIN t : t[e] = <<"label", x>>
      OBVIOUS
    <3>1. l \in DOMAIN t /\ t[l] = out[l]
      BY <1>2, <1>4, <2>1 DEF t
    <3> QED BY <3>1
  <2> SUFFICES ASSUME NEW j \in DOMAIN t, t[j][1] = "goto"
               PROVE  t[j][2] \in L2 \/ \E l \in DOMAIN t : t[l] = <<"label", t[j][2]>>
    BY DEF Lands, t
  <2>4. CASE j \in 1..Len(out)
    <3>1. t[j] = out[j]
      BY <1>4, <2>4 DEF t
    <3>2. out[j][2] \in L1 \/ \E l \in DOMAIN out : out[l] = <<"label", out[j][2]>>
      BY <1>1, <2>1, <2>4, <3>1 DEF Lands
    <3>3. out[j][2] \in L1 => out[j][2] \in L2 \/ \E l \in DOMAIN s : s[l] = <<"label", out[j][2]>>
      BY DEF Jumps
    <3> QED BY <2>2, <2>3, <3>1, <3>2, <3>3
  <2>5. CASE j - Len(out) \in 1..Len(s)
    <3>1. t[j] = s[j - Len(out)]
      <4>1. j = Len(out) + (j - Len(out))
        BY <1>2, <2>1
      <4> QED BY <1>4, <2>5, <4>1 DEF t
    <3>2. \/ s[j - Len(out)][2] \in L2
          \/ \E l \in DOMAIN s : s[l] = <<"label", s[j - Len(out)][2]>>
      BY <2>1, <2>5, <3>1 DEF Jumps
    <3> QED BY <2>2, <3>1, <3>2
  <2> QED BY <1>5, <2>1, <2>4, <2>5
<1>8. (out \o s)[Len(out \o s)][1] \notin SkipOps
  BY <1>2, <1>3, <1>4 DEF Ending
<1>9. out \o s \in Emitted(base, L2)
  BY <1>3, <1>6, <1>7, <1>8 DEF Emitted
<1> QED BY <1>2, <1>3, <1>4, <1>9

(* A store and a load are blocks.                                          *)
LEMMA StoreLine ==
  ASSUME NEW x \in Cells, NEW ahead
  PROVE  /\ <<<<"movwf", x>>>> \in Block /\ <<WF("movf", x)>> \in Block
         /\ Len(<<<<"movwf", x>>>>) = 1 /\ Len(<<WF("movf", x)>>) = 1
<1>1. <<"movwf", x>> \in Plain /\ WF("movf", x) \in Plain
  BY PlainLine DEF FileOps
<1> QED BY <1>1, OneLine DEF SkipOps, WF

(* A block may be emitted whatever labels are owed.                        *)
LEMMA BlockMore ==
  ASSUME NEW base, Len(base) \in Nat, NEW ahead, NEW out \in Emitted(base, ahead), NEW s \in Block
  PROVE  /\ out \o s \in Emitted(base, ahead)
         /\ Len(out \o s) = Len(out) + Len(s) /\ Len(out) \in Nat /\ Len(s) \in Nat \ {0}
         /\ \A j \in 1..Len(out) : (out \o s)[j] = out[j]
         /\ \A j \in 1..Len(s) : (out \o s)[Len(out) + j] = s[j]
  BY BlockIs, EmittedMore

(* A store or load at the end of what is emitted is not skipped.           *)
LEMMA TailMore ==
  ASSUME NEW base, Len(base) \in Nat, NEW ahead, NEW out \in Emitted(base, ahead), NEW x \in Cells,
         NEW i \in {<<"movwf", x>>, WF("movf", x)}
  PROVE  Tail2(out \o <<i>>, x) /\ out \o <<i>> \in Emitted(base, ahead)
<1>1. <<i>> \in Block /\ Len(<<i>>) = 1 /\ <<i>>[1] = i
  BY StoreLine
<1>2. /\ out \o <<i>> \in Emitted(base, ahead) /\ Len(out \o <<i>>) = Len(out) + 1
      /\ Len(out) \in Nat /\ (out \o <<i>>)[Len(out) + 1] = i
      /\ \A j \in 1..Len(out) : (out \o <<i>>)[j] = out[j]
  BY <1>1, BlockMore
<1>3. ~PrevIsSkip(out \o <<i>>, Len(out) + 1)
  <2> SUFFICES ASSUME Len(out) > 0 PROVE (out \o <<i>>)[Len(out)][1] \notin SkipOps
    BY <1>2 DEF PrevIsSkip
  <2>1. out # <<>> /\ (out \o <<i>>)[Len(out)] = out[Len(out)]
    BY <1>2
  <2> QED BY <2>1 DEF Emitted
<1> QED BY <1>2, <1>3 DEF Tail2

(* Append is concatenation.                                                *)
LEMMA AppendIs ==
  ASSUME NEW S, NEW s \in Seq(S), NEW e \in S
  PROVE  Append(s, e) = s \o <<e>>
  OBVIOUS

(* A selector's fields.                                                    *)
LEMMA LooseIs ==
  ASSUME NEW p, NEW base, NEW ahead, NEW h \in Loose(p, base, ahead)
  PROVE  /\ h \in Gen(p) /\ h.out \in Seq(Lines) /\ h.out \in Emitted(base, ahead)
         /\ h = [out |-> h.out, holds |-> h.holds, committed |-> h.committed, defer |-> h.defer,
                 uses |-> h.uses, rel |-> h.rel, bools |-> h.bools, tmp |-> h.tmp]
  BY DEF Loose, Gen, Emitted

(* What a flush leaves of h: nothing is put off.                           *)
Flushed(p, base, ahead, h, f) ==
    /\ f \in Loose(p, base, ahead) /\ f.defer = None
    /\ f.rel = h.rel /\ f.bools = h.bools /\ f.tmp = h.tmp
    /\ \/ f.out = h.out /\ f.holds = h.holds /\ f.committed = h.committed
       \/ /\ h.defer \in Cells /\ f.out = h.out \o <<<<"movwf", h.defer>>>>
          /\ f.holds = h.defer /\ f.committed = TRUE
    /\ h.defer = None => f = h

(* A flush writes what was put off, and puts nothing off.                  *)
LEMMA FlushLoose ==
  ASSUME NEW p, NEW base, Len(base) \in Nat, NEW ahead, NEW h \in Loose(p, base, ahead)
  PROVE  Flushed(p, base, ahead, h, Flush(h))
<1> USE DEF None
<1>1. h \in Gen(p) /\ h.out \in Emitted(base, ahead) /\ h.out \in Seq(Lines)
  BY LooseIs
<1>2. CASE h.defer = None \/ h.uses = 0
  <2>1. Flush(h) = [h EXCEPT !.defer = None]
    BY <1>2 DEF Flush
  <2>2. [h EXCEPT !.defer = None] \in Gen(p)
    BY <1>1 DEF Gen
  <2>3. h.defer = None => [h EXCEPT !.defer = None] = h
    BY <1>1 DEF Gen
  <2> QED BY <1>1, <2>1, <2>2, <2>3 DEF Loose, Gen, Flushed
<1>3. CASE h.defer # None /\ h.uses # 0
  <2> DEFINE o == Append(h.out, <<"movwf", h.defer>>)
  <2>1. h.defer \in Cells
    BY <1>1, <1>3 DEF Gen
  <2>2. <<"movwf", h.defer>> \in Lines
    BY <2>1, PlainLine, PlainIs
  <2>3. o = h.out \o <<<<"movwf", h.defer>>>>
    BY <1>1, <2>2, AppendIs
  <2>4. o \in Emitted(base, ahead)
    BY <1>1, <2>1, <2>3, TailMore
  <2>5. o \in Seq(Lines)
    BY <2>4 DEF Emitted
  <2>6. Flush(h) = [h EXCEPT !.out = o, !.holds = h.defer, !.committed = TRUE, !.defer = None]
    BY <1>3 DEF Flush
  <2> HIDE DEF o
  <2>7. [h EXCEPT !.out = o, !.holds = h.defer, !.committed = TRUE, !.defer = None] \in Gen(p)
    BY <1>1, <2>1, <2>5 DEF Gen
  <2> QED BY <1>1, <1>3, <2>1, <2>3, <2>4, <2>6, <2>7 DEF Loose, Gen, Flushed
<1> QED BY <1>2, <1>3

(* A flush keeps the selector's beliefs true.                              *)
LEMMA FlushSelector ==
  ASSUME NEW p, NEW base, Len(base) \in Nat, NEW ahead, NEW h \in Selector(p, base, ahead)
  PROVE  Flush(h) \in Selector(p, base, ahead)
<1>1. h \in Loose(p, base, ahead) /\ Held(p, h) /\ Deferred(p, h) /\ Told(h)
  BY DEF Selector
<1> DEFINE f == Flush(h)
<1>2. Flushed(p, base, ahead, h, f)
  BY <1>1, FlushLoose
<1>3. h.out \in Emitted(base, ahead)
  BY <1>1, LooseIs
<1>4. h.defer \in Cells => h.defer # None
  BY CellsAssumption
<1> SUFFICES f \in Selector(p, base, ahead)
  OBVIOUS
<1> HIDE DEF f
<1>5. CASE f.out = h.out /\ f.holds = h.holds /\ f.committed = h.committed
  <2>1. f \in Loose(p, base, ahead) /\ f.defer = None /\ f.rel = h.rel
    BY <1>2 DEF Flushed
  <2>2. Held(p, f)
    BY <1>1, <1>5 DEF Held
  <2>3. Told(f)
    BY <1>1, <1>5, <2>1 DEF Told
  <2> QED BY <2>1, <2>2, <2>3 DEF Selector, Deferred
<1>6. CASE /\ h.defer \in Cells /\ f.out = h.out \o <<<<"movwf", h.defer>>>>
           /\ f.holds = h.defer /\ f.committed = TRUE
  <2>1. h.defer \notin GlobalBytes(p) /\ h.rel = <<>>
    BY <1>1, <1>4, <1>6 DEF Deferred
  <2>2. Tail2(h.out \o <<<<"movwf", h.defer>>>>, h.defer)
    BY <1>3, <1>6, TailMore
  <2>3. f \in Loose(p, base, ahead) /\ f.defer = None /\ f.rel = <<>>
    BY <1>2, <2>1 DEF Flushed
  <2>4. Held(p, f)
    BY <1>6, <2>1, <2>2 DEF Held
  <2> QED BY <2>3, <2>4 DEF Selector, Deferred, Told
<1> QED BY <1>2, <1>5, <1>6 DEF Flushed

(* s was emitted after h, and nothing is believed.                         *)
EmittedTo(p, base, ahead, h, s, e) ==
    /\ e \in Selector(p, base, ahead) /\ Blank(e) /\ e.out = Flush(h).out \o s
    /\ e.bools = h.bools /\ e.tmp = h.tmp

(* Code emitted after anything that is properly ended believes nothing.    *)
LEMMA EmitAny ==
  ASSUME NEW p, NEW base, Len(base) \in Nat, NEW L1, NEW L2, NEW h \in Loose(p, base, L1),
         NEW s \in Seq(Lines), Ending(s), Jumps(s, L1, L2)
  PROVE  EmittedTo(p, base, L2, h, s, EmitAll(h, s))
<1> DEFINE f == Flush(h)
           e == EmitAll(h, s)
<1>0. Flushed(p, base, L1, h, f)
  BY FlushLoose
<1>1. f \in Loose(p, base, L1) /\ f.defer = None /\ f.bools = h.bools /\ f.tmp = h.tmp
  BY <1>0 DEF Flushed
<1>2. f \in Gen(p) /\ f.out \in Emitted(base, L1)
  BY <1>1, LooseIs
<1> DEFINE o == f.out \o s
<1>3. o \in Emitted(base, L2)
  BY <1>2, EmittedMore
<1>4. o \in Seq(Lines)
  BY <1>3 DEF Emitted
<1>5. e = [f EXCEPT !.out = o, !.holds = None, !.committed = FALSE, !.rel = <<>>]
  <2>1. s # <<>>
    BY DEF Ending
  <2> QED BY <1>2, <2>1 DEF EmitAll, Gen
<1> HIDE DEF o, f
<1>6. [f EXCEPT !.out = o, !.holds = None, !.committed = FALSE, !.rel = <<>>] \in Gen(p)
  BY <1>2, <1>4 DEF Gen
<1>7. e \in Gen(p) /\ e.out = o /\ Blank(e) /\ e.bools = h.bools /\ e.tmp = h.tmp
  BY <1>1, <1>2, <1>5, <1>6 DEF Gen, Blank
<1> HIDE DEF e
<1>8. e \in Selector(p, base, L2)
  BY <1>3, <1>7 DEF Selector, Loose, Held, Deferred, Told, Blank
<1> QED BY <1>7, <1>8 DEF e, o, f, EmittedTo

(* A block emitted leaves nothing believed.                                *)
LEMMA EmitBlock ==
  ASSUME NEW p, NEW base, Len(base) \in Nat, NEW ahead, NEW h \in Loose(p, base, ahead),
         NEW s \in Block
  PROVE  EmittedTo(p, base, ahead, h, s, EmitAll(h, s))
  BY BlockIs, EmitAny

(* So does one that may be empty.                                          *)
LEMMA EmitBlock0 ==
  ASSUME NEW p, NEW base, Len(base) \in Nat, NEW ahead, NEW h \in Selector(p, base, ahead),
         NEW s \in Block0
  PROVE  EmitAll(h, s) \in Selector(p, base, ahead)
<1>1. CASE s \in Block
  BY <1>1, EmitBlock DEF Selector, EmittedTo
<1>2. CASE s = <<>>
  BY <1>2 DEF EmitAll
<1> QED BY <1>1, <1>2 DEF Block0

(* So does one instruction.                                                *)
LEMMA EmitOne ==
  ASSUME NEW p, NEW base, Len(base) \in Nat, NEW ahead, NEW h \in Loose(p, base, ahead),
         NEW i \in Plain, i[1] \notin SkipOps
  PROVE  EmittedTo(p, base, ahead, h, <<i>>, Emit(h, i))
  BY OneLine, EmitBlock DEF Emit

(* Nothing is put off, and no flag is remembered.                          *)
Settled(p, base, ahead, e) == e \in Selector(p, base, ahead) /\ e.defer = None /\ e.rel = <<>>

(* A selector that believes nothing is settled.                            *)
LEMMA BlankSettled ==
  ASSUME NEW p, NEW base, NEW ahead, NEW e \in Selector(p, base, ahead), Blank(e)
  PROVE  Settled(p, base, ahead, e)
  BY DEF Settled, Blank

\* It emitted o, and W is believed to hold x if anything.
Marked(p, base, ahead, e, o, x) ==
    Settled(p, base, ahead, e) /\ e.out = o /\ e.holds \in {x, None}

(* A selector whose last instruction left x in W and in x, marked so.      *)
LEMMA MarkIs ==
  ASSUME NEW p, NEW base, NEW ahead, NEW h \in Loose(p, base, ahead), NEW x \in Cells,
         h.defer = None, h.committed => Tail2(h.out, x)
  PROVE  Marked(p, base, ahead, MarkW(p, h, x), h.out, x)
<1> DEFINE y == IF x \in GlobalBytes(p) THEN None ELSE x
           e == [h EXCEPT !.holds = y, !.rel = <<>>]
<1>1. y \in Cells \cup {None} /\ y \in {x, None} /\ (y # None => y = x /\ x \notin GlobalBytes(p))
  OBVIOUS
<1> HIDE DEF y
<1>2. h \in Gen(p) /\ h.out \in Emitted(base, ahead)
  BY LooseIs
<1>3. e \in Gen(p) /\ e.out = h.out /\ e.holds = y /\ e.rel = <<>> /\ e.committed = h.committed
      /\ e.defer = None
  BY <1>1, <1>2 DEF Gen
<1> HIDE DEF e
<1>4. e \in Selector(p, base, ahead)
  BY <1>1, <1>2, <1>3 DEF Selector, Loose, Held, Deferred, Told
<1>5. MarkW(p, h, x) = e
  BY DEF MarkW, e, y
<1> QED BY <1>1, <1>3, <1>4, <1>5 DEF Settled, Marked

(* An instruction that leaves x in W and in x is emitted, and so marked.   *)
LEMMA EmitMark ==
  ASSUME NEW p, NEW base, Len(base) \in Nat, NEW ahead, NEW h \in Loose(p, base, ahead),
         h.defer = None, NEW x \in Cells, NEW i \in {<<"movwf", x>>, WF("movf", x)},
         NEW e, e = MarkW(p, [Emit(h, i) EXCEPT !.committed = TRUE], x)
  PROVE  Marked(p, base, ahead, e, h.out \o <<i>>, x)
<1>1. i \in Plain /\ i[1] \notin SkipOps
  <2>1. <<"movwf", x>> \in Plain /\ WF("movf", x) \in Plain
    BY PlainLine DEF FileOps
  <2>2. i[1] \in {"movwf", "movf"}
    BY DEF WF
  <2> QED BY <2>1, <2>2 DEF SkipOps
<1> DEFINE b == Emit(h, i)
           c1 == [b EXCEPT !.committed = TRUE]
<1>2. EmittedTo(p, base, ahead, h, <<i>>, b)
  BY <1>1, EmitOne
<1>3. h \in Loose(p, base, ahead) /\ h.out \in Emitted(base, ahead)
  BY LooseIs
<1>4. Flush(h) = h
  BY FlushLoose DEF Flushed
<1>5. b.out = h.out \o <<i>> /\ b.defer = None /\ b \in Loose(p, base, ahead)
  BY <1>2, <1>4 DEF EmittedTo, Selector, Blank
<1>6. Tail2(h.out \o <<i>>, x)
  BY <1>3, TailMore
<1> HIDE DEF b
<1>7. b \in Gen(p) /\ b.out \in Emitted(base, ahead)
  BY <1>5, LooseIs
<1>8. c1 \in Gen(p) /\ c1.out = b.out /\ c1.defer = None
  BY <1>5, <1>7 DEF Gen
<1>9. e = MarkW(p, c1, x)
  BY DEF b
<1> HIDE DEF c1
<1>10. c1 \in Loose(p, base, ahead) /\ Tail2(c1.out, x)
  BY <1>5, <1>6, <1>7, <1>8 DEF Loose
<1>11. Marked(p, base, ahead, e, c1.out, x)
  BY <1>8, <1>9, <1>10, MarkIs
<1> QED BY <1>5, <1>8, <1>11

(* What a store or a load of x may start from: beliefs that hold, or none  *)
(* about x.                                                                *)
Ready(p, base, ahead, h, x) ==
    /\ h \in Loose(p, base, ahead)
    /\ h \in Selector(p, base, ahead) \/ (h.defer = None /\ h.holds # x)

\* What is emitted by a store or load of x that starts from h.
Grown(h, e, i) ==
    \/ e.out = h.out
    \/ h.defer \in Cells /\ e.out = h.out \o <<<<"movwf", h.defer>>>>
    \/ e.out = Flush(h).out \o <<i>>

(* A flush of such a selector is one.                                      *)
LEMMA FlushReady ==
  ASSUME NEW p, NEW base, Len(base) \in Nat, NEW ahead, NEW x \in Cells, NEW h,
         Ready(p, base, ahead, h, x)
  PROVE  /\ Flush(h) \in Loose(p, base, ahead) /\ Flush(h).defer = None
         /\ Flush(h).out = h.out \/ (h.defer \in Cells /\ Flush(h).out = h.out \o <<<<"movwf", h.defer>>>>)
         /\ Flush(h).holds = x /\ Flush(h).committed => Tail2(Flush(h).out, x)
<1>1. h \in Loose(p, base, ahead)
  BY DEF Ready
<1>2. Flushed(p, base, ahead, h, Flush(h))
  BY <1>1, FlushLoose
<1>3. Flush(h).holds = x /\ Flush(h).committed => Tail2(Flush(h).out, x)
  <2>1. CASE h \in Selector(p, base, ahead)
    <3>1. Flush(h) \in Selector(p, base, ahead)
      BY <2>1, FlushSelector
    <3>2. x # None
      BY CellsAssumption
    <3> QED BY <3>1, <3>2 DEF Selector, Held
  <2>2. CASE h.defer = None /\ h.holds # x
    BY <1>2, <2>2 DEF Flushed
  <2> QED BY <2>1, <2>2 DEF Ready
<1> QED BY <1>2, <1>3 DEF Flushed

\* From a selector that believes nothing, a store emits itself.
Stored(h, x, e) == Blank(h) => e.out = h.out \o <<<<"movwf", x>>>>

(* A store through the cache keeps its beliefs true: it is left out or put *)
(* off only when W and the cell are known to be alike.                     *)
LEMMA WStoreIs ==
  ASSUME NEW p, NEW base, Len(base) \in Nat, NEW ahead, NEW x \in Cells, NEW h,
         Ready(p, base, ahead, h, x), NEW e, e = WStore(p, h, x)
  PROVE  Settled(p, base, ahead, e) /\ Stored(h, x, e)
<1> DEFINE f == IF h.defer = x THEN [h EXCEPT !.defer = None, !.committed = FALSE] ELSE Flush(h)
<1>0. h \in Loose(p, base, ahead) /\ x # None
  BY CellsAssumption DEF Ready
<1>1. /\ f \in Loose(p, base, ahead) /\ f.defer = None
      /\ f.holds = x /\ f.committed => Tail2(f.out, x)
      /\ Blank(h) => f = h
  <2>1. CASE h.defer = x
    <3> DEFINE f1 == [h EXCEPT !.defer = None, !.committed = FALSE]
    <3>1. h \in Gen(p) /\ h.out \in Emitted(base, ahead)
      BY <1>0, LooseIs
    <3>2. f1 \in Gen(p) /\ f1.out = h.out /\ f1.defer = None /\ f1.committed = FALSE
      BY <3>1 DEF Gen
    <3>3. f = f1
      BY <2>1
    <3>4. ~Blank(h)
      BY <1>0, <2>1 DEF Blank
    <3> HIDE DEF f1, f
    <3> QED BY <3>1, <3>2, <3>3, <3>4 DEF Loose
  <2>2. CASE h.defer # x
    <3>1. f = Flush(h)
      BY <2>2
    <3>2. Flushed(p, base, ahead, h, Flush(h))
      BY <1>0, FlushLoose
    <3>3. Blank(h) => Flush(h) = h
      BY <3>2 DEF Flushed, Blank
    <3> HIDE DEF f
    <3> QED BY <3>1, <3>3, FlushReady
  <2> QED BY <2>1, <2>2
<1>2. e = MarkW(p, IF f.holds = x /\ f.committed THEN f
                   ELSE [Emit(f, <<"movwf", x>>) EXCEPT !.committed = TRUE], x)
  BY DEF WStore
<1> HIDE DEF f
<1>3. CASE f.holds = x /\ f.committed
  <2>1. e = MarkW(p, f, x)
    BY <1>2, <1>3
  <2>2. Settled(p, base, ahead, e)
    BY <1>1, <1>3, <2>1, MarkIs DEF Marked
  <2>3. ~Blank(h)
    BY <1>1, <1>3 DEF Blank
  <2> QED BY <2>2, <2>3 DEF Stored
<1>4. CASE ~(f.holds = x /\ f.committed)
  <2>1. e = MarkW(p, [Emit(f, <<"movwf", x>>) EXCEPT !.committed = TRUE], x)
    BY <1>2, <1>4
  <2>2. Marked(p, base, ahead, e, f.out \o <<<<"movwf", x>>>>, x)
    BY <1>1, <2>1, EmitMark
  <2> QED BY <1>1, <2>2 DEF Marked, Stored
<1> QED BY <1>3, <1>4

(* A load through the cache keeps its beliefs true, and is left out only   *)
(* when W holds the cell.                                                  *)
LEMMA WLoadIs ==
  ASSUME NEW p, NEW base, Len(base) \in Nat, NEW ahead, NEW x \in Cells, NEW h,
         Ready(p, base, ahead, h, x), NEW e, e = WLoad(p, h, x)
  PROVE  /\ Settled(p, base, ahead, e)
         /\ e.holds \in {x, None} /\ Grown(h, e, WF("movf", x))
<1>0. h \in Loose(p, base, ahead) /\ x # None
  BY CellsAssumption DEF Ready
<1>1. CASE h.defer = x
  <2> DEFINE u == IF h.uses > 0 THEN h.uses - 1 ELSE 0
             f1 == [h EXCEPT !.defer = None, !.uses = u, !.holds = x, !.committed = FALSE, !.rel = <<>>]
  <2>1. h \in Gen(p) /\ h.out \in Emitted(base, ahead)
    BY <1>0, LooseIs
  <2>2. h.uses \in Nat
    BY <2>1 DEF Gen
  <2>3. u \in Nat
    BY <2>2
  <2> HIDE DEF u
  <2>4. /\ f1 \in Gen(p) /\ f1.out = h.out /\ f1.defer = None /\ f1.committed = FALSE
        /\ f1.rel = <<>> /\ f1.holds = x
    BY <2>1, <2>3 DEF Gen
  <2>5. e = f1
    BY <1>1, <2>1 DEF WLoad, u, Gen
  <2> HIDE DEF f1
  <2>6. e \in Selector(p, base, ahead)
    BY <2>1, <2>4, <2>5 DEF Selector, Loose, Held, Deferred, Told
  <2> QED BY <2>4, <2>5, <2>6 DEF Settled, Grown
<1>2. CASE h.defer # x
  <2> DEFINE f == Flush(h)
  <2>1. /\ f \in Loose(p, base, ahead) /\ f.defer = None
        /\ f.out = h.out \/ (h.defer \in Cells /\ f.out = h.out \o <<<<"movwf", h.defer>>>>)
        /\ f.holds = x /\ f.committed => Tail2(f.out, x)
    BY FlushReady
  <2>2. e = MarkW(p, IF f.holds = x THEN f
                     ELSE [Emit(f, WF("movf", x)) EXCEPT !.committed = TRUE], x)
    BY <1>2 DEF WLoad
  <2> SUFFICES Settled(p, base, ahead, e) /\ e.holds \in {x, None}
               /\ (e.out = f.out \/ e.out = f.out \o <<WF("movf", x)>>)
    BY <2>1 DEF Grown
  <2> HIDE DEF f
  <2>3. CASE f.holds = x
    <3>1. e = MarkW(p, f, x)
      BY <2>2, <2>3
    <3>2. Marked(p, base, ahead, e, f.out, x)
      BY <2>1, <2>3, <3>1, MarkIs
    <3> QED BY <3>2 DEF Marked
  <2>4. CASE f.holds # x
    <3>1. e = MarkW(p, [Emit(f, WF("movf", x)) EXCEPT !.committed = TRUE], x)
      BY <2>2, <2>4
    <3>2. Marked(p, base, ahead, e, f.out \o <<WF("movf", x)>>, x)
      BY <2>1, <3>1, EmitMark
    <3> QED BY <3>2 DEF Marked
  <2> QED BY <2>3, <2>4
<1> QED BY <1>1, <1>2

(* One load instruction more.                                              *)
Lone(h, e) == Len(e.out) = Len(h.out) + 1 /\ IsMovfW(Last(e.out))

Loaded(p, base, ahead, h, v, j, e) ==
    /\ Settled(p, base, ahead, e)
    /\ Lone(h, e) => /\ ~IsConst(v) /\ e.holds \in {Addr(p, v) + j, None}
                     /\ e.out = h.out \o <<WF("movf", Addr(p, v) + j)>>

\* What a byte's load may start from.
Before(p, base, ahead, h, v, j) ==
    \/ h \in Selector(p, base, ahead)
    \/ ~IsConst(v) /\ Ready(p, base, ahead, h, Addr(p, v) + j)

(* A sequence with one element more.                                       *)
LEMMA OneMore ==
  ASSUME NEW out \in Seq(Lines), NEW i
  PROVE  Len(out \o <<i>>) = Len(out) + 1 /\ Last(out \o <<i>>) = i /\ Len(out) \in Nat
<1>1. Len(out \o <<i>>) = Len(out) + 1 /\ Len(out) \in Nat
  OBVIOUS
<1>2. (out \o <<i>>)[Len(out) + 1] = i
  BY <1>1
<1> QED BY <1>1, <1>2 DEF Last

(* Loading a byte of an operand keeps the beliefs true.                    *)
LEMMA LoadByteIs ==
  ASSUME NEW p, NEW base, Len(base) \in Nat, NEW ahead, NEW v, NEW n, Operand(p, v, n),
         NEW j \in 0..n - 1, NEW h, Before(p, base, ahead, h, v, j),
         NEW e, e = LoadByte(p, h, v, j)
  PROVE  Loaded(p, base, ahead, h, v, j, e)
<1>1. h \in Loose(p, base, ahead) /\ h.out \in Seq(Lines)
  BY LooseIs DEF Before, Selector, Ready
<1>2. CASE IsConst(v)
  <2> DEFINE i == <<"movlw", ByteK(v, j)>>
  <2>1. ByteK(v, j) \in Byte
    BY <1>2 DEF Operand, Constant
  <2>2. i \in Plain /\ i[1] \notin SkipOps
    BY <2>1, PlainLine DEF LiteralOps, SkipOps
  <2>3. e = Emit(h, i)
    BY <1>2 DEF LoadByte
  <2>5. i[1] # "movf"
    OBVIOUS
  <2> HIDE DEF i
  <2>4. EmittedTo(p, base, ahead, h, <<i>>, e)
    BY <1>1, <2>2, <2>3, EmitOne
  <2>6. e \in Selector(p, base, ahead) /\ Blank(e) /\ e.out = Flush(h).out \o <<i>>
    BY <2>4 DEF EmittedTo
  <2>7. Settled(p, base, ahead, e)
    BY <2>6, BlankSettled
  <2>8. Flush(h) \in Loose(p, base, ahead)
    BY <1>1, FlushLoose DEF Flushed
  <2>9. Flush(h).out \in Seq(Lines)
    BY <2>8, LooseIs
  <2>10. Last(e.out) = i
    BY <2>6, <2>9, OneMore
  <2> QED BY <2>5, <2>7, <2>10 DEF Loaded, Lone, IsMovfW
<1>3. CASE ~IsConst(v)
  <2> DEFINE x == Addr(p, v) + j
  <2>1. x \in Cells
    BY <1>3 DEF Operand, Reg
  <2>2. Ready(p, base, ahead, h, x)
    BY <1>1, <1>3 DEF Before, Ready
  <2>3. e = WLoad(p, h, x)
    BY <1>3 DEF LoadByte
  <2>4. Settled(p, base, ahead, e) /\ e.holds \in {x, None} /\ Grown(h, e, WF("movf", x))
    BY <2>1, <2>2, <2>3, WLoadIs
  <2>5. ASSUME Lone(h, e) PROVE e.out = h.out \o <<WF("movf", x)>>
    <3> DEFINE i == WF("movf", x)
    <3> HIDE DEF x
    <3>1. /\ Flush(h) \in Loose(p, base, ahead)
          /\ Flush(h).out = h.out \/ (h.defer \in Cells /\ Flush(h).out = h.out \o <<<<"movwf", h.defer>>>>)
      <4>1. h \in Loose(p, base, ahead)
        BY <2>2 DEF Ready
      <4>2. Flushed(p, base, ahead, h, Flush(h))
        BY <4>1, FlushLoose
      <4> QED BY <4>2 DEF Flushed
    <3>2. Flush(h).out \in Seq(Lines)
      BY <3>1, LooseIs
    <3> HIDE DEF i
    <3>3. /\ Len(h.out \o <<<<"movwf", h.defer>>>>) = Len(h.out) + 1 /\ Len(h.out) \in Nat
          /\ Last(h.out \o <<<<"movwf", h.defer>>>>) = <<"movwf", h.defer>>
          /\ Len(Flush(h).out \o <<i>>) = Len(Flush(h).out) + 1
      BY <1>1, <3>2, OneMore
    <3>4. e.out # h.out
      BY <2>5, <3>3 DEF Lone
    <3>5. e.out # h.out \o <<<<"movwf", h.defer>>>>
      <4> SUFFICES ASSUME e.out = h.out \o <<<<"movwf", h.defer>>>> PROVE FALSE
        OBVIOUS
      <4>1. Last(e.out)[1] = "movwf"
        BY <3>3
      <4> QED BY <2>5, <4>1 DEF Lone, IsMovfW
    <3>6. e.out = Flush(h).out \o <<i>>
      BY <2>4, <3>4, <3>5 DEF Grown, i
    <3>7. Flush(h).out # h.out \o <<<<"movwf", h.defer>>>>
      BY <2>5, <3>3, <3>6 DEF Lone
    <3> QED BY <3>1, <3>6, <3>7 DEF i
  <2> QED BY <1>3, <2>4, <2>5 DEF Loaded
<1> QED BY <1>2, <1>3

(* So does a byte's exclusive or.                                          *)
LEMMA XorByteIs ==
  ASSUME NEW p, NEW base, Len(base) \in Nat, NEW ahead, NEW v, NEW n, Operand(p, v, n),
         NEW j \in 0..n - 1, NEW h \in Selector(p, base, ahead),
         h.defer = None, h.rel = <<>>, NEW e, e = XorUnlessNop(p, h, v, j)
  PROVE  Settled(p, base, ahead, e)
<1>1. CASE e = h
  BY <1>1 DEF Settled
<1>2. CASE e = XorByte(p, h, v, j)
  <2> DEFINE i == IF IsConst(v) THEN <<"xorlw", ByteK(v, j)>> ELSE WF("xorwf", Addr(p, v) + j)
  <2>1. i \in Plain /\ i[1] \notin SkipOps
    <3>1. CASE IsConst(v)
      <4>1. ByteK(v, j) \in Byte
        BY <3>1 DEF Operand, Constant
      <4>2. <<"xorlw", ByteK(v, j)>> \in Plain
        BY <4>1, PlainLine DEF LiteralOps
      <4> QED BY <3>1, <4>2 DEF SkipOps
    <3>2. CASE ~IsConst(v)
      <4>1. Addr(p, v) + j \in Cells
        BY <3>2 DEF Operand, Reg
      <4>2. WF("xorwf", Addr(p, v) + j) \in Plain
        BY <4>1, PlainLine DEF FileOps
      <4> QED BY <3>2, <4>2 DEF SkipOps, WF
    <3> QED BY <3>1, <3>2
  <2>2. e = Emit(h, i)
    BY <1>2 DEF XorByte
  <2> HIDE DEF i
  <2>3. h \in Loose(p, base, ahead)
    BY DEF Selector
  <2>4. EmittedTo(p, base, ahead, h, <<i>>, e)
    BY <2>1, <2>2, <2>3, EmitOne
  <2> QED BY <2>4, BlankSettled DEF EmittedTo
<1> QED BY <1>1, <1>2 DEF XorUnlessNop

-----------------------------------------------------------------------------
(* The folds: each step leads from a selector to a selector.               *)

MoveByte(p, h, v, i, dst) ==
    IF IsConst(v) /\ ByteK(v, i) = 0 THEN Emit(h, <<"clrf", dst + i>>)
    ELSE WStore(p, LoadByte(p, h, v, i), dst + i)

(* So does moving a byte.                                                  *)
LEMMA MoveByteIs ==
  ASSUME NEW p, NEW base, Len(base) \in Nat, NEW ahead, NEW v, NEW n, Operand(p, v, n),
         NEW dst, Dest(dst, n), NEW j \in 0..n - 1, NEW h \in Selector(p, base, ahead)
  PROVE  /\ MoveByte(p, h, v, j, dst) \in Selector(p, base, ahead)
         /\ \A l : dst + l \in Cells => CopyByte(p, h, v, j, dst + l) \in Selector(p, base, ahead)
<1>1. dst + j \in Cells
  BY DEF Dest
<1>2. Emit(h, <<"clrf", dst + j>>) \in Selector(p, base, ahead)
  <2>1. <<"clrf", dst + j>> \in Plain
    BY <1>1, PlainLine
  <2>2. h \in Loose(p, base, ahead) /\ <<"clrf", dst + j>>[1] \notin SkipOps
    BY DEF Selector, SkipOps
  <2> QED BY <2>1, <2>2, EmitOne DEF EmittedTo
<1>3. \A l : dst + l \in Cells => CopyByte(p, h, v, j, dst + l) \in Selector(p, base, ahead)
  <2> SUFFICES ASSUME NEW l, dst + l \in Cells
               PROVE  CopyByte(p, h, v, j, dst + l) \in Selector(p, base, ahead)
    OBVIOUS
  <2> DEFINE e == LoadByte(p, h, v, j)
  <2>1. Before(p, base, ahead, h, v, j)
    BY DEF Before
  <2>2. Loaded(p, base, ahead, h, v, j, e)
    BY <2>1, LoadByteIs
  <2>3. Ready(p, base, ahead, e, dst + l)
    BY <2>2 DEF Loaded, Settled, Ready, Selector
  <2> HIDE DEF e
  <2>4. Settled(p, base, ahead, WStore(p, e, dst + l))
    BY <2>3, WStoreIs
  <2> QED BY <2>4 DEF CopyByte, e, Settled
<1>4. WStore(p, LoadByte(p, h, v, j), dst + j) \in Selector(p, base, ahead)
  BY <1>1, <1>3 DEF CopyByte
<1> QED BY <1>2, <1>3, <1>4 DEF MoveByte

(* So does moving a value.                                                 *)
LEMMA MoveValIs ==
  ASSUME NEW p, NEW base, Len(base) \in Nat, NEW ahead, NEW v, NEW n \in Nat, Operand(p, v, n),
         NEW dst, Dest(dst, n), NEW h \in Selector(p, base, ahead)
  PROVE  MoveValToSlot(p, h, v, n, dst) \in Selector(p, base, ahead)
<1> DEFINE T == Selector(p, base, ahead)
           seq == UpTo(n)
           F == [q \in (1..n) \X T |-> MoveByte(p, q[2], v, seq[q[1]], dst)]
           Recurs(it) == it = [s \in SUBSET (1..n) |->
                                  IF s = {} THEN h ELSE MoveByte(p, it[s \ {Max(s)}], v, seq[Max(s)], dst)]
           it == CHOOSE it : Recurs(it)
<1>1. \A j \in 1..n : seq[j] \in 0..n - 1
  BY DEF UpTo
<1>2. DOMAIN seq = 1..n
  BY DEF UpTo
<1>3. MoveValToSlot(p, h, v, n, dst) = it[1..n]
  BY <1>2 DEF MoveValToSlot, FoldLeft, MapThenFoldSet, MoveByte
<1> HIDE DEF seq
<1>4. F \in [(1..n) \X T -> T]
  BY <1>1, MoveByteIs
<1>5. PICK w \in [SUBSET (1..n) -> T] : FoldOf(w, n, h, F)
  <2> HIDE DEF F, T
  <2>1. h \in T
    BY DEF T
  <2> QED BY <1>4, <2>1, FoldExists
<1>6. Recurs(w)
  <2> SUFFICES ASSUME NEW s \in SUBSET (1..n)
               PROVE  w[s] = IF s = {} THEN h ELSE MoveByte(p, w[s \ {Max(s)}], v, seq[Max(s)], dst)
    BY <1>5
  <2>1. CASE s = {}
    BY <1>5, <2>1 DEF FoldOf
  <2>2. CASE s # {}
    <3>1. Max(s) \in 1..n /\ s \ {Max(s)} \in SUBSET (1..n)
      BY <2>2, MaxIs
    <3>2. w[s \ {Max(s)}] \in T
      BY <1>5, <3>1
    <3>3. w[s] = F[<<Max(s), w[s \ {Max(s)}]>>]
      BY <1>5, <2>2 DEF FoldOf
    <3> QED BY <2>2, <3>1, <3>2, <3>3
  <2> QED BY <2>1, <2>2
<1> HIDE DEF Recurs, F
<1>7. Recurs(it)
  BY <1>6
<1> HIDE DEF it
<1>8. it[{}] \in T
  BY <1>7 DEF Recurs
<1>9. ASSUME NEW s \in SUBSET (1..n), s # {} /\ it[s \ {Max(s)}] \in T PROVE it[s] \in T
  <2>1. Max(s) \in 1..n
    BY <1>9, MaxIs
  <2>2. it[s] = MoveByte(p, it[s \ {Max(s)}], v, seq[Max(s)], dst)
    BY <1>7, <1>9 DEF Recurs
  <2> DEFINE r == it[s \ {Max(s)}]
             l == seq[Max(s)]
  <2>3. l \in 0..n - 1 /\ r \in Selector(p, base, ahead)
    BY <1>1, <1>9, <2>1
  <2> HIDE DEF r, l
  <2>4. MoveByte(p, r, v, l, dst) \in Selector(p, base, ahead)
    BY <2>3, MoveByteIs
  <2> QED BY <2>2, <2>4 DEF r, l
<1>10. \A j \in 0..n : it[1..j] \in T
  <2> HIDE DEF T
  <2> QED BY <1>8, <1>9, FoldStays
<1> QED BY <1>3, <1>10

-----------------------------------------------------------------------------
(* Moves by whole bytes.                                                   *)

(* So does copying the low bytes of a value.                               *)
LEMMA CopyLowIs ==
  ASSUME NEW p, NEW base, Len(base) \in Nat, NEW ahead, NEW v, NEW n \in Nat, Operand(p, v, n),
         NEW dst, Dest(dst, n), NEW h \in Selector(p, base, ahead)
  PROVE  CopyLow(p, h, v, n, dst) \in Selector(p, base, ahead)
<1> DEFINE T == Selector(p, base, ahead)
           seq == UpTo(n)
           F == [q \in (1..n) \X T |-> CopyByte(p, q[2], v, seq[q[1]], dst + seq[q[1]])]
           Recurs(it) == it = [s \in SUBSET (1..n) |->
                                  IF s = {} THEN h ELSE CopyByte(p, it[s \ {Max(s)}], v, seq[Max(s)], dst + seq[Max(s)])]
           it == CHOOSE it : Recurs(it)
<1>1. \A j \in 1..n : seq[j] \in 0..n - 1 /\ dst + seq[j] \in Cells
  BY DEF UpTo, Dest
<1>2. DOMAIN seq = 1..n
  BY DEF UpTo, Dest
<1>3. CopyLow(p, h, v, n, dst) = it[1..n]
  BY <1>2 DEF CopyLow, FoldLeft, MapThenFoldSet
<1> HIDE DEF seq
<1>4. ASSUME NEW x \in T, NEW j \in 1..n PROVE CopyByte(p, x, v, seq[j], dst + seq[j]) \in T
  BY <1>1, MoveByteIs
<1>5. h \in T
  BY h \in T
<1> HIDE DEF T
<1>6. F \in [(1..n) \X T -> T]
  BY <1>4
<1>7. PICK w \in [SUBSET (1..n) -> T] : FoldOf(w, n, h, F)
  <2> HIDE DEF F
  <2> QED BY <1>5, <1>6, FoldExists
<1>8. Recurs(w)
  <2> SUFFICES ASSUME NEW s \in SUBSET (1..n)
               PROVE  w[s] = IF s = {} THEN h ELSE CopyByte(p, w[s \ {Max(s)}], v, seq[Max(s)], dst + seq[Max(s)])
    BY <1>7
  <2>1. CASE s = {}
    BY <1>7, <2>1 DEF FoldOf
  <2>2. CASE s # {}
    <3>1. Max(s) \in 1..n /\ s \ {Max(s)} \in SUBSET (1..n)
      BY <2>2, MaxIs
    <3>2. w[s \ {Max(s)}] \in T
      BY <1>7, <3>1
    <3>3. w[s] = F[<<Max(s), w[s \ {Max(s)}]>>]
      BY <1>7, <2>2 DEF FoldOf
    <3> QED BY <2>2, <3>1, <3>2, <3>3
  <2> QED BY <2>1, <2>2
<1> HIDE DEF Recurs, F
<1>9. Recurs(it)
  BY <1>8
<1> HIDE DEF it
<1>10. it[{}] \in T
  BY <1>5, <1>9 DEF Recurs
<1>11. ASSUME NEW s \in SUBSET (1..n), s # {} /\ it[s \ {Max(s)}] \in T PROVE it[s] \in T
  <2>1. Max(s) \in 1..n
    BY <1>11, MaxIs
  <2>2. it[s] = CopyByte(p, it[s \ {Max(s)}], v, seq[Max(s)], dst + seq[Max(s)])
    BY <1>9, <1>11 DEF Recurs
  <2> QED BY <1>4, <1>11, <2>1, <2>2
<1>12. \A j \in 0..n : it[1..j] \in T
  BY <1>10, <1>11, FoldStays
<1> QED BY <1>3, <1>12 DEF T

Slid(p, h, v, n, sh, cnt, dst) ==
    FoldLeft(LAMBDA x, j : CopyByte(p, x, v, n - j - sh, dst + n - j), h, [j \in 1..cnt |-> j])

(* So does moving a value by whole bytes.                                  *)
LEMMA SlidIs ==
  ASSUME NEW p, NEW base, Len(base) \in Nat, NEW ahead, NEW v, NEW n \in Nat, Operand(p, v, n),
         NEW dst, Dest(dst, n), NEW h \in Selector(p, base, ahead),
         NEW sh \in Nat, NEW cnt \in Nat, cnt = n - sh
  PROVE  Slid(p, h, v, n, sh, cnt, dst) \in Selector(p, base, ahead)
<1> DEFINE T == Selector(p, base, ahead)
           seq == [j \in 1..cnt |-> j]
           F == [q \in (1..cnt) \X T |-> CopyByte(p, q[2], v, n - seq[q[1]] - sh, dst + n - seq[q[1]])]
           Recurs(it) == it = [s \in SUBSET (1..cnt) |->
                                  IF s = {} THEN h ELSE CopyByte(p, it[s \ {Max(s)}], v, n - seq[Max(s)] - sh, dst + n - seq[Max(s)])]
           it == CHOOSE it : Recurs(it)
<1>1. \A j \in 1..cnt : /\ seq[j] = j /\ n - j - sh \in 0..n - 1
                        /\ n - j \in 0..n - 1 /\ dst + (n - j) \in Cells /\ dst + n - j = dst + (n - j)
  <2> SUFFICES ASSUME NEW j \in 1..cnt
               PROVE  /\ seq[j] = j /\ n - j - sh \in 0..n - 1
                      /\ n - j \in 0..n - 1 /\ dst + (n - j) \in Cells /\ dst + n - j = dst + (n - j)
    OBVIOUS
  <2>1. seq[j] = j /\ n - j - sh \in 0..n - 1 /\ n - j \in 0..n - 1
    OBVIOUS
  <2>2. dst \in Nat /\ dst + (n - j) \in Cells
    BY <2>1 DEF Dest
  <2> QED BY <2>1, <2>2
<1>2. DOMAIN seq = 1..cnt
  OBVIOUS
<1>3. Slid(p, h, v, n, sh, cnt, dst) = it[1..cnt]
  BY <1>2 DEF Slid, FoldLeft, MapThenFoldSet
<1> HIDE DEF seq
<1>4. ASSUME NEW x \in T, NEW j \in 1..cnt PROVE CopyByte(p, x, v, n - seq[j] - sh, dst + n - seq[j]) \in T
  BY <1>1, MoveByteIs
<1>5. h \in T
  BY h \in T
<1> HIDE DEF T
<1>6. F \in [(1..cnt) \X T -> T]
  BY <1>4
<1>7. PICK w \in [SUBSET (1..cnt) -> T] : FoldOf(w, cnt, h, F)
  <2> HIDE DEF F
  <2> QED BY <1>5, <1>6, FoldExists
<1>8. Recurs(w)
  <2> SUFFICES ASSUME NEW s \in SUBSET (1..cnt)
               PROVE  w[s] = IF s = {} THEN h ELSE CopyByte(p, w[s \ {Max(s)}], v, n - seq[Max(s)] - sh, dst + n - seq[Max(s)])
    BY <1>7
  <2>1. CASE s = {}
    BY <1>7, <2>1 DEF FoldOf
  <2>2. CASE s # {}
    <3>1. Max(s) \in 1..cnt /\ s \ {Max(s)} \in SUBSET (1..cnt)
      BY <2>2, MaxIs
    <3>2. w[s \ {Max(s)}] \in T
      BY <1>7, <3>1
    <3>3. w[s] = F[<<Max(s), w[s \ {Max(s)}]>>]
      BY <1>7, <2>2 DEF FoldOf
    <3> QED BY <2>2, <3>1, <3>2, <3>3
  <2> QED BY <2>1, <2>2
<1> HIDE DEF Recurs, F
<1>9. Recurs(it)
  BY <1>8
<1> HIDE DEF it
<1>10. it[{}] \in T
  BY <1>5, <1>9 DEF Recurs
<1>11. ASSUME NEW s \in SUBSET (1..cnt), s # {} /\ it[s \ {Max(s)}] \in T PROVE it[s] \in T
  <2>1. Max(s) \in 1..cnt
    BY <1>11, MaxIs
  <2>2. it[s] = CopyByte(p, it[s \ {Max(s)}], v, n - seq[Max(s)] - sh, dst + n - seq[Max(s)])
    BY <1>9, <1>11 DEF Recurs
  <2> QED BY <1>4, <1>11, <2>1, <2>2
<1>12. \A j \in 0..cnt : it[1..j] \in T
  BY <1>10, <1>11, FoldStays
<1> QED BY <1>3, <1>12 DEF T

-----------------------------------------------------------------------------
(* Logic.                                                                  *)

(* After an instruction nothing is believed.                               *)
LEMMA EmitOk ==
  ASSUME NEW p, NEW base, Len(base) \in Nat, NEW ahead, NEW h \in Loose(p, base, ahead),
         NEW i \in Plain, i[1] \notin SkipOps
  PROVE  Settled(p, base, ahead, Emit(h, i)) /\ Blank(Emit(h, i))
<1>1. EmittedTo(p, base, ahead, h, <<i>>, Emit(h, i))
  BY EmitOne
<1> QED BY <1>1, BlankSettled DEF EmittedTo

(* Storing a byte of a result of logic keeps the beliefs true: it may be   *)
(* put off.                                                                *)
LEMMA LaneStoreIs ==
  ASSUME NEW p, NEW base, Len(base) \in Nat, NEW ahead, NEW h, Settled(p, base, ahead, h),
         NEW dst \in Cells, dst \notin GlobalBytes(p), NEW name, NEW n, NEW j
  PROVE  LaneStore(p, h, dst, name, n, j) \in Selector(p, base, ahead)
<1> DEFINE f == Flush(h)
           f1 == [f EXCEPT !.defer = dst, !.uses = 1, !.holds = dst, !.committed = FALSE]
<1>1. h \in Loose(p, base, ahead) /\ h.rel = <<>> /\ h \in Selector(p, base, ahead)
  BY DEF Settled, Selector
<1>2. f \in Loose(p, base, ahead) /\ f.rel = <<>>
  <2>1. Flushed(p, base, ahead, h, f)
    BY <1>1, FlushLoose
  <2> HIDE DEF f
  <2> QED BY <1>1, <2>1 DEF Flushed
<1>3. CASE LaneStore(p, h, dst, name, n, j) = f1
  <2> HIDE DEF f
  <2>1. f \in Gen(p) /\ f.out \in Emitted(base, ahead)
    BY <1>2, LooseIs
  <2>2. f1 \in Gen(p) /\ f1.out = f.out /\ f1.rel = <<>> /\ f1.committed = FALSE /\ f1.defer = dst
    BY <1>2, <2>1 DEF Gen
  <2> HIDE DEF f1
  <2> QED BY <1>3, <2>1, <2>2 DEF Selector, Loose, Held, Deferred, Told
<1>4. CASE LaneStore(p, h, dst, name, n, j) = WStore(p, h, dst)
  <2>1. Ready(p, base, ahead, h, dst)
    BY <1>1 DEF Ready
  <2> QED BY <1>4, <2>1, WStoreIs DEF Settled
<1> QED BY <1>3, <1>4 DEF LaneStore

\* What the recipes of logic need.
LogicInst(p, i, n, dst) ==
    /\ n = Width(i.ty) /\ Operand2(p, i, n) /\ Dest(dst, n) /\ i.op \in {"and", "or", "xor"}
    /\ \A j \in 0..n - 1 : dst + j \notin GlobalBytes(p)

(* So does a byte of and, or, exclusive or.                                *)
LEMMA LogicByteIs ==
  ASSUME NEW p, NEW base, Len(base) \in Nat, NEW ahead, NEW i, NEW n \in Nat, NEW dst,
         LogicInst(p, i, n, dst), NEW j \in 0..n - 1, NEW h \in Selector(p, base, ahead)
  PROVE  LogicByte(p, h, i, dst, j) \in Selector(p, base, ahead)
<1> DEFINE r == Addr(p, RegOf(i)) + j
           o == OtherOf(i)
           d == dst + j
<1>1. n = Width(i.ty) /\ d \in Cells /\ d \notin GlobalBytes(p) /\ i.op \in {"and", "or", "xor"}
  BY DEF LogicInst, Dest
<1>2. Reg(p, RegOf(i), n) /\ Operand(p, o, n)
  BY RegOtherIs DEF LogicInst
<1>3. r \in Cells /\ (IsConst(o) => ByteK(o, j) \in Byte) /\ (~IsConst(o) => Addr(p, o) + j \in Cells)
  BY <1>2 DEF Reg, Operand, Constant
<1>4. \A x, l : Settled(p, base, ahead, x) => LaneStore(p, x, d, i.dst, n, l) \in Selector(p, base, ahead)
  BY <1>1, LaneStoreIs
<1>5. \A y \in Cells, x \in Selector(p, base, ahead) : Settled(p, base, ahead, WLoad(p, x, y))
  <2> SUFFICES ASSUME NEW y \in Cells, NEW x \in Selector(p, base, ahead)
               PROVE  Settled(p, base, ahead, WLoad(p, x, y))
    OBVIOUS
  <2>1. Ready(p, base, ahead, x, y)
    BY DEF Ready, Selector
  <2> QED BY <2>1, WLoadIs
<1>6. \A x : Settled(p, base, ahead, x) => x \in Loose(p, base, ahead) /\ x \in Selector(p, base, ahead)
  BY DEF Settled, Selector
<1>7. LogicByte(p, h, i, dst, j) =
        IF ~IsConst(o)
        THEN LaneStore(p, Emit(WLoad(p, h, Addr(p, o) + j), WF(FileOp[i.op], r)), d, i.dst, n, j)
        ELSE IF (IsConst(o) /\ ByteK(o, j) = 0) /\ i.op = "and" THEN Emit(h, <<"clrf", d>>)
        ELSE IF (IsConst(o) /\ ByteK(o, j) = 0) /\ AluResultFresh(WLoad(p, h, r))
             THEN LaneStore(p, WLoad(p, h, r), d, i.dst, n, j)
        ELSE LaneStore(p, Emit(WLoad(p, WLoad(p, h, r), r), <<LiteralOp[i.op], ByteK(o, j)>>),
                       d, i.dst, n, j)
  BY <1>1 DEF LogicByte
<1> HIDE DEF r, d, o
<1>8. CASE ~IsConst(o)
  <2> DEFINE l == WLoad(p, h, Addr(p, o) + j)
             b == WF(FileOp[i.op], r)
  <2>1. Settled(p, base, ahead, l)
    BY <1>3, <1>5, <1>8
  <2>2. FileOp[i.op] \in {"andwf", "iorwf", "xorwf"}
    BY <1>1 DEF FileOp
  <2>3. b \in Plain /\ b[1] \notin SkipOps
    <3>1. b \in Plain
      BY <1>3, <2>2, PlainLine DEF FileOps
    <3>2. b[1] \in {"andwf", "iorwf", "xorwf"}
      BY <2>2 DEF WF
    <3> QED BY <3>1, <3>2 DEF SkipOps
  <2> HIDE DEF l, b
  <2>4. Settled(p, base, ahead, Emit(l, b))
    BY <1>6, <2>1, <2>3, EmitOk
  <2>5. LaneStore(p, Emit(l, b), d, i.dst, n, j) \in Selector(p, base, ahead)
    BY <1>4, <2>4
  <2> QED BY <1>7, <1>8, <2>5 DEF l, b
<1>9. Emit(h, <<"clrf", d>>) \in Selector(p, base, ahead)
  <2>1. <<"clrf", d>> \in Plain /\ <<"clrf", d>>[1] \notin SkipOps /\ h \in Loose(p, base, ahead)
    BY <1>1, PlainLine DEF SkipOps, Selector
  <2> QED BY <2>1, EmitOk DEF Settled
<1>10. Settled(p, base, ahead, WLoad(p, h, r))
  BY <1>3, <1>5
<1>11. LaneStore(p, WLoad(p, h, r), d, i.dst, n, j) \in Selector(p, base, ahead)
  BY <1>4, <1>10
<1>12. CASE IsConst(o)
  <2> DEFINE l == WLoad(p, WLoad(p, h, r), r)
             b == <<LiteralOp[i.op], ByteK(o, j)>>
  <2>1. Settled(p, base, ahead, l)
    BY <1>3, <1>5, <1>6, <1>10
  <2>2. LiteralOp[i.op] \in {"andlw", "iorlw", "xorlw"} /\ ByteK(o, j) \in Byte
    BY <1>1, <1>3, <1>12 DEF LiteralOp
  <2>3. b \in Plain /\ b[1] \notin SkipOps
    <3>1. b \in Plain
      BY <2>2, PlainLine DEF LiteralOps
    <3>2. b[1] \in {"andlw", "iorlw", "xorlw"}
      BY <2>2
    <3> QED BY <3>1, <3>2 DEF SkipOps
  <2> HIDE DEF l, b
  <2>4. Settled(p, base, ahead, Emit(l, b))
    BY <1>6, <2>1, <2>3, EmitOk
  <2>5. LaneStore(p, Emit(l, b), d, i.dst, n, j) \in Selector(p, base, ahead)
    BY <1>4, <2>4
  <2> QED BY <1>7, <1>9, <1>11, <1>12, <2>5 DEF l, b
<1> QED BY <1>8, <1>12

(* So does the whole operation.                                            *)
LEMMA LogicIs ==
  ASSUME NEW p, NEW base, Len(base) \in Nat, NEW ahead, NEW i, NEW n \in Nat, NEW dst,
         LogicInst(p, i, n, dst), NEW h \in Selector(p, base, ahead)
  PROVE  Logic(p, h, i, dst) \in Selector(p, base, ahead)
<1> DEFINE T == Selector(p, base, ahead)
           seq == [j \in 1..n |-> j % n]
           F == [q \in (1..n) \X T |-> LogicByte(p, q[2], i, dst, seq[q[1]])]
           Recurs(it) == it = [s \in SUBSET (1..n) |->
                                  IF s = {} THEN h ELSE LogicByte(p, it[s \ {Max(s)}], i, dst, seq[Max(s)])]
           it == CHOOSE it : Recurs(it)
<1>1. \A j \in 1..n : seq[j] \in 0..n - 1
  OBVIOUS
<1>2. DOMAIN seq = 1..n
  OBVIOUS
<1>3. Logic(p, h, i, dst) = it[1..n]
  BY <1>2 DEF LogicInst, Logic, FoldLeft, MapThenFoldSet
<1> HIDE DEF seq
<1>4. ASSUME NEW x \in T, NEW j \in 1..n PROVE LogicByte(p, x, i, dst, seq[j]) \in T
  BY <1>1, LogicByteIs
<1>5. h \in T
  BY h \in T
<1> HIDE DEF T
<1>6. F \in [(1..n) \X T -> T]
  BY <1>4
<1>7. PICK w \in [SUBSET (1..n) -> T] : FoldOf(w, n, h, F)
  <2> HIDE DEF F
  <2> QED BY <1>5, <1>6, FoldExists
<1>8. Recurs(w)
  <2> SUFFICES ASSUME NEW s \in SUBSET (1..n)
               PROVE  w[s] = IF s = {} THEN h ELSE LogicByte(p, w[s \ {Max(s)}], i, dst, seq[Max(s)])
    BY <1>7
  <2>1. CASE s = {}
    BY <1>7, <2>1 DEF FoldOf
  <2>2. CASE s # {}
    <3>1. Max(s) \in 1..n /\ s \ {Max(s)} \in SUBSET (1..n)
      BY <2>2, MaxIs
    <3>2. w[s \ {Max(s)}] \in T
      BY <1>7, <3>1
    <3>3. w[s] = F[<<Max(s), w[s \ {Max(s)}]>>]
      BY <1>7, <2>2 DEF FoldOf
    <3> QED BY <2>2, <3>1, <3>2, <3>3
  <2> QED BY <2>1, <2>2
<1> HIDE DEF Recurs, F
<1>9. Recurs(it)
  BY <1>8
<1> HIDE DEF it
<1>10. it[{}] \in T
  BY <1>5, <1>9 DEF Recurs
<1>11. ASSUME NEW s \in SUBSET (1..n), s # {} /\ it[s \ {Max(s)}] \in T PROVE it[s] \in T
  <2>1. Max(s) \in 1..n
    BY <1>11, MaxIs
  <2>2. it[s] = LogicByte(p, it[s \ {Max(s)}], i, dst, seq[Max(s)])
    BY <1>9, <1>11 DEF Recurs
  <2> QED BY <1>4, <1>11, <2>1, <2>2
<1>12. \A j \in 0..n : it[1..j] \in T
  BY <1>10, <1>11, FoldStays
<1> QED BY <1>3, <1>12 DEF T

-----------------------------------------------------------------------------
(* Loads, returns and the results of calls.                                *)

(* A byte of a load from memory.                                           *)
LEMMA LoadStep ==
  ASSUME NEW p, NEW base, Len(base) \in Nat, NEW ahead, NEW h \in Selector(p, base, ahead),
         NEW x \in Cells, NEW y \in Cells
  PROVE  WStore(p, Emit(h, WF("movf", x)), y) \in Selector(p, base, ahead)
<1> DEFINE e == Emit(h, WF("movf", x))
<1>1. WF("movf", x) \in Plain /\ WF("movf", x)[1] \notin SkipOps
  BY PlainLine DEF FileOps, WF, SkipOps
<1>2. h \in Loose(p, base, ahead)
  BY DEF Selector
<1>3. Settled(p, base, ahead, e)
  BY <1>1, <1>2, EmitOk
<1> HIDE DEF e
<1>4. Ready(p, base, ahead, e, y)
  BY <1>3 DEF Settled, Ready, Selector
<1>5. Settled(p, base, ahead, WStore(p, e, y))
  BY <1>4, WStoreIs
<1> QED BY <1>5 DEF e, Settled

(* A load from memory keeps the beliefs true.                              *)
LEMMA LoadIs ==
  ASSUME NEW p, NEW base, Len(base) \in Nat, NEW ahead, NEW i, NEW n \in Nat, n = Width(i.ty),
         Reg(p, i.a, n), NEW dst, Dest(dst, n), NEW h \in Selector(p, base, ahead)
  PROVE  Load(p, h, i, dst) \in Selector(p, base, ahead)
<1> DEFINE T == Selector(p, base, ahead)
           seq == UpTo(n)
           F == [q \in (1..n) \X T |-> WStore(p, Emit(q[2], WF("movf", Addr(p, i.a) + seq[q[1]])), dst + seq[q[1]])]
           Recurs(it) == it = [s \in SUBSET (1..n) |->
                                  IF s = {} THEN h ELSE WStore(p, Emit(it[s \ {Max(s)}], WF("movf", Addr(p, i.a) + seq[Max(s)])), dst + seq[Max(s)])]
           it == CHOOSE it : Recurs(it)
<1>1. \A j \in 1..n : Addr(p, i.a) + seq[j] \in Cells /\ dst + seq[j] \in Cells
  BY DEF UpTo, Dest, Reg
<1>2. DOMAIN seq = 1..n
  BY DEF UpTo, Dest, Reg
<1>3. Load(p, h, i, dst) = it[1..n]
  BY <1>2 DEF Load, FoldLeft, MapThenFoldSet
<1> HIDE DEF seq
<1>4. ASSUME NEW x \in T, NEW j \in 1..n PROVE WStore(p, Emit(x, WF("movf", Addr(p, i.a) + seq[j])), dst + seq[j]) \in T
  BY <1>1, LoadStep
<1>5. h \in T
  BY h \in T
<1> HIDE DEF T
<1>6. F \in [(1..n) \X T -> T]
  BY <1>4
<1>7. PICK w \in [SUBSET (1..n) -> T] : FoldOf(w, n, h, F)
  <2> HIDE DEF F
  <2> QED BY <1>5, <1>6, FoldExists
<1>8. Recurs(w)
  <2> SUFFICES ASSUME NEW s \in SUBSET (1..n)
               PROVE  w[s] = IF s = {} THEN h ELSE WStore(p, Emit(w[s \ {Max(s)}], WF("movf", Addr(p, i.a) + seq[Max(s)])), dst + seq[Max(s)])
    BY <1>7
  <2>1. CASE s = {}
    BY <1>7, <2>1 DEF FoldOf
  <2>2. CASE s # {}
    <3>1. Max(s) \in 1..n /\ s \ {Max(s)} \in SUBSET (1..n)
      BY <2>2, MaxIs
    <3>2. w[s \ {Max(s)}] \in T
      BY <1>7, <3>1
    <3>3. w[s] = F[<<Max(s), w[s \ {Max(s)}]>>]
      BY <1>7, <2>2 DEF FoldOf
    <3> QED BY <2>2, <3>1, <3>2, <3>3
  <2> QED BY <2>1, <2>2
<1> HIDE DEF Recurs, F
<1>9. Recurs(it)
  BY <1>8
<1> HIDE DEF it
<1>10. it[{}] \in T
  BY <1>5, <1>9 DEF Recurs
<1>11. ASSUME NEW s \in SUBSET (1..n), s # {} /\ it[s \ {Max(s)}] \in T PROVE it[s] \in T
  <2>1. Max(s) \in 1..n
    BY <1>11, MaxIs
  <2>2. it[s] = WStore(p, Emit(it[s \ {Max(s)}], WF("movf", Addr(p, i.a) + seq[Max(s)])), dst + seq[Max(s)])
    BY <1>9, <1>11 DEF Recurs
  <2> QED BY <1>4, <1>11, <2>1, <2>2
<1>12. \A j \in 0..n : it[1..j] \in T
  BY <1>10, <1>11, FoldStays
<1> QED BY <1>3, <1>12 DEF T

(* A returned byte.                                                        *)
LEMMA RetStep ==
  ASSUME NEW p, NEW base, Len(base) \in Nat, NEW ahead, NEW h \in Selector(p, base, ahead),
         NEW v, NEW n, Operand(p, v, n), NEW j \in 0..n - 1, NEW y \in Cells
  PROVE  Emit(LoadByte(p, h, v, j), <<"movwf", y>>) \in Selector(p, base, ahead)
<1> DEFINE e == LoadByte(p, h, v, j)
<1>1. <<"movwf", y>> \in Plain /\ <<"movwf", y>>[1] \notin SkipOps
  BY PlainLine DEF SkipOps
<1>2. Before(p, base, ahead, h, v, j)
  BY DEF Before
<1>3. Loaded(p, base, ahead, h, v, j, e)
  BY <1>2, LoadByteIs
<1> HIDE DEF e
<1>4. e \in Loose(p, base, ahead)
  BY <1>3 DEF Loaded, Settled, Selector
<1> QED BY <1>1, <1>4, EmitOk DEF e, Settled

\* The returned bytes, before the return.
RetBytes(p, g0, i) ==
    FoldLeft(LAMBDA h, j : Emit(LoadByte(p, h, i.a, j), <<"movwf", RETVAL + j>>),
             g0, UpTo(Width(i.ty)))

(* The returned bytes keep the beliefs true.                               *)
LEMMA RetBytesIs ==
  ASSUME NEW p, NEW base, Len(base) \in Nat, NEW ahead, NEW i, NEW n \in Nat, n = Width(i.ty),
         Operand(p, i.a, n), Dest(RETVAL, n), NEW h \in Selector(p, base, ahead)
  PROVE  RetBytes(p, h, i) \in Selector(p, base, ahead)
<1> DEFINE T == Selector(p, base, ahead)
           seq == UpTo(n)
           F == [q \in (1..n) \X T |-> Emit(LoadByte(p, q[2], i.a, seq[q[1]]), <<"movwf", RETVAL + seq[q[1]]>>)]
           Recurs(it) == it = [s \in SUBSET (1..n) |->
                                  IF s = {} THEN h ELSE Emit(LoadByte(p, it[s \ {Max(s)}], i.a, seq[Max(s)]), <<"movwf", RETVAL + seq[Max(s)]>>)]
           it == CHOOSE it : Recurs(it)
<1>1. \A j \in 1..n : seq[j] \in 0..n - 1 /\ RETVAL + seq[j] \in Cells
  BY DEF UpTo, Dest
<1>2. DOMAIN seq = 1..n
  BY DEF UpTo, Dest
<1>3. RetBytes(p, h, i) = it[1..n]
  BY <1>2 DEF RetBytes, FoldLeft, MapThenFoldSet
<1> HIDE DEF seq
<1>4. ASSUME NEW x \in T, NEW j \in 1..n PROVE Emit(LoadByte(p, x, i.a, seq[j]), <<"movwf", RETVAL + seq[j]>>) \in T
  BY <1>1, RetStep
<1>5. h \in T
  BY h \in T
<1> HIDE DEF T
<1>6. F \in [(1..n) \X T -> T]
  BY <1>4
<1>7. PICK w \in [SUBSET (1..n) -> T] : FoldOf(w, n, h, F)
  <2> HIDE DEF F
  <2> QED BY <1>5, <1>6, FoldExists
<1>8. Recurs(w)
  <2> SUFFICES ASSUME NEW s \in SUBSET (1..n)
               PROVE  w[s] = IF s = {} THEN h ELSE Emit(LoadByte(p, w[s \ {Max(s)}], i.a, seq[Max(s)]), <<"movwf", RETVAL + seq[Max(s)]>>)
    BY <1>7
  <2>1. CASE s = {}
    BY <1>7, <2>1 DEF FoldOf
  <2>2. CASE s # {}
    <3>1. Max(s) \in 1..n /\ s \ {Max(s)} \in SUBSET (1..n)
      BY <2>2, MaxIs
    <3>2. w[s \ {Max(s)}] \in T
      BY <1>7, <3>1
    <3>3. w[s] = F[<<Max(s), w[s \ {Max(s)}]>>]
      BY <1>7, <2>2 DEF FoldOf
    <3> QED BY <2>2, <3>1, <3>2, <3>3
  <2> QED BY <2>1, <2>2
<1> HIDE DEF Recurs, F
<1>9. Recurs(it)
  BY <1>8
<1> HIDE DEF it
<1>10. it[{}] \in T
  BY <1>5, <1>9 DEF Recurs
<1>11. ASSUME NEW s \in SUBSET (1..n), s # {} /\ it[s \ {Max(s)}] \in T PROVE it[s] \in T
  <2>1. Max(s) \in 1..n
    BY <1>11, MaxIs
  <2>2. it[s] = Emit(LoadByte(p, it[s \ {Max(s)}], i.a, seq[Max(s)]), <<"movwf", RETVAL + seq[Max(s)]>>)
    BY <1>9, <1>11 DEF Recurs
  <2> QED BY <1>4, <1>11, <2>1, <2>2
<1>12. \A j \in 0..n : it[1..j] \in T
  BY <1>10, <1>11, FoldStays
<1> QED BY <1>3, <1>12 DEF T

(* A return does.                                                          *)
LEMMA RetIs ==
  ASSUME NEW p, NEW base, Len(base) \in Nat, NEW ahead, NEW i, NEW n \in Nat, n = Width(i.ty),
         Operand(p, i.a, n), Dest(RETVAL, n), NEW h \in Selector(p, base, ahead)
  PROVE  Ret(p, h, i) \in Selector(p, base, ahead)
<1> DEFINE e == RetBytes(p, h, i)
           s == <<<<"return">>>>
<1>1. Ret(p, h, i) = EmitAll(e, s)
  BY DEF Ret, RetBytes, Emit
<1>2. e \in Selector(p, base, ahead)
  BY RetBytesIs
<1> HIDE DEF e
<1>3. s \in Seq(Lines)
  BY DEF Lines
<1>4. Ending(s) /\ Jumps(s, ahead, ahead)
  BY DEF Ending, Jumps, SkipOps
<1>5. e \in Loose(p, base, ahead)
  BY <1>2 DEF Selector
<1> HIDE DEF s
<1>6. EmittedTo(p, base, ahead, e, s, EmitAll(e, s))
  BY <1>3, <1>4, <1>5, EmitAny
<1> QED BY <1>1, <1>6 DEF EmittedTo

-----------------------------------------------------------------------------
(* A call's result: W still holds its last byte.                           *)

\* The bytes of the result, moved to dst.
Fetch(p, h, n, dst) ==
    FoldLeft(LAMBDA x, j : WStore(p, WLoad(p, x, RETVAL + n - j), dst + n - j),
             SeedResult(h, n), [j \in 1..n |-> j])

(* A byte of a call's result.                                              *)
LEMMA FetchStep ==
  ASSUME NEW p, NEW base, Len(base) \in Nat, NEW ahead, NEW h, NEW x \in Cells, NEW y \in Cells,
         \/ h \in Selector(p, base, ahead)
         \/ /\ h \in Loose(p, base, ahead) /\ h.defer = None /\ (h.holds = x => x # y)
  PROVE  WStore(p, WLoad(p, h, x), y) \in Selector(p, base, ahead)
<1> DEFINE e == WLoad(p, h, x)
<1>0. x # None /\ y # None /\ h \in Loose(p, base, ahead)
  BY CellsAssumption DEF Selector
<1>1. Ready(p, base, ahead, e, y)
  <2>1. CASE Ready(p, base, ahead, h, x)
    <3>1. Settled(p, base, ahead, e)
      BY <2>1, WLoadIs
    <3> QED BY <3>1 DEF Settled, Ready, Selector
  <2>2. CASE h.defer = None /\ h.holds = x /\ x # y
    <3> DEFINE z == IF x \in GlobalBytes(p) THEN None ELSE x
               f == [h EXCEPT !.holds = z, !.rel = <<>>]
    <3>1. h \in Gen(p) /\ h.out \in Emitted(base, ahead)
      BY <1>0, LooseIs
    <3>2. Flush(h) = h
      <4>1. Flushed(p, base, ahead, h, Flush(h))
        BY <1>0, FlushLoose
      <4> QED BY <2>2, <4>1, Zenon DEF Flushed
    <3>3. e = f
      BY <1>0, <2>2, <3>2 DEF WLoad, MarkW
    <3>4. z \in Cells \cup {None} /\ z # y
      BY <1>0, <2>2
    <3> HIDE DEF e, z
    <3>5. f \in Gen(p) /\ f.out = h.out /\ f.holds = z /\ f.defer = None
      BY <2>2, <3>1, <3>4 DEF Gen
    <3> HIDE DEF f
    <3> QED BY <3>1, <3>3, <3>4, <3>5 DEF Ready, Loose
  <2> QED BY <1>0, <2>1, <2>2 DEF Ready
<1> HIDE DEF e
<1>2. Settled(p, base, ahead, WStore(p, e, y))
  BY <1>1, WStoreIs
<1> QED BY <1>2 DEF e, Settled

(* The result of a call, left in W, is moved with true beliefs.            *)
LEMMA FetchIs ==
  ASSUME NEW p, NEW base, Len(base) \in Nat, NEW ahead, NEW n \in Nat \ {0}, NEW dst,
         Dest(dst, n), Dest(RETVAL, n), dst # RETVAL,
         NEW h \in Selector(p, base, ahead), h.defer = None
  PROVE  Fetch(p, h, n, dst) \in Selector(p, base, ahead)
<1> DEFINE T == Selector(p, base, ahead) \cup {SeedResult(h, n)}
           seq == [j \in 1..n |-> j]
           F == [q \in (1..n) \X T |-> WStore(p, WLoad(p, q[2], RETVAL + n - seq[q[1]]), dst + n - seq[q[1]])]
           Recurs(it) == it = [s \in SUBSET (1..n) |->
                                  IF s = {} THEN SeedResult(h, n) ELSE WStore(p, WLoad(p, it[s \ {Max(s)}], RETVAL + n - seq[Max(s)]), dst + n - seq[Max(s)])]
           it == CHOOSE it : Recurs(it)
<1>0. RETVAL \in Nat /\ dst \in Nat
  BY DEF Dest
<1>1. \A j \in 1..n : RETVAL + n - seq[j] \in Cells /\ dst + n - seq[j] \in Cells
                      /\ RETVAL + n - seq[j] # dst + n - seq[j]
  <2> SUFFICES ASSUME NEW j \in 1..n
               PROVE  RETVAL + n - j \in Cells /\ dst + n - j \in Cells /\ RETVAL + n - j # dst + n - j
    OBVIOUS
  <2>1. n - j \in 0..n - 1 /\ RETVAL + n - j = RETVAL + (n - j) /\ dst + n - j = dst + (n - j)
    BY <1>0
  <2>2. RETVAL + (n - j) \in Cells /\ dst + (n - j) \in Cells
    BY <2>1 DEF Dest
  <2>3. RETVAL + (n - j) # dst + (n - j)
    <3>1. n - j \in Nat
      OBVIOUS
    <3> QED BY <1>0, <3>1
  <2> QED BY <2>1, <2>2, <2>3
<1>a. SeedResult(h, n) \in Loose(p, base, ahead) /\ SeedResult(h, n).defer = None
  <2>1. h \in Gen(p) /\ h.out \in Emitted(base, ahead) /\ h.out \in Seq(Lines)
    BY LooseIs DEF Selector
  <2>2. RETVAL + n - 1 \in Cells
    <3>1. n - 1 \in 0..n - 1 /\ RETVAL + n - 1 = RETVAL + (n - 1)
      BY <1>0
    <3> QED BY <3>1 DEF Dest
  <2>3. [h EXCEPT !.holds = RETVAL + n - 1, !.committed = TRUE] \in Gen(p)
    BY <2>1, <2>2 DEF Gen
  <2> QED BY <2>1, <2>3 DEF SeedResult, Loose, Gen
<1>2. DOMAIN seq = 1..n
  OBVIOUS
<1>3. Fetch(p, h, n, dst) = it[1..n]
  BY <1>2 DEF Fetch, FoldLeft, MapThenFoldSet
<1> HIDE DEF seq
<1>4. ASSUME NEW x \in T, NEW j \in 1..n
      PROVE  /\ WStore(p, WLoad(p, x, RETVAL + n - seq[j]), dst + n - seq[j]) \in Selector(p, base, ahead)
             /\ WStore(p, WLoad(p, x, RETVAL + n - seq[j]), dst + n - seq[j]) \in T
  <2> DEFINE u == RETVAL + n - seq[j]
             y == dst + n - seq[j]
  <2>1. u \in Cells /\ y \in Cells /\ u # y
    BY <1>1
  <2> HIDE DEF u, y
  <2>2. \/ x \in Selector(p, base, ahead)
        \/ x \in Loose(p, base, ahead) /\ x.defer = None /\ (x.holds = u => u # y)
    BY <1>a, <2>1
  <2>3. WStore(p, WLoad(p, x, u), y) \in Selector(p, base, ahead)
    BY <2>1, <2>2, FetchStep
  <2> QED BY <2>3 DEF u, y
<1>5. SeedResult(h, n) \in T
  BY SeedResult(h, n) \in T
<1> HIDE DEF T
<1>6. F \in [(1..n) \X T -> T]
  BY <1>4
<1>7. PICK w \in [SUBSET (1..n) -> T] : FoldOf(w, n, SeedResult(h, n), F)
  <2> HIDE DEF F
  <2> QED BY <1>5, <1>6, FoldExists
<1>8. Recurs(w)
  <2> SUFFICES ASSUME NEW s \in SUBSET (1..n)
               PROVE  w[s] = IF s = {} THEN SeedResult(h, n) ELSE WStore(p, WLoad(p, w[s \ {Max(s)}], RETVAL + n - seq[Max(s)]), dst + n - seq[Max(s)])
    BY <1>7
  <2>1. CASE s = {}
    BY <1>7, <2>1 DEF FoldOf
  <2>2. CASE s # {}
    <3>1. Max(s) \in 1..n /\ s \ {Max(s)} \in SUBSET (1..n)
      BY <2>2, MaxIs
    <3>2. w[s \ {Max(s)}] \in T
      BY <1>7, <3>1
    <3>3. w[s] = F[<<Max(s), w[s \ {Max(s)}]>>]
      BY <1>7, <2>2 DEF FoldOf
    <3> QED BY <2>2, <3>1, <3>2, <3>3
  <2> QED BY <2>1, <2>2
<1> HIDE DEF Recurs, F
<1>9. Recurs(it)
  BY <1>8
<1> HIDE DEF it
<1>10. it[{}] \in T
  BY <1>5, <1>9 DEF Recurs
<1>11. ASSUME NEW s \in SUBSET (1..n), s # {} /\ it[s \ {Max(s)}] \in T PROVE it[s] \in T
  <2>1. Max(s) \in 1..n
    BY <1>11, MaxIs
  <2>2. it[s] = WStore(p, WLoad(p, it[s \ {Max(s)}], RETVAL + n - seq[Max(s)]), dst + n - seq[Max(s)])
    BY <1>9, <1>11 DEF Recurs
  <2> QED BY <1>4, <1>11, <2>1, <2>2
<1>12. \A j \in 0..n : it[1..j] \in T
  BY <1>10, <1>11, FoldStays
<1>13. it[1..n] \in Selector(p, base, ahead)
  <2>1. Max(1..n) = n /\ (1..n) \ {n} = 1..(n - 1) /\ n \in 1..n
    BY MaxOfPrefix
  <2>2. 1..n \in SUBSET (1..n) /\ 1..n # {} /\ n - 1 \in 0..n
    <3>1. n \in 1..n /\ n - 1 \in 0..n
      OBVIOUS
    <3> QED BY <3>1
  <2>3. it[1..n] = WStore(p, WLoad(p, it[1..(n - 1)], RETVAL + n - seq[n]), dst + n - seq[n])
    BY <1>9, <2>1, <2>2 DEF Recurs
  <2>4. it[1..(n - 1)] \in T
    BY <1>12, <2>2
  <2> DEFINE x == it[1..(n - 1)]
  <2> HIDE DEF x
  <2>5. x \in T
    BY <2>4 DEF x
  <2>6. WStore(p, WLoad(p, x, RETVAL + n - seq[n]), dst + n - seq[n]) \in Selector(p, base, ahead)
    BY <1>4, <2>1, <2>5
  <2> QED BY <2>3, <2>6 DEF x
<1> QED BY <1>3, <1>13

-----------------------------------------------------------------------------
(* The comparison for equality.                                            *)

\* A byte after the first, from the state s of the fold.
CmpNext(p, a, b, s, i) ==
    LET parked == IF s.file # None THEN s.g ELSE Emit(s.g, <<"movwf", SCRATCH>>)
        loaded == LoadByte(p, parked, a, i)
        next == XorUnlessNop(p, loaded, b, i)
        lone(h, later) == Len(later.out) = Len(h.out) + 1 /\ IsMovfW(Last(later.out))
        unpark == s.file = None /\ next = loaded /\ lone(parked, loaded)
    IN  [g |-> IF s.file # None THEN Emit(next, WF("iorwf", s.file))
               ELSE IF unpark
               THEN Emit([next EXCEPT !.out = Front(Front(@))], WF("iorwf", Last(loaded.out)[2]))
               ELSE Emit(next, WF("iorwf", SCRATCH)),
         file |-> None]

\* The fold's state: a selector whose beliefs hold, or one that has dropped
\* the load of the first byte, which waits in its file.
CmpState(p, base, ahead, a) ==
    {s \in [g : Loose(p, base, ahead), file : Cells \cup {None}] :
        IF s.file = None THEN s.g \in Selector(p, base, ahead)
        ELSE s.g.defer = None /\ ~IsConst(a) /\ s.g.holds \in {Addr(p, a), None}}

(* An or after a load.                                                     *)
LEMMA OrOk ==
  ASSUME NEW p, NEW base, Len(base) \in Nat, NEW ahead, NEW h \in Loose(p, base, ahead),
         NEW x \in Cells
  PROVE  /\ Emit(h, WF("iorwf", x)) \in Selector(p, base, ahead)
         /\ Emit(h, WF("iorwf", x)) \in Loose(p, base, ahead)
<1>1. WF("iorwf", x) \in Plain /\ WF("iorwf", x)[1] \notin SkipOps
  BY PlainLine DEF FileOps, WF, SkipOps
<1> QED BY <1>1, EmitOk DEF Settled, Selector

(* All but the last of a sequence.                                         *)
LEMMA FrontIs ==
  ASSUME NEW out \in Seq(Lines), NEW i \in Lines
  PROVE  Front(out \o <<i>>) = out
<1>1. out \o <<i>> = Append(out, i)
  OBVIOUS
<1>2. Len(out \o <<i>>) = Len(out) + 1 /\ Len(out) \in Nat /\ out \o <<i>> \in Seq(Lines)
  BY OneMore
<1>3. SubSeq(Append(out, i), 1, Len(out)) = out
  BY AppendProperties, SubSeqProperties
<1> QED BY <1>1, <1>2, <1>3 DEF Front

(* A selector with other code.                                             *)
LEMMA OtherOut ==
  ASSUME NEW p, NEW base, NEW ahead, NEW h \in Loose(p, base, ahead),
         NEW out \in Emitted(base, ahead)
  PROVE  [h EXCEPT !.out = out] \in Loose(p, base, ahead)
<1>1. h \in Gen(p) /\ out \in Seq(Lines)
  BY LooseIs DEF Emitted
<1>2. [h EXCEPT !.out = out] \in Gen(p) /\ [h EXCEPT !.out = out].out = out
  BY <1>1 DEF Gen
<1> QED BY <1>2 DEF Loose

(* A later byte of the comparison keeps the fold's state.                  *)
LEMMA CmpNextIs ==
  ASSUME NEW p, NEW base, Len(base) \in Nat, NEW ahead, NEW a, NEW b, NEW n,
         Operand(p, a, n), Operand(p, b, n), SCRATCH \in Cells,
         NEW j \in 1..n - 1, NEW s \in CmpState(p, base, ahead, a)
  PROVE  /\ CmpNext(p, a, b, s, j) \in CmpState(p, base, ahead, a)
         /\ CmpNext(p, a, b, s, j).g \in Selector(p, base, ahead)
<1> DEFINE parked == IF s.file # None THEN s.g ELSE Emit(s.g, <<"movwf", SCRATCH>>)
           loaded == LoadByte(p, parked, a, j)
           next == XorUnlessNop(p, loaded, b, j)
           r == CmpNext(p, a, b, s, j)
<1>0. j \in 0..n - 1 /\ s.g \in Loose(p, base, ahead) /\ s.file \in Cells \cup {None}
      /\ (s.file = None => s.g \in Selector(p, base, ahead)) /\ s.g.out \in Seq(Lines)
      /\ (s.file # None => s.g.defer = None /\ ~IsConst(a) /\ s.g.holds \in {Addr(p, a), None})
  <2>1. s.g \in Loose(p, base, ahead)
    BY DEF CmpState
  <2>2. s.g.out \in Seq(Lines)
    BY <2>1, LooseIs
  <2> QED BY <2>1, <2>2 DEF CmpState
<1>1. <<"movwf", SCRATCH>> \in Plain /\ <<"movwf", SCRATCH>>[1] \notin SkipOps
  BY PlainLine DEF SkipOps
<1>2. Before(p, base, ahead, parked, a, j) /\ parked \in Loose(p, base, ahead)
  <2>1. CASE s.file # None
    <3>1. Addr(p, a) \in Nat /\ Addr(p, a) + j \in Cells
      BY <1>0, <2>1 DEF Operand, Reg
    <3>2. Addr(p, a) + j # None
      BY <3>1, CellsAssumption
    <3>3. Addr(p, a) + j # Addr(p, a)
      BY <3>1
    <3>4. s.g.defer = None /\ s.g.holds # Addr(p, a) + j /\ ~IsConst(a)
      BY <1>0, <2>1, <3>2, <3>3
    <3> QED BY <1>0, <2>1, <3>4 DEF Before, Ready
  <2>2. CASE s.file = None
    <3>1. Emit(s.g, <<"movwf", SCRATCH>>) \in Selector(p, base, ahead)
      BY <1>0, <1>1, EmitOk DEF Settled
    <3> QED BY <2>2, <3>1 DEF Before, Selector
  <2> QED BY <2>1, <2>2
<1>3. parked.out = IF s.file # None THEN s.g.out ELSE Flush(s.g).out \o <<<<"movwf", SCRATCH>>>>
  <2>1. EmittedTo(p, base, ahead, s.g, <<<<"movwf", SCRATCH>>>>, Emit(s.g, <<"movwf", SCRATCH>>))
    BY <1>0, <1>1, EmitOne
  <2> QED BY <2>1 DEF EmittedTo
<1>4. r = [g |-> IF s.file # None THEN Emit(next, WF("iorwf", s.file))
                 ELSE IF s.file = None /\ next = loaded /\ Lone(parked, loaded)
                 THEN Emit([next EXCEPT !.out = Front(Front(next.out))], WF("iorwf", Last(loaded.out)[2]))
                 ELSE Emit(next, WF("iorwf", SCRATCH)),
           file |-> None]
  BY DEF CmpNext, Lone
<1> HIDE DEF parked, r
<1>5. Loaded(p, base, ahead, parked, a, j, loaded)
  BY <1>0, <1>2, LoadByteIs
<1> HIDE DEF loaded
<1>6. loaded \in Selector(p, base, ahead) /\ loaded.defer = None /\ loaded.rel = <<>>
  BY <1>5 DEF Loaded, Settled
<1>7. Settled(p, base, ahead, next)
  BY <1>0, <1>6, XorByteIs
<1> HIDE DEF next
<1>8. next \in Loose(p, base, ahead)
  BY <1>7 DEF Settled, Selector
<1>9. r.g \in Selector(p, base, ahead) /\ r.g \in Loose(p, base, ahead) /\ r.file = None
      /\ r = [g |-> r.g, file |-> r.file]
  <2>1. CASE s.file # None
    <3>1. s.file \in Cells
      BY <1>0, <2>1
    <3>2. r.g = Emit(next, WF("iorwf", s.file))
      BY <1>4, <2>1
    <3> QED BY <1>4, <1>8, <3>1, <3>2, OrOk
  <2>2. CASE s.file = None /\ next = loaded /\ Lone(parked, loaded)
    <3> DEFINE x == Addr(p, a) + j
               o == Flush(s.g).out
               e == [next EXCEPT !.out = Front(Front(next.out))]
    <3>1. loaded.out = parked.out \o <<WF("movf", x)>> /\ ~IsConst(a)
      BY <1>5, <2>2 DEF Loaded
    <3>2. x \in Cells
      BY <1>0, <3>1 DEF Operand, Reg
    <3>3. WF("movf", x) \in Lines /\ <<"movwf", SCRATCH>> \in Lines
      <4>1. WF("movf", x) \in Plain
        BY <3>2, PlainLine DEF FileOps
      <4> QED BY <1>1, <4>1, PlainIs
    <3>4. Flushed(p, base, ahead, s.g, Flush(s.g))
      BY <1>0, FlushLoose
    <3>5. o \in Emitted(base, ahead) /\ o \in Seq(Lines)
      BY <3>4, LooseIs DEF Flushed
    <3>6. parked.out = o \o <<<<"movwf", SCRATCH>>>> /\ parked.out \in Seq(Lines)
      BY <1>2, <1>3, <2>2, LooseIs
    <3>7. Front(Front(next.out)) = o /\ Last(loaded.out) = WF("movf", x)
      <4>1. Front(loaded.out) = parked.out /\ Last(loaded.out) = WF("movf", x)
        BY <3>1, <3>3, <3>6, FrontIs, OneMore
      <4>2. Front(parked.out) = o
        BY <3>3, <3>5, <3>6, FrontIs
      <4> QED BY <2>2, <4>1, <4>2
    <3>8. e \in Loose(p, base, ahead)
      BY <1>8, <3>5, <3>7, OtherOut
    <3>9. Last(loaded.out)[2] = x
      BY <3>7 DEF WF
    <3>10. r.g = Emit(e, WF("iorwf", x))
      BY <1>4, <2>2, <3>9
    <3> HIDE DEF e, x
    <3> QED BY <1>4, <3>2, <3>8, <3>10, OrOk
  <2>3. CASE s.file = None /\ ~(next = loaded /\ Lone(parked, loaded))
    <3>1. r.g = Emit(next, WF("iorwf", SCRATCH))
      BY <1>4, <2>3
    <3> QED BY <1>4, <1>8, <3>1, OrOk
  <2> QED BY <2>1, <2>2, <2>3
<1> QED BY <1>9 DEF CmpState, r

\* Where the fold starts.
CmpStart(p, g0, a, b, n) ==
    LET first == LoadByte(p, g0, a, 0)
        xored == XorUnlessNop(p, first, b, 0)
        dead == n > 1 /\ xored = first /\ Lone(g0, first)
    IN  [g |-> IF dead THEN [xored EXCEPT !.out = Front(@)] ELSE xored,
         file |-> IF dead THEN Last(first.out)[2] ELSE None]

(* The first byte of the comparison sets it up.                            *)
LEMMA CmpStartIs ==
  ASSUME NEW p, NEW base, Len(base) \in Nat, NEW ahead, NEW a, NEW b, NEW n \in Nat \ {0},
         Operand(p, a, n), Operand(p, b, n), NEW h \in Selector(p, base, ahead)
  PROVE  /\ CmpStart(p, h, a, b, n) \in CmpState(p, base, ahead, a)
         /\ n = 1 => CmpStart(p, h, a, b, n).g \in Selector(p, base, ahead)
<1> DEFINE first == LoadByte(p, h, a, 0)
           xored == XorUnlessNop(p, first, b, 0)
           dead == n > 1 /\ xored = first /\ Lone(h, first)
           r == CmpStart(p, h, a, b, n)
<1>0. 0 \in 0..n - 1 /\ h \in Loose(p, base, ahead) /\ Before(p, base, ahead, h, a, 0)
  BY DEF Selector, Before
<1>1. r = [g |-> IF dead THEN [xored EXCEPT !.out = Front(xored.out)] ELSE xored,
           file |-> IF dead THEN Last(first.out)[2] ELSE None]
  BY DEF CmpStart
<1> HIDE DEF r
<1>2. Loaded(p, base, ahead, h, a, 0, first)
  BY <1>0, LoadByteIs
<1> HIDE DEF first
<1>3. first \in Selector(p, base, ahead) /\ first.defer = None /\ first.rel = <<>>
  BY <1>2 DEF Loaded, Settled
<1>4. Settled(p, base, ahead, xored)
  BY <1>0, <1>3, XorByteIs
<1>5. xored \in Loose(p, base, ahead) /\ xored \in Selector(p, base, ahead) /\ xored.defer = None
  BY <1>4 DEF Settled, Selector
<1> HIDE DEF xored
<1>6. CASE ~dead
  <2>1. r.g = xored /\ r.file = None /\ r = [g |-> r.g, file |-> r.file]
    BY <1>1, <1>6
  <2> QED BY <1>5, <2>1 DEF CmpState, r
<1>7. CASE dead
  <2> DEFINE x == Addr(p, a) + 0
             e == [xored EXCEPT !.out = Front(xored.out)]
  <2>1. /\ first.out = h.out \o <<WF("movf", x)>> /\ ~IsConst(a) /\ first.holds \in {x, None}
        /\ xored = first /\ n # 1
    BY <1>2, <1>7 DEF Loaded
  <2>2. x \in Cells /\ x = Addr(p, a)
    <3>1. Addr(p, a) \in Nat /\ Addr(p, a) + 0 \in Cells
      BY <1>0, <2>1 DEF Operand, Reg
    <3> QED BY <3>1
  <2>3. WF("movf", x) \in Lines
    BY <2>2, PlainLine, PlainIs DEF FileOps
  <2>4. h.out \in Emitted(base, ahead) /\ h.out \in Seq(Lines)
    BY <1>0, LooseIs
  <2>5. Front(xored.out) = h.out /\ Last(first.out) = WF("movf", x)
    BY <2>1, <2>3, <2>4, FrontIs, OneMore
  <2>6. e \in Loose(p, base, ahead)
    BY <1>5, <2>4, <2>5, OtherOut
  <2>7. e.defer = None /\ e.holds \in {x, None}
    <3>1. xored \in Gen(p)
      BY <1>5, LooseIs
    <3> QED BY <1>5, <2>1, <3>1 DEF Gen
  <2>8. Last(first.out)[2] = x /\ x # None
    <3>1. WF("movf", x)[2] = x
      BY DEF WF
    <3>2. x # None
      BY <2>2, CellsAssumption
    <3> QED BY <2>5, <3>1, <3>2
  <2> HIDE DEF e
  <2>9. r.g = e /\ r.file = x /\ r = [g |-> r.g, file |-> r.file]
    BY <1>1, <1>7, <2>8 DEF e
  <2> HIDE DEF x
  <2> QED BY <2>1, <2>2, <2>6, <2>7, <2>8, <2>9 DEF CmpState, r
<1> QED BY <1>6, <1>7

(* A comparison for equality keeps the beliefs true, though it takes a     *)
(* load back.                                                              *)
LEMMA CmpEqIs ==
  ASSUME NEW p, NEW base, Len(base) \in Nat, NEW ahead, NEW a, NEW b, NEW n \in Nat \ {0},
         Operand(p, a, n), Operand(p, b, n), SCRATCH \in Cells, NEW h \in Selector(p, base, ahead),
         NEW cnt \in Nat, cnt = n - 1
  PROVE  CmpEq(p, h, a, b, n) \in Selector(p, base, ahead)
<1> DEFINE T == CmpState(p, base, ahead, a)
           seq == [j \in 1..cnt |-> j]
           F == [q \in (1..cnt) \X T |-> CmpNext(p, a, b, q[2], seq[q[1]])]
           Recurs(it) == it = [s \in SUBSET (1..cnt) |->
                                  IF s = {} THEN CmpStart(p, h, a, b, n) ELSE CmpNext(p, a, b, it[s \ {Max(s)}], seq[Max(s)])]
           it == CHOOSE it : Recurs(it)
<1>1. \A j \in 1..cnt : seq[j] \in 1..n - 1
  OBVIOUS
<1>2. DOMAIN seq = 1..cnt
  OBVIOUS
<1>3. CmpEq(p, h, a, b, n) = it[1..cnt].g
  <2>1. CmpEq(p, h, a, b, n)
        = FoldLeft(LAMBDA s, i : CmpNext(p, a, b, s, i), CmpStart(p, h, a, b, n), seq).g
    BY Zenon DEF CmpEq, CmpStart, CmpNext, Lone
  <2>2. FoldLeft(LAMBDA s, i : CmpNext(p, a, b, s, i), CmpStart(p, h, a, b, n), seq) = it[1..cnt]
    BY <1>2 DEF FoldLeft, MapThenFoldSet
  <2> QED BY <2>1, <2>2, Zenon
<1> HIDE DEF seq
<1>4. ASSUME NEW x \in T, NEW j \in 1..cnt
      PROVE  /\ CmpNext(p, a, b, x, seq[j]) \in T
             /\ CmpNext(p, a, b, x, seq[j]).g \in Selector(p, base, ahead)
  BY <1>1, CmpNextIs
<1>5. CmpStart(p, h, a, b, n) \in T
  BY CmpStartIs
<1> HIDE DEF T
<1>6. F \in [(1..cnt) \X T -> T]
  BY <1>4
<1>7. PICK w \in [SUBSET (1..cnt) -> T] : FoldOf(w, cnt, CmpStart(p, h, a, b, n), F)
  <2> HIDE DEF F
  <2> QED BY <1>5, <1>6, FoldExists
<1>8. Recurs(w)
  <2> SUFFICES ASSUME NEW s \in SUBSET (1..cnt)
               PROVE  w[s] = IF s = {} THEN CmpStart(p, h, a, b, n) ELSE CmpNext(p, a, b, w[s \ {Max(s)}], seq[Max(s)])
    BY <1>7
  <2>1. CASE s = {}
    BY <1>7, <2>1 DEF FoldOf
  <2>2. CASE s # {}
    <3>1. Max(s) \in 1..cnt /\ s \ {Max(s)} \in SUBSET (1..cnt)
      BY <2>2, MaxIs
    <3>2. w[s \ {Max(s)}] \in T
      BY <1>7, <3>1
    <3>3. w[s] = F[<<Max(s), w[s \ {Max(s)}]>>]
      BY <1>7, <2>2 DEF FoldOf
    <3> QED BY <2>2, <3>1, <3>2, <3>3
  <2> QED BY <2>1, <2>2
<1> HIDE DEF Recurs, F
<1>9. Recurs(it)
  BY <1>8
<1> HIDE DEF it
<1>10. it[{}] \in T
  BY <1>5, <1>9 DEF Recurs
<1>11. ASSUME NEW s \in SUBSET (1..cnt), s # {} /\ it[s \ {Max(s)}] \in T PROVE it[s] \in T
  <2>1. Max(s) \in 1..cnt
    BY <1>11, MaxIs
  <2>2. it[s] = CmpNext(p, a, b, it[s \ {Max(s)}], seq[Max(s)])
    BY <1>9, <1>11 DEF Recurs
  <2> QED BY <1>4, <1>11, <2>1, <2>2
<1>12. \A j \in 0..cnt : it[1..j] \in T
  BY <1>10, <1>11, FoldStays
<1>13. CmpEq(p, h, a, b, n) \in Selector(p, base, ahead)
  <2>1. CASE cnt = 0
    <3>1. it[1..cnt] = CmpStart(p, h, a, b, n)
      <4>1. 1..cnt = {}
        BY <2>1
      <4> QED BY <1>9, <4>1 DEF Recurs
    <3>2. n = 1
      BY <2>1
    <3> QED BY <1>3, <3>1, <3>2, CmpStartIs
  <2>2. CASE cnt # 0
    <3>1. Max(1..cnt) = cnt /\ (1..cnt) \ {cnt} = 1..(cnt - 1) /\ cnt \in 1..cnt /\ cnt - 1 \in 0..cnt
      BY <2>2, MaxOfPrefix
    <3>2. 1..cnt \in SUBSET (1..cnt) /\ 1..cnt # {}
      BY <3>1
    <3>3. it[1..cnt] = CmpNext(p, a, b, it[1..(cnt - 1)], seq[cnt])
      BY <1>9, <3>1, <3>2 DEF Recurs
    <3> DEFINE x == it[1..(cnt - 1)]
    <3> HIDE DEF x
    <3>4. x \in T
      BY <1>12, <3>1 DEF x
    <3>5. CmpNext(p, a, b, x, seq[cnt]).g \in Selector(p, base, ahead)
      BY <1>4, <3>1, <3>4
    <3> QED BY <1>3, <3>3, <3>5 DEF x
  <2> QED BY <2>1, <2>2
<1> QED BY <1>13

-----------------------------------------------------------------------------
(* Booleans.                                                               *)

\* One label more, and one boolean more.
NextLabel(h) == [h EXCEPT !.tmp = @ + 1]
WithBool(h, x) == [h EXCEPT !.bools = @ \union {x}]

(* A new label, or a new boolean, changes no belief.                       *)
LEMMA MoreLabels ==
  ASSUME NEW p, NEW base, NEW ahead, NEW h \in Selector(p, base, ahead)
  PROVE  /\ NextLabel(h) \in Selector(p, base, ahead)
         /\ \A x \in DOMAIN p.slot : WithBool(h, x) \in Selector(p, base, ahead)
<1>1. h \in Gen(p) /\ h \in Loose(p, base, ahead) /\ h.out \in Emitted(base, ahead)
  BY LooseIs DEF Selector
<1>2. NextLabel(h) \in Selector(p, base, ahead)
  <2> DEFINE e == [h EXCEPT !.tmp = @ + 1]
  <2>1. h.tmp + 1 \in Nat
    BY <1>1 DEF Gen
  <2>2. /\ e \in Gen(p) /\ e.out = h.out /\ e.holds = h.holds /\ e.committed = h.committed
        /\ e.defer = h.defer /\ e.rel = h.rel
    BY <1>1, <2>1 DEF Gen
  <2> HIDE DEF e
  <2> SUFFICES e \in Selector(p, base, ahead)
    BY DEF e, NextLabel
  <2> QED BY <1>1, <2>2 DEF Selector, Loose, Held, Deferred, Told
<1>3. ASSUME NEW x \in DOMAIN p.slot PROVE WithBool(h, x) \in Selector(p, base, ahead)
  <2> DEFINE e == [h EXCEPT !.bools = @ \union {x}]
  <2>1. h.bools \union {x} \in SUBSET (DOMAIN p.slot)
    BY <1>1 DEF Gen
  <2>2. /\ e \in Gen(p) /\ e.out = h.out /\ e.holds = h.holds /\ e.committed = h.committed
        /\ e.defer = h.defer /\ e.rel = h.rel
    BY <1>1, <2>1 DEF Gen
  <2> HIDE DEF e
  <2> SUFFICES e \in Selector(p, base, ahead)
    BY DEF e, WithBool
  <2> QED BY <1>1, <2>2 DEF Selector, Loose, Held, Deferred, Told
<1> QED BY <1>2, <1>3

-----------------------------------------------------------------------------
(* A comparison's boolean.                                                 *)

Conditions == {"Z", "NZ", "C", "NC", "CNZ", "NCZ"}

(* What tests each condition, and what is remembered of it.                *)
LEMMA ConditionIs ==
  ASSUME NEW cond \in Conditions
  PROVE  /\ SkipFor[cond][1] \in {"btfsc", "btfss"} /\ SkipFor[cond][2] \in {C, Z}
         /\ Relation[cond] \in {<<>>} \cup ({C, Z} \X {"btfsc", "btfss"})
         /\ Relation[cond] # <<>> =>
                /\ cond \notin {"CNZ", "NCZ"}
                /\ <<SkipFor[cond][1], STATUS, SkipFor[cond][2]>> =
                     <<IF Relation[cond][2] = "btfss" THEN "btfsc" ELSE "btfss", STATUS, Relation[cond][1]>>
  BY DEF Conditions, SkipFor, Relation, C, Z

\* The code t is out with s after it.
Appended(base, ahead, out, s, t) ==
    /\ t \in Emitted(base, ahead) /\ Len(t) = Len(out) + Len(s) /\ Len(out) \in Nat
    /\ \A j \in 1..Len(out) : t[j] = out[j]
    /\ \A j \in 1..Len(s) : t[Len(out) + j] = s[j]

(* A block's place in the code it is appended to.                          *)
LEMMA AppendedIs ==
  ASSUME NEW base, Len(base) \in Nat, NEW ahead, NEW out \in Emitted(base, ahead), NEW s \in Block,
         NEW t, t = out \o s
  PROVE  Appended(base, ahead, out, s, t)
  BY BlockMore DEF Appended

(* A boolean made from a flag: W tells of the flag, and is so remembered.  *)
LEMMA MaterializeIs ==
  ASSUME NEW p, NEW base, Len(base) \in Nat, NEW ahead, NEW h \in Selector(p, base, ahead),
         NEW cond \in Conditions, NEW dst \in Cells
  PROVE  Materialize(p, h, cond, dst) \in Selector(p, base, ahead)
<1> DEFINE test == <<SkipFor[cond][1], STATUS, SkipFor[cond][2]>>
           equal == IF cond = "CNZ" THEN <<<<"btfsc", STATUS, Z>>, <<"movlw", 0>>>>
                    ELSE IF cond = "NCZ" THEN <<<<"btfsc", STATUS, Z>>, <<"movlw", 1>>>>
                    ELSE <<>>
           three == <<<<"movlw", 0>>, test, <<"movlw", 1>>>>
           block == three \o equal
           e0 == EmitAll(h, block)
           e1 == WStore(p, e0, dst)
           e2 == [e1 EXCEPT !.rel = Relation[cond]]
           o == Flush(h).out
<1>1. Materialize(p, h, cond, dst) = e2
  BY DEF Materialize, StoreRelation
<1>2. test \in Plain
  BY ConditionIs, PlainLine DEF BitOps
<1>3. three \in Block
  BY <1>2, Literals, Blocks DEF SkipOps
<1>4. equal \in Block0
  <2>1. \A x \in {0, 1} : <<<<"btfsc", STATUS, Z>>, <<"movlw", x>>>> \in Block
    BY Literals, PlainLine, Blocks DEF BitOps, SkipOps
  <2> QED BY <2>1 DEF Block0
<1>5. block \in Block /\ (cond \notin {"CNZ", "NCZ"} => block = three)
  <2>1. CASE equal \in Block
    <3>1. three \in Seq(Plain)
      BY <1>3, BlockSeq
    <3>2. cond \in {"CNZ", "NCZ"}
      BY <2>1 DEF Block
    <3> HIDE DEF three, equal
    <3> QED BY <2>1, <3>1, <3>2, BlockCat
  <2>2. CASE equal = <<>>
    <3>1. three \in Seq(Plain)
      BY <1>3, BlockSeq
    <3> HIDE DEF three, equal
    <3>2. three \o equal = three
      BY <2>2, <3>1
    <3> QED BY <1>3, <3>2
  <2> QED BY <1>4, <2>1, <2>2 DEF Block0
<1>6. h \in Loose(p, base, ahead)
  BY DEF Selector
<1> HIDE DEF block, equal
<1>7. EmittedTo(p, base, ahead, h, block, e0)
  BY <1>5, <1>6, EmitBlock
<1> HIDE DEF e0
<1>8. e0 \in Selector(p, base, ahead) /\ Blank(e0) /\ e0.out = o \o block
  BY <1>7 DEF EmittedTo
<1>9. Ready(p, base, ahead, e0, dst)
  BY <1>8 DEF Ready, Selector
<1>10. Settled(p, base, ahead, e1) /\ e1.out = e0.out \o <<<<"movwf", dst>>>>
  <2> HIDE DEF e2, o
  <2>1. Settled(p, base, ahead, e1) /\ Stored(e0, dst, e1)
    BY <1>9, WStoreIs
  <2> HIDE DEF e1
  <2> QED BY <1>8, <2>1 DEF Stored
<1> HIDE DEF e1
<1>11. /\ e1 \in Gen(p) /\ e1.out \in Emitted(base, ahead) /\ e1.defer = None
       /\ Held(p, e1)
  BY <1>10, LooseIs DEF Settled, Selector
<1>12. /\ e2 \in Gen(p) /\ e2.out = e1.out /\ e2.holds = e1.holds /\ e2.committed = e1.committed
       /\ e2.defer = None /\ e2.rel = Relation[cond]
  BY <1>11, ConditionIs DEF Gen
<1> HIDE DEF e2
<1>13. ASSUME Relation[cond] # <<>> PROVE TestTail(e1.out, Relation[cond])
  <2>1. block = three
    BY <1>5, <1>13, ConditionIs
  <2>2. Flushed(p, base, ahead, h, Flush(h))
    BY <1>6, FlushLoose
  <2>3. o \in Emitted(base, ahead) /\ o \in Seq(Lines)
    BY <2>2, LooseIs DEF Flushed
  <2>4. Len(three) = 3 /\ three[1] = <<"movlw", 0>> /\ three[2] = test /\ three[3] = <<"movlw", 1>>
    OBVIOUS
  <2> HIDE DEF three, test, o
  <2>a. Appended(base, ahead, o, block, e0.out)
    BY <1>5, <1>8, <2>3, AppendedIs
  <2>5. /\ Len(e0.out) = Len(o) + 3 /\ Len(o) \in Nat /\ e0.out \in Emitted(base, ahead)
        /\ \A j \in 1..Len(o) : e0.out[j] = o[j]
        /\ \A j \in 1..3 : e0.out[Len(o) + j] = three[j]
    BY <2>1, <2>4, <2>a DEF Appended
  <2>6. <<<<"movwf", dst>>>> \in Block /\ Len(<<<<"movwf", dst>>>>) = 1
    BY StoreLine
  <2>b. Appended(base, ahead, e0.out, <<<<"movwf", dst>>>>, e1.out)
    BY <1>10, <2>5, <2>6, AppendedIs
  <2>7. /\ Len(e1.out) = Len(e0.out) + 1
        /\ \A j \in 1..Len(e0.out) : e1.out[j] = e0.out[j]
        /\ \A j \in 1..1 : e1.out[Len(e0.out) + j] = <<<<"movwf", dst>>>>[j]
    BY <2>6, <2>b DEF Appended
  <2> DEFINE q == Len(o) + 4
  <2>8. Len(e1.out) = q /\ q > 3 /\ q - 3 = Len(o) + 1 /\ q - 2 = Len(o) + 2 /\ q - 1 = Len(o) + 3
        /\ q = Len(e0.out) + 1
    BY <2>5, <2>7
  <2>9. e1.out[q - 3] = <<"movlw", 0>> /\ e1.out[q - 2] = test /\ e1.out[q - 1] = <<"movlw", 1>>
    <3>1. /\ e1.out[Len(o) + 1] = e0.out[Len(o) + 1] /\ e1.out[Len(o) + 2] = e0.out[Len(o) + 2]
          /\ e1.out[Len(o) + 3] = e0.out[Len(o) + 3]
      BY <2>5, <2>7
    <3>2. /\ e0.out[Len(o) + 1] = three[1] /\ e0.out[Len(o) + 2] = three[2]
          /\ e0.out[Len(o) + 3] = three[3]
      BY <2>5
    <3> QED BY <2>4, <2>8, <3>1, <3>2, Zenon
  <2>10. e1.out[q][1] = "movwf"
    BY <2>7, <2>8
  <2>11. ~PrevIsSkip(e1.out, q - 3)
    <3> SUFFICES ASSUME q - 3 > 1 PROVE e1.out[q - 3 - 1][1] \notin SkipOps
      BY DEF PrevIsSkip
    <3>1. Len(o) > 0 /\ q - 3 - 1 = Len(o) /\ o # <<>>
      BY <2>3, <2>5
    <3>2. e1.out[Len(o)] = o[Len(o)]
      BY <2>5, <2>7, <3>1
    <3> QED BY <2>3, <3>1, <3>2 DEF Emitted
  <2>12. test = <<IF Relation[cond][2] = "btfss" THEN "btfsc" ELSE "btfss", STATUS, Relation[cond][1]>>
    BY <1>13, ConditionIs DEF test
  <2> HIDE DEF q
  <2> QED BY <2>8, <2>9, <2>10, <2>11, <2>12 DEF TestTail
<1>14. e2 \in Selector(p, base, ahead)
  BY <1>11, <1>12, <1>13 DEF Selector, Loose, Held, Deferred, Told
<1> QED BY <1>1, <1>14

-----------------------------------------------------------------------------
(* Comparisons.                                                            *)

(* A comparison keeps the beliefs true.                                    *)
LEMMA IcmpIs ==
  ASSUME NEW p, NEW base, Len(base) \in Nat, NEW ahead, NEW h \in Selector(p, base, ahead),
         NEW i, NEW n \in Nat \ {0}, n = Width(i.ty), Operand2(p, i, n),
         SCRATCH \in Cells, RETVAL \in Cells, p.slot[i.dst] \in Cells, i.dst \in DOMAIN p.slot,
         i.pred \in {"eq", "ne", "ult", "uge", "ugt", "ule", "slt", "sge", "sgt", "sle"}
  PROVE  Icmp(p, h, i) \in Selector(p, base, ahead)
<1> DEFINE eq == i.pred \in {"eq", "ne"}
           signed == i.pred \in {"slt", "sge", "sgt", "sle"}
           cond == Condition(i.pred)
           carried == IF eq THEN h ELSE EmitAll(h, CmpC(p, i.a, i.b, n, signed))
           both == eq \/ (n > 1 /\ cond \in {"CNZ", "NCZ"})
           tested == IF both THEN CmpEq(p, carried, i.a, i.b, n) ELSE carried
           done == Materialize(p, tested, cond, p.slot[i.dst])
<1>1. Operand(p, i.a, n) /\ Operand(p, i.b, n) /\ (IsConst(i.a) => ~IsConst(i.b))
  BY DEF Operand2
<1>2. cond \in Conditions
  BY DEF Condition, Conditions
<1>4. Icmp(p, h, i) = WithBool(done, i.dst)
  BY DEF Icmp, WithBool
<1>a. signed \in BOOLEAN
  OBVIOUS
<1> HIDE DEF eq, signed, cond
<1>3. CmpC(p, i.a, i.b, n, signed) \in Block
  BY <1>1, <1>a, CmpCBlock
<1>5. h \in Loose(p, base, ahead)
  BY DEF Selector
<1>6. EmittedTo(p, base, ahead, h, CmpC(p, i.a, i.b, n, signed), EmitAll(h, CmpC(p, i.a, i.b, n, signed)))
  BY <1>3, <1>5, EmitBlock
<1>7. carried \in Selector(p, base, ahead)
  BY <1>6 DEF EmittedTo
<1> HIDE DEF carried, both
<1>8. n - 1 \in Nat
  OBVIOUS
<1>9. CmpEq(p, carried, i.a, i.b, n) \in Selector(p, base, ahead)
  BY <1>1, <1>7, <1>8, CmpEqIs
<1>10. tested \in Selector(p, base, ahead)
  BY <1>7, <1>9
<1> HIDE DEF tested
<1>11. done \in Selector(p, base, ahead)
  BY <1>2, <1>10, MaterializeIs
<1> HIDE DEF done
<1> QED BY <1>4, <1>11, MoreLabels

-----------------------------------------------------------------------------
(* Jumps.                                                                  *)

(* Code with the same jumps owes the same labels.                          *)
LEMMA JumpsInto ==
  ASSUME NEW L1, NEW L2, NEW s, NEW r, Jumps(s, L1, L2),
         \A j \in DOMAIN r : r[j][1] = "goto" => \E l \in DOMAIN s : s[l] = r[j],
         \A l \in DOMAIN s : \E j \in DOMAIN r : r[j] = s[l]
  PROVE  Jumps(r, L1, L2)
<1>1. \A x : (\E l \in DOMAIN s : s[l] = <<"label", x>>) => \E j \in DOMAIN r : r[j] = <<"label", x>>
  <2> SUFFICES ASSUME NEW x, NEW l \in DOMAIN s, s[l] = <<"label", x>>
               PROVE  \E j \in DOMAIN r : r[j] = <<"label", x>>
    OBVIOUS
  <2>1. PICK j \in DOMAIN r : r[j] = s[l]
    OBVIOUS
  <2> QED BY <2>1
<1>2. ASSUME NEW j \in DOMAIN r, r[j][1] = "goto"
      PROVE  r[j][2] \in L2 \/ \E l \in DOMAIN r : r[l] = <<"label", r[j][2]>>
  <2>1. PICK l \in DOMAIN s : s[l] = r[j]
    BY <1>2
  <2>2. s[l][2] \in L2 \/ \E e \in DOMAIN s : s[e] = <<"label", s[l][2]>>
    BY <1>2, <2>1 DEF Jumps
  <2> QED BY <1>1, <2>1, <2>2
<1>3. ASSUME NEW x \in L1 PROVE x \in L2 \/ \E l \in DOMAIN r : r[l] = <<"label", x>>
  BY <1>1 DEF Jumps
<1> QED BY <1>2, <1>3 DEF Jumps

(* Plain code before complete code.                                        *)
LEMMA PlainThen ==
  ASSUME NEW L1, NEW L2, NEW u \in Seq(Plain), NEW s \in Seq(Lines), Ending(s), Jumps(s, L1, L2)
  PROVE  u \o s \in Seq(Lines) /\ Ending(u \o s) /\ Jumps(u \o s, L1, L2)
<1> DEFINE r == u \o s
<1>0. \A j \in DOMAIN u : u[j] \in Plain
  OBVIOUS
<1>1. u \in Seq(Lines) /\ \A j \in DOMAIN u : u[j][1] # "goto"
  <2>1. \A j \in 1..Len(u) : u[j] \in Lines
    BY <1>0, PlainIs
  <2> QED BY <1>0, <2>1, PlainIs
<1>2. Len(u) \in Nat /\ Len(s) \in Nat /\ Len(s) > 0
  BY DEF Ending
<1>3. /\ r \in Seq(Lines) /\ Len(r) = Len(u) + Len(s) /\ DOMAIN r = 1..Len(u) + Len(s)
      /\ \A j \in 1..Len(u) : r[j] = u[j]
      /\ \A j \in 1..Len(s) : r[Len(u) + j] = s[j]
  BY <1>1
<1> HIDE DEF r
<1>4. \A j \in DOMAIN r : r[j][1] = "goto" => \E l \in DOMAIN s : s[l] = r[j]
  <2> SUFFICES ASSUME NEW j \in DOMAIN r, r[j][1] = "goto" PROVE \E l \in DOMAIN s : s[l] = r[j]
    OBVIOUS
  <2>1. j \notin 1..Len(u)
    BY <1>1, <1>3
  <2>2. j - Len(u) \in 1..Len(s) /\ j = Len(u) + (j - Len(u))
    BY <1>2, <1>3, <2>1
  <2>3. r[j] = s[j - Len(u)]
    BY <1>3, <2>2
  <2> QED BY <2>2, <2>3
<1>5. \A l \in DOMAIN s : \E j \in DOMAIN r : r[j] = s[l]
  <2> SUFFICES ASSUME NEW l \in DOMAIN s PROVE \E j \in DOMAIN r : r[j] = s[l]
    OBVIOUS
  <2>1. Len(u) + l \in DOMAIN r /\ r[Len(u) + l] = s[l]
    BY <1>2, <1>3
  <2> QED BY <2>1
<1>6. Jumps(r, L1, L2)
  BY <1>4, <1>5, JumpsInto
<1>7. Ending(r)
  BY <1>2, <1>3 DEF Ending
<1> QED BY <1>3, <1>6, <1>7 DEF r

(* Plain code after complete code.                                         *)
LEMMA ThenPlain ==
  ASSUME NEW L1, NEW L2, NEW u \in Block0, NEW s \in Seq(Lines), Ending(s), Jumps(s, L1, L2)
  PROVE  s \o u \in Seq(Lines) /\ Ending(s \o u) /\ Jumps(s \o u, L1, L2)
<1> DEFINE r == s \o u
<1>a. u \in Seq(Plain)
  BY BlockSeq
<1>0. \A j \in DOMAIN u : u[j] \in Plain
  BY <1>a
<1>1. u \in Seq(Lines) /\ \A j \in DOMAIN u : u[j][1] # "goto"
  <2>1. \A j \in 1..Len(u) : u[j] \in Lines
    BY <1>a, <1>0, PlainIs
  <2> QED BY <1>a, <1>0, <2>1, PlainIs
<1>2. Len(u) \in Nat /\ Len(s) \in Nat /\ Len(s) > 0
  BY <1>a DEF Ending
<1>3. /\ r \in Seq(Lines) /\ Len(r) = Len(s) + Len(u) /\ DOMAIN r = 1..Len(s) + Len(u)
      /\ \A j \in 1..Len(s) : r[j] = s[j]
      /\ \A j \in 1..Len(u) : r[Len(s) + j] = u[j]
  BY <1>1
<1> HIDE DEF r
<1>4. \A j \in DOMAIN r : r[j][1] = "goto" => \E l \in DOMAIN s : s[l] = r[j]
  <2> SUFFICES ASSUME NEW j \in DOMAIN r, r[j][1] = "goto" PROVE \E l \in DOMAIN s : s[l] = r[j]
    OBVIOUS
  <2>1. CASE j \in 1..Len(s)
    BY <1>3, <2>1
  <2>2. CASE j \notin 1..Len(s)
    <3>1. j - Len(s) \in 1..Len(u) /\ j = Len(s) + (j - Len(s))
      BY <1>2, <1>3, <2>2
    <3>2. r[j] = u[j - Len(s)]
      BY <1>3, <3>1
    <3> QED BY <1>1, <3>1, <3>2
  <2> QED BY <2>1, <2>2
<1>5. \A l \in DOMAIN s : \E j \in DOMAIN r : r[j] = s[l]
  <2> SUFFICES ASSUME NEW l \in DOMAIN s PROVE \E j \in DOMAIN r : r[j] = s[l]
    OBVIOUS
  <2>1. l \in DOMAIN r /\ r[l] = s[l]
    BY <1>2, <1>3
  <2> QED BY <2>1
<1>6. Jumps(r, L1, L2)
  BY <1>4, <1>5, JumpsInto
<1>7. Ending(r)
  <2>1. CASE u = <<>>
    <3>1. Len(u) = 0
      BY <2>1
    <3>2. Len(r) = Len(s) /\ Len(s) \in 1..Len(s)
      BY <1>2, <1>3, <3>1
    <3>3. r[Len(r)] = s[Len(s)] /\ r # <<>>
      BY <1>2, <1>3, <3>2
    <3> QED BY <3>3 DEF Ending
  <2>2. CASE u \in Block
    <3>1. Len(u) > 0 /\ u[Len(u)][1] \notin SkipOps
      BY <1>2, <1>a, <2>2 DEF Block
    <3>2. r[Len(r)] = u[Len(u)] /\ r # <<>>
      BY <1>2, <1>3, <3>1
    <3> QED BY <3>1, <3>2 DEF Ending
  <2> QED BY <2>1, <2>2 DEF Block0
<1> QED BY <1>3, <1>6, <1>7 DEF r

\* Code that may be emitted when L1 is owed, and after which L2 is.
Fits(s, L1, L2) == s \in Seq(Lines) /\ Ending(s) /\ Jumps(s, L1, L2)

(* Emitting code that goes to its labels.                                  *)
LEMMA EmitFits ==
  ASSUME NEW p, NEW base, Len(base) \in Nat, NEW L1, NEW L2, NEW h \in Selector(p, base, L1),
         NEW s, Fits(s, L1, L2)
  PROVE  EmitAll(h, s) \in Selector(p, base, L2)
<1>1. h \in Loose(p, base, L1) /\ s \in Seq(Lines) /\ Ending(s) /\ Jumps(s, L1, L2)
  BY DEF Selector, Fits
<1>2. EmittedTo(p, base, L2, h, s, EmitAll(h, s))
  BY <1>1, EmitAny
<1> QED BY <1>2 DEF EmittedTo

(* Labels and jumps are lines.                                             *)
LEMMA LabelLines ==
  ASSUME NEW x \in Labels
  PROVE  <<"goto", x>> \in Lines /\ <<"label", x>> \in Lines
  BY DEF Lines

(* The selector's own labels.                                              *)
LEMMA LabelIs ==
  ASSUME NEW t \in Nat
  PROVE  /\ \A l \in {"else", "end", "pos", "fill", "clr"} : <<l, t>> \in Labels
         /\ TrueSide \in Labels /\ FalseSide \in Labels
  BY DEF Labels

(* The test of a boolean is plain code.                                    *)
LEMMA SkipWhenTrueIs ==
  ASSUME NEW p, NEW base, NEW ahead, NEW h \in Selector(p, base, ahead), NEW c0,
         Addr(p, c0) \in Cells, NEW bools
  PROVE  SkipWhenTrue(p, h, c0, bools) \in Seq(Plain)
<1>1. h \in Gen(p)
  BY LooseIs DEF Selector
<1>2. ASSUME h.rel # <<>> PROVE <<h.rel[2], STATUS, h.rel[1]>> \in Plain
  <2>1. h.rel \in {C, Z} \X {"btfsc", "btfss"}
    BY <1>1, <1>2 DEF Gen
  <2>2. h.rel[1] \in {C, Z} /\ h.rel[2] \in BitOps
    BY <2>1 DEF BitOps
  <2> QED BY <2>2, PlainLine
<1>3. <<"btfss", Addr(p, c0), 0>> \in Plain /\ WF("movf", Addr(p, c0)) \in Plain
      /\ <<"btfsc", STATUS, Z>> \in Plain
  <2>1. "btfss" \in BitOps /\ "btfsc" \in BitOps /\ "movf" \in FileOps /\ 0 \in 0..7
    BY DEF BitOps, FileOps
  <2> QED BY <2>1, PlainLine
<1>4. <<<<h.rel[2], STATUS, h.rel[1]>>>> \in Seq(Plain) \/ h.rel = <<>>
  BY <1>2, Tuples
<1>5. <<<<"btfss", Addr(p, c0), 0>>>> \in Seq(Plain)
      /\ <<WF("movf", Addr(p, c0)), <<"btfsc", STATUS, Z>>>> \in Seq(Plain)
  BY <1>3, Tuples
<1> QED BY <1>4, <1>5 DEF SkipWhenTrue

(* The jumps of a branch, and of a choice.                                 *)
LEMMA JumpsFit ==
  ASSUME NEW ahead, NEW x \in Labels, NEW y \in Labels
  PROVE  /\ x \in ahead => Fits(<<<<"goto", x>>>>, ahead, ahead)
         /\ x \in ahead /\ y \in ahead => Fits(<<<<"goto", x>>, <<"goto", y>>>>, ahead, ahead)
         /\ Fits(<<<<"goto", x>>>>, ahead, ahead \cup {x})
         /\ Fits(<<<<"goto", x>>, <<"label", y>>>>, ahead \cup {y}, ahead \cup {x})
         /\ Fits(<<<<"label", x>>>>, ahead \cup {x}, ahead)
<1>1. <<"goto", x>> \in Lines /\ <<"goto", y>> \in Lines /\ <<"label", x>> \in Lines /\ <<"label", y>> \in Lines
  BY LabelLines
<1>2. /\ <<<<"goto", x>>>> \in Seq(Lines) /\ <<<<"goto", x>>, <<"goto", y>>>> \in Seq(Lines)
      /\ <<<<"goto", x>>, <<"label", y>>>> \in Seq(Lines) /\ <<<<"label", x>>>> \in Seq(Lines)
  BY <1>1
<1>3. /\ Ending(<<<<"goto", x>>>>) /\ Ending(<<<<"goto", x>>, <<"goto", y>>>>)
      /\ Ending(<<<<"goto", x>>, <<"label", y>>>>) /\ Ending(<<<<"label", x>>>>)
  BY DEF Ending, SkipOps
<1>4. x \in ahead => Jumps(<<<<"goto", x>>>>, ahead, ahead)
  BY DEF Jumps
<1>5. x \in ahead /\ y \in ahead => Jumps(<<<<"goto", x>>, <<"goto", y>>>>, ahead, ahead)
  BY DEF Jumps
<1>6. Jumps(<<<<"goto", x>>>>, ahead, ahead \cup {x})
  BY DEF Jumps
<1>7. Jumps(<<<<"goto", x>>, <<"label", y>>>>, ahead \cup {y}, ahead \cup {x})
  <2> DEFINE s == <<<<"goto", x>>, <<"label", y>>>>
  <2>1. DOMAIN s = 1..2 /\ s[1] = <<"goto", x>> /\ s[2] = <<"label", y>>
    OBVIOUS
  <2> HIDE DEF s
  <2>2. \A j \in DOMAIN s : s[j][1] = "goto" => s[j][2] \in ahead \cup {x}
    BY <2>1
  <2>3. \E l \in DOMAIN s : s[l] = <<"label", y>>
    BY <2>1
  <2>4. Jumps(s, ahead \cup {y}, ahead \cup {x})
    BY <2>2, <2>3 DEF Jumps
  <2> QED BY <2>4 DEF s
<1>8. Jumps(<<<<"label", x>>>>, ahead \cup {x}, ahead)
  <2> DEFINE s == <<<<"label", x>>>>
  <2>1. DOMAIN s = 1..1 /\ s[1] = <<"label", x>>
    OBVIOUS
  <2> HIDE DEF s
  <2>2. \A j \in DOMAIN s : s[j][1] # "goto"
    BY <2>1
  <2>3. \E l \in DOMAIN s : s[l] = <<"label", x>>
    BY <2>1
  <2>4. Jumps(s, ahead \cup {x}, ahead)
    BY <2>2, <2>3 DEF Jumps
  <2> QED BY <2>4 DEF s
<1> QED BY <1>2, <1>3, <1>4, <1>5, <1>6, <1>7, <1>8 DEF Fits

(* Plain code before code that goes to its labels.                         *)
LEMMA PlainFits ==
  ASSUME NEW L1, NEW L2, NEW u \in Seq(Plain), NEW s, Fits(s, L1, L2)
  PROVE  Fits(u \o s, L1, L2)
  BY PlainThen DEF Fits

(* Plain code after it.                                                    *)
LEMMA FitsPlain ==
  ASSUME NEW L1, NEW L2, NEW u \in Block0, NEW s, Fits(s, L1, L2)
  PROVE  Fits(s \o u, L1, L2)
  BY ThenPlain DEF Fits

Sides == {TrueSide, FalseSide}

(* A branch keeps the beliefs true, its flag remembered or tested.         *)
LEMMA BrCondIs ==
  ASSUME NEW p, NEW base, Len(base) \in Nat, NEW h \in Selector(p, base, Sides), NEW i,
         Operand(p, i.c, 1)
  PROVE  BrCond(p, h, i) \in Selector(p, base, Sides)
<1>1. TrueSide \in Labels /\ FalseSide \in Labels /\ TrueSide \in Sides /\ FalseSide \in Sides
  BY LabelIs DEF Sides
<1>2. /\ \A x \in Sides : Fits(<<<<"goto", x>>>>, Sides, Sides)
      /\ Fits(<<<<"goto", FalseSide>>, <<"goto", TrueSide>>>>, Sides, Sides)
  BY <1>1, JumpsFit DEF Sides
<1>3. CASE IsConst(i.c)
  <2> DEFINE x == IF ByteK(i.c, 0) # 0 THEN TrueSide ELSE FalseSide
  <2>1. BrCond(p, h, i) = EmitAll(h, <<<<"goto", x>>>>)
    BY <1>3 DEF BrCond
  <2>2. x \in Sides
    BY <1>1
  <2> HIDE DEF x
  <2> QED BY <1>2, <2>1, <2>2, EmitFits
<1>4. CASE ~IsConst(i.c)
  <2> DEFINE u == SkipWhenTrue(p, h, i.c, h.bools)
             s == <<<<"goto", FalseSide>>, <<"goto", TrueSide>>>>
  <2>1. BrCond(p, h, i) = EmitAll(h, u \o s)
    BY <1>4 DEF BrCond
  <2>2. Addr(p, i.c) \in Cells
    <3>1. Addr(p, i.c) \in Nat /\ Addr(p, i.c) + 0 \in Cells
      BY <1>4 DEF Operand, Reg
    <3> QED BY <3>1
  <2>3. u \in Seq(Plain)
    BY <2>2, SkipWhenTrueIs
  <2>4. Fits(s, Sides, Sides)
    BY <1>2
  <2> HIDE DEF u, s
  <2>5. Fits(u \o s, Sides, Sides)
    BY <2>3, <2>4, PlainFits
  <2> QED BY <2>1, <2>5, EmitFits
<1> QED BY <1>3, <1>4

(* A choice between two values keeps the beliefs true.                     *)
LEMMA SelectIs ==
  ASSUME NEW p, NEW base, Len(base) \in Nat, NEW ahead, NEW h \in Selector(p, base, ahead), NEW i,
         NEW n \in Nat, n = Width(i.ty), Operand(p, i.a, n), Operand(p, i.b, n), Operand(p, i.c, 1),
         Dest(p.slot[i.dst], n)
  PROVE  Select(p, h, i) \in Selector(p, base, ahead)
<1> DEFINE da == p.slot[i.dst]
           x == <<"else", h.tmp>>
           y == <<"end", h.tmp>>
           u == SkipWhenTrue(p, h, i.c, {})
           test == EmitAll(h, u \o <<<<"goto", x>>>>)
           moved == MoveValToSlot(p, test, i.a, n, da)
           taken == EmitAll(moved, <<<<"goto", y>>, <<"label", x>>>>)
           other == MoveValToSlot(p, taken, i.b, n, da)
           both == EmitAll(other, <<<<"label", y>>>>)
<1>1. Select(p, h, i) = IF IsConst(i.c) THEN MoveValToSlot(p, h, IF ByteK(i.c, 0) # 0 THEN i.a ELSE i.b, n, da)
                        ELSE NextLabel(both)
  BY DEF Select, NextLabel, Emit
<1>2. CASE IsConst(i.c)
  <2>1. MoveValToSlot(p, h, i.a, n, da) \in Selector(p, base, ahead)
        /\ MoveValToSlot(p, h, i.b, n, da) \in Selector(p, base, ahead)
    BY MoveValIs
  <2> QED BY <1>1, <1>2, <2>1
<1>3. CASE ~IsConst(i.c)
  <2>1. Addr(p, i.c) \in Cells
    <3>1. Addr(p, i.c) \in Nat /\ Addr(p, i.c) + 0 \in Cells
      BY <1>3 DEF Operand, Reg
    <3> QED BY <3>1
  <2>2. u \in Seq(Plain)
    BY <2>1, SkipWhenTrueIs
  <2>3. x \in Labels /\ y \in Labels
    <3>1. h \in Gen(p)
      BY LooseIs DEF Selector
    <3>2. h.tmp \in Nat
      BY <3>1 DEF Gen
    <3> QED BY <3>2, LabelIs
  <2> HIDE DEF x, y, u
  <2>4. /\ Fits(<<<<"goto", x>>>>, ahead, ahead \cup {x})
        /\ Fits(<<<<"goto", y>>, <<"label", x>>>>, ahead \cup {x}, ahead \cup {y})
        /\ Fits(<<<<"label", y>>>>, ahead \cup {y}, ahead)
    BY <2>3, JumpsFit
  <2>5. Fits(u \o <<<<"goto", x>>>>, ahead, ahead \cup {x})
    BY <2>2, <2>4, PlainFits
  <2>6. test \in Selector(p, base, ahead \cup {x})
    BY <2>5, EmitFits
  <2> HIDE DEF test
  <2>7. moved \in Selector(p, base, ahead \cup {x})
    BY <2>6, MoveValIs
  <2> HIDE DEF moved
  <2>8. taken \in Selector(p, base, ahead \cup {y})
    BY <2>4, <2>7, EmitFits
  <2> HIDE DEF taken
  <2>9. other \in Selector(p, base, ahead \cup {y})
    BY <2>8, MoveValIs
  <2> HIDE DEF other
  <2>10. both \in Selector(p, base, ahead)
    BY <2>4, <2>9, EmitFits
  <2> HIDE DEF both
  <2> QED BY <1>1, <1>3, <2>10, MoreLabels
<1> QED BY <1>2, <1>3

-----------------------------------------------------------------------------
(* Additions, subtractions, shifts.                                        *)

(* Emitting a block that may be empty.                                     *)
LEMMA EmitBlock0Ok ==
  ASSUME NEW p, NEW base, Len(base) \in Nat, NEW ahead, NEW h \in Selector(p, base, ahead),
         NEW s, s \in Block0
  PROVE  EmitAll(h, s) \in Selector(p, base, ahead)
  BY EmitBlock0

(* An addition keeps the beliefs true.                                     *)
LEMMA AddIs ==
  ASSUME NEW p, NEW base, Len(base) \in Nat, NEW ahead, NEW h \in Selector(p, base, ahead), NEW i,
         NEW n \in Nat \ {0}, n = Width(i.ty), NEW dst, Operand2(p, i, n), Dest(dst, n), SCRATCH \in Cells
  PROVE  Add(p, h, i, dst) \in Selector(p, base, ahead)
<1> DEFINE lines == AddFirst(p, i, dst)
           rest == AddRest(p, i, dst, n)
<1>1. lines \in Block /\ (n > 1 => AddSecond(p, i, dst) \in Block)
  BY AddBlocks
<1>2. rest \in Block0
  BY ChainsPlain
<1>3. Add(p, h, i, dst) =
        CASE n = 1 -> WStore(p, EmitAll(h, Front(lines)), dst)
          [] n = 2 -> EmitAll(h, lines \o AddSecond(p, i, dst))
          [] OTHER -> EmitAll(h, lines \o rest)
  BY DEF Add, AddRest
<1> HIDE DEF rest
<1>4. lines \in Block0
  BY <1>1 DEF Block0
<1>5. EmitAll(h, lines \o rest) \in Selector(p, base, ahead)
  BY <1>2, <1>4, Block0Cat, EmitBlock0Ok
<1>6. CASE n = 1
  <2> DEFINE e == EmitAll(h, Front(lines))
             r == Addr(p, RegOf(i))
             o == OtherOf(i)
             s == IF IsConst(o) THEN <<WF("movf", r), <<"addlw", ByteK(o, 0)>>>>
                  ELSE <<WF("movf", Addr(p, o)), WF("addwf", r)>>
  <2>1. Reg(p, RegOf(i), n) /\ Operand(p, o, n)
    BY RegOtherIs
  <2>2. r \in Cells /\ (IsConst(o) => ByteK(o, 0) \in Byte) /\ (~IsConst(o) => Addr(p, o) \in Cells)
    <3>1. r \in Nat /\ r + 0 \in Cells
      BY <2>1 DEF Reg
    <3>2. IsConst(o) => ByteK(o, 0) \in Byte
      BY <2>1 DEF Operand, Constant
    <3>3. ~IsConst(o) => Addr(p, o) \in Nat /\ Addr(p, o) + 0 \in Cells
      BY <2>1 DEF Operand, Reg
    <3> QED BY <3>1, <3>2, <3>3
  <2>3. lines = s \o <<<<"movwf", dst>>>>
    BY DEF AddFirst
  <2> HIDE DEF r, o
  <2>4. s \in Block
    <3>1. CASE IsConst(o)
      <4>1. WF("movf", r) \in Plain /\ <<"addlw", ByteK(o, 0)>> \in Plain
        BY <2>2, <3>1, PlainLine DEF FileOps, LiteralOps
      <4>2. <<"addlw", ByteK(o, 0)>>[1] \notin SkipOps
        BY DEF SkipOps
      <4> QED BY <3>1, <4>1, <4>2, Blocks
    <3>2. CASE ~IsConst(o)
      <4>1. WF("movf", Addr(p, o)) \in Plain /\ WF("addwf", r) \in Plain
        BY <2>2, <3>2, PlainLine DEF FileOps
      <4>2. WF("addwf", r)[1] \notin SkipOps
        BY DEF SkipOps, WF
      <4> QED BY <3>2, <4>1, <4>2, Blocks
    <3> QED BY <3>1, <3>2
  <2>5. dst \in Cells /\ <<"movwf", dst>> \in Plain
    <3>1. dst \in Nat /\ dst + 0 \in Cells
      BY DEF Dest
    <3>2. dst \in Cells
      BY <3>1
    <3> QED BY <3>2, PlainLine
  <2>6. s \in Seq(Lines) /\ <<"movwf", dst>> \in Lines
    BY <2>4, <2>5, BlockIs, PlainIs
  <2> HIDE DEF s, lines
  <2>7. Front(lines) = s
    BY <2>3, <2>6, FrontIs
  <2>8. e \in Selector(p, base, ahead)
    BY <2>4, <2>7, EmitBlock0Ok DEF Block0
  <2> HIDE DEF e
  <2>9. Ready(p, base, ahead, e, dst)
    BY <2>8 DEF Ready, Selector
  <2>10. Settled(p, base, ahead, WStore(p, e, dst))
    BY <2>5, <2>9, WStoreIs
  <2> QED BY <1>3, <1>6, <2>10 DEF Settled, e
<1>7. CASE n = 2
  <2>1. AddSecond(p, i, dst) \in Block0
    BY <1>1, <1>7 DEF Block0
  <2>2. EmitAll(h, lines \o AddSecond(p, i, dst)) \in Selector(p, base, ahead)
    BY <1>4, <2>1, Block0Cat, EmitBlock0Ok
  <2> QED BY <1>3, <1>7, <2>2
<1>8. CASE n # 1 /\ n # 2
  BY <1>3, <1>5, <1>8
<1> QED BY <1>6, <1>7, <1>8

(* So does a subtraction.                                                  *)
LEMMA SubIs ==
  ASSUME NEW p, NEW base, Len(base) \in Nat, NEW ahead, NEW h \in Selector(p, base, ahead), NEW i,
         NEW n \in Nat \ {0}, n = Width(i.ty), NEW dst, Operand2(p, i, n), Dest(dst, n), SCRATCH \in Cells
  PROVE  Sub(p, h, i, dst) \in Selector(p, base, ahead)
<1> DEFINE first == <<WF("movf", Addr(p, i.b)), <<"sublw", ByteK(i.a, 0)>>, <<"movwf", dst>>>>
           from == SubFromRest(p, i, dst, n)
           rest == SubRest(p, i, dst, n)
           tail == CASE n = 1 -> <<>> [] n = 2 -> SubSecond(p, i, dst) [] OTHER -> rest
           s == IF IsConst(i.a) THEN first \o from ELSE SubFirst(p, i, dst) \o tail
<1>1. Sub(p, h, i, dst) = EmitAll(h, s)
  BY DEF Sub, SubRest, SubFromRest
<1>2. Operand(p, i.a, n) /\ Operand(p, i.b, n) /\ (IsConst(i.a) => ~IsConst(i.b))
  BY DEF Operand2
<1>3. ASSUME IsConst(i.a) PROVE first \in Block0 /\ from \in Block0
  <2>1. Constant(i.a, n) /\ Reg(p, i.b, n)
    BY <1>2, <1>3 DEF Operand
  <2>2. from \in Block0
    BY <2>1, ChainsPlain
  <2>3. ByteK(i.a, 0) \in Byte /\ Addr(p, i.b) \in Nat /\ Addr(p, i.b) + 0 \in Cells
        /\ dst \in Nat /\ dst + 0 \in Cells
    BY <2>1 DEF Constant, Reg, Dest
  <2>4. Addr(p, i.b) \in Cells /\ dst \in Cells
    BY <2>3
  <2>5. WF("movf", Addr(p, i.b)) \in Plain /\ <<"sublw", ByteK(i.a, 0)>> \in Plain /\ <<"movwf", dst>> \in Plain
    BY <2>3, <2>4, PlainLine DEF FileOps, LiteralOps
  <2>6. first \in Block
    BY <2>5, Blocks DEF SkipOps
  <2> QED BY <2>2, <2>6 DEF Block0
<1>4. ASSUME ~IsConst(i.a) PROVE SubFirst(p, i, dst) \in Block0 /\ tail \in Block0
  <2>1. Reg(p, i.a, n)
    BY <1>2, <1>4 DEF Operand
  <2>2. SubFirst(p, i, dst) \in Block /\ (n > 1 => SubSecond(p, i, dst) \in Block)
    BY <1>2, <2>1, SubBlocks
  <2>3. rest \in Block0
    BY <1>2, <2>1, ChainsPlain
  <2> HIDE DEF rest
  <2>4. tail \in Block0
    <3>1. CASE n = 1
      BY <3>1 DEF Block0
    <3>2. CASE n = 2
      BY <2>2, <3>2 DEF Block0
    <3>3. CASE n # 1 /\ n # 2
      BY <2>3, <3>3
    <3> QED BY <3>1, <3>2, <3>3
  <2> QED BY <2>2, <2>4 DEF Block0
<1> HIDE DEF first, from, tail
<1>5. s \in Block0
  BY <1>3, <1>4, Block0Cat
<1> HIDE DEF s
<1> QED BY <1>1, <1>5, EmitBlock0Ok

(* So does a shift by a constant.                                          *)
LEMMA ShiftIs ==
  ASSUME NEW p, NEW base, Len(base) \in Nat, NEW ahead, NEW h \in Selector(p, base, ahead), NEW i,
         NEW n \in Nat \ {0}, n = Width(i.ty), NEW dst, Operand(p, i.a, n), Dest(dst, n),
         i.op \in {"shl", "lshr", "ashr"}, NEW kk \in 0..8 * n - 1, ByteK(i.b, 0) = kk
  PROVE  Shift(p, h, i, dst) \in Selector(p, base, ahead)
<1> DEFINE sh == kk \div 8
<1>1. sh \in Nat /\ sh <= n - 1 /\ kk \in Nat
  OBVIOUS
<1> DEFINE cnt == n - sh
           slid == Slid(p, h, i.a, n, sh, cnt, dst)
           clears == [j \in 1..sh |-> <<"clrf", dst + j - 1>>]
           moved == MoveValToSlot(p, h, i.a, n, dst)
           turns == Repeat(ShiftOnce(i.op, dst, n), kk)
<1>2. Shift(p, h, i, dst) = IF i.op = "shl" /\ kk > 0 /\ kk % 8 = 0 THEN EmitAll(slid, clears)
                            ELSE EmitAll(moved, turns)
  <2>1. Shift(p, h, i, dst) =
          IF i.op = "shl" /\ ByteK(i.b, 0) > 0 /\ ByteK(i.b, 0) % 8 = 0
          THEN EmitAll(Slid(p, h, i.a, Width(i.ty), ByteK(i.b, 0) \div 8,
                            Width(i.ty) - (ByteK(i.b, 0) \div 8), dst),
                       [j \in 1..(ByteK(i.b, 0) \div 8) |-> <<"clrf", dst + j - 1>>])
          ELSE EmitAll(MoveValToSlot(p, h, i.a, Width(i.ty), dst),
                       Repeat(ShiftOnce(i.op, dst, Width(i.ty)), ByteK(i.b, 0)))
    BY DEF Shift, Slid
  <2> QED BY <2>1
<1> HIDE DEF sh
<1>3. cnt \in Nat
  BY <1>1
<1> HIDE DEF cnt
<1>4. cnt = n - sh
  BY DEF cnt
<1>5. slid \in Selector(p, base, ahead)
  BY <1>1, <1>3, <1>4, SlidIs
<1>6. moved \in Selector(p, base, ahead)
  BY MoveValIs
<1>7. turns \in Block0
  BY <1>1, ShiftBlock, RepeatBlock
<1>8. clears \in Block0
  <2>1. dst \in Nat /\ \A j \in 1..sh : j - 1 \in 0..n - 1
    BY <1>1 DEF Dest
  <2>2. \A j \in 1..sh : dst + (j - 1) \in Cells
    BY <2>1 DEF Dest
  <2>3. \A j \in 1..sh : dst + j - 1 \in Cells
    <3> SUFFICES ASSUME NEW j \in 1..sh PROVE dst + j - 1 \in Cells
      OBVIOUS
    <3>1. dst + j - 1 = dst + (j - 1)
      BY <1>1, <2>1
    <3> QED BY <2>2, <3>1
  <2> QED BY <1>1, <2>1, <2>3, ClearsBlock
<1> HIDE DEF slid, moved, turns, clears
<1>9. EmitAll(slid, clears) \in Selector(p, base, ahead)
  BY <1>5, <1>8, EmitBlock0Ok
<1>10. EmitAll(moved, turns) \in Selector(p, base, ahead)
  BY <1>6, <1>7, EmitBlock0Ok
<1> QED BY <1>2, <1>9, <1>10

-----------------------------------------------------------------------------
(* Changes of width, and bit fields.                                       *)

\* The bytes of dst from w on.
LEMMA HighCells ==
  ASSUME NEW n \in Nat, NEW w \in Nat, w <= n, NEW dst, Dest(dst, n)
  PROVE  /\ n - w \in Nat /\ dst + w \in Nat /\ Dest(dst, w)
         /\ \A j \in 1..n - w : dst + w + j - 1 \in Cells
<1>1. dst \in Nat
  BY DEF Dest
<1>2. ASSUME NEW j \in 1..n - w PROVE dst + w + j - 1 \in Cells
  <2>1. w + j - 1 \in 0..n - 1 /\ dst + w + j - 1 = dst + (w + j - 1)
    BY <1>1
  <2>2. dst + (w + j - 1) \in Cells
    BY <2>1 DEF Dest
  <2> QED BY <2>1, <2>2
<1>3. \A j \in 0..w - 1 : j \in 0..n - 1
  OBVIOUS
<1>4. Dest(dst, w)
  BY <1>1, <1>3 DEF Dest
<1> QED BY <1>1, <1>2, <1>4

(* So does widening with zeros.                                            *)
LEMMA ZextIs ==
  ASSUME NEW p, NEW base, Len(base) \in Nat, NEW ahead, NEW h \in Selector(p, base, ahead), NEW i,
         NEW n \in Nat, n = Width(i.ty), NEW w \in Nat, w = Width(i.from), w <= n, NEW dst,
         Operand(p, i.a, w), Dest(dst, n)
  PROVE  Zext(p, h, i, dst) \in Selector(p, base, ahead)
<1> DEFINE low == CopyLow(p, h, i.a, w, dst)
           x == dst + w
           cnt == n - w
           s == [j \in 1..cnt |-> <<"clrf", x + j - 1>>]
<1>1. Zext(p, h, i, dst) = EmitAll(low, s)
  BY DEF Zext
<1>2. cnt \in Nat /\ x \in Nat /\ Dest(dst, w) /\ \A j \in 1..cnt : x + j - 1 \in Cells
  BY HighCells
<1> HIDE DEF cnt, x
<1>3. s \in Block0
  BY <1>2, ClearsBlock
<1>4. low \in Selector(p, base, ahead)
  BY <1>2, CopyLowIs
<1> HIDE DEF s, low
<1> QED BY <1>1, <1>3, <1>4, EmitBlock0Ok

(* So does narrowing.                                                      *)
LEMMA TruncIs ==
  ASSUME NEW p, NEW base, Len(base) \in Nat, NEW ahead, NEW h \in Selector(p, base, ahead), NEW i,
         NEW n \in Nat \ {0}, n = Width(i.ty), NEW dst, Operand(p, i.a, n), Dest(dst, n)
  PROVE  Trunc(p, h, i, dst) \in Selector(p, base, ahead)
<1> DEFINE low == CopyLow(p, h, i.a, n, dst)
           s == <<<<"movlw", 1>>, FF("andwf", dst)>>
<1>1. Trunc(p, h, i, dst) = IF i.ty = 0 THEN EmitAll(low, s) ELSE low
  BY DEF Trunc
<1>2. dst \in Cells
  <2>1. dst \in Nat /\ dst + 0 \in Cells
    BY DEF Dest
  <2> QED BY <2>1
<1>3. FF("andwf", dst) \in Plain /\ FF("andwf", dst)[1] \notin SkipOps
  <2>1. FF("andwf", dst) \in Plain
    BY <1>2, PlainLine DEF FileOps
  <2> QED BY <2>1 DEF FF, SkipOps
<1>4. s \in Block0
  BY <1>3, Literals, Blocks DEF Block0
<1>5. low \in Selector(p, base, ahead)
  BY CopyLowIs
<1> HIDE DEF s, low
<1>6. EmitAll(low, s) \in Selector(p, base, ahead)
  BY <1>4, <1>5, EmitBlock0Ok
<1> QED BY <1>1, <1>5, <1>6

(* So does widening with the sign.                                         *)
LEMMA SextIs ==
  ASSUME NEW p, NEW base, Len(base) \in Nat, NEW ahead, NEW h \in Selector(p, base, ahead), NEW i,
         NEW n \in Nat, n = Width(i.ty), NEW w \in Nat \ {0}, w = Width(i.from), w <= n, NEW dst,
         Reg(p, i.a, w), ~IsConst(i.a), Dest(dst, n)
  PROVE  Sext(p, h, i, dst) \in Selector(p, base, ahead)
<1> DEFINE low == CopyLow(p, h, i.a, w, dst)
           x == dst + w
           cnt == n - w
           y == <<"pos", h.tmp>>
           z == <<"fill", h.tmp>>
           t == Addr(p, i.a) + w - 1
           a == <<<<"btfss", t, 7>>, <<"goto", y>>, <<"movlw", 255>>,
                  <<"goto", z>>, <<"label", y>>, <<"movlw", 0>>, <<"label", z>>>>
           b == [j \in 1..cnt |-> <<"movwf", x + j - 1>>]
           e == EmitAll(low, a \o b)
<1>1. Sext(p, h, i, dst) = NextLabel(e)
  BY DEF Sext, NextLabel
<1>2. cnt \in Nat /\ x \in Nat /\ Dest(dst, w) /\ \A j \in 1..cnt : x + j - 1 \in Cells
  BY HighCells
<1> HIDE DEF cnt, x
<1>3. b \in Block0
  <2>1. \A j \in 1..cnt : b[j] \in Plain /\ b[j][1] \notin SkipOps
    BY <1>2, PlainLine DEF SkipOps
  <2>2. b = [j \in 1..cnt |-> b[j]]
    OBVIOUS
  <2> HIDE DEF b
  <2> QED BY <1>2, <2>1, <2>2, EachLine
<1>4. Operand(p, i.a, w)
  BY DEF Operand
<1>5. low \in Selector(p, base, ahead)
  BY <1>2, <1>4, CopyLowIs
<1>6. t \in Cells
  <2>1. w - 1 \in 0..w - 1 /\ Addr(p, i.a) \in Nat
    BY DEF Reg
  <2>2. Addr(p, i.a) + (w - 1) \in Cells /\ t = Addr(p, i.a) + (w - 1)
    BY <2>1 DEF Reg
  <2> QED BY <2>2
<1>7. y \in Labels /\ z \in Labels
  <2>1. h \in Gen(p)
    BY LooseIs DEF Selector
  <2>2. h.tmp \in Nat
    BY <2>1 DEF Gen
  <2> QED BY <2>2, LabelIs
<1> HIDE DEF low, b, y, z, t
<1>8. <<"btfss", t, 7>> \in Lines /\ <<"movlw", 255>> \in Lines /\ <<"movlw", 0>> \in Lines
  <2>0. "btfss" \in BitOps /\ 7 \in 0..7
    BY DEF BitOps
  <2>1. <<"btfss", t, 7>> \in Plain
    BY <1>6, <2>0, PlainLine
  <2> QED BY <2>1, Literals, PlainIs
<1>9. Fits(a, ahead, ahead)
  <2>1. /\ a \in Seq(Lines) /\ DOMAIN a = 1..7 /\ Len(a) = 7
        /\ a[1] = <<"btfss", t, 7>> /\ a[2] = <<"goto", y>> /\ a[3] = <<"movlw", 255>>
        /\ a[4] = <<"goto", z>> /\ a[5] = <<"label", y>> /\ a[6] = <<"movlw", 0>>
        /\ a[7] = <<"label", z>>
    BY <1>7, <1>8, LabelLines
  <2> HIDE DEF a
  <2>2. Ending(a)
    BY <2>1 DEF Ending, SkipOps
  <2>3. \A j \in 1..7 : a[j][1] = "goto" => \E l \in 1..7 : a[l] = <<"label", a[j][2]>>
    <3> SUFFICES ASSUME NEW j \in 1..7, a[j][1] = "goto" PROVE \E l \in 1..7 : a[l] = <<"label", a[j][2]>>
      OBVIOUS
    <3>1. j = 2 \/ j = 4
      BY <2>1
    <3>2. CASE j = 2
      <4>1. a[5] = <<"label", a[j][2]>>
        BY <2>1, <3>2
      <4> QED BY <4>1
    <3>3. CASE j = 4
      <4>1. a[7] = <<"label", a[j][2]>>
        BY <2>1, <3>3
      <4> QED BY <4>1
    <3> QED BY <3>1, <3>2, <3>3
  <2>4. Jumps(a, ahead, ahead)
    BY <2>1, <2>3 DEF Jumps
  <2> QED BY <2>1, <2>2, <2>4 DEF Fits
<1> HIDE DEF a
<1>10. Fits(a \o b, ahead, ahead)
  BY <1>3, <1>9, FitsPlain
<1>11. e \in Selector(p, base, ahead)
  BY <1>5, <1>10, EmitFits
<1> HIDE DEF e
<1> QED BY <1>1, <1>11, MoreLabels

(* So does reading a bit field.                                            *)
LEMMA BitLoadIs ==
  ASSUME NEW p, NEW base, Len(base) \in Nat, NEW ahead, NEW h \in Selector(p, base, ahead), NEW i,
         Addr(p, i.a) \in Cells, i.from \in 0..7, NEW dst \in Cells
  PROVE  BitLoad(p, h, i, dst) \in Selector(p, base, ahead)
<1> DEFINE s == <<<<"movlw", 0>>, <<"btfsc", Addr(p, i.a), i.from>>, <<"movlw", 1>>>>
           e == EmitAll(h, s)
<1>1. BitLoad(p, h, i, dst) = WStore(p, e, dst)
  BY DEF BitLoad
<1>2. <<"btfsc", Addr(p, i.a), i.from>> \in Plain
  BY PlainLine DEF BitOps
<1>3. s \in Block0
  BY <1>2, Literals, Blocks DEF SkipOps, Block0
<1> HIDE DEF s
<1>4. e \in Selector(p, base, ahead)
  BY <1>3, EmitBlock0Ok
<1> HIDE DEF e
<1>5. Ready(p, base, ahead, e, dst)
  BY <1>4 DEF Ready, Selector
<1>6. Settled(p, base, ahead, WStore(p, e, dst))
  BY <1>5, WStoreIs
<1> QED BY <1>1, <1>6 DEF Settled

(* So does writing one.                                                    *)
LEMMA BitStoreIs ==
  ASSUME NEW p, NEW base, Len(base) \in Nat, NEW ahead, NEW h \in Selector(p, base, ahead), NEW i,
         ~IsConst(i.a) => Addr(p, i.a) \in Cells, i.from \in 0..7, NEW dst \in Cells
  PROVE  BitStore(p, h, i, dst) \in Selector(p, base, ahead)
<1> DEFINE y == <<"clr", h.tmp>>
           z == <<"end", h.tmp>>
           sb == <<"bsf", dst, i.from>>
           cb == <<"bcf", dst, i.from>>
           a == <<WF("movf", Addr(p, i.a)), <<"btfsc", STATUS, Z>>, <<"goto", y>>, sb,
                  <<"goto", z>>, <<"label", y>>, cb, <<"label", z>>>>
           e == EmitAll(h, a)
<1>1. BitStore(p, h, i, dst) = IF IsConst(i.a) THEN Emit(h, IF ByteK(i.a, 0) = 0 THEN cb ELSE sb)
                               ELSE NextLabel(e)
  BY DEF BitStore, NextLabel
<1>2. sb \in Plain /\ cb \in Plain /\ sb[1] \notin SkipOps /\ cb[1] \notin SkipOps
      /\ sb[1] # "goto" /\ cb[1] # "goto"
  <2>1. sb \in Plain /\ cb \in Plain
    BY PlainLine DEF BitOps
  <2> QED BY <2>1 DEF SkipOps
<1>3. y \in Labels /\ z \in Labels
  <2>1. h \in Gen(p)
    BY LooseIs DEF Selector
  <2>2. h.tmp \in Nat
    BY <2>1 DEF Gen
  <2> QED BY <2>2, LabelIs
<1> HIDE DEF sb, cb, y, z
<1>4. CASE IsConst(i.a)
  <2>1. h \in Loose(p, base, ahead)
    BY DEF Selector
  <2>2. Settled(p, base, ahead, Emit(h, cb)) /\ Settled(p, base, ahead, Emit(h, sb))
    BY <1>2, <2>1, EmitOk
  <2> QED BY <1>1, <1>4, <2>2 DEF Settled
<1>5. CASE ~IsConst(i.a)
  <2> DEFINE l == WF("movf", Addr(p, i.a))
  <2>1. l \in Lines /\ l[1] # "goto"
    <3>1. l \in Plain
      BY <1>5, PlainLine DEF FileOps
    <3> QED BY <3>1, PlainIs
  <2>2. <<"btfsc", STATUS, Z>> \in Lines /\ sb \in Lines /\ cb \in Lines
    <3>1. <<"btfsc", STATUS, Z>> \in Plain
      BY PlainLine DEF BitOps
    <3> QED BY <1>2, <3>1, PlainIs
  <2>3. Fits(a, ahead, ahead)
    <3> HIDE DEF l
    <3>0. a = <<l, <<"btfsc", STATUS, Z>>, <<"goto", y>>, sb, <<"goto", z>>, <<"label", y>>, cb, <<"label", z>>>>
      BY DEF l
    <3>1. /\ a \in Seq(Lines) /\ DOMAIN a = 1..8 /\ Len(a) = 8
          /\ a[1] = l /\ a[2] = <<"btfsc", STATUS, Z>> /\ a[3] = <<"goto", y>> /\ a[4] = sb
          /\ a[5] = <<"goto", z>> /\ a[6] = <<"label", y>> /\ a[7] = cb /\ a[8] = <<"label", z>>
      BY <1>3, <2>1, <2>2, <3>0, LabelLines
    <3> HIDE DEF a
    <3>2. Ending(a)
      BY <3>1 DEF Ending, SkipOps
    <3>3. \A j \in 1..8 : a[j][1] = "goto" => \E u \in 1..8 : a[u] = <<"label", a[j][2]>>
      <4> SUFFICES ASSUME NEW j \in 1..8, a[j][1] = "goto" PROVE \E u \in 1..8 : a[u] = <<"label", a[j][2]>>
        OBVIOUS
      <4>1. j = 3 \/ j = 5
        BY <1>2, <2>1, <3>1
      <4>2. CASE j = 3
        <5>1. a[6] = <<"label", a[j][2]>>
          BY <3>1, <4>2
        <5> QED BY <5>1
      <4>3. CASE j = 5
        <5>1. a[8] = <<"label", a[j][2]>>
          BY <3>1, <4>3
        <5> QED BY <5>1
      <4> QED BY <4>1, <4>2, <4>3
    <3>4. Jumps(a, ahead, ahead)
      BY <3>1, <3>3 DEF Jumps
    <3> QED BY <3>1, <3>2, <3>4 DEF Fits
  <2> HIDE DEF a
  <2>4. e \in Selector(p, base, ahead)
    BY <2>3, EmitFits
  <2> HIDE DEF e
  <2> QED BY <1>1, <1>5, <2>4, MoreLabels
<1> QED BY <1>4, <1>5

-----------------------------------------------------------------------------
(* Calls, and every instruction.                                           *)

(* So does a call: nothing is believed across it.                          *)
LEMMA CallIs ==
  ASSUME NEW p, NEW base, Len(base) \in Nat, NEW ahead, NEW h \in Selector(p, base, ahead), NEW i,
         NEW n \in Nat \ {0}, n = Width(i.ty), NEW w \in Nat, w = Width(i.from),
         Operand(p, i.a, w), Operand(p, i.b, w), Dest(PARAM_A, w), Dest(PARAM_B, w), PCLATH \in Cells,
         i.pred \in Routines, NEW dst, Dest(dst, n), Dest(RETVAL, n), dst # RETVAL
  PROVE  Call(p, h, i, dst) \in Selector(p, base, ahead)
<1> DEFINE first == MoveValToSlot(p, h, i.a, w, PARAM_A)
           args == MoveValToSlot(p, first, i.b, w, PARAM_B)
           s == <<<<"movlw", 0>>, <<"movwf", PCLATH>>, <<"call", i.pred>>>>
           called == EmitAll(args, s)
<1>1. Call(p, h, i, dst) = Fetch(p, called, n, dst)
  BY DEF Call, Fetch
<1>2. first \in Selector(p, base, ahead)
  BY MoveValIs
<1> HIDE DEF first
<1>3. args \in Selector(p, base, ahead)
  BY <1>2, MoveValIs
<1> HIDE DEF args
<1>4. s \in Seq(Lines) /\ Ending(s) /\ Jumps(s, ahead, ahead)
  <2>1. <<"movlw", 0>> \in Lines
    BY Literals, PlainIs
  <2>2. <<"movwf", PCLATH>> \in Lines
    BY PlainLine, PlainIs
  <2>3. <<"call", i.pred>> \in Lines
    BY DEF Lines
  <2>4. /\ s \in Seq(Lines) /\ DOMAIN s = 1..3 /\ Len(s) = 3 /\ s # <<>>
        /\ s[1][1] = "movlw" /\ s[2][1] = "movwf" /\ s[3][1] = "call"
    BY <2>1, <2>2, <2>3
  <2> HIDE DEF s
  <2>5. Ending(s)
    BY <2>4 DEF Ending, SkipOps
  <2>6. \A j \in DOMAIN s : s[j][1] # "goto"
    BY <2>4
  <2>7. Jumps(s, ahead, ahead)
    BY <2>6 DEF Jumps
  <2> QED BY <2>4, <2>5, <2>7
<1> HIDE DEF s
<1>5. args \in Loose(p, base, ahead)
  BY <1>3 DEF Selector
<1>6. EmittedTo(p, base, ahead, args, s, called)
  BY <1>4, <1>5, EmitAny
<1> HIDE DEF called
<1>7. called \in Selector(p, base, ahead) /\ called.defer = None
  BY <1>6 DEF EmittedTo, Blank
<1>8. Fetch(p, called, n, dst) \in Selector(p, base, ahead)
  BY <1>7, FetchIs
<1> QED BY <1>1, <1>8

(* The named cells are cells.                                              *)
LEMMA NamedIs ==
  /\ SCRATCH \in Cells /\ PCLATH \in Cells /\ RETVAL \in Cells
  /\ \A n \in 1..4 : Dest(RETVAL, n) /\ Dest(PARAM_A, n) /\ Dest(PARAM_B, n)
<1>1. Named \subseteq Cells
  BY CellsAssumption
<1>2. {SCRATCH, PCLATH} \subseteq Cells
  BY <1>1 DEF Named
<1>3. BytesOf(RETVAL, 4) \subseteq Cells /\ BytesOf(PARAM_A, 4) \subseteq Cells /\ BytesOf(PARAM_B, 4) \subseteq Cells
  BY <1>1 DEF Named
<1>4. \A j \in 0..3 : RETVAL + j \in Cells /\ PARAM_A + j \in Cells /\ PARAM_B + j \in Cells
  BY <1>3 DEF BytesOf, RETVAL, PARAM_A, PARAM_B
<1>5. RETVAL \in Nat /\ PARAM_A \in Nat /\ PARAM_B \in Nat
  BY DEF RETVAL, PARAM_A, PARAM_B
<1>6. RETVAL + 0 = RETVAL
  BY <1>5
<1> QED BY <1>2, <1>4, <1>5, <1>6 DEF Dest

(* Every instruction of a program is lowered to a selector.                *)
LEMMA InstIs ==
  ASSUME NEW p, IsProgram(p), NEW base, Len(base) \in Nat, NEW h \in Selector(p, base, Sides),
         NEW i, i.op \in Ops, IsInst(p, i)
  PROVE  Inst(p, h, i) \in Selector(p, base, Sides)
<1> DEFINE n == Width(i.ty)
           w == Width(i.from)
           dst == p.slot[i.dst]
           S == Selector(p, base, Sides)
<1>1. n \in 1..4 /\ n \in Nat \ {0}
  BY DEF IsInst, Width
<1>2. i.from \in 0..4 => w \in 1..4 /\ w \in Nat \ {0}
  BY DEF Width
<1>3. i.op \notin {"br", "ret"} => Dest(dst, n) /\ i.dst \in DOMAIN p.slot /\ dst \in Cells
  <2> SUFFICES ASSUME i.op \notin {"br", "ret"} PROVE Dest(dst, n) /\ i.dst \in DOMAIN p.slot /\ dst \in Cells
    OBVIOUS
  <2>1. InSlot(p, i.dst, n)
    BY DEF IsInst
  <2>2. Dest(dst, n) /\ i.dst \in DOMAIN p.slot
    BY <1>1, <2>1, DestIs
  <2>3. dst \in Nat /\ dst + 0 \in Cells
    BY <1>1, <2>2 DEF Dest
  <2> QED BY <2>2, <2>3
<1>4. \A v, c0 : c0 \in Nat \ {0} =>
        /\ IsOperand(p, v, c0) => Operand(p, v, c0)
        /\ IsRegister(p, v, c0) => Reg(p, v, c0) /\ ~IsConst(v)
  BY OperandIs
<1>5. \A v : Reg(p, v, 1) => Addr(p, v) \in Cells
  <2> SUFFICES ASSUME NEW v, Reg(p, v, 1) PROVE Addr(p, v) \in Cells
    OBVIOUS
  <2>1. Addr(p, v) \in Nat /\ Addr(p, v) + 0 \in Cells
    BY DEF Reg
  <2> QED BY <2>1
<1>6. i.op \in {"add", "sub", "and", "or", "xor", "icmp"} => Operand2(p, i, n)
  <2> SUFFICES ASSUME i.op \in {"add", "sub", "and", "or", "xor", "icmp"} PROVE Operand2(p, i, n)
    OBVIOUS
  <2>1. IsOperand(p, i.a, n) /\ IsOperand(p, i.b, n) /\ HasRegister(p, i)
    BY DEF IsInst
  <2>2. ~IsConst(i.a) \/ ~IsConst(i.b)
    BY <1>4, <2>1 DEF HasRegister
  <2> QED BY <1>1, <1>4, <2>1, <2>2 DEF Operand2
<1> HIDE DEF n, w, dst, S
<1>add. i.op = "add" => Inst(p, h, i) \in S
  <2> SUFFICES ASSUME i.op = "add" PROVE Inst(p, h, i) \in S
    OBVIOUS
  <2>1. Inst(p, h, i) = Add(p, h, i, dst)
    BY DEF Inst, dst
  <2> QED BY <1>1, <1>3, <1>6, <2>1, AddIs, NamedIs DEF S, n
<1>sub. i.op = "sub" => Inst(p, h, i) \in S
  <2> SUFFICES ASSUME i.op = "sub" PROVE Inst(p, h, i) \in S
    OBVIOUS
  <2>1. Inst(p, h, i) = Sub(p, h, i, dst)
    BY DEF Inst, dst
  <2> QED BY <1>1, <1>3, <1>6, <2>1, SubIs, NamedIs DEF S, n
<1>logic. i.op \in {"and", "or", "xor"} => Inst(p, h, i) \in S
  <2> SUFFICES ASSUME i.op \in {"and", "or", "xor"} PROVE Inst(p, h, i) \in S
    OBVIOUS
  <2>1. Inst(p, h, i) = Logic(p, h, i, dst)
    BY DEF Inst, dst
  <2>2. BytesOf(dst, n) \intersect GlobalBytes(p) = {}
    BY DEF IsInst, dst, n
  <2>3. dst \in Nat
    BY <1>3 DEF Dest
  <2>4. \A j \in 0..n - 1 : dst + j \in BytesOf(dst, n)
    BY <1>1, <2>3 DEF BytesOf
  <2>5. \A j \in 0..n - 1 : dst + j \notin GlobalBytes(p)
    BY <2>2, <2>4
  <2>6. LogicInst(p, i, n, dst)
    BY <1>3, <1>6, <2>5 DEF LogicInst, n
  <2> QED BY <1>1, <2>1, <2>6, LogicIs DEF S
<1>shift. i.op \in {"shl", "lshr", "ashr"} => Inst(p, h, i) \in S
  <2> SUFFICES ASSUME i.op \in {"shl", "lshr", "ashr"} PROVE Inst(p, h, i) \in S
    OBVIOUS
  <2>1. Inst(p, h, i) = Shift(p, h, i, dst)
    BY DEF Inst, dst
  <2>2. IsOperand(p, i.a, n) /\ i.b[2][1] \in 0..8 * n - 1
    BY DEF IsInst, n
  <2>3. ByteK(i.b, 0) = i.b[2][1]
    BY DEF ByteK
  <2>4. Operand(p, i.a, n)
    BY <1>1, <1>4, <2>2
  <2> QED BY <1>1, <1>3, <2>1, <2>2, <2>3, <2>4, ShiftIs DEF S, n
<1>zext. i.op = "zext" => Inst(p, h, i) \in S
  <2> SUFFICES ASSUME i.op = "zext" PROVE Inst(p, h, i) \in S
    OBVIOUS
  <2>1. Inst(p, h, i) = Zext(p, h, i, dst)
    BY DEF Inst, dst
  <2>2. IsOperand(p, i.a, w) /\ i.from \in 0..4 /\ w <= n
    BY DEF IsInst, n, w
  <2>3. Operand(p, i.a, w)
    BY <1>2, <1>4, <2>2
  <2> QED BY <1>1, <1>2, <1>3, <2>1, <2>2, <2>3, ZextIs DEF S, n, w
<1>sext. i.op = "sext" => Inst(p, h, i) \in S
  <2> SUFFICES ASSUME i.op = "sext" PROVE Inst(p, h, i) \in S
    OBVIOUS
  <2>1. Inst(p, h, i) = Sext(p, h, i, dst)
    BY DEF Inst, dst
  <2>2. IsRegister(p, i.a, w) /\ i.from \in 0..4 /\ w <= n
    BY DEF IsInst, n, w
  <2>3. Reg(p, i.a, w) /\ ~IsConst(i.a)
    BY <1>2, <1>4, <2>2
  <2> QED BY <1>1, <1>2, <1>3, <2>1, <2>2, <2>3, SextIs DEF S, n, w
<1>trunc. i.op = "trunc" => Inst(p, h, i) \in S
  <2> SUFFICES ASSUME i.op = "trunc" PROVE Inst(p, h, i) \in S
    OBVIOUS
  <2>1. Inst(p, h, i) = Trunc(p, h, i, dst)
    BY DEF Inst, dst
  <2>2. IsOperand(p, i.a, n)
    BY DEF IsInst, n
  <2>3. Operand(p, i.a, n)
    BY <1>1, <1>4, <2>2
  <2> QED BY <1>1, <1>3, <2>1, <2>3, TruncIs DEF S, n
<1>move. i.op \in {"freeze", "store"} => Inst(p, h, i) \in S
  <2> SUFFICES ASSUME i.op \in {"freeze", "store"} PROVE Inst(p, h, i) \in S
    OBVIOUS
  <2>1. Inst(p, h, i) = MoveValToSlot(p, h, i.a, n, dst)
    BY DEF Inst, dst, n
  <2>2. IsOperand(p, i.a, n)
    BY DEF IsInst, n
  <2>3. Operand(p, i.a, n)
    BY <1>1, <1>4, <2>2
  <2> QED BY <1>1, <1>3, <2>1, <2>3, MoveValIs DEF S
<1>load. i.op = "load" => Inst(p, h, i) \in S
  <2> SUFFICES ASSUME i.op = "load" PROVE Inst(p, h, i) \in S
    OBVIOUS
  <2>1. Inst(p, h, i) = Load(p, h, i, dst)
    BY DEF Inst, dst
  <2>2. IsRegister(p, i.a, n)
    BY DEF IsInst, n
  <2>3. Reg(p, i.a, n)
    BY <1>1, <1>4, <2>2
  <2> QED BY <1>1, <1>3, <2>1, <2>3, LoadIs DEF S, n
<1>bitload. i.op = "bitload" => Inst(p, h, i) \in S
  <2> SUFFICES ASSUME i.op = "bitload" PROVE Inst(p, h, i) \in S
    OBVIOUS
  <2>1. Inst(p, h, i) = BitLoad(p, h, i, dst)
    BY DEF Inst, dst
  <2>2. IsRegister(p, i.a, 1) /\ i.from \in 0..7
    BY DEF IsInst
  <2>3. Reg(p, i.a, 1)
    BY <1>4, <2>2
  <2> QED BY <1>3, <1>5, <2>1, <2>2, <2>3, BitLoadIs DEF S
<1>bitstore. i.op = "bitstore" => Inst(p, h, i) \in S
  <2> SUFFICES ASSUME i.op = "bitstore" PROVE Inst(p, h, i) \in S
    OBVIOUS
  <2>1. Inst(p, h, i) = BitStore(p, h, i, dst)
    BY DEF Inst, dst
  <2>2. IsOperand(p, i.a, 1) /\ i.from \in 0..7
    BY DEF IsInst
  <2>3. Operand(p, i.a, 1)
    BY <1>4, <2>2
  <2>4. ~IsConst(i.a) => Addr(p, i.a) \in Cells
    BY <1>5, <2>3 DEF Operand
  <2> QED BY <1>3, <2>1, <2>2, <2>4, BitStoreIs DEF S
<1>icmp. i.op = "icmp" => Inst(p, h, i) \in S
  <2> SUFFICES ASSUME i.op = "icmp" PROVE Inst(p, h, i) \in S
    OBVIOUS
  <2>1. Inst(p, h, i) = Icmp(p, h, i)
    BY DEF Inst
  <2>2. i.pred \in {"eq", "ne", "ult", "uge", "ugt", "ule", "slt", "sge", "sgt", "sle"}
    BY DEF IsInst
  <2>3. p.slot[i.dst] \in Cells /\ i.dst \in DOMAIN p.slot
    BY <1>3 DEF dst
  <2> QED BY <1>1, <1>6, <2>1, <2>2, <2>3, NamedIs, IcmpIs DEF S, n
<1>select. i.op = "select" => Inst(p, h, i) \in S
  <2> SUFFICES ASSUME i.op = "select" PROVE Inst(p, h, i) \in S
    OBVIOUS
  <2>1. Inst(p, h, i) = Select(p, h, i)
    BY DEF Inst
  <2>2. IsOperand(p, i.a, n) /\ IsOperand(p, i.b, n) /\ IsOperand(p, i.c, 1)
    BY DEF IsInst, n
  <2>3. Operand(p, i.a, n) /\ Operand(p, i.b, n) /\ Operand(p, i.c, 1)
    BY <1>1, <1>4, <2>2
  <2>4. Dest(p.slot[i.dst], n)
    BY <1>3 DEF dst
  <2> QED BY <1>1, <2>1, <2>3, <2>4, SelectIs DEF S, n
<1>call. i.op = "call" => Inst(p, h, i) \in S
  <2> SUFFICES ASSUME i.op = "call" PROVE Inst(p, h, i) \in S
    OBVIOUS
  <2>1. Inst(p, h, i) = Call(p, h, i, dst)
    BY DEF Inst, dst
  <2>2. /\ IsOperand(p, i.a, w) /\ IsOperand(p, i.b, w) /\ i.from \in 0..4
        /\ i.pred \in Routines /\ dst # RETVAL
    BY DEF IsInst, w, dst
  <2>3. Operand(p, i.a, w) /\ Operand(p, i.b, w)
    BY <1>2, <1>4, <2>2
  <2>4. Dest(PARAM_A, w) /\ Dest(PARAM_B, w) /\ Dest(RETVAL, n) /\ PCLATH \in Cells
    BY <1>1, <1>2, <2>2, NamedIs
  <2> QED BY <1>1, <1>2, <1>3, <2>1, <2>2, <2>3, <2>4, CallIs DEF S, n, w
<1>ret. i.op = "ret" => Inst(p, h, i) \in S
  <2> SUFFICES ASSUME i.op = "ret" PROVE Inst(p, h, i) \in S
    OBVIOUS
  <2>1. Inst(p, h, i) = Ret(p, h, i)
    BY DEF Inst
  <2>2. IsOperand(p, i.a, n)
    BY DEF IsInst, n
  <2>3. Operand(p, i.a, n)
    BY <1>1, <1>4, <2>2
  <2>4. Dest(RETVAL, n)
    BY <1>1, NamedIs
  <2> QED BY <1>1, <2>1, <2>3, <2>4, RetIs DEF S, n
<1>br. i.op = "br" => Inst(p, h, i) \in S
  <2> SUFFICES ASSUME i.op = "br" PROVE Inst(p, h, i) \in S
    OBVIOUS
  <2>1. Inst(p, h, i) = BrCond(p, h, i)
    BY DEF Inst
  <2>2. IsOperand(p, i.c, 1)
    BY DEF IsInst
  <2>3. Operand(p, i.c, 1)
    BY <1>4, <2>2
  <2> QED BY <2>1, <2>3, BrCondIs DEF S
<1>7. Inst(p, h, i) \in S
  BY <1>add, <1>sub, <1>logic, <1>shift, <1>zext, <1>sext, <1>trunc, <1>move, <1>load, <1>bitload,
     <1>bitstore, <1>icmp, <1>select, <1>call, <1>ret, <1>br DEF Ops
<1> QED BY <1>7 DEF S

-----------------------------------------------------------------------------
(* The whole of a lowering, the collapsed branch included.                 *)

(* Three lines in a row.                                                   *)
LEMMA JoinThree ==
  ASSUME NEW S, NEW x \in S, NEW y \in S, NEW z \in S
  PROVE  <<x>> \o <<y, z>> = <<x, y, z>>
<1>1. <<x>> \in Seq(S) /\ <<y, z>> \in Seq(S) /\ Len(<<x>>) = 1 /\ Len(<<y, z>>) = 2
  OBVIOUS
<1>2. Len(<<x>> \o <<y, z>>) = 3 /\ <<x>> \o <<y, z>> \in Seq(S)
  BY <1>1
<1>3. (<<x>> \o <<y, z>>)[1] = x /\ (<<x>> \o <<y, z>>)[2] = y /\ (<<x>> \o <<y, z>>)[3] = z
  BY <1>1
<1>4. \A r \in Seq(S) : Len(r) = 3 => r = <<r[1], r[2], r[3]>>
  OBVIOUS
<1>5. <<x>> \o <<y, z>> = <<(<<x>> \o <<y, z>>)[1], (<<x>> \o <<y, z>>)[2], (<<x>> \o <<y, z>>)[3]>>
  BY <1>2, <1>4
<1> QED BY <1>3, <1>5, Zenon

(* The bit test of a collapsed branch is of a cell.                        *)
LEMMA BitBranchIs ==
  ASSUME NEW p, IsProgram(p), NEW base, Len(base) \in Nat, NEW h \in Selector(p, base, Sides),
         Collapses(p)
  PROVE  BitBranch(p, h) \in Selector(p, base, Sides)
<1> DEFINE i == p.code[Len(p.code) - 2]
           n == Width(i.ty)
           B == BitsSet(OtherOf(i))
           b == CHOOSE x \in B : TRUE
           skip == IF p.code[Len(p.code) - 1].pred = "ne" THEN "btfss" ELSE "btfsc"
           f == Addr(p, RegOf(i)) + b \div 8
           u == <<<<skip, f, b % 8>>>>
           s == <<<<"goto", FalseSide>>, <<"goto", TrueSide>>>>
<1>1. /\ Len(p.code) > 2 /\ i.op = "and" /\ {IsConst(i.a), IsConst(i.b)} = {TRUE, FALSE}
      /\ \E x \in 0..8 * n - 1 - 1 : B = {x}
  BY DEF Collapses, CollapseShape
<1>3. IsInst(p, i)
  <2>1. Len(p.code) \in Nat /\ Len(p.code) - 2 \in DOMAIN p.code
    BY <1>1 DEF IsProgram
  <2> QED BY <2>1 DEF IsProgram
<1>2. b \in 0..8 * n - 2
  <2>0. n \in 1..4
    BY <1>3 DEF IsInst, Width
  <2>1. b \in B
    BY <1>1
  <2>2. PICK x \in 0..8 * n - 1 - 1 : B = {x}
    BY <1>1
  <2> HIDE DEF b, n, B
  <2>3. b = x
    BY <2>1, <2>2
  <2> QED BY <2>0, <2>2, <2>3
<1>4. n \in 1..4 /\ IsOperand(p, i.a, n) /\ IsOperand(p, i.b, n)
  <2>1. n \in 1..4
    BY <1>3 DEF IsInst, Width
  <2> QED BY <1>1, <1>3, <2>1 DEF IsInst
<1>5. Reg(p, RegOf(i), n)
  <2>1. ~IsConst(RegOf(i)) /\ IsOperand(p, RegOf(i), n)
    <3>1. CASE IsConst(i.a)
      BY <1>1, <1>4, <3>1 DEF RegOf
    <3>2. CASE ~IsConst(i.a)
      BY <1>4, <3>2 DEF RegOf
    <3> QED BY <3>1, <3>2
  <2>2. Operand(p, RegOf(i), n)
    BY <1>4, <2>1, OperandIs
  <2> QED BY <2>1, <2>2 DEF Operand
<1> HIDE DEF b, n
<1>6. b \div 8 \in 0..n - 1 /\ b % 8 \in 0..7
  BY <1>2, <1>4
<1>7. f \in Cells
  BY <1>5, <1>6 DEF Reg
<1>8. <<skip, f, b % 8>> \in Plain
  <2>1. skip \in BitOps
    BY DEF BitOps
  <2> HIDE DEF skip, f
  <2> QED BY <1>6, <1>7, <2>1, PlainLine
<1>9. u \in Seq(Plain)
  BY <1>8, Tuples
<1>10. BitBranch(p, h) = EmitAll(h, u \o s)
  <2>a. <<skip, f, b % 8>> \in Lines
    BY <1>8, PlainIs
  <2>b. <<"goto", FalseSide>> \in Lines /\ <<"goto", TrueSide>> \in Lines
    BY LabelIs, LabelLines
  <2>0. <<<<skip, f, b % 8>>>> \o <<<<"goto", FalseSide>>, <<"goto", TrueSide>>>>
        = <<<<skip, f, b % 8>>, <<"goto", FalseSide>>, <<"goto", TrueSide>>>>
    BY <2>a, <2>b, JoinThree
  <2>1. u \o s = <<<<skip, f, b % 8>>, <<"goto", FalseSide>>, <<"goto", TrueSide>>>>
    BY <2>0
  <2>2. BitBranch(p, h) = EmitAll(h, <<<<skip, f, b % 8>>, <<"goto", FalseSide>>, <<"goto", TrueSide>>>>)
    BY DEF BitBranch, b
  <2> QED BY <2>1, <2>2
<1> HIDE DEF u
<1>11. Fits(s, Sides, Sides)
  <2>1. TrueSide \in Labels /\ FalseSide \in Labels /\ TrueSide \in Sides /\ FalseSide \in Sides
    BY LabelIs DEF Sides
  <2> QED BY <2>1, JumpsFit
<1> HIDE DEF s
<1>12. Fits(u \o s, Sides, Sides)
  BY <1>9, <1>11, PlainFits
<1> QED BY <1>10, <1>12, EmitFits

(* The selector after an instruction is one, and has emitted more.         *)
LEMMA LowerIs ==
  ASSUME NEW p, IsProgram(p), NEW h \in Selector(p, <<>>, Sides), NEW q \in DOMAIN p.code
  PROVE  /\ Lower(p, h, q) \in Selector(p, <<>>, Sides)
         /\ Extending(h.out, Lower(p, h, q).out)
<1> DEFINE base == h.out
           e == Lower(p, h, q)
<1>1. h \in Loose(p, <<>>, Sides) /\ h.out \in Seq(Lines) /\ h.out \in Emitted(<<>>, Sides)
  BY LooseIs DEF Selector
<1>2. Len(base) \in Nat
  BY <1>1
<1>3. h.out \in Emitted(base, Sides)
  <2>1. Extending(base, h.out)
    BY <1>2 DEF Extending
  <2> QED BY <1>1, <2>1 DEF Emitted
<1>4. h \in Selector(p, base, Sides)
  BY <1>1, <1>3 DEF Selector, Loose
<1> HIDE DEF base
<1>5. Inst(p, h, p.code[q]) \in Selector(p, base, Sides)
  <2>1. p.code[q].op \in Ops /\ IsInst(p, p.code[q])
    BY DEF IsProgram
  <2> QED BY <1>2, <1>4, <2>1, InstIs
<1>6. Collapses(p) => BitBranch(p, h) \in Selector(p, base, Sides)
  BY <1>2, <1>4, BitBranchIs
<1>7. e \in Selector(p, base, Sides)
  BY <1>4, <1>5, <1>6 DEF Lower
<1> HIDE DEF e
<1>8. e \in Loose(p, base, Sides) /\ e.out \in Emitted(base, Sides) /\ Held(p, e) /\ Deferred(p, e) /\ Told(e)
  BY <1>7, LooseIs DEF Selector
<1>9. e.out \in Seq(Lines) /\ Extending(base, e.out)
  BY <1>8 DEF Emitted
<1>10. Extending(<<>>, e.out)
  <2>1. Len(<<>>) = 0 /\ 1..0 = {}
    OBVIOUS
  <2>2. Len(e.out) \in Nat
    BY <1>9
  <2> QED BY <2>1, <2>2 DEF Extending
<1>11. e.out \in Emitted(<<>>, Sides)
  BY <1>8, <1>10 DEF Emitted
<1>12. e \in Selector(p, <<>>, Sides)
  BY <1>8, <1>11 DEF Selector, Loose
<1> QED BY <1>9, <1>12 DEF base, e
=============================================================================
