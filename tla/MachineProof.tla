---------------------------- MODULE MachineProof ----------------------------
(***************************************************************************)
(* The mid-range core: what each instruction does to a machine over the    *)
(* cells, that every machine stays one, and that a turn, whatever it is    *)
(* of, has an end.                                                         *)
(*                                                                         *)
(* Two turns side by side, of the same code or of two texts, are shown to  *)
(* end alike by pairs of states: each pair comes, in a step or two of      *)
(* either turn, to another pair with less to go, until both turns end.     *)
(***************************************************************************)
EXTENDS Mcu14, NaturalsInduction, WellFoundedInduction, TLAPS

-----------------------------------------------------------------------------
(* Numbers.                                                                *)

(* A set of numbers has a least one.                                       *)
LEMMA LeastNat ==
  ASSUME NEW T, T \subseteq Nat, T # {}
  PROVE  \E x \in T : \A y \in T : x <= y
<1>1. IsWellFoundedOn(OpToRel(<, Nat), Nat)
  BY NatLessThanWellFounded
<1>2. \E x \in T : \A y \in T : ~ (<<y, x>> \in OpToRel(<, Nat))
  BY <1>1, WFMin
<1>3. \E x \in T : \A y \in T : ~(y < x)
  BY <1>2, Zenon DEF OpToRel
<1> QED BY <1>3

(* A set of numbers that holds 0 and, with each number, the next.          *)
LEMMA Climbs ==
  ASSUME NEW N \in Nat, NEW P, 0 \in P, \A j \in 1..N : j - 1 \in P => j \in P
  PROVE  \A j \in 0..N : j \in P
<1> DEFINE Bad == {j \in 0..N : j \notin P}
<1> SUFFICES ASSUME Bad # {} PROVE FALSE
  OBVIOUS
<1>1. PICK j \in Bad : \A i \in Bad : j <= i
  <2>1. Bad \subseteq Nat
    OBVIOUS
  <2> HIDE DEF Bad
  <2> QED BY <2>1, LeastNat
<1>2. j \in 1..N /\ j - 1 \in 0..N /\ ~(j <= j - 1)
  OBVIOUS
<1>3. j - 1 \in P
  BY <1>1, <1>2
<1> QED BY <1>2, <1>3

-----------------------------------------------------------------------------
(* Bytes.                                                                  *)

(* And, or and exclusive or of two bits are bits.                          *)
LEMMA TwoBits ==
  ASSUME NEW a \in 0..1, NEW b \in 0..1
  PROVE  a * b \in 0..1 /\ a + b - a * b \in 0..1 /\ a + b - 2 * (a * b) \in 0..1
<1>1. CASE a = 0
  BY <1>1
<1>2. CASE a = 1
  BY <1>2
<1> QED BY <1>1, <1>2

(* A nibble is the sum of its four bits.                                   *)
LEMMA Nibble ==
  ASSUME NEW x \in 0..15
  PROVE  /\ \A b \in 0..3 : BitOf(x, b) \in 0..1
         /\ x = BitOf(x, 0) + 2 * BitOf(x, 1) + 4 * BitOf(x, 2) + 8 * BitOf(x, 3)
<1>1. 2^0 = 1 /\ 2^1 = 2 /\ 2^2 = 4 /\ 2^3 = 8
  OBVIOUS
<1>2. \A b \in 0..3 : b = 0 \/ b = 1 \/ b = 2 \/ b = 3
  OBVIOUS
<1>3. /\ BitOf(x, 0) = x % 2 /\ BitOf(x, 1) = (x \div 2) % 2
      /\ BitOf(x, 2) = (x \div 4) % 2 /\ BitOf(x, 3) = (x \div 8) % 2
  BY <1>1 DEF BitOf
<1> QED BY <1>2, <1>3

(* Four bits make a nibble.                                                *)
LEMMA Weighted ==
  ASSUME NEW b0 \in 0..1, NEW b1 \in 0..1, NEW b2 \in 0..1, NEW b3 \in 0..1
  PROVE  b0 + 2 * b1 + 4 * b2 + 8 * b3 \in 0..15
  OBVIOUS

(* Arithmetic on sums of bits, bit by bit.                                 *)
LEMMA WeightedSum ==
  ASSUME NEW a0 \in Int, NEW a1 \in Int, NEW a2 \in Int, NEW a3 \in Int,
         NEW c0 \in Int, NEW c1 \in Int, NEW c2 \in Int, NEW c3 \in Int,
         NEW q0 \in Int, NEW q1 \in Int, NEW q2 \in Int, NEW q3 \in Int, NEW f \in {1, 2}
  PROVE  (a0 + 2 * a1 + 4 * a2 + 8 * a3) + (c0 + 2 * c1 + 4 * c2 + 8 * c3)
         - f * (q0 + 2 * q1 + 4 * q2 + 8 * q3)
         = (a0 + c0 - f * q0) + 2 * (a1 + c1 - f * q1) + 4 * (a2 + c2 - f * q2)
           + 8 * (a3 + c3 - f * q3)
<1>1. CASE f = 1
  BY <1>1
<1>2. CASE f = 2
  BY <1>2
<1> QED BY <1>1, <1>2

(* Logic on nibbles stays in a nibble.                                     *)
LEMMA NibbleAndIs ==
  ASSUME NEW x \in 0..15, NEW y \in 0..15
  PROVE  /\ NibbleAnd[<<x, y>>] \in 0..15
         /\ x + y - NibbleAnd[<<x, y>>] \in 0..15
         /\ x + y - 2 * NibbleAnd[<<x, y>>] \in 0..15
<1> DEFINE a(b) == BitOf(x, b)
           c(b) == BitOf(y, b)
           q(b) == a(b) * c(b)
<1>1. \A b \in 0..3 : a(b) \in 0..1 /\ c(b) \in 0..1
  BY Nibble
<1>2. \A b \in 0..3 : q(b) \in 0..1 /\ a(b) + c(b) - q(b) \in 0..1 /\ a(b) + c(b) - 2 * q(b) \in 0..1
  BY <1>1, TwoBits
<1>3. x = a(0) + 2 * a(1) + 4 * a(2) + 8 * a(3) /\ y = c(0) + 2 * c(1) + 4 * c(2) + 8 * c(3)
  BY Nibble
<1>4. NibbleAnd[<<x, y>>] = q(0) + 2 * q(1) + 4 * q(2) + 8 * q(3)
  BY DEF NibbleAnd
<1> HIDE DEF a, c, q
<1>5. /\ a(0) \in 0..1 /\ a(1) \in 0..1 /\ a(2) \in 0..1 /\ a(3) \in 0..1
      /\ c(0) \in 0..1 /\ c(1) \in 0..1 /\ c(2) \in 0..1 /\ c(3) \in 0..1
      /\ q(0) \in 0..1 /\ q(1) \in 0..1 /\ q(2) \in 0..1 /\ q(3) \in 0..1
  BY <1>1, <1>2
<1>6. /\ a(0) + c(0) - q(0) \in 0..1 /\ a(0) + c(0) - 2 * q(0) \in 0..1
      /\ a(1) + c(1) - q(1) \in 0..1 /\ a(1) + c(1) - 2 * q(1) \in 0..1
      /\ a(2) + c(2) - q(2) \in 0..1 /\ a(2) + c(2) - 2 * q(2) \in 0..1
      /\ a(3) + c(3) - q(3) \in 0..1 /\ a(3) + c(3) - 2 * q(3) \in 0..1
  BY <1>2
<1>7. NibbleAnd[<<x, y>>] \in 0..15
  BY <1>4, <1>5, Weighted
<1>8. x + y - NibbleAnd[<<x, y>>] \in 0..15
  <2> DEFINE d(b) == a(b) + c(b) - 1 * q(b)
  <2>1. d(0) + 2 * d(1) + 4 * d(2) + 8 * d(3) \in 0..15
    BY <1>5, <1>6, Weighted
  <2>a. (a(0) + 2 * a(1) + 4 * a(2) + 8 * a(3)) + (c(0) + 2 * c(1) + 4 * c(2) + 8 * c(3))
          - 1 * (q(0) + 2 * q(1) + 4 * q(2) + 8 * q(3))
        = (a(0) + c(0) - 1 * q(0)) + 2 * (a(1) + c(1) - 1 * q(1)) + 4 * (a(2) + c(2) - 1 * q(2))
          + 8 * (a(3) + c(3) - 1 * q(3))
    BY <1>5, WeightedSum
  <2>2. x + y - 1 * NibbleAnd[<<x, y>>] = d(0) + 2 * d(1) + 4 * d(2) + 8 * d(3)
    BY <1>3, <1>4, <2>a, Zenon
  <2> QED BY <1>7, <2>1, <2>2
<1>9. x + y - 2 * NibbleAnd[<<x, y>>] \in 0..15
  <2> DEFINE d(b) == a(b) + c(b) - 2 * q(b)
  <2>1. d(0) + 2 * d(1) + 4 * d(2) + 8 * d(3) \in 0..15
    BY <1>6, Weighted
  <2>a. (a(0) + 2 * a(1) + 4 * a(2) + 8 * a(3)) + (c(0) + 2 * c(1) + 4 * c(2) + 8 * c(3))
          - 2 * (q(0) + 2 * q(1) + 4 * q(2) + 8 * q(3))
        = (a(0) + c(0) - 2 * q(0)) + 2 * (a(1) + c(1) - 2 * q(1)) + 4 * (a(2) + c(2) - 2 * q(2))
          + 8 * (a(3) + c(3) - 2 * q(3))
    BY <1>5, WeightedSum
  <2>2. x + y - 2 * NibbleAnd[<<x, y>>] = d(0) + 2 * d(1) + 4 * d(2) + 8 * d(3)
    BY <1>3, <1>4, <2>a, Zenon
  <2> QED BY <2>1, <2>2
<1> QED BY <1>7, <1>8, <1>9

(* Logic on bytes stays in a byte.                                         *)
LEMMA LogicBytes ==
  ASSUME NEW x \in Byte, NEW y \in Byte
  PROVE  AndB(x, y) \in Byte /\ OrB(x, y) \in Byte /\ XorB(x, y) \in Byte
<1> DEFINE xh == x \div 16
           xl == x % 16
           yh == y \div 16
           yl == y % 16
<1>1. /\ xh \in 0..15 /\ xl \in 0..15 /\ yh \in 0..15 /\ yl \in 0..15
      /\ x = 16 * xh + xl /\ y = 16 * yh + yl
  BY DEF Byte
<1>2. AndB(x, y) = 16 * NibbleAnd[<<xh, yh>>] + NibbleAnd[<<xl, yl>>]
  BY DEF AndB
<1> HIDE DEF xh, xl, yh, yl
<1> DEFINE h == NibbleAnd[<<xh, yh>>]
           l == NibbleAnd[<<xl, yl>>]
<1>3. h \in 0..15 /\ xh + yh - h \in 0..15 /\ xh + yh - 2 * h \in 0..15
  BY <1>1, NibbleAndIs
<1>4. l \in 0..15 /\ xl + yl - l \in 0..15 /\ xl + yl - 2 * l \in 0..15
  BY <1>1, NibbleAndIs
<1>5. AndB(x, y) = 16 * h + l
  BY <1>2
<1> HIDE DEF h, l
<1>6. 16 * h + l \in 0..255
  BY <1>3, <1>4
<1>7. x + y - AndB(x, y) = 16 * (xh + yh - h) + (xl + yl - l)
  BY <1>1, <1>3, <1>4, <1>5
<1>8. x + y - 2 * AndB(x, y) = 16 * (xh + yh - 2 * h) + (xl + yl - 2 * l)
  BY <1>1, <1>3, <1>4, <1>5
<1>9. 16 * (xh + yh - h) + (xl + yl - l) \in 0..255
  BY <1>3, <1>4
<1>10. 16 * (xh + yh - 2 * h) + (xl + yl - 2 * l) \in 0..255
  BY <1>3, <1>4
<1>11. AndB(x, y) \in Byte
  BY <1>5, <1>6, Zenon DEF Byte
<1>12. OrB(x, y) \in Byte
  BY <1>7, <1>9, Zenon DEF OrB, Byte
<1>13. XorB(x, y) \in Byte
  BY <1>8, <1>10, Zenon DEF XorB, Byte
<1> QED BY <1>11, <1>12, <1>13

(* A bit is 0 or 1, and writing one leaves a byte.                         *)
LEMMA BitRange ==
  ASSUME NEW x \in Byte, NEW b \in 0..7
  PROVE  /\ BitOf(x, b) \in 0..1
         /\ \A to \in 0..1 : x + (to - BitOf(x, b)) * 2^b \in Byte
<1>1. 2^0 = 1 /\ 2^1 = 2 /\ 2^2 = 4 /\ 2^3 = 8 /\ 2^4 = 16 /\ 2^5 = 32 /\ 2^6 = 64 /\ 2^7 = 128
  OBVIOUS
<1>2. b = 0 \/ b = 1 \/ b = 2 \/ b = 3 \/ b = 4 \/ b = 5 \/ b = 6 \/ b = 7
  OBVIOUS
<1>3. /\ BitOf(x, 0) = x % 2 /\ BitOf(x, 1) = (x \div 2) % 2
      /\ BitOf(x, 2) = (x \div 4) % 2 /\ BitOf(x, 3) = (x \div 8) % 2
      /\ BitOf(x, 4) = (x \div 16) % 2 /\ BitOf(x, 5) = (x \div 32) % 2
      /\ BitOf(x, 6) = (x \div 64) % 2 /\ BitOf(x, 7) = (x \div 128) % 2
  BY <1>1 DEF BitOf, Byte
<1>4. BitOf(x, b) \in 0..1
  BY <1>2, <1>3 DEF Byte
<1>5. ASSUME NEW to \in 0..1 PROVE x + (to - BitOf(x, b)) * 2^b \in 0..255
  <2>1. CASE b = 0
    <3>1. BitOf(x, b) = x % 2 /\ 2^b = 1
      BY <1>1, <1>3, <2>1, Zenon
    <3>2. x + (to - (x % 2)) * 1 \in 0..255
      BY DEF Byte
    <3> QED BY <3>1, <3>2, Zenon
  <2>2. CASE b = 1
    <3>1. BitOf(x, b) = (x \div 2) % 2 /\ 2^b = 2
      BY <1>1, <1>3, <2>2, Zenon
    <3>2. x + (to - ((x \div 2) % 2)) * 2 \in 0..255
      BY DEF Byte
    <3> QED BY <3>1, <3>2, Zenon
  <2>3. CASE b = 2
    <3>1. BitOf(x, b) = (x \div 4) % 2 /\ 2^b = 4
      BY <1>1, <1>3, <2>3, Zenon
    <3>2. x + (to - ((x \div 4) % 2)) * 4 \in 0..255
      BY DEF Byte
    <3> QED BY <3>1, <3>2, Zenon
  <2>4. CASE b = 3
    <3>1. BitOf(x, b) = (x \div 8) % 2 /\ 2^b = 8
      BY <1>1, <1>3, <2>4, Zenon
    <3>2. x + (to - ((x \div 8) % 2)) * 8 \in 0..255
      BY DEF Byte
    <3> QED BY <3>1, <3>2, Zenon
  <2>5. CASE b = 4
    <3>1. BitOf(x, b) = (x \div 16) % 2 /\ 2^b = 16
      BY <1>1, <1>3, <2>5, Zenon
    <3>2. x + (to - ((x \div 16) % 2)) * 16 \in 0..255
      BY DEF Byte
    <3> QED BY <3>1, <3>2, Zenon
  <2>6. CASE b = 5
    <3>1. BitOf(x, b) = (x \div 32) % 2 /\ 2^b = 32
      BY <1>1, <1>3, <2>6, Zenon
    <3>2. x + (to - ((x \div 32) % 2)) * 32 \in 0..255
      BY DEF Byte
    <3> QED BY <3>1, <3>2, Zenon
  <2>7. CASE b = 6
    <3>1. BitOf(x, b) = (x \div 64) % 2 /\ 2^b = 64
      BY <1>1, <1>3, <2>7, Zenon
    <3>2. x + (to - ((x \div 64) % 2)) * 64 \in 0..255
      BY DEF Byte
    <3> QED BY <3>1, <3>2, Zenon
  <2>8. CASE b = 7
    <3>1. BitOf(x, b) = (x \div 128) % 2 /\ 2^b = 128
      BY <1>1, <1>3, <2>8, Zenon
    <3>2. x + (to - ((x \div 128) % 2)) * 128 \in 0..255
      BY DEF Byte
    <3> QED BY <3>1, <3>2, Zenon
  <2> QED BY <1>2, <2>1, <2>2, <2>3, <2>4, <2>5, <2>6, <2>7, <2>8
<1> QED BY <1>4, <1>5 DEF Byte

-----------------------------------------------------------------------------
(* The core keeps its registers bytes.                                     *)

AluOps == LiteralOps \cup FileOps

(* An operation's result is a byte.                                        *)
LEMMA ValueIs ==
  ASSUME NEW op \in AluOps, NEW x \in Byte, NEW w \in Byte, NEW c \in 0..1
  PROVE  Value(op, x, w, c) \in Byte
<1>1. AndB(x, w) \in Byte /\ OrB(x, w) \in Byte /\ XorB(x, w) \in Byte
  BY LogicBytes
<1>2. /\ (x + w) % 256 \in Byte /\ (x - w) % 256 \in Byte /\ (x + 1) % 256 \in Byte
      /\ (x - 1) % 256 \in Byte /\ 255 - x \in Byte
      /\ ((2 * x) % 256) + c \in Byte /\ (x \div 2) + 128 * c \in Byte
  <2>1. (2 * x) % 256 \in 0..254
    <3>1. CASE x < 128
      BY <3>1 DEF Byte
    <3>2. CASE x >= 128
      <4>1. 2 * x - 256 \in 0..254 /\ 2 * x = 256 + (2 * x - 256)
        BY <3>2 DEF Byte
      <4> QED BY <4>1
    <3> QED BY <3>1, <3>2 DEF Byte
  <2> QED BY <2>1 DEF Byte
<1>3. /\ op \in {"movlw", "movf"} => Value(op, x, w, c) = x
      /\ op \in {"addlw", "addwf"} => Value(op, x, w, c) = (x + w) % 256
      /\ op \in {"sublw", "subwf"} => Value(op, x, w, c) = (x - w) % 256
      /\ op \in {"andlw", "andwf"} => Value(op, x, w, c) = AndB(x, w)
      /\ op \in {"iorlw", "iorwf"} => Value(op, x, w, c) = OrB(x, w)
      /\ op \in {"xorlw", "xorwf"} => Value(op, x, w, c) = XorB(x, w)
      /\ op \in {"incf", "incfsz"} => Value(op, x, w, c) = (x + 1) % 256
      /\ op \in {"decf", "decfsz"} => Value(op, x, w, c) = (x - 1) % 256
      /\ op = "comf" => Value(op, x, w, c) = 255 - x
      /\ op = "rlf" => Value(op, x, w, c) = ((2 * x) % 256) + c
      /\ op = "rrf" => Value(op, x, w, c) = (x \div 2) + 128 * c
  BY DEF Value
<1>4. op \in {"movlw", "movf", "addlw", "addwf", "sublw", "subwf", "andlw", "andwf", "iorlw", "iorwf",
              "xorlw", "xorwf", "incf", "incfsz", "decf", "decfsz", "comf", "rlf", "rrf"}
  BY DEF AluOps, LiteralOps, FileOps
<1> QED BY <1>1, <1>2, <1>3, <1>4

(* Its carry is a bit.                                                     *)
LEMMA CarryIs ==
  ASSUME NEW op, NEW x \in Byte, NEW w \in Byte, NEW c \in 0..1
  PROVE  Carry(op, x, w, c) \in 0..1
<1>1. (x + w) \div 256 \in 0..1 /\ x \div 128 \in 0..1 /\ x % 2 \in 0..1
  BY DEF Byte
<1> QED BY <1>1 DEF Carry

(* The machine after an operation: its flags, and W or the file.           *)
Flags(mm, op, x, e) ==
    /\ e \in Machine(Cells)
    /\ e.c = Carry(op, x, mm.w, mm.c) /\ e.z = Zero(op, Value(op, x, mm.w, mm.c), mm.z)
ToW(mm, op, x, e) == Flags(mm, op, x, e) /\ e.w = Value(op, x, mm.w, mm.c) /\ e.mem = mm.mem

(* The parts of a machine.                                                 *)
LEMMA MachineIs ==
  /\ \A mm \in Machine(Cells) :
        /\ mm.w \in Byte /\ mm.c \in 0..1 /\ mm.z \in 0..1 /\ mm.mem \in [Cells -> Byte]
        /\ mm = [w |-> mm.w, c |-> mm.c, z |-> mm.z, mem |-> mm.mem]
  /\ \A w \in Byte, c \in 0..1, z \in 0..1, mem \in [Cells -> Byte] :
        [w |-> w, c |-> c, z |-> z, mem |-> mem] \in Machine(Cells)
  BY DEF Machine

(* What an operation writes has its type.                                  *)
LEMMA AluParts ==
  ASSUME NEW mm \in Machine(Cells), NEW op \in AluOps, NEW x \in Byte
  PROVE  /\ Value(op, x, mm.w, mm.c) \in Byte /\ Carry(op, x, mm.w, mm.c) \in 0..1
         /\ Zero(op, Value(op, x, mm.w, mm.c), mm.z) \in 0..1
<1>1. mm.w \in Byte /\ mm.c \in 0..1 /\ mm.z \in 0..1
  BY MachineIs
<1> QED BY <1>1, ValueIs, CarryIs DEF Zero

(* An operation into W, from its parts.                                    *)
LEMMA AluRecord ==
  ASSUME NEW mm \in Machine(Cells), NEW op \in AluOps, NEW x \in Byte, NEW v, NEW c, NEW z, NEW e,
         v = Value(op, x, mm.w, mm.c), c = Carry(op, x, mm.w, mm.c), z = Zero(op, v, mm.z),
         e = [w |-> v, c |-> c, z |-> z, mem |-> mm.mem]
  PROVE  ToW(mm, op, x, e)
<1>1. v \in Byte /\ c \in 0..1 /\ z \in 0..1 /\ mm.mem \in [Cells -> Byte]
  BY AluParts, MachineIs
<1>2. e \in Machine(Cells)
  BY <1>1, MachineIs
<1>3. e.c = c /\ e.z = z /\ e.w = v /\ e.mem = mm.mem
  OBVIOUS
<1> QED BY <1>2, <1>3 DEF ToW, Flags

(* An operation with a literal goes into W.                                *)
LEMMA AluLiteral ==
  ASSUME NEW mm \in Machine(Cells), NEW op \in AluOps, NEW x \in Byte, NEW f, NEW e,
         e = Alu(mm, op, x, FALSE, f)
  PROVE  ToW(mm, op, x, e)
<1> DEFINE v == Value(op, x, mm.w, mm.c)
           c == Carry(op, x, mm.w, mm.c)
           z == Zero(op, v, mm.z)
<1>1. mm = [w |-> mm.w, c |-> mm.c, z |-> mm.z, mem |-> mm.mem]
  BY MachineIs
<1>2. e = [[mm EXCEPT !.c = c, !.z = z] EXCEPT !.w = v]
  BY Zenon DEF Alu
<1>3. v = Value(op, x, mm.w, mm.c) /\ c = Carry(op, x, mm.w, mm.c) /\ z = Zero(op, v, mm.z)
  OBVIOUS
<1> HIDE DEF v, c, z
<1>4. e = [w |-> v, c |-> c, z |-> z, mem |-> mm.mem]
  BY <1>1, <1>2
<1> QED BY <1>3, <1>4, AluRecord, Zenon

(* An operation with a file register into W.                               *)
LEMMA AluToW ==
  ASSUME NEW mm \in Machine(Cells), NEW op \in AluOps, NEW x \in Byte, NEW d, d # "f", NEW f, NEW e,
         e = Alu(mm, op, x, d = "f", f)
  PROVE  ToW(mm, op, x, e)
<1> DEFINE v == Value(op, x, mm.w, mm.c)
           c == Carry(op, x, mm.w, mm.c)
           z == Zero(op, v, mm.z)
<1>1. mm = [w |-> mm.w, c |-> mm.c, z |-> mm.z, mem |-> mm.mem] /\ mm.mem \in [Cells -> Byte]
  BY MachineIs
<1>2. v \in Byte /\ c \in 0..1 /\ z \in 0..1
  BY AluParts
<1>3. e = [[mm EXCEPT !.c = c, !.z = z] EXCEPT !.w = v]
  BY DEF Alu
<1> HIDE DEF v, c, z
<1>4. e = [w |-> v, c |-> c, z |-> z, mem |-> mm.mem]
  BY <1>1, <1>3
<1>5. e \in Machine(Cells)
  BY <1>1, <1>2, <1>4, MachineIs
<1>6. e.c = c /\ e.z = z /\ e.w = v /\ e.mem = mm.mem
  BY <1>4
<1> QED BY <1>5, <1>6 DEF ToW, Flags, v, c, z

(* An operation with a file register into it.                              *)
LEMMA AluToFile ==
  ASSUME NEW mm \in Machine(Cells), NEW op \in AluOps, NEW x \in Byte, NEW d, d = "f", NEW f \in Cells,
         NEW e, e = Alu(mm, op, x, d = "f", f)
  PROVE  /\ Flags(mm, op, x, e) /\ e.w = mm.w
         /\ e.mem = [mm.mem EXCEPT ![f] = Value(op, x, mm.w, mm.c)]
<1> DEFINE v == Value(op, x, mm.w, mm.c)
           c == Carry(op, x, mm.w, mm.c)
           z == Zero(op, v, mm.z)
<1>1. mm = [w |-> mm.w, c |-> mm.c, z |-> mm.z, mem |-> mm.mem] /\ mm.mem \in [Cells -> Byte] /\ mm.w \in Byte
  BY MachineIs
<1>2. v \in Byte /\ c \in 0..1 /\ z \in 0..1
  BY AluParts
<1>3. e = [[mm EXCEPT !.c = c, !.z = z] EXCEPT !.mem[f] = v]
  BY DEF Alu
<1> HIDE DEF v, c, z
<1>4. e = [w |-> mm.w, c |-> c, z |-> z, mem |-> [mm.mem EXCEPT ![f] = v]]
  BY <1>1, <1>3
<1>a. [mm.mem EXCEPT ![f] = v] \in [Cells -> Byte]
  BY <1>1, <1>2
<1>5. e \in Machine(Cells)
  BY <1>1, <1>2, <1>4, <1>a, MachineIs
<1>6. e.c = c /\ e.z = z /\ e.w = mm.w /\ e.mem = [mm.mem EXCEPT ![f] = v]
  BY <1>4
<1> QED BY <1>5, <1>6 DEF Flags, v, c, z

(* Writing a bit of a cell or a flag leaves a machine.                     *)
LEMMA SetBitIs ==
  ASSUME NEW mm \in Machine(Cells), NEW f, NEW b, NEW to \in 0..1,
         (f \in Cells /\ b \in 0..7) \/ (f = STATUS /\ b \in {C, Z})
  PROVE  SetBit(mm, f, b, to) \in Machine(Cells)
<1>1. mm.w \in Byte /\ mm.c \in 0..1 /\ mm.z \in 0..1 /\ mm.mem \in [Cells -> Byte]
      /\ mm = [w |-> mm.w, c |-> mm.c, z |-> mm.z, mem |-> mm.mem]
  BY DEF Machine
<1>2. CASE f = STATUS
  <2>1. SetBit(mm, f, b, to) = IF b = C THEN [mm EXCEPT !.c = to] ELSE [mm EXCEPT !.z = to]
    BY <1>2 DEF SetBit
  <2>2. [mm EXCEPT !.c = to] \in Machine(Cells) /\ [mm EXCEPT !.z = to] \in Machine(Cells)
    BY <1>1 DEF Machine
  <2> QED BY <2>1, <2>2
<1>3. CASE f # STATUS
  <2> DEFINE v == mm.mem[f] + (to - BitOf(mm.mem[f], b)) * 2^b
  <2>1. SetBit(mm, f, b, to) = [mm EXCEPT !.mem = [mm.mem EXCEPT ![f] = v]]
    BY <1>1, <1>3 DEF SetBit
  <2>2. f \in Cells /\ mm.mem[f] \in Byte /\ b \in 0..7
    BY <1>1, <1>3
  <2>3. v \in Byte
    BY <2>2, BitRange
  <2> HIDE DEF v
  <2>4. [mm.mem EXCEPT ![f] = v] \in [Cells -> Byte]
    BY <1>1, <2>2, <2>3
  <2> QED BY <1>1, <2>1, <2>4 DEF Machine
<1> QED BY <1>2, <1>3

Transfers == {"label", "goto", "call", "return"}

(* The kinds of instructions are apart.                                    *)
LEMMA OpsApart ==
  /\ LiteralOps \cap ({"movwf", "clrf"} \cup FileOps \cup BitOps \cup Transfers) = {}
  /\ FileOps \cap ({"movwf", "clrf"} \cup BitOps \cup Transfers) = {}
  /\ BitOps \cap ({"movwf", "clrf"} \cup Transfers) = {}
  BY DEF LiteralOps, FileOps, BitOps, Transfers

(* What each kind of instruction does.                                     *)
Wrote(mm, f, v) == [w |-> mm.w, c |-> mm.c, z |-> mm.z, mem |-> [mm.mem EXCEPT ![f] = v]]
Cleared(mm, f) == [w |-> mm.w, c |-> mm.c, z |-> 1, mem |-> [mm.mem EXCEPT ![f] = 0]]

(* Each kind's effect.                                                     *)
LEMMA ExecCases ==
  ASSUME NEW mm \in Machine(Cells), NEW i, NEW e, e = Exec(mm, i)
  PROVE  /\ i[1] = "movwf" => e = Wrote(mm, i[2], mm.w)
         /\ i[1] = "clrf" => e = Cleared(mm, i[2])
         /\ i[1] \in {"btfsc", "btfss"} => e = mm
         /\ i[1] = "bcf" => e = SetBit(mm, i[2], i[3], 0)
         /\ i[1] = "bsf" => e = SetBit(mm, i[2], i[3], 1)
         /\ i[1] \in LiteralOps => e = Alu(mm, i[1], i[2], FALSE, i[2])
         /\ i[1] \in FileOps => e = Alu(mm, i[1], mm.mem[i[2]], i[3] = "f", i[2])
<1>1. mm = [w |-> mm.w, c |-> mm.c, z |-> mm.z, mem |-> mm.mem] /\ mm.mem \in [Cells -> Byte]
  BY MachineIs
<1>2. ASSUME i[1] = "movwf" PROVE e = Wrote(mm, i[2], mm.w)
  <2>1. e = [mm EXCEPT !.mem[i[2]] = mm.w]
    BY <1>2 DEF Exec, LiteralOps
  <2> QED BY <1>1, <2>1 DEF Wrote
<1>3. ASSUME i[1] = "clrf" PROVE e = Cleared(mm, i[2])
  <2>1. e = [mm EXCEPT !.mem[i[2]] = 0, !.z = 1]
    BY <1>3 DEF Exec, LiteralOps
  <2> QED BY <1>1, <2>1 DEF Cleared
<1>4. i[1] \in {"btfsc", "btfss"} => e = mm
  BY DEF Exec, LiteralOps
<1>5. i[1] = "bcf" => e = SetBit(mm, i[2], i[3], 0)
  BY DEF Exec, LiteralOps
<1>6. i[1] = "bsf" => e = SetBit(mm, i[2], i[3], 1)
  BY DEF Exec, LiteralOps
<1>7. i[1] \in LiteralOps => e = Alu(mm, i[1], i[2], FALSE, i[2])
  BY DEF Exec, LiteralOps
<1>8. i[1] \in FileOps => e = Alu(mm, i[1], mm.mem[i[2]], i[3] = "f", i[2])
  BY DEF Exec, LiteralOps, FileOps
<1> QED BY <1>2, <1>3, <1>4, <1>5, <1>6, <1>7, <1>8

(* A store leaves a machine, and the cell holds what was stored.           *)
LEMMA WroteIs ==
  ASSUME NEW mm \in Machine(Cells), NEW f \in Cells, NEW v \in Byte, NEW e, e = Wrote(mm, f, v)
  PROVE  /\ e \in Machine(Cells) /\ e.w = mm.w /\ e.c = mm.c /\ e.z = mm.z /\ e.mem[f] = v
<1>1. mm.w \in Byte /\ mm.c \in 0..1 /\ mm.z \in 0..1 /\ mm.mem \in [Cells -> Byte]
  BY MachineIs
<1>2. [mm.mem EXCEPT ![f] = v] \in [Cells -> Byte] /\ [mm.mem EXCEPT ![f] = v][f] = v
  BY <1>1
<1>3. e \in Machine(Cells)
  BY <1>1, <1>2, MachineIs DEF Wrote
<1> QED BY <1>2, <1>3 DEF Wrote

(* Every instruction leaves a machine; what the kinds that beliefs rest on *)
(* do to W, the cell and the flags.                                        *)
LEMMA ExecIs ==
  ASSUME NEW mm \in Machine(Cells), NEW i, IsLine(i), i[1] \notin Transfers, NEW e, e = Exec(mm, i)
  PROVE  /\ e \in Machine(Cells)
         /\ i[1] = "movwf" => i[2] \in Cells /\ e.w = mm.w /\ e.c = mm.c /\ e.z = mm.z /\ e.mem[i[2]] = e.w
         /\ i[1] \in LiteralOps => i[2] \in Byte /\ ToW(mm, i[1], i[2], e)
         /\ i[1] \in FileOps => i[2] \in Cells /\ mm.mem[i[2]] \in Byte
                /\ (i[3] # "f" => ToW(mm, i[1], mm.mem[i[2]], e))
<1>0. mm.w \in Byte /\ mm.c \in 0..1 /\ mm.mem \in [Cells -> Byte]
  BY MachineIs
<1>1. CASE i[1] = "movwf"
  <2>1. i[2] \in Cells
    BY <1>1, OpsApart DEF IsLine, Transfers
  <2>2. e = Wrote(mm, i[2], mm.w)
    BY <1>1, ExecCases
  <2>3. i[1] \notin LiteralOps /\ i[1] \notin FileOps
    BY <1>1, OpsApart
  <2> QED BY <1>0, <1>1, <2>1, <2>2, <2>3, WroteIs
<1>2. CASE i[1] = "clrf"
  <2>1. i[2] \in Cells
    BY <1>2, OpsApart DEF IsLine, Transfers
  <2>2. e = Cleared(mm, i[2])
    BY <1>2, ExecCases
  <2>3. i[1] \notin LiteralOps /\ i[1] \notin FileOps /\ i[1] # "movwf"
    BY <1>2, OpsApart
  <2>4. [mm.mem EXCEPT ![i[2]] = 0] \in [Cells -> Byte]
    BY <1>0, <2>1 DEF Byte
  <2>5. e \in Machine(Cells)
    BY <1>0, <2>2, <2>4, MachineIs DEF Cleared
  <2> QED BY <2>3, <2>5
<1>3. CASE i[1] \in BitOps
  <2>1. (i[2] \in Cells /\ i[3] \in 0..7) \/ (i[2] = STATUS /\ i[3] \in {C, Z})
    BY <1>3, OpsApart DEF IsLine, Transfers
  <2>2. e \in {mm, SetBit(mm, i[2], i[3], 0), SetBit(mm, i[2], i[3], 1)}
    BY <1>3, ExecCases DEF BitOps
  <2>3. 0 \in 0..1 /\ 1 \in 0..1
    OBVIOUS
  <2>4. SetBit(mm, i[2], i[3], 0) \in Machine(Cells) /\ SetBit(mm, i[2], i[3], 1) \in Machine(Cells)
    BY <2>1, <2>3, SetBitIs
  <2>5. i[1] \notin LiteralOps /\ i[1] \notin FileOps /\ i[1] # "movwf"
    BY <1>3, OpsApart
  <2> QED BY <2>2, <2>4, <2>5
<1>4. CASE i[1] \in LiteralOps
  <2>1. i[2] \in Byte
    BY <1>4, OpsApart DEF IsLine, Transfers
  <2>2. e = Alu(mm, i[1], i[2], FALSE, i[2])
    BY <1>4, ExecCases
  <2>3. i[1] \in AluOps
    BY <1>4 DEF AluOps
  <2>4. ToW(mm, i[1], i[2], e)
    BY <2>1, <2>2, <2>3, AluLiteral
  <2>5. e \in Machine(Cells)
    BY <2>4 DEF ToW, Flags
  <2>6. i[1] \notin FileOps /\ i[1] # "movwf"
    BY <1>4, OpsApart
  <2> QED BY <2>1, <2>4, <2>5, <2>6
<1>5. CASE i[1] \in FileOps
  <2>1. i[2] \in Cells
    BY <1>5, OpsApart DEF IsLine, Transfers
  <2>2. e = Alu(mm, i[1], mm.mem[i[2]], i[3] = "f", i[2])
    BY <1>5, ExecCases
  <2>3. i[1] \in AluOps /\ mm.mem[i[2]] \in Byte
    BY <1>0, <1>5, <2>1 DEF AluOps
  <2>4. ASSUME i[3] # "f" PROVE ToW(mm, i[1], mm.mem[i[2]], e)
    <3>1. (i[3] = "f") = FALSE
      BY <2>4
    <3>2. e = Alu(mm, i[1], mm.mem[i[2]], FALSE, i[2])
      BY <2>2, <3>1, Zenon
    <3> QED BY <2>3, <3>2, AluLiteral, Zenon
  <2>5. ASSUME i[3] = "f" PROVE Flags(mm, i[1], mm.mem[i[2]], e)
    <3>1. e = Alu(mm, i[1], mm.mem[i[2]], "f" = "f", i[2])
      BY <2>2, <2>5, Zenon
    <3> QED BY <2>1, <2>3, <3>1, AluToFile, Zenon
  <2>6. e \in Machine(Cells)
    BY <2>4, <2>5 DEF ToW, Flags
  <2>7. i[1] \notin LiteralOps /\ i[1] # "movwf"
    BY <1>5, OpsApart
  <2> QED BY <2>1, <2>3, <2>4, <2>6, <2>7
<1> QED BY <1>1, <1>2, <1>3, <1>4, <1>5 DEF IsLine, Transfers

-----------------------------------------------------------------------------
(* Steps and turns.                                                        *)

States(code, max) == [m : Machine(Cells), pc : 1..Len(code) + 2, left : 0..max]
St(mm, pc0, left) == [m |-> mm, pc |-> pc0, left |-> left]

IsCode(code) == Len(code) \in Nat /\ DOMAIN code = 1..Len(code) /\ \A j \in 1..Len(code) : IsLine(code[j])

(* The states of a turn.                                                   *)
LEMMA StateIs ==
  ASSUME NEW code, Len(code) \in Nat, NEW max \in Nat
  PROVE  /\ \A s \in States(code, max) :
                /\ s = St(s.m, s.pc, s.left) /\ s.m \in Machine(Cells)
                /\ s.pc \in 1..Len(code) + 2 /\ s.left \in 0..max
         /\ \A mm \in Machine(Cells), q \in 1..Len(code) + 2, left \in 0..max :
                /\ St(mm, q, left) \in States(code, max)
                /\ St(mm, q, left).m = mm /\ St(mm, q, left).pc = q /\ St(mm, q, left).left = left
  BY DEF States, St

(* Where a step goes.                                                      *)
StepTo(code, s, e) ==
    LET i == code[s.pc]
    IN  \/ i[1] = "label" /\ e = St(s.m, s.pc + 1, s.left - 1)
        \/ /\ i[1] \notin {"label", "goto"}
           /\ e = St(Exec(s.m, i), s.pc + (IF Skips(s.m, i) THEN 2 ELSE 1), s.left - 1)
        \/ i[1] = "goto" /\ e = St(s.m, s.pc, 0)
        \/ /\ i[1] = "goto"
           /\ \E j \in DOMAIN code : code[j] = <<"label", i[2]>> /\ e \in {St(s.m, j, 0), St(s.m, j, s.left - 1)}

(* A step goes to one of five places.                                      *)
LEMMA StepCases ==
  ASSUME NEW code, Len(code) \in Nat, NEW max \in Nat, NEW s \in States(code, max), NEW e,
         e = Step(code, s)
  PROVE  StepTo(code, s, e)
<1> DEFINE i == code[s.pc]
           at == {j \in DOMAIN code : i[1] = "goto" /\ code[j] = <<"label", i[2]>>}
           to == CHOOSE j \in at : TRUE
<1>1. s = [m |-> s.m, pc |-> s.pc, left |-> s.left]
  BY StateIs DEF St
<1>2. CASE i[1] = "label"
  <2>1. e = [s EXCEPT !.pc = @ + 1, !.left = @ - 1]
    BY <1>2 DEF Step
  <2>2. e = [m |-> s.m, pc |-> s.pc + 1, left |-> s.left - 1]
    BY <1>1, <2>1
  <2> QED BY <1>2, <2>2 DEF StepTo, St
<1>3. CASE i[1] \notin {"label", "goto"}
  <2>1. e = [m |-> Exec(s.m, i), pc |-> s.pc + (IF Skips(s.m, i) THEN 2 ELSE 1), left |-> s.left - 1]
    BY <1>3, Zenon DEF Step
  <2> QED BY <1>3, <2>1 DEF StepTo, St
<1>4. CASE i[1] = "goto" /\ at = {}
  <2>1. e = [s EXCEPT !.left = 0]
    BY <1>4 DEF Step
  <2>2. e = [m |-> s.m, pc |-> s.pc, left |-> 0]
    BY <1>1, <2>1
  <2> QED BY <1>4, <2>2 DEF StepTo, St
<1>5. CASE i[1] = "goto" /\ at # {}
  <2>1. to \in at
    BY <1>5
  <2>2. e = [s EXCEPT !.pc = to, !.left = IF to < s.pc THEN 0 ELSE @ - 1]
    BY <1>5 DEF Step
  <2>3. to \in DOMAIN code /\ code[to] = <<"label", i[2]>>
    BY <2>1
  <2> HIDE DEF to
  <2>4. e = [m |-> s.m, pc |-> to, left |-> IF to < s.pc THEN 0 ELSE s.left - 1]
    BY <1>1, <2>2
  <2>5. e \in {St(s.m, to, 0), St(s.m, to, s.left - 1)}
    BY <2>4 DEF St
  <2> QED BY <1>5, <2>3, <2>5 DEF StepTo
<1> QED BY <1>2, <1>3, <1>4, <1>5

(* A step stays in the code and uses one of the steps left.                *)
LEMMA StepIs ==
  ASSUME NEW code, IsCode(code), NEW max \in Nat, NEW s \in States(code, max),
         ~AtTurnsEnd(code, s), NEW e, e = Step(code, s)
  PROVE  e \in States(code, max) /\ e.left \in 0..s.left - 1
<1> DEFINE i == code[s.pc]
<1>0. Len(code) \in Nat /\ DOMAIN code = 1..Len(code)
  BY DEF IsCode
<1>1. s.m \in Machine(Cells) /\ s.pc \in 1..Len(code) /\ s.left \in 1..max /\ i[1] \notin {"call", "return"}
  BY <1>0, StateIs DEF AtTurnsEnd
<1>2. IsLine(i)
  BY <1>1 DEF IsCode
<1>3. StepTo(code, s, e)
  BY <1>0, StepCases
<1> HIDE DEF i
<1>4. \A mm \in Machine(Cells), q \in 1..Len(code) + 2, left \in 0..s.left - 1 :
        e = St(mm, q, left) => e \in States(code, max) /\ e.left \in 0..s.left - 1
  BY <1>0, <1>1, StateIs
<1>5. s.left - 1 \in 0..s.left - 1 /\ 0 \in 0..s.left - 1
  BY <1>1
<1>6. CASE i[1] = "label" /\ e = St(s.m, s.pc + 1, s.left - 1)
  <2>1. s.pc + 1 \in 1..Len(code) + 2
    BY <1>0, <1>1
  <2> QED BY <1>1, <1>4, <1>5, <1>6, <2>1
<1>7. CASE i[1] \notin {"label", "goto"}
           /\ e = St(Exec(s.m, i), s.pc + (IF Skips(s.m, i) THEN 2 ELSE 1), s.left - 1)
  <2>1. i[1] \notin Transfers
    BY <1>1, <1>7 DEF Transfers
  <2>2. Exec(s.m, i) \in Machine(Cells)
    BY <1>1, <1>2, <2>1, ExecIs
  <2>3. s.pc + (IF Skips(s.m, i) THEN 2 ELSE 1) \in 1..Len(code) + 2
    BY <1>0, <1>1
  <2> QED BY <1>4, <1>5, <1>7, <2>2, <2>3
<1>8. CASE i[1] = "goto" /\ e = St(s.m, s.pc, 0)
  <2>1. s.pc \in 1..Len(code) + 2
    BY <1>0, <1>1
  <2> QED BY <1>1, <1>4, <1>5, <1>8, <2>1
<1>9. CASE i[1] = "goto" /\ \E j \in DOMAIN code : e \in {St(s.m, j, 0), St(s.m, j, s.left - 1)}
  <2>1. PICK j \in 1..Len(code) : e \in {St(s.m, j, 0), St(s.m, j, s.left - 1)}
    BY <1>0, <1>9
  <2>2. j \in 1..Len(code) + 2
    BY <1>0, <2>1
  <2> QED BY <1>1, <1>4, <1>5, <2>1, <2>2
<1> QED BY <1>3, <1>6, <1>7, <1>8, <1>9 DEF StepTo, i

(* A turn is the function the steps define: it exists, as every step       *)
(* leaves less to go.                                                      *)
RunOf(code, D, f) == f = [s \in D |-> IF AtTurnsEnd(code, s) THEN s ELSE f[Step(code, s)]]

(* The function a turn is defined to be exists.                            *)
LEMMA RunExists ==
  ASSUME NEW code, IsCode(code), NEW max \in Nat, NEW D, D = States(code, max)
  PROVE  \E f : RunOf(code, D, f)
<1> DEFINE next(f) == [s \in D |-> IF AtTurnsEnd(code, s) THEN s ELSE f[Step(code, s)]]
           Upto(f, n) == \A s \in D : s.left <= n => f[s] = next(f)[s]
           P == {n \in 0..max : \E f : Upto(f, n)}
<1>0. Len(code) \in Nat
  BY DEF IsCode
<1>1. \A s \in D : s.left \in 0..max
  BY <1>0, StateIs
<1>2. \A s \in D : ~AtTurnsEnd(code, s) => Step(code, s) \in D /\ Step(code, s).left \in 0..s.left - 1
  BY StepIs
<1>3. \A s \in D : s.left = 0 => AtTurnsEnd(code, s)
  BY DEF AtTurnsEnd
<1>4. 0 \in P
  <2> DEFINE f == [s \in D |-> s]
  <2>1. \A s \in D : s.left <= 0 => f[s] = s /\ next(f)[s] = s
    <3> SUFFICES ASSUME NEW s \in D, s.left <= 0 PROVE f[s] = s /\ next(f)[s] = s
      OBVIOUS
    <3>1. AtTurnsEnd(code, s)
      BY <1>1, <1>3
    <3> QED BY <3>1
  <2>2. Upto(f, 0)
    BY <2>1
  <2> HIDE DEF f, Upto
  <2>3. \E h : Upto(h, 0)
    BY <2>2
  <2> QED BY <2>3
<1>5. ASSUME NEW n \in 1..max, n - 1 \in P PROVE n \in P
  <2>1. PICK f : Upto(f, n - 1)
    BY <1>5
  <2> DEFINE e == next(f)
  <2>2. ASSUME NEW s \in D, s.left <= n PROVE e[s] = next(e)[s]
    <3>1. CASE AtTurnsEnd(code, s)
      BY <3>1
    <3>2. CASE ~AtTurnsEnd(code, s)
      <4> DEFINE t == Step(code, s)
      <4>1. t \in D /\ t.left <= n - 1
        <5>1. t \in D /\ t.left \in 0..s.left - 1 /\ s.left \in 0..max
          BY <1>1, <1>2, <3>2
        <5> HIDE DEF t
        <5> QED BY <2>2, <5>1
      <4>2. e[s] = f[t] /\ next(e)[s] = e[t]
        BY <3>2
      <4>3. f[t] = e[t]
        <5> HIDE DEF t
        <5> QED BY <2>1, <4>1
      <4> QED BY <4>2, <4>3
    <3> QED BY <3>1, <3>2
  <2>3. Upto(e, n)
    BY <2>2
  <2> HIDE DEF e, Upto
  <2>4. \E h : Upto(h, n)
    BY <2>3
  <2> QED BY <2>4
<1> HIDE DEF P
<1>6. \A n \in 0..max : n \in P
  BY <1>4, <1>5, Climbs
<1>7. PICK f : Upto(f, max)
  BY <1>6 DEF P
<1> DEFINE r == next(f)
<1>8. ASSUME NEW s \in D PROVE r[s] = next(r)[s]
  <2>1. \A t \in D : f[t] = r[t]
    BY <1>1, <1>7
  <2>2. CASE AtTurnsEnd(code, s)
    BY <2>2
  <2>3. CASE ~AtTurnsEnd(code, s)
    <3>1. r[s] = f[Step(code, s)] /\ next(r)[s] = r[Step(code, s)]
      BY <2>3
    <3>2. Step(code, s) \in D
      BY <1>2, <2>3
    <3> HIDE DEF r
    <3> QED BY <2>1, <3>1, <3>2
  <2> QED BY <2>2, <2>3
<1>9. r = next(r)
  <2>1. r = [s \in D |-> r[s]]
    OBVIOUS
  <2>2. next(r) = [s \in D |-> next(r)[s]]
    OBVIOUS
  <2> HIDE DEF r, next
  <2> QED BY <1>8, <2>1, <2>2
<1> HIDE DEF r
<1> QED BY <1>9 DEF RunOf

(* What every step of a turn keeps holds at its end.                       *)
LEMMA TurnIs ==
  ASSUME NEW code, IsCode(code), NEW max \in Nat, NEW I, I \subseteq States(code, max),
         \A s \in I : ~AtTurnsEnd(code, s) => Step(code, s) \in I,
         NEW mm, NEW q, St(mm, q, max) \in I, NEW e, e = TurnOf(Cells, max, code, mm, q)
  PROVE  e \in I /\ AtTurnsEnd(code, e)
<1> DEFINE D == States(code, max)
           run == CHOOSE f : RunOf(code, D, f)
<1>0. Len(code) \in Nat
  BY DEF IsCode
<1>1. RunOf(code, D, run)
  <2>1. \E f : RunOf(code, D, f)
    BY RunExists
  <2> HIDE DEF D
  <2> QED BY <2>1
<1>2. e = run[St(mm, q, max)]
  BY DEF TurnOf, RunOf, States, St
<1>3. \A s \in D : s.left \in 0..max
  BY <1>0, StateIs
<1>4. \A s \in D : ~AtTurnsEnd(code, s) => Step(code, s) \in D /\ Step(code, s).left \in 0..s.left - 1
  BY StepIs
<1> HIDE DEF run
<1>5. \A s \in D : run[s] = IF AtTurnsEnd(code, s) THEN s ELSE run[Step(code, s)]
  BY <1>1 DEF RunOf
<1> HIDE DEF D
<1> DEFINE P == {n \in 0..max : \A s \in I : s.left <= n => run[s] \in I /\ AtTurnsEnd(code, run[s])}
<1>a. I \subseteq D
  BY DEF D
<1>6. 0 \in P
  <2> SUFFICES ASSUME NEW s \in I, s.left <= 0 PROVE run[s] \in I /\ AtTurnsEnd(code, run[s])
    OBVIOUS
  <2>1. s.left = 0
    BY <1>3, <1>a
  <2>2. AtTurnsEnd(code, s)
    BY <2>1 DEF AtTurnsEnd
  <2>3. run[s] = s
    BY <1>5, <1>a, <2>2
  <2> QED BY <2>2, <2>3
<1>7. ASSUME NEW n \in 1..max, n - 1 \in P PROVE n \in P
  <2> SUFFICES ASSUME NEW s \in I, s.left <= n PROVE run[s] \in I /\ AtTurnsEnd(code, run[s])
    OBVIOUS
  <2>1. CASE AtTurnsEnd(code, s)
    <3>1. run[s] = s
      BY <1>5, <1>a, <2>1
    <3> QED BY <2>1, <3>1
  <2>2. CASE ~AtTurnsEnd(code, s)
    <3> DEFINE t == Step(code, s)
    <3>1. run[s] = run[t] /\ t \in I /\ t.left \in 0..s.left - 1 /\ s.left \in 0..max
      BY <1>3, <1>4, <1>5, <1>a, <2>2
    <3> HIDE DEF t
    <3>2. t.left <= n - 1
      BY <3>1
    <3> QED BY <1>7, <3>1, <3>2
  <2> QED BY <2>1, <2>2
<1> HIDE DEF P
<1>8. \A n \in 0..max : n \in P
  BY <1>6, <1>7, Climbs
<1>9. \A s \in I : s.left <= max => run[s] \in I /\ AtTurnsEnd(code, run[s])
  BY <1>8 DEF P
<1>10. St(mm, q, max).left <= max
  BY DEF St
<1> QED BY <1>2, <1>9, <1>10

-----------------------------------------------------------------------------
(* Two turns side by side.                                                 *)

(* A turn that is in s comes to e: at once, or in one or two steps.        *)
Comes(code, s, e) ==
    \/ e = s
    \/ /\ ~AtTurnsEnd(code, s)
       /\ \/ e = Step(code, s)
          \/ ~AtTurnsEnd(code, Step(code, s)) /\ e = Step(code, Step(code, s))

(* A turn's end is that of any state it comes to.                          *)
LEMMA ComesIs ==
  ASSUME NEW code, IsCode(code), NEW max \in Nat, NEW s \in States(code, max), NEW e,
         Comes(code, s, e), NEW f, RunOf(code, States(code, max), f)
  PROVE  e \in States(code, max) /\ f[e] = f[s]
<1> DEFINE D == States(code, max)
<1>1. \A u \in D : ~AtTurnsEnd(code, u) => Step(code, u) \in D
  BY StepIs
<1>2. \A u \in D : ~AtTurnsEnd(code, u) => f[u] = f[Step(code, u)]
  BY DEF RunOf
<1> HIDE DEF D
<1>a. s \in D
  BY DEF D
<1>3. CASE e = s
  BY <1>3
<1>4. CASE ~AtTurnsEnd(code, s) /\ e = Step(code, s)
  BY <1>1, <1>2, <1>4, <1>a DEF D
<1>5. CASE ~AtTurnsEnd(code, s) /\ ~AtTurnsEnd(code, Step(code, s)) /\ e = Step(code, Step(code, s))
  <2>1. Step(code, s) \in D /\ f[s] = f[Step(code, s)]
    BY <1>1, <1>2, <1>5, <1>a
  <2>2. e \in D /\ f[Step(code, s)] = f[e]
    BY <1>1, <1>2, <1>5, <2>1
  <2> QED BY <2>1, <2>2 DEF D
<1> QED BY <1>3, <1>4, <1>5 DEF Comes

(* Every pair of R is the turns' ends, or comes to one with less to go.    *)
Follows(a, b, R) ==
    \A p \in R :
        \/ AtTurnsEnd(a, p[1]) /\ AtTurnsEnd(b, p[2])
        \/ \E q \in R : /\ Comes(a, p[1], q[1]) /\ Comes(b, p[2], q[2])
                        /\ q[1].left + q[2].left < p[1].left + p[2].left

(* Two turns in step end in step: each pair of R comes to a pair of R with *)
(* less to go, until both turns end.                                       *)
LEMMA TurnsPaired ==
  ASSUME NEW a, IsCode(a), NEW b, IsCode(b), NEW max \in Nat,
         NEW R, R \subseteq States(a, max) \X States(b, max), Follows(a, b, R),
         NEW ma, NEW mb, NEW pa, NEW pb, <<St(ma, pa, max), St(mb, pb, max)>> \in R
  PROVE  LET u == TurnOf(Cells, max, a, ma, pa)
             v == TurnOf(Cells, max, b, mb, pb)
         IN  <<u, v>> \in R /\ AtTurnsEnd(a, u) /\ AtTurnsEnd(b, v)
<1> DEFINE Da == States(a, max)
           Db == States(b, max)
           fa == CHOOSE f : RunOf(a, Da, f)
           fb == CHOOSE f : RunOf(b, Db, f)
           Ends(p) == /\ <<fa[p[1]], fb[p[2]]>> \in R
                      /\ AtTurnsEnd(a, fa[p[1]]) /\ AtTurnsEnd(b, fb[p[2]])
<1>0. Len(a) \in Nat /\ Len(b) \in Nat
  BY DEF IsCode
<1>1. RunOf(a, Da, fa) /\ RunOf(b, Db, fb)
  <2>1. (\E f : RunOf(a, Da, f)) /\ (\E f : RunOf(b, Db, f))
    BY RunExists
  <2> HIDE DEF Da, Db
  <2> QED BY <2>1
<1>2. /\ TurnOf(Cells, max, a, ma, pa) = fa[St(ma, pa, max)]
      /\ TurnOf(Cells, max, b, mb, pb) = fb[St(mb, pb, max)]
  BY DEF TurnOf, RunOf, States, St
<1> HIDE DEF fa, fb
<1>3. \A p \in R : /\ p[1] \in Da /\ p[2] \in Db /\ p = <<p[1], p[2]>>
                   /\ p[1].left \in 0..max /\ p[2].left \in 0..max
  <2>1. \A s \in Da : s.left \in 0..max
    BY <1>0, StateIs
  <2>2. \A s \in Db : s.left \in 0..max
    BY <1>0, StateIs
  <2> HIDE DEF Da, Db
  <2>3. R \subseteq Da \X Db
    BY DEF Da, Db
  <2> QED BY <2>1, <2>2, <2>3
<1>4. ASSUME NEW p \in R, AtTurnsEnd(a, p[1]), AtTurnsEnd(b, p[2]) PROVE Ends(p)
  <2>1. fa[p[1]] = p[1] /\ fb[p[2]] = p[2]
    BY <1>1, <1>3, <1>4 DEF RunOf
  <2> QED BY <1>3, <1>4, <2>1
<1>5. ASSUME NEW p \in R, NEW q \in R, Comes(a, p[1], q[1]), Comes(b, p[2], q[2]), Ends(q)
      PROVE  Ends(p)
  <2>1. fa[q[1]] = fa[p[1]] /\ fb[q[2]] = fb[p[2]]
    BY <1>1, <1>3, <1>5, ComesIs
  <2> QED BY <1>5, <2>1
<1> HIDE DEF Ends, Da, Db
<1> DEFINE togo(p) == p[1].left + p[2].left
           P == {n \in 0..2 * max : \A p \in R : togo(p) <= n => Ends(p)}
<1>6. \A p \in R : togo(p) \in 0..2 * max
  BY <1>3
<1>7. \A p \in R : ~(AtTurnsEnd(a, p[1]) /\ AtTurnsEnd(b, p[2])) =>
        \E q \in R : Comes(a, p[1], q[1]) /\ Comes(b, p[2], q[2]) /\ togo(q) < togo(p)
  BY DEF Follows
<1> HIDE DEF togo
<1>8. 0 \in P
  <2> SUFFICES ASSUME NEW p \in R, togo(p) <= 0 PROVE Ends(p)
    OBVIOUS
  <2>1. ~\E q \in R : togo(q) < togo(p)
    BY <1>6
  <2> QED BY <1>4, <1>7, <2>1
<1>9. ASSUME NEW n \in 1..2 * max, n - 1 \in P PROVE n \in P
  <2> SUFFICES ASSUME NEW p \in R, togo(p) <= n PROVE Ends(p)
    OBVIOUS
  <2>1. CASE AtTurnsEnd(a, p[1]) /\ AtTurnsEnd(b, p[2])
    BY <1>4, <2>1
  <2>2. CASE ~(AtTurnsEnd(a, p[1]) /\ AtTurnsEnd(b, p[2]))
    <3>1. PICK q \in R : Comes(a, p[1], q[1]) /\ Comes(b, p[2], q[2]) /\ togo(q) < togo(p)
      BY <1>7, <2>2
    <3>2. togo(q) <= n - 1
      BY <1>6, <3>1
    <3>3. Ends(q)
      BY <1>9, <3>2
    <3> QED BY <1>5, <3>1, <3>3
  <2> QED BY <2>1, <2>2
<1> HIDE DEF P
<1>10. 2 * max \in Nat /\ \A n \in 0..2 * max : n \in P
  BY <1>8, <1>9, Climbs
<1>11. \A p \in R : Ends(p)
  <2>1. 2 * max \in P
    BY <1>10
  <2> QED BY <1>6, <2>1 DEF P
<1>12. Ends(<<St(ma, pa, max), St(mb, pb, max)>>)
  BY <1>11
<1> QED BY <1>2, <1>12 DEF Ends

-----------------------------------------------------------------------------
(* Steps of two texts with the same labels.                                *)

SameLabels(a, b) ==
    /\ Len(b) = Len(a)
    /\ \A j \in 1..Len(a) : (a[j][1] = "label" \/ b[j][1] = "label") => a[j] = b[j]

(* A step of an instruction executes it, and passes one line or, at a skip *)
(* taken, two.                                                             *)
LEMMA InsnStep ==
  ASSUME NEW code, Len(code) \in Nat, NEW max \in Nat, NEW s \in States(code, max),
         code[s.pc][1] \notin {"label", "goto"}
  PROVE  Step(code, s) = St(Exec(s.m, code[s.pc]),
                            s.pc + (IF Skips(s.m, code[s.pc]) THEN 2 ELSE 1), s.left - 1)
<1>1. StepTo(code, s, Step(code, s))
  BY StepCases
<1> QED BY <1>1 DEF StepTo

(* Where a label or a jump leads: on, to a later label, or to its end.     *)
Leads(code, s, q, left) ==
    \/ q = s.pc + 1 /\ code[s.pc][1] = "label" /\ left = s.left - 1
    \/ q \in s.pc + 1..Len(code) /\ code[q][1] = "label" /\ left = s.left - 1
    \/ q \in 1..Len(code) /\ code[q][1] \in {"label", "goto"} /\ left = 0

Targets(code, i) == {j \in DOMAIN code : i[1] = "goto" /\ code[j] = <<"label", i[2]>>}
Target(code, i) == CHOOSE j \in Targets(code, i) : TRUE

(* A step of a jump.                                                       *)
LEMMA GotoStep ==
  ASSUME NEW code, Len(code) \in Nat, NEW max \in Nat, NEW s \in States(code, max), NEW i,
         i = code[s.pc], i[1] = "goto", Targets(code, i) # {}, NEW to, to = Target(code, i)
  PROVE  Step(code, s) = St(s.m, to, IF to < s.pc THEN 0 ELSE s.left - 1)
<1>1. s = [m |-> s.m, pc |-> s.pc, left |-> s.left]
  BY StateIs DEF St
<1>2. Step(code, s) = [s EXCEPT !.pc = to, !.left = IF to < s.pc THEN 0 ELSE @ - 1]
  BY DEF Step, Targets, Target
<1> QED BY <1>1, <1>2 DEF St

(* Two texts with the same labels jump to the same place.                  *)
LEMMA JumpStep ==
  ASSUME NEW a, IsCode(a), NEW b, IsCode(b), SameLabels(a, b), NEW max \in Nat,
         NEW s \in States(a, max), NEW t \in States(b, max), t.pc = s.pc, t.left = s.left,
         b[s.pc] = a[s.pc], a[s.pc][1] \in {"label", "goto"}, s.pc <= Len(a)
  PROVE  \E q, left : /\ Step(a, s) = St(s.m, q, left) /\ Step(b, t) = St(t.m, q, left)
                      /\ Leads(a, s, q, left)
<1> DEFINE i == a[s.pc]
           at == {j \in DOMAIN a : i[1] = "goto" /\ a[j] = <<"label", i[2]>>}
           to == CHOOSE j \in at : TRUE
<1>0. Len(a) \in Nat /\ DOMAIN a = 1..Len(a) /\ Len(b) = Len(a) /\ DOMAIN b = 1..Len(a)
  BY DEF IsCode, SameLabels
<1>1. /\ s = [m |-> s.m, pc |-> s.pc, left |-> s.left] /\ s.pc \in 1..Len(a)
      /\ t = [m |-> t.m, pc |-> s.pc, left |-> s.left]
  BY <1>0, StateIs DEF St
<1>2. at = {j \in DOMAIN b : b[s.pc][1] = "goto" /\ b[j] = <<"label", b[s.pc][2]>>}
  <2>1. \A j \in 1..Len(a) : a[j] = <<"label", i[2]>> <=> b[j] = <<"label", i[2]>>
    <3> SUFFICES ASSUME NEW j \in 1..Len(a) PROVE a[j] = <<"label", i[2]>> <=> b[j] = <<"label", i[2]>>
      OBVIOUS
    <3>1. a[j] = <<"label", i[2]>> => a[j][1] = "label"
      OBVIOUS
    <3>2. b[j] = <<"label", i[2]>> => b[j][1] = "label"
      OBVIOUS
    <3> QED BY <3>1, <3>2 DEF SameLabels
  <2> QED BY <1>0, <2>1
<1>3. CASE i[1] = "label"
  <2>1. Step(a, s) = [s EXCEPT !.pc = @ + 1, !.left = @ - 1] /\ Step(b, t) = [t EXCEPT !.pc = @ + 1, !.left = @ - 1]
    BY <1>3 DEF Step
  <2>2. Step(a, s) = St(s.m, s.pc + 1, s.left - 1) /\ Step(b, t) = St(t.m, s.pc + 1, s.left - 1)
    BY <1>1, <2>1 DEF St
  <2> QED BY <1>3, <2>2 DEF Leads
<1>4. CASE i[1] = "goto" /\ at = {}
  <2>1. Step(a, s) = [s EXCEPT !.left = 0]
    BY <1>4 DEF Step
  <2>2. Step(b, t) = [t EXCEPT !.left = 0]
    BY <1>2, <1>4 DEF Step
  <2>3. Step(a, s) = St(s.m, s.pc, 0) /\ Step(b, t) = St(t.m, s.pc, 0)
    BY <1>1, <2>1, <2>2 DEF St
  <2>4. Leads(a, s, s.pc, 0)
    BY <1>1, <1>4 DEF Leads
  <2> QED BY <2>3, <2>4
<1>5. CASE i[1] = "goto" /\ at # {}
  <2> DEFINE left == IF to < s.pc THEN 0 ELSE s.left - 1
  <2>1. Targets(a, i) = at /\ Targets(b, i) = at /\ Target(a, i) = to /\ Target(b, i) = to
    BY <1>2, <1>5 DEF Targets, Target
  <2>2. to \in at
    BY <1>5
  <2>3. to \in 1..Len(a) /\ a[to] = <<"label", i[2]>>
    BY <1>0, <2>2
  <2> HIDE DEF to, at
  <2>4. Step(a, s) = St(s.m, to, left)
    <3>1. i = a[s.pc] /\ Targets(a, i) # {} /\ to = Target(a, i)
      BY <1>5, <2>1
    <3> QED BY <1>0, <1>5, <3>1, GotoStep
  <2>5. Step(b, t) = St(t.m, to, left)
    <3>1. i = b[t.pc] /\ Targets(b, i) # {} /\ to = Target(b, i)
      BY <1>5, <2>1
    <3>2. Step(b, t) = St(t.m, to, IF to < t.pc THEN 0 ELSE t.left - 1)
      BY <1>0, <1>5, <3>1, GotoStep
    <3> QED BY <3>2
  <2>6. to # s.pc /\ a[to][1] = "label"
    BY <1>5, <2>3
  <2>7. Leads(a, s, to, left)
    BY <1>0, <1>1, <2>3, <2>6 DEF Leads
  <2> QED BY <2>4, <2>5, <2>7
<1> QED BY <1>3, <1>4, <1>5

(* A turn that does not jump back ends past the text's last line: there is *)
(* enough to go.                                                           *)
Bound(code, s) ==
    \/ s.left >= Len(code) + 1 - s.pc
    \/ s.left = 0 /\ s.pc <= Len(code) /\ code[s.pc][1] \in {"label", "goto"}

(* A step leaves enough to go.                                             *)
LEMMA BoundKept ==
  ASSUME NEW code, IsCode(code), NEW max \in Nat, NEW s \in States(code, max),
         Bound(code, s), ~AtTurnsEnd(code, s), NEW e, e = Step(code, s)
  PROVE  Bound(code, e)
<1>0. Len(code) \in Nat /\ s.pc \in 1..Len(code) /\ s.left \in 1..max
  BY StateIs DEF IsCode, AtTurnsEnd
<1>1. s.left >= Len(code) + 1 - s.pc
  BY <1>0 DEF Bound
<1>2. CASE code[s.pc][1] \in {"label", "goto"}
  <2>1. PICK q, left : e = St(s.m, q, left) /\ Leads(code, s, q, left)
    BY <1>0, <1>2, JumpStep DEF SameLabels
  <2>2. e.pc = q /\ e.left = left
    BY <2>1 DEF St
  <2>3. CASE q = s.pc + 1 /\ left = s.left - 1
    <3>1. s.left - 1 >= Len(code) + 1 - (s.pc + 1)
      BY <1>0, <1>1
    <3> QED BY <2>2, <2>3, <3>1, Zenon DEF Bound
  <2>4. CASE q \in s.pc + 1..Len(code) /\ left = s.left - 1
    <3>1. q \in Int /\ q >= s.pc + 1
      BY <1>0, <2>4
    <3>2. s.left - 1 >= Len(code) + 1 - q
      BY <1>0, <1>1, <3>1
    <3> QED BY <2>2, <2>4, <3>2, Zenon DEF Bound
  <2>5. CASE q \in 1..Len(code) /\ code[q][1] \in {"label", "goto"} /\ left = 0
    <3>1. q <= Len(code)
      BY <1>0, <2>5
    <3> QED BY <2>2, <2>5, <3>1, Zenon DEF Bound
  <2> QED BY <2>1, <2>3, <2>4, <2>5 DEF Leads
<1>3. CASE code[s.pc][1] \notin {"label", "goto"}
  <2>1. e = St(Exec(s.m, code[s.pc]),
               s.pc + (IF Skips(s.m, code[s.pc]) THEN 2 ELSE 1), s.left - 1)
    BY <1>0, <1>3, InsnStep
  <2>2. e.pc \in {s.pc + 1, s.pc + 2} /\ e.left = s.left - 1
    BY <2>1 DEF St
  <2>3. CASE e.pc = s.pc + 1
    <3>1. s.left - 1 >= Len(code) + 1 - (s.pc + 1)
      BY <1>0, <1>1
    <3> QED BY <2>2, <2>3, <3>1, Zenon DEF Bound
  <2>4. CASE e.pc = s.pc + 2
    <3>1. s.left - 1 >= Len(code) + 1 - (s.pc + 2)
      BY <1>0, <1>1
    <3> QED BY <2>2, <2>4, <3>1, Zenon DEF Bound
  <2> QED BY <2>2, <2>3, <2>4
<1> QED BY <1>2, <1>3
=============================================================================
