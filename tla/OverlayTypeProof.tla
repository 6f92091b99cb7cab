-------------------------- MODULE OverlayTypeProof --------------------------
(***************************************************************************)
(* Type correctness of Overlay for every device, program and choice of     *)
(* dip, and the facts about bases, contexts, slots and the return stack    *)
(* that the proofs about Overlay rest on.                                   *)
(*                                                                         *)
(* TypeOK is inductive only together with Settled: an interrupt region     *)
(* re-derives functions of its own context, so each function it meets is a *)
(* root of the region or has a caller there, and its base is the maximum   *)
(* of a set that is not empty.                                             *)
(***************************************************************************)
EXTENDS Overlay, FiniteSetTheorems, WellFoundedInduction, TLAPS

-----------------------------------------------------------------------------
(* The placement walk of DeviceRam, for every device and every frame:      *)
(* placing never moves down, a slot lies between the walk's positions      *)
(* before and after it, and live_high is inside the frame.                 *)

(* A frame's slot widths, as every placement helper takes them.            *)
WidthSeq == Seq(Nat \ {0})

(* Every non-empty set of naturals has a least element: the induction the  *)
(* other lemmas use, as a search for the least counterexample.             *)
LEMMA LeastNat ==
  ASSUME NEW T, T \subseteq Nat, T # {}
  PROVE  \E x \in T : \A y \in T : x <= y
<1>1. IsWellFoundedOn(OpToRel(<, Nat), Nat)
  BY NatLessThanWellFounded
<1>2. \E x \in T : \A y \in T : ~ (<<y, x>> \in OpToRel(<, Nat))
  BY <1>1, WFMin
<1>3. \E x \in T : \A y \in T : ~(y < x)
  BY <1>2, Zenon DEF OpToRel
<1> QED BY <1>3

(* Min of a non-empty set of naturals is its least element.                  *)
LEMMA MinOfLeast ==
  ASSUME NEW T, T \subseteq Nat, T # {}
  PROVE  Min(T) \in T /\ \A y \in T : Min(T) <= y
BY LeastNat DEF Min

(* A bounded non-empty set of naturals has a greatest element.             *)
LEMMA MaxOfGreatest ==
  ASSUME NEW T, T \subseteq Nat, T # {},
         NEW bound \in Nat, \A y \in T : y <= bound
  PROVE  Max(T) \in T /\ \A y \in T : y <= Max(T)
<1> DEFINE U == {u \in Nat : \A y \in T : y <= u}
<1>1. U \subseteq Nat /\ U # {}
  OBVIOUS
<1>2. PICK u \in U : \A v \in U : u <= v
  BY <1>1, LeastNat
<1>3. u \in T
  <2> SUFFICES ASSUME u \notin T PROVE FALSE
    OBVIOUS
  <2>1. \A y \in T : y <= u - 1
    OBVIOUS
  <2>2. u - 1 \in U
    <3>1. PICK y \in T : y \in Nat /\ y <= u - 1
      BY <2>1
    <3>2. u - 1 \in Nat
      BY <3>1, <1>1
    <3> QED BY <2>1, <3>2
  <2> QED BY <1>2, <2>2
<1>4. \A y \in T : y <= u
  BY <1>2
<1> QED BY <1>3, <1>4 DEF Max

(* place_contiguous never answers an address below the one it is given.    *)
LEMMA PlaceAtOrAbove ==
  ASSUME NEW a \in Nat, NEW w \in Nat
  PROVE  PlaceContiguous(a, w) \in Nat /\ PlaceContiguous(a, w) >= a
<1> DEFINE fitting == {i \in BanksFrom(a) : StartIn(i, a) + w - 1 <= Banks[i].hi}
<1>1. \A i \in 1..Len(Banks) : StartIn(i, a) \in Nat /\ StartIn(i, a) >= a
  BY BanksAssumption DEF StartIn, Larger
<1>2. fitting \subseteq 1..Len(Banks)
  BY DEF BanksFrom
<1>3. CASE fitting = {}
  BY <1>3 DEF PlaceContiguous, Larger, NoRoom
<1>4. CASE fitting # {}
  <2>1. Min(fitting) \in 1..Len(Banks)
    <3>1. fitting \subseteq Nat
      BY <1>2
    <3> HIDE DEF fitting
    <3> QED BY <1>2, <1>4, <3>1, MinOfLeast
  <2> QED BY <1>1, <1>4, <2>1 DEF PlaceContiguous
<1> QED BY <1>3, <1>4

(* The w bytes at a are inside one bank.                                   *)
InBank(a, w) ==
    \E i \in 1..Len(Banks) : Banks[i].lo <= a /\ a + w - 1 <= Banks[i].hi

(* Where place_contiguous finds room, the object is inside one bank.       *)
LEMMA PlaceInBank ==
  ASSUME NEW a \in Nat, NEW w \in Nat, PlaceContiguous(a, w) < NoRoom
  PROVE  InBank(PlaceContiguous(a, w), w)
<1> DEFINE fitting == {i \in BanksFrom(a) : StartIn(i, a) + w - 1 <= Banks[i].hi}
<1>1. fitting \subseteq 1..Len(Banks)
  BY DEF BanksFrom
<1>2. CASE fitting = {}
  BY <1>2 DEF PlaceContiguous, Larger, NoRoom
<1>3. CASE fitting # {}
  <2> DEFINE m == Min(fitting)
  <2>1. m \in fitting
    <3>1. fitting \subseteq Nat
      BY <1>1
    <3> HIDE DEF fitting
    <3> QED BY <1>3, <3>1, MinOfLeast
  <2>2. PlaceContiguous(a, w) = StartIn(m, a)
    BY <1>3 DEF PlaceContiguous
  <2> HIDE DEF m
  <2>3. m \in 1..Len(Banks) /\ StartIn(m, a) + w - 1 <= Banks[m].hi
    BY <1>1, <2>1
  <2>4. Banks[m].lo <= StartIn(m, a)
    BY <2>3, BanksAssumption DEF StartIn, Larger
  <2> QED BY <2>2, <2>3, <2>4 DEF InBank
<1> QED BY <1>2, <1>3

(* The equation of the placement walk.                                     *)
LEMMA CursorWalk ==
  ASSUME NEW b \in Nat, NEW ws \in WidthSeq
  PROVE  /\ Cursor(b, ws) \in [0..Len(ws) -> Nat]
         /\ Cursor(b, ws)[0] = b
         /\ \A k \in 1..Len(ws) :
               Cursor(b, ws)[k] = PlaceContiguous(Cursor(b, ws)[k - 1], ws[k]) + ws[k]
<1> DEFINE Step(c, k) == PlaceContiguous(c, ws[k]) + ws[k]
           Walk(c, n) == /\ c \in [0..n -> Nat]
                         /\ c[0] = b
                         /\ \A k \in 1..n : c[k] = Step(c[k - 1], k)
           Bad == {n \in 0..Len(ws) : ~ \E c : Walk(c, n)}
<1>1. Len(ws) \in Nat /\ \A k \in 1..Len(ws) : ws[k] \in Nat
  BY DEF WidthSeq
<1>2. \A c \in Nat, k \in 1..Len(ws) : Step(c, k) \in Nat
  <2> TAKE c \in Nat, k \in 1..Len(ws)
  <2>1. ws[k] \in Nat
    BY <1>1
  <2>2. PlaceContiguous(c, ws[k]) \in Nat
    BY <2>1, PlaceAtOrAbove
  <2> QED BY <2>1, <2>2
<1>3. Bad = {}
  <2> SUFFICES ASSUME Bad # {} PROVE FALSE
    OBVIOUS
  <2>1. Bad \subseteq Nat
    BY <1>1
  <2>2. PICK n \in Bad : \A m \in Bad : n <= m
    BY <2>1, LeastNat
  <2>3. n # 0
    <3>1. Walk([i \in 0..0 |-> b], 0)
      OBVIOUS
    <3> QED BY <3>1
  <2>4. n \in 1..Len(ws) /\ n - 1 \in 0..Len(ws)
    BY <2>3, <1>1
  <2>5. n - 1 \notin Bad
    <3>1. n \in Nat /\ ~(n <= n - 1)
      BY <2>1
    <3> QED BY <2>2, <3>1
  <2>6. PICK c : Walk(c, n - 1)
    BY <2>4, <2>5
  <2> DEFINE d == [i \in 0..n |-> IF i = n THEN Step(c[n - 1], n) ELSE c[i]]
  <2>7. d \in [0..n -> Nat] /\ d[0] = b
    <3>1. Step(c[n - 1], n) \in Nat
      <4>1. c[n - 1] \in Nat
        BY <1>1, <2>4, <2>6
      <4> HIDE DEF Step
      <4> QED BY <1>2, <2>4, <4>1
    <3>2. \A i \in 0..n : i # n => i \in 0..(n - 1)
      BY <2>4
    <3>3. \A i \in 0..n : d[i] \in Nat
      BY <3>1, <3>2, <2>6
    <3>4. 0 \in 0..n /\ 0 # n
      BY <2>4
    <3> HIDE DEF Step
    <3> QED BY <3>3, <3>4, <2>6
  <2>8. \A k \in 1..n : d[k] = Step(d[k - 1], k)
    <3> TAKE k \in 1..n
    <3>1. d[k - 1] = c[k - 1]
      BY <2>4
    <3>2. CASE k = n
      BY <3>1, <3>2
    <3>3. CASE k # n
      <4>1. k \in 1..(n - 1) /\ d[k] = c[k]
        BY <3>3, <2>4
      <4> QED BY <3>1, <4>1, <2>6
    <3> QED BY <3>2, <3>3
  <2>9. Walk(d, n)
    BY <2>7, <2>8
  <2> QED BY <2>9
<1>4. PICK c : Walk(c, Len(ws))
  <2>1. Len(ws) \in 0..Len(ws)
    BY <1>1
  <2> HIDE DEF Walk
  <2>2. \A n \in 0..Len(ws) : \E c : Walk(c, n)
    BY ONLY <1>3, Zenon
  <2> QED BY <2>1, <2>2
<1> DEFINE F(g) == [k \in 0..Len(ws) |-> IF k = 0 THEN b ELSE Step(g[k - 1], k)]
<1>5. c = F(c)
  <2>1. \A k \in 0..Len(ws) : c[k] = F(c)[k]
    BY <1>1, <1>4
  <2> QED BY <2>1, <1>4
<1>6. Cursor(b, ws) = CHOOSE g : g = F(g)
  BY DEF Cursor
<1> HIDE DEF F
<1>7. Cursor(b, ws) = F(Cursor(b, ws))
  BY <1>5, <1>6
<1> DEFINE q == Cursor(b, ws)
<1> HIDE DEF q
<1>8. /\ DOMAIN q = 0..Len(ws) /\ q = [k \in 0..Len(ws) |-> q[k]]
      /\ q[0] = b
      /\ \A k \in 1..Len(ws) : q[k] = Step(q[k - 1], k)
  <2>1. q = [k \in 0..Len(ws) |-> IF k = 0 THEN b ELSE Step(q[k - 1], k)]
    BY <1>7 DEF q, F
  <2> HIDE DEF Step
  <2>2. DOMAIN q = 0..Len(ws) /\ q = [k \in 0..Len(ws) |-> q[k]]
    BY <2>1
  <2>3. \A k \in 0..Len(ws) : q[k] = IF k = 0 THEN b ELSE Step(q[k - 1], k)
    BY <2>1
  <2>4. 0 \in 0..Len(ws) /\ \A k \in 1..Len(ws) : k \in 0..Len(ws) /\ k # 0
    BY <1>1
  <2>5. q[0] = b
    BY <2>3, <2>4
  <2>6. \A k \in 1..Len(ws) : q[k] = Step(q[k - 1], k)
    BY <2>3, <2>4
  <2> QED BY <2>2, <2>5, <2>6
<1>9. \A k \in 0..Len(ws) : q[k] = c[k]
  <2> DEFINE Diff == {k \in 0..Len(ws) : q[k] # c[k]}
  <2> SUFFICES ASSUME Diff # {} PROVE FALSE
    OBVIOUS
  <2>1. PICK k \in Diff : \A j \in Diff : k <= j
    <3>1. Diff \subseteq Nat
      BY <1>1
    <3> QED BY <3>1, LeastNat
  <2>2. k # 0
    BY <1>4, <1>8
  <2>3. k \in 1..Len(ws) /\ k - 1 \in 0..Len(ws) /\ ~(k <= k - 1)
    BY <1>1, <2>2
  <2>4. q[k - 1] = c[k - 1]
    BY <2>1, <2>3
  <2> HIDE DEF Step
  <2> QED BY <1>4, <1>8, <2>3, <2>4
<1>10. q \in [0..Len(ws) -> Nat]
  BY <1>4, <1>8, <1>9
<1> QED BY <1>8, <1>10 DEF q

(* The walk never moves down.                                              *)
LEMMA CursorMonotone ==
  ASSUME NEW b \in Nat, NEW ws \in WidthSeq
  PROVE  \A i, j \in 0..Len(ws) : i <= j => Cursor(b, ws)[i] <= Cursor(b, ws)[j]
<1> DEFINE c == Cursor(b, ws)
<1>1. Len(ws) \in Nat /\ \A k \in 1..Len(ws) : ws[k] \in Nat \ {0}
  BY DEF WidthSeq
<1>2. \A k \in 0..Len(ws) : c[k] \in Nat
  BY CursorWalk
<1>3. \A k \in 1..Len(ws) : c[k - 1] + ws[k] <= c[k]
  <2> TAKE k \in 1..Len(ws)
  <2>1. c[k - 1] \in Nat /\ ws[k] \in Nat
    BY <1>1, <1>2
  <2>2. c[k] = PlaceContiguous(c[k - 1], ws[k]) + ws[k]
    BY CursorWalk
  <2>3. PlaceContiguous(c[k - 1], ws[k]) \in Nat /\ PlaceContiguous(c[k - 1], ws[k]) >= c[k - 1]
    BY <2>1, PlaceAtOrAbove
  <2> HIDE DEF c
  <2> QED BY <2>1, <2>2, <2>3
<1> HIDE DEF c
<1> SUFFICES ASSUME NEW i \in 0..Len(ws)
             PROVE  \A j \in 0..Len(ws) : i <= j => c[i] <= c[j]
  BY DEF c
<1> DEFINE Bad == {j \in 0..Len(ws) : i <= j /\ ~(c[i] <= c[j])}
<1>4. Bad = {}
  <2> SUFFICES ASSUME Bad # {} PROVE FALSE
    OBVIOUS
  <2>1. PICK j \in Bad : \A k \in Bad : j <= k
    <3>1. Bad \subseteq Nat
      BY <1>1
    <3> QED BY <3>1, LeastNat
  <2>2. j # i
    BY <1>2
  <2>3. j \in 1..Len(ws) /\ j - 1 \in 0..Len(ws) /\ i <= j - 1 /\ ~(j <= j - 1)
    BY <1>1, <2>2
  <2>4. c[i] <= c[j - 1]
    BY <2>1, <2>3
  <2>5. c[j - 1] <= c[j]
    <3>1. c[j - 1] + ws[j] <= c[j]
      BY <1>3, <2>3
    <3>2. ws[j] \in Nat /\ c[j - 1] \in Nat /\ c[j] \in Nat
      BY <1>1, <1>2, <2>3
    <3> QED BY <3>1, <3>2
  <2> QED BY <1>2, <2>3, <2>4, <2>5
<1> QED BY <1>4

(* A slot lies between the walk's positions before and after it, and, if   *)
(* the frame ends on the device, inside one bank.                          *)
LEMMA SlotInFrame ==
  ASSUME NEW b \in Nat, NEW ws \in WidthSeq, NEW k \in 1..Len(ws)
  PROVE  /\ Cursor(b, ws)[k] - ws[k] \in Nat
         /\ b <= Cursor(b, ws)[k] - ws[k]
         /\ Cursor(b, ws)[k] <= FrameEnd(b, ws)
         /\ FrameEnd(b, ws) < NoRoom => InBank(Cursor(b, ws)[k] - ws[k], ws[k])
<1> DEFINE c == Cursor(b, ws)
<1>1. Len(ws) \in Nat /\ ws[k] \in Nat
  BY DEF WidthSeq
<1>2. c[0] = b /\ c[k - 1] \in Nat /\ c[k] \in Nat
  <2>1. k - 1 \in 0..Len(ws) /\ k \in 0..Len(ws)
    BY <1>1
  <2> QED BY <2>1, CursorWalk
<1>3. c[k] - ws[k] = PlaceContiguous(c[k - 1], ws[k])
  <2>1. c[k] = PlaceContiguous(c[k - 1], ws[k]) + ws[k]
    BY CursorWalk
  <2>2. PlaceContiguous(c[k - 1], ws[k]) \in Nat
    BY <1>1, <1>2, PlaceAtOrAbove
  <2> HIDE DEF c
  <2> QED BY <1>1, <2>1, <2>2
<1>4. PlaceContiguous(c[k - 1], ws[k]) \in Nat /\ PlaceContiguous(c[k - 1], ws[k]) >= c[k - 1]
  BY <1>1, <1>2, PlaceAtOrAbove
<1>5. c[0] <= c[k - 1] /\ c[k] <= c[Len(ws)]
  BY <1>1, CursorMonotone
<1>6. c[Len(ws)] \in Nat
  BY <1>1, CursorWalk
<1> HIDE DEF c
<1>7. c[k] - ws[k] \in Nat /\ b <= c[k] - ws[k] /\ c[k] <= c[Len(ws)]
  BY <1>2, <1>3, <1>4, <1>5
<1>8. ASSUME c[Len(ws)] < NoRoom
      PROVE  InBank(c[k] - ws[k], ws[k])
  <2> DEFINE at == PlaceContiguous(c[k - 1], ws[k])
  <2>1. at < NoRoom
    <3> HIDE DEF at
    <3>1. at \in Nat /\ at = c[k] - ws[k]
      BY <1>3, <1>4 DEF at
    <3> QED BY <1>1, <1>2, <1>5, <1>6, <1>8, <3>1 DEF NoRoom
  <2>2. InBank(at, ws[k])
    BY <1>1, <1>2, <2>1, PlaceInBank
  <2> QED BY <1>3, <2>2
<1> QED BY <1>7, <1>8 DEF c, FrameEnd

(* The end of a frame is an address at or above its base.                  *)
LEMMA FrameEndAbove ==
  ASSUME NEW b \in Nat, NEW ws \in WidthSeq
  PROVE  FrameEnd(b, ws) \in Nat /\ b <= FrameEnd(b, ws)
<1>1. Len(ws) \in Nat
  BY DEF WidthSeq
<1>2. Cursor(b, ws)[0] = b /\ Cursor(b, ws)[Len(ws)] \in Nat
  BY <1>1, CursorWalk
<1>3. Cursor(b, ws)[0] <= Cursor(b, ws)[Len(ws)]
  BY <1>1, CursorMonotone
<1> QED BY <1>2, <1>3 DEF FrameEnd

(* live_high is inside the frame and past every slot that is live.         *)
LEMMA LiveHighCovers ==
  ASSUME NEW b \in Nat, NEW ws \in WidthSeq, NEW live \in SUBSET (1..Len(ws))
  PROVE  /\ LiveHigh(b, ws, live) \in Nat
         /\ b <= LiveHigh(b, ws, live)
         /\ LiveHigh(b, ws, live) <= FrameEnd(b, ws)
         /\ \A k \in live : Cursor(b, ws)[k] <= LiveHigh(b, ws, live)
<1>1. Len(ws) \in Nat
  BY DEF WidthSeq
<1>2. CASE live = {}
  BY <1>2, FrameEndAbove DEF LiveHigh
<1>3. CASE live # {}
  <2>1. live \subseteq Nat /\ \A k \in live : k <= Len(ws)
    BY <1>1
  <2>2. Max(live) \in live /\ \A k \in live : k <= Max(live)
    BY <1>1, <1>3, <2>1, MaxOfGreatest
  <2> DEFINE m == Max(live)
  <2>3. m \in 1..Len(ws) /\ m \in 0..Len(ws) /\ 0 \in 0..Len(ws) /\ Len(ws) \in 0..Len(ws)
    <3>1. m \in live
      BY <2>2
    <3> HIDE DEF m
    <3> QED BY <1>1, <3>1
  <2>4. LiveHigh(b, ws, live) = Cursor(b, ws)[m]
    BY <1>3 DEF LiveHigh
  <2> HIDE DEF m
  <2>5. Cursor(b, ws)[m] \in Nat /\ Cursor(b, ws)[0] = b
    BY <2>3, CursorWalk
  <2>6. Cursor(b, ws)[0] <= Cursor(b, ws)[m] /\ Cursor(b, ws)[m] <= Cursor(b, ws)[Len(ws)]
    BY <1>1, <2>3, CursorMonotone
  <2>7. \A k \in live : Cursor(b, ws)[k] <= Cursor(b, ws)[m]
    <3> TAKE k \in live
    <3>1. k \in 0..Len(ws) /\ k <= m
      BY <1>1, <2>2 DEF m
    <3> QED BY <2>3, <3>1, CursorMonotone
  <2> QED BY <2>4, <2>5, <2>6, <2>7 DEF FrameEnd
<1> QED BY <1>2, <1>3

(* The first GPR byte at or above an address is not below it.              *)
LEMMA NextGprAbove ==
  ASSUME NEW a \in Nat
  PROVE  NextGpr(a) \in Nat /\ NextGpr(a) >= a
<1>1. CASE BanksFrom(a) = {}
  BY <1>1 DEF NextGpr, Larger, NoRoom
<1>2. CASE BanksFrom(a) # {}
  <2>1. BanksFrom(a) \subseteq 1..Len(Banks) /\ BanksFrom(a) \subseteq Nat
    BY BanksAssumption DEF BanksFrom
  <2>2. Min(BanksFrom(a)) \in 1..Len(Banks)
    BY <1>2, <2>1, MinOfLeast
  <2>3. \A i \in 1..Len(Banks) : StartIn(i, a) \in Nat /\ StartIn(i, a) >= a
    BY BanksAssumption DEF StartIn, Larger
  <2> QED BY <1>2, <2>2, <2>3 DEF NextGpr
<1> QED BY <1>1, <1>2

(* The end of an address's BSR bank is at or above the address.            *)
LEMMA BankTopAbove ==
  ASSUME NEW a \in Nat
  PROVE  BankTop(a) \in Nat /\ BankTop(a) >= a
<1> DEFINE q == a \div BankBytes
<1>1. BankBytes \in Nat \ {0}
  BY WindowAssumption
<1>2. q \in Nat
  BY <1>1
<1>3. a = q * BankBytes + (a % BankBytes) /\ a % BankBytes \in 0..(BankBytes - 1)
  BY <1>1
<1>4. q * BankBytes \in Nat
  BY <1>1, <1>2
<1> DEFINE p == q * BankBytes
<1>5. BankTop(a) = p + BankBytes - 1
  BY DEF BankTop
<1> HIDE DEF p
<1> QED BY <1>1, <1>3, <1>4, <1>5 DEF p

(* Moving a routine's frame to keep it in one bank only moves it up.       *)
LEMMA RoutineBaseAbove ==
  ASSUME NEW b \in Nat, NEW ws \in WidthSeq
  PROVE  RoutineBase(b, ws) \in Nat /\ RoutineBase(b, ws) >= b
<1>1. CASE BanksFrom(b) = {}
  BY <1>1 DEF RoutineBase, Larger, NoRoom
<1>2. CASE BanksFrom(b) # {}
  <2> DEFINE regionEnd == Banks[Min(BanksFrom(b))].hi
             top == IF Core = "pic18" THEN BankTop(b) ELSE regionEnd
  <2>1. BanksFrom(b) \subseteq Nat
    BY BanksAssumption DEF BanksFrom
  <2>2. Min(BanksFrom(b)) \in BanksFrom(b)
    BY <1>2, <2>1, MinOfLeast
  <2>3. regionEnd \in Nat /\ regionEnd >= b
    BY <2>2, BanksAssumption DEF BanksFrom
  <2>4. top \in Nat /\ top >= b
    BY <2>3, BankTopAbove
  <2>5. RoutineBase(b, ws) \in {b, NextGpr(top + 1)}
    BY <1>2 DEF RoutineBase
  <2> HIDE DEF top
  <2>6. NextGpr(top + 1) \in Nat /\ NextGpr(top + 1) >= top + 1
    BY <2>4, NextGprAbove
  <2> QED BY <2>4, <2>5, <2>6
<1> QED BY <1>1, <1>2

-----------------------------------------------------------------------------
(* Finite sets of addresses have a largest element.                        *)
LEMMA FiniteBound ==
  ASSUME NEW S, IsFiniteSet(S), NEW f \in [S -> Nat]
  PROVE  \E m \in Nat : \A x \in S : f[x] <= m
<1> DEFINE Bad == {n \in Nat : ~ \A g \in [1..n -> Nat] :
                                    \E m \in Nat : \A i \in 1..n : g[i] <= m}
<1>1. Bad = {}
  <2> SUFFICES ASSUME Bad # {} PROVE FALSE
    OBVIOUS
  <2>1. PICK n \in Bad : \A k \in Bad : n <= k
    BY LeastNat
  <2>2. PICK g \in [1..n -> Nat] : ~ \E m \in Nat : \A i \in 1..n : g[i] <= m
    BY <2>1
  <2>3. n # 0
    BY <2>2
  <2>4. n - 1 \in Nat /\ n - 1 \notin Bad
    <3>1. n \in Nat
      BY <2>1
    <3>2. n - 1 \in Nat /\ ~(n <= n - 1)
      BY <2>3, <3>1
    <3> QED BY <2>1, <3>2
  <2> HIDE DEF Bad
  <2>a. n \in Nat /\ n \in 1..n /\ \A i \in 1..(n - 1) : i \in 1..n
    BY <2>1, <2>3 DEF Bad
  <2> DEFINE h == [i \in 1..(n - 1) |-> g[i]]
  <2>5. h \in [1..(n - 1) -> Nat]
    BY <2>2, <2>a
  <2>6. PICK m \in Nat : \A i \in 1..(n - 1) : h[i] <= m
    BY <2>4, <2>5 DEF Bad
  <2> DEFINE top == IF g[n] <= m THEN m ELSE g[n]
  <2>7. g[n] \in Nat /\ top \in Nat
    BY <2>2, <2>6, <2>a
  <2>8. \A i \in 1..n : g[i] <= top
    <3> TAKE i \in 1..n
    <3>1. CASE i = n
      BY <2>7, <3>1
    <3>2. CASE i # n
      <4>1. i \in 1..(n - 1)
        BY <2>a, <3>2
      <4>3. g[i] \in Nat
        BY <2>2
      <4>2. g[i] = h[i]
        BY <4>1
      <4> QED BY <2>6, <2>7, <4>1, <4>2, <4>3
    <3> QED BY <3>1, <3>2
  <2> QED BY <2>2, <2>7, <2>8
<1>2. PICK n \in Nat : ExistsBijection(1..n, S)
  BY FS_NatBijection
<1>3. PICK b \in Bijection(1..n, S) : TRUE
  BY <1>2 DEF ExistsBijection
<1>4. b \in [1..n -> S] /\ \A x \in S : \E i \in 1..n : b[i] = x
  BY <1>3 DEF Bijection, Injection, Surjection
<1> DEFINE g == [i \in 1..n |-> f[b[i]]]
<1>5. g \in [1..n -> Nat]
  BY <1>4
<1>6. PICK m \in Nat : \A i \in 1..n : g[i] <= m
  BY <1>1, <1>5
<1>7. \A x \in S : f[x] <= m
  BY <1>4, <1>6
<1> QED BY <1>7

(* Max over the values a finite set indexes is one of them and bounds        *)
(* them all.                                                               *)
LEMMA MaxOfImage ==
  ASSUME NEW S, IsFiniteSet(S), S # {}, NEW f \in [S -> Nat]
  PROVE  LET m == Max({f[x] : x \in S})
         IN  m \in Nat /\ \A x \in S : f[x] <= m
<1> DEFINE T == {f[x] : x \in S}
<1>1. T \subseteq Nat /\ T # {}
  OBVIOUS
<1>2. PICK bound \in Nat : \A x \in S : f[x] <= bound
  BY FiniteBound
<1>3. \A y \in T : y <= bound
  BY <1>2
<1>4. Max(T) \in T /\ \A y \in T : y <= Max(T)
  BY <1>1, <1>3, MaxOfGreatest
<1> QED BY <1>1, <1>4

-----------------------------------------------------------------------------
(* The program being compiled is one the assumption describes.             *)
ProgOK == IsProgram(prog)

(* Facts about reachability.                                               *)

LEMMA ReachClosed ==
  ASSUME NEW roots, ProgOK, roots \subseteq prog.funcs
  PROVE  /\ roots \subseteq Reach(roots)
         /\ Reach(roots) \subseteq prog.funcs
         /\ Closed(Reach(roots))
<1>1. roots \subseteq Reach(roots) /\ Reach(roots) \subseteq prog.funcs
  BY DEF Reach
<1>2. ASSUME NEW s \in prog.sites, s.caller \in Reach(roots), NEW c \in s.callees
      PROVE  c \in Reach(roots)
  <2>1. c \in prog.funcs
    BY DEF ProgOK, IsProgram
  <2>2. ASSUME NEW S \in SUBSET prog.funcs, roots \subseteq S, Closed(S)
        PROVE  c \in S
    BY <1>2, <2>2 DEF Reach, Closed
  <2> QED BY <2>1, <2>2 DEF Reach
<1> QED BY <1>1, <1>2 DEF Closed

(* A reachable function that is no root has a reachable caller.            *)
LEMMA ReachCaller ==
  ASSUME NEW roots, ProgOK, roots \subseteq prog.funcs,
         NEW f \in Reach(roots), f \notin roots
  PROVE  \E s \in prog.sites : f \in s.callees /\ s.caller \in Reach(roots)
<1> SUFFICES ASSUME \A s \in prog.sites : f \in s.callees => s.caller \notin Reach(roots)
             PROVE  FALSE
  OBVIOUS
<1> DEFINE S == Reach(roots) \ {f}
<1>1. roots \subseteq S /\ S \in SUBSET prog.funcs
  BY ReachClosed
<1>2. Closed(S)
  BY ReachClosed DEF Closed
<1>3. f \in S
  BY <1>1, <1>2 DEF Reach
<1> QED BY <1>3

LEMMA ReachNothing ==
  ASSUME ProgOK
  PROVE  Reach({}) = {}
<1>1. Closed({})
  BY DEF Closed
<1> QED BY <1>1 DEF Reach

-----------------------------------------------------------------------------
(* Largest elements of finite sets of addresses.                           *)

LEMMA MaxOfFinite ==
  ASSUME NEW T, IsFiniteSet(T), T \subseteq Nat, T # {}
  PROVE  Max(T) \in T /\ Max(T) \in Nat /\ \A y \in T : y <= Max(T)
<1> DEFINE id == [x \in T |-> x]
<1>1. id \in [T -> Nat]
  OBVIOUS
<1>2. PICK m \in Nat : \A x \in T : id[x] <= m
  BY <1>1, FiniteBound
<1>3. \A y \in T : y <= m
  BY <1>2
<1> QED BY <1>3, MaxOfGreatest

LEMMA ImageFinite ==
  ASSUME NEW S, IsFiniteSet(S), NEW f \in [S -> Nat]
  PROVE  IsFiniteSet({f[x] : x \in S})
<1> DEFINE T == {f[x] : x \in S}
<1>1. f \in [S -> T]
  OBVIOUS
<1>2. f \in Surjection(S, T)
  BY <1>1 DEF Surjection
<1> HIDE DEF T
<1>3. IsFiniteSet(T)
  BY <1>2, FS_Surjection
<1> QED BY <1>3 DEF T

(* What the frame arithmetic needs to know of the state.                   *)
BasesOK == ProgOK /\ base \in [prog.funcs -> Nat]

LEMMA EndAbove ==
  ASSUME BasesOK, NEW f \in prog.funcs
  PROVE  End(f) \in Nat /\ base[f] \in Nat /\ base[f] <= End(f)
<1>1. prog.width[f] \in WidthSeq /\ base[f] \in Nat
  BY DEF BasesOK, ProgOK, IsProgram, WidthSeq
<1> QED BY <1>1, FrameEndAbove DEF End

(* The largest frame end over some of the functions.                       *)
LEMMA EndsBound ==
  ASSUME BasesOK, NEW S \in SUBSET prog.funcs, NEW a \in Nat
  PROVE  LET m == Max({a} \cup {End(f) : f \in S})
         IN  m \in Nat /\ a <= m /\ \A f \in S : End(f) <= m
<1> DEFINE e == [f \in S |-> End(f)]
           T == {a} \cup {End(f) : f \in S}
<1>1. IsFiniteSet(S)
  BY FS_Subset DEF BasesOK, ProgOK, IsProgram
<1>2. e \in [S -> Nat]
  BY EndAbove
<1>3. IsFiniteSet({e[f] : f \in S})
  BY <1>1, <1>2, ImageFinite
<1>4. {e[f] : f \in S} = {End(f) : f \in S}
  OBVIOUS
<1>5. IsFiniteSet(T)
  BY <1>3, <1>4, FS_AddElement, FS_Union, FS_Singleton
<1>6. T \subseteq Nat /\ T # {}
  BY EndAbove
<1>7. Max(T) \in Nat /\ \A y \in T : y <= Max(T)
  BY <1>5, <1>6, MaxOfFinite
<1> QED BY <1>7

(* OldBase bounds the ends of the callers it is taken over.                *)
LEMMA OldBaseBound ==
  ASSUME BasesOK, NEW f \in prog.funcs, Callers(f) # {}
  PROVE  OldBase(f) \in Nat /\ \A s \in SitesOf(f) : End(s.caller) <= OldBase(f)
<1>1. Callers(f) \subseteq prog.funcs
  BY DEF Callers, SitesOf, BasesOK, ProgOK, IsProgram
<1> DEFINE e == [p \in Callers(f) |-> End(p)]
           T == {End(p) : p \in Callers(f)}
<1>2. IsFiniteSet(Callers(f))
  BY <1>1, FS_Subset DEF BasesOK, ProgOK, IsProgram
<1>3. e \in [Callers(f) -> Nat]
  BY <1>1, EndAbove
<1>4. IsFiniteSet({e[p] : p \in Callers(f)})
  BY <1>2, <1>3, ImageFinite
<1>5. {e[p] : p \in Callers(f)} = T
  OBVIOUS
<1>6. T \subseteq Nat /\ T # {}
  BY <1>1, EndAbove
<1>7. Max(T) \in Nat /\ \A y \in T : y <= Max(T)
  BY <1>4, <1>5, <1>6, MaxOfFinite
<1>8. \A s \in SitesOf(f) : End(s.caller) \in T
  BY DEF Callers
<1> QED BY <1>7, <1>8 DEF OldBase

(* What a caller holds across a call ends inside its frame.                *)
LEMMA HeldPrefix ==
  ASSUME BasesOK, NEW s \in prog.sites
  PROVE  LET h == LiveHigh(base[s.caller], prog.width[s.caller], s.live)
         IN  h \in Nat /\ base[s.caller] <= h /\ h <= End(s.caller)
<1>1. /\ prog.width[s.caller] \in WidthSeq /\ base[s.caller] \in Nat
      /\ s.live \in SUBSET (1..Len(prog.width[s.caller]))
  BY DEF BasesOK, ProgOK, IsProgram, WidthSeq
<1> QED BY <1>1, LiveHighCovers DEF End

(* DippedBase bounds what each caller holds across its call.               *)
LEMMA DippedBaseBound ==
  ASSUME BasesOK, NEW f \in prog.funcs, Callers(f) # {}
  PROVE  /\ DippedBase(f) \in Nat
         /\ \A s \in SitesOf(f) :
               LiveHigh(base[s.caller], prog.width[s.caller], s.live) <= DippedBase(f)
<1> DEFINE h(s) == LiveHigh(base[s.caller], prog.width[s.caller], s.live)
           e == [s \in SitesOf(f) |-> h(s)]
           T == {h(s) : s \in SitesOf(f)}
<1>1. SitesOf(f) \subseteq prog.sites /\ SitesOf(f) # {}
  BY DEF Callers, SitesOf
<1>2. IsFiniteSet(SitesOf(f))
  BY <1>1, FS_Subset DEF BasesOK, ProgOK, IsProgram
<1>3. \A s \in SitesOf(f) : h(s) \in Nat
  BY <1>1, HeldPrefix
<1> HIDE DEF h
<1>4. e \in [SitesOf(f) -> Nat]
  BY <1>3
<1>5. IsFiniteSet({e[s] : s \in SitesOf(f)})
  BY <1>2, <1>4, ImageFinite
<1>6. {e[s] : s \in SitesOf(f)} = T
  OBVIOUS
<1>7. T \subseteq Nat /\ T # {}
  BY <1>1, <1>3
<1>8. Max(T) \in Nat /\ \A y \in T : y <= Max(T)
  BY <1>5, <1>6, <1>7, MaxOfFinite
<1>9. DippedBase(f) = Max(T)
  BY DEF DippedBase, h
<1> QED BY <1>8, <1>9 DEF h

(* The base either rule gives is above what every caller holds, and above  *)
(* every caller's frame where dips are off.                                *)
LEMMA CalleeBaseAbove ==
  ASSUME BasesOK, NEW f \in prog.funcs, Callers(f) # {}, NEW mayDip \in BOOLEAN
  PROVE  /\ CalleeBase(f, mayDip) \in Nat
         /\ \A s \in SitesOf(f) :
               /\ LiveHigh(base[s.caller], prog.width[s.caller], s.live)
                     <= CalleeBase(f, mayDip)
               /\ ~mayDip => End(s.caller) <= CalleeBase(f, mayDip)
<1>1. OldBase(f) \in Nat /\ DippedBase(f) \in Nat
  BY OldBaseBound, DippedBaseBound
<1>2. CalleeBase(f, mayDip) = OldBase(f) \/ (mayDip /\ CalleeBase(f, mayDip) = DippedBase(f))
  BY DEF CalleeBase
<1> SUFFICES ASSUME NEW s \in SitesOf(f)
             PROVE  /\ LiveHigh(base[s.caller], prog.width[s.caller], s.live)
                          <= CalleeBase(f, mayDip)
                    /\ ~mayDip => End(s.caller) <= CalleeBase(f, mayDip)
  BY <1>1, <1>2
<1> DEFINE h == LiveHigh(base[s.caller], prog.width[s.caller], s.live)
<1>3. s \in prog.sites /\ s.caller \in prog.funcs
  BY DEF SitesOf, BasesOK, ProgOK, IsProgram
<1>4. h \in Nat /\ h <= End(s.caller)
  BY <1>3, HeldPrefix
<1>5. End(s.caller) \in Nat
  BY <1>3, EndAbove
<1>6. End(s.caller) <= OldBase(f) /\ h <= DippedBase(f)
  BY OldBaseBound, DippedBaseBound
<1> HIDE DEF h
<1>7. h <= CalleeBase(f, mayDip) /\ (~mayDip => End(s.caller) <= CalleeBase(f, mayDip))
  BY <1>1, <1>2, <1>4, <1>5, <1>6
<1> QED BY <1>7 DEF h

LEMMA RoundedAbove ==
  ASSUME BasesOK, NEW f \in prog.funcs, NEW b \in Nat
  PROVE  Rounded(f, b) \in Nat /\ b <= Rounded(f, b)
<1>1. prog.width[f] \in WidthSeq
  BY DEF BasesOK, ProgOK, IsProgram, WidthSeq
<1> QED BY <1>1, RoutineBaseAbove DEF Rounded

(* A base as steps 5 and 5b compute it: at or above the region for a root, *)
(* above what every caller holds for any other function.                   *)
LEMMA BaseInAbove ==
  ASSUME BasesOK, NEW f \in prog.funcs, NEW roots, NEW at \in Nat,
         NEW mayDip \in BOOLEAN, f \notin roots => Callers(f) # {}
  PROVE  LET b == BaseIn(f, roots, at, mayDip)
         IN  /\ b \in Nat
             /\ f \in roots => at <= b
             /\ f \notin roots => \A s \in SitesOf(f) :
                   /\ LiveHigh(base[s.caller], prog.width[s.caller], s.live) <= b
                   /\ ~mayDip => End(s.caller) <= b
<1> DEFINE b == BaseIn(f, roots, at, mayDip)
<1>1. CASE f \in roots
  BY <1>1, RoundedAbove DEF BaseIn
<1>2. CASE f \notin roots
  <2> DEFINE c == CalleeBase(f, mayDip)
  <2>1. c \in Nat
    BY <1>2, CalleeBaseAbove
  <2>2. b = Rounded(f, c)
    BY <1>2 DEF BaseIn
  <2>3. b \in Nat /\ c <= b
    BY <2>1, <2>2, RoundedAbove
  <2>4. ASSUME NEW s \in SitesOf(f)
        PROVE  /\ LiveHigh(base[s.caller], prog.width[s.caller], s.live) <= b
               /\ ~mayDip => End(s.caller) <= b
    <3>1. s \in prog.sites /\ s.caller \in prog.funcs
      BY DEF SitesOf, BasesOK, ProgOK, IsProgram
    <3>2. /\ LiveHigh(base[s.caller], prog.width[s.caller], s.live) \in Nat
          /\ End(s.caller) \in Nat
      BY <3>1, HeldPrefix, EndAbove
    <3>3. /\ LiveHigh(base[s.caller], prog.width[s.caller], s.live) <= c
          /\ ~mayDip => End(s.caller) <= c
      BY <1>2, CalleeBaseAbove
    <3> HIDE DEF b, c
    <3> QED BY <2>1, <2>3, <3>2, <3>3
  <2> HIDE DEF b
  <2>5. b \in Nat /\ \A s \in SitesOf(f) :
            /\ LiveHigh(base[s.caller], prog.width[s.caller], s.live) <= b
            /\ ~mayDip => End(s.caller) <= b
    BY <2>3, <2>4
  <2> QED BY <1>2, <2>5 DEF b
<1> QED BY <1>1, <1>2

-----------------------------------------------------------------------------
(* Step 7: in either order, a slot is inside its frame, and inside a bank  *)
(* if the frame ends on the device; in the colouring's order it ends where *)
(* the walk over the frame passed it.                                      *)
LEMMA SlotAddrInFrame ==
  ASSUME BasesOK, NEW f \in prog.funcs
  PROVE  /\ SlotAddr(f) \in [AllSlots(f) -> Nat]
         /\ \A k \in AllSlots(f) :
               /\ base[f] <= SlotAddr(f)[k]
               /\ SlotAddr(f)[k] + prog.width[f][k] <= End(f)
               /\ ~Reordered(f) =>
                     SlotAddr(f)[k] + prog.width[f][k] = Cursor(base[f], prog.width[f])[k]
               /\ End(f) < NoRoom => InBank(SlotAddr(f)[k], prog.width[f][k])
<1> DEFINE n == Len(prog.width[f])
           order == SlotOrder(f)
           ws == Permuted(prog.width[f], order)
           walk == Cursor(base[f], ws)
           at(k) == CHOOSE i \in 1..n : order[i] = k
<1>1. /\ prog.width[f] \in WidthSeq /\ base[f] \in Nat /\ n \in Nat
      /\ \A k \in 1..n : prog.width[f][k] \in Nat \ {0}
  BY DEF BasesOK, ProgOK, IsProgram, WidthSeq
<1>2. order \in [1..n -> 1..n] /\ \A k \in 1..n : \E i \in 1..n : order[i] = k
  <2>1. CASE Reordered(f)
    BY <2>1 DEF SlotOrder, BasesOK, ProgOK, IsProgram
  <2>2. CASE ~Reordered(f)
    <3>1. order = [i \in 1..n |-> i]
      BY <2>2 DEF SlotOrder
    <3> QED BY <3>1
  <2> QED BY <2>1, <2>2
<1>3. ws = [i \in 1..n |-> prog.width[f][order[i]]]
  BY DEF Permuted
<1> HIDE DEF order, ws
<1>4. ws \in WidthSeq /\ Len(ws) = n
  <2>1. \A i \in 1..n : prog.width[f][order[i]] \in Nat \ {0}
    BY <1>1, <1>2
  <2> HIDE DEF n
  <2> QED BY <1>1, <1>3, <2>1 DEF WidthSeq
<1>5. FrameEnd(base[f], ws) = End(f)
  <2>1. CASE Reordered(f)
    BY <2>1 DEF Reordered, SlotOrder, ws, order, End
  <2>2. CASE ~Reordered(f)
    <3>1. ws = prog.width[f]
      <4>1. order = [i \in 1..n |-> i]
        BY <2>2 DEF SlotOrder, order
      <4>2. ws = [i \in 1..n |-> prog.width[f][i]]
        BY <1>3, <4>1
      <4> QED BY <1>1, <4>2 DEF WidthSeq
    <3> QED BY <3>1 DEF End
  <2> QED BY <2>1, <2>2
<1>6. SlotAddr(f) = [k \in 1..n |-> walk[at(k)] - prog.width[f][k]]
  BY DEF SlotAddr, ws, order
<1>7. ASSUME NEW k \in 1..n
      PROVE  /\ walk[at(k)] - prog.width[f][k] \in Nat
             /\ base[f] <= walk[at(k)] - prog.width[f][k]
             /\ walk[at(k)] <= End(f)
             /\ walk[at(k)] \in Nat
             /\ End(f) < NoRoom => InBank(walk[at(k)] - prog.width[f][k], prog.width[f][k])
  <2>1. at(k) \in 1..n /\ order[at(k)] = k
    BY <1>2
  <2> HIDE DEF at
  <2>2. ws[at(k)] = prog.width[f][k]
    BY <1>3, <2>1
  <2>3. at(k) \in 1..Len(ws) /\ at(k) \in 0..Len(ws)
    BY <1>1, <1>4, <2>1
  <2>4. /\ walk[at(k)] - ws[at(k)] \in Nat /\ base[f] <= walk[at(k)] - ws[at(k)]
        /\ walk[at(k)] <= FrameEnd(base[f], ws)
        /\ FrameEnd(base[f], ws) < NoRoom => InBank(walk[at(k)] - ws[at(k)], ws[at(k)])
    BY <1>1, <1>4, <2>3, SlotInFrame
  <2>5. walk[at(k)] \in Nat
    <3>1. walk \in [0..Len(ws) -> Nat]
      BY <1>1, <1>4, CursorWalk
    <3> HIDE DEF walk, n
    <3> QED BY <2>3, <3>1
  <2> QED BY <1>5, <2>2, <2>4, <2>5
<1>8. ASSUME ~Reordered(f), NEW k \in 1..n
      PROVE  walk[at(k)] = Cursor(base[f], prog.width[f])[k]
  <2>1. order = [i \in 1..n |-> i]
    BY <1>8 DEF SlotOrder, order
  <2>2. ws = [i \in 1..n |-> prog.width[f][i]]
    BY <1>3, <2>1
  <2>3. ws = prog.width[f]
    BY <1>1, <2>2 DEF WidthSeq
  <2>4. at(k) = k
    BY <2>1
  <2> QED BY <2>3, <2>4
<1> HIDE DEF walk, at
<1>9. SlotAddr(f) \in [1..n -> Nat]
  BY <1>6, <1>7
<1>10. ASSUME NEW k \in 1..n
       PROVE  SlotAddr(f)[k] + prog.width[f][k] = walk[at(k)]
  <2>1. SlotAddr(f)[k] = walk[at(k)] - prog.width[f][k]
    BY <1>6
  <2> QED BY <1>1, <1>7, <2>1
<1>11. \A k \in 1..n : base[f] <= SlotAddr(f)[k]
  BY <1>6, <1>7
<1>12. \A k \in 1..n : End(f) < NoRoom => InBank(SlotAddr(f)[k], prog.width[f][k])
  BY <1>6, <1>7
<1> QED BY <1>7, <1>8, <1>9, <1>10, <1>11, <1>12 DEF walk, AllSlots

(* The program, and with it the contexts, never change.                    *)
LEMMA RigidContexts ==
  ASSUME prog' = prog
  PROVE  /\ MainCtx' = MainCtx /\ LowCtx' = LowCtx /\ HighCtx' = HighCtx
         /\ ProgOK' = ProgOK /\ WellSplit' = WellSplit /\ Handlers' = Handlers
<1>1. MainRoots' = MainRoots /\ Handlers' = Handlers
  BY DEF MainRoots, Handlers, Callers, SitesOf
<1>2. MainCtx' = MainCtx /\ LowCtx' = LowCtx /\ HighCtx' = HighCtx
  BY <1>1 DEF MainCtx, LowCtx, HighCtx, Reach, Closed
<1> QED BY <1>1, <1>2 DEF ProgOK, WellSplit

(* Facts about the contexts of a program.                                  *)
LEMMA Contexts ==
  ASSUME ProgOK
  PROVE  /\ prog.low \subseteq LowCtx /\ LowCtx \subseteq prog.funcs /\ Closed(LowCtx)
         /\ prog.high \subseteq HighCtx /\ HighCtx \subseteq prog.funcs /\ Closed(HighCtx)
         /\ MainCtx \subseteq prog.funcs /\ Closed(MainCtx)
         /\ Handlers = {} => LowCtx = {} /\ HighCtx = {}
         /\ \A f \in LowCtx \ prog.low : Callers(f) # {}
         /\ \A f \in HighCtx \ prog.high : Callers(f) # {}
<1>1. prog.low \subseteq prog.funcs /\ prog.high \subseteq prog.funcs /\ MainRoots \subseteq prog.funcs
  BY DEF ProgOK, IsProgram, MainRoots
<1>2. /\ prog.low \subseteq LowCtx /\ LowCtx \subseteq prog.funcs /\ Closed(LowCtx)
      /\ prog.high \subseteq HighCtx /\ HighCtx \subseteq prog.funcs /\ Closed(HighCtx)
      /\ MainCtx \subseteq prog.funcs /\ Closed(MainCtx)
  BY <1>1, ReachClosed DEF LowCtx, HighCtx, MainCtx
<1>3. Handlers = {} => LowCtx = {} /\ HighCtx = {}
  BY ReachNothing DEF Handlers, LowCtx, HighCtx
<1>4. \A f \in LowCtx \ prog.low : Callers(f) # {}
  BY <1>1, ReachCaller DEF LowCtx, Callers, SitesOf
<1>5. \A f \in HighCtx \ prog.high : Callers(f) # {}
  BY <1>1, ReachCaller DEF HighCtx, Callers, SitesOf
<1> QED BY <1>2, <1>3, <1>4, <1>5

-----------------------------------------------------------------------------
(* Types, with what the current loop has settled: an interrupt loop only   *)
(* meets functions of its own context, which is why a base exists there.   *)
TypeInv == TypeOK /\ Settled

LEMMA TypeInvFacts ==
  ASSUME TypeOK
  PROVE  ProgOK /\ BasesOK
BY ProgramsAssumption DEF TypeOK, ProgOK, BasesOK

(* Step 6 puts the floating block at or above where it starts to look, and *)
(* end_of_globals is past the block and past every pinned byte.            *)
LEMMA GlobalsBounds ==
  ASSUME ProgOK, NEW from \in Nat
  PROVE  /\ GlobalsFit(from) => FloatStart(from) \in Nat /\ from <= FloatStart(from)
         /\ \A a \in Nat : /\ GlobalsEnd(a) \in Nat
                           /\ a + prog.float <= GlobalsEnd(a)
                           /\ \A p \in prog.pinned : p < GlobalsEnd(a)
<1>1. FloatFits(from) \subseteq Nat /\ \A a \in FloatFits(from) : from <= a
  BY BanksAssumption DEF FloatFits
<1>2. GlobalsFit(from) => FloatStart(from) \in Nat /\ from <= FloatStart(from)
  <2> DEFINE T == FloatFits(from)
  <2>1. T # {} => Min(T) \in Nat /\ from <= Min(T)
    <3> HIDE DEF T
    <3>1. T \subseteq Nat /\ \A a \in T : from <= a
      BY <1>1 DEF T
    <3> QED BY <3>1, MinOfLeast
  <2> QED BY <2>1 DEF GlobalsFit, FloatStart
<1>3. ASSUME NEW a \in Nat
      PROVE  /\ GlobalsEnd(a) \in Nat
             /\ a + prog.float <= GlobalsEnd(a)
             /\ \A p \in prog.pinned : p < GlobalsEnd(a)
  <2> DEFINE up == [p \in prog.pinned |-> p + 1]
             P == {p + 1 : p \in prog.pinned}
             T == {GprStart, a + prog.float} \cup P
  <2>1. prog.pinned \subseteq Nat /\ IsFiniteSet(prog.pinned) /\ prog.float \in Nat
    BY DEF ProgOK, IsProgram
  <2>2. up \in [prog.pinned -> Nat]
    BY <2>1
  <2>3. IsFiniteSet({up[p] : p \in prog.pinned})
    BY <2>1, <2>2, ImageFinite
  <2>4. {up[p] : p \in prog.pinned} = P
    OBVIOUS
  <2>5. GprStart \in Nat
    BY BanksAssumption DEF GprStart
  <2>6. IsFiniteSet({GprStart, a + prog.float})
    <3>1. \A x, y : IsFiniteSet({x} \cup {y})
      BY FS_Singleton, FS_Union
    <3>2. {GprStart, a + prog.float} = {GprStart} \cup {a + prog.float}
      OBVIOUS
    <3> QED BY <3>1, <3>2
  <2>7. IsFiniteSet(T)
    BY <2>3, <2>4, <2>6, FS_Union
  <2>8. T \subseteq Nat /\ T # {}
    BY <2>1, <2>5
  <2> DEFINE m == Max(T)
  <2>9. m \in Nat /\ \A y \in T : y <= m
    BY <2>7, <2>8, MaxOfFinite
  <2>10. a + prog.float <= m /\ \A p \in prog.pinned : p + 1 <= m
    BY <2>9
  <2> HIDE DEF m
  <2>11. \A p \in prog.pinned : p < m
    BY <2>1, <2>9, <2>10
  <2> QED BY <2>9, <2>10, <2>11 DEF GlobalsEnd, m
<1> QED BY <1>2, <1>3

(* The initial state is well typed.                                        *)
LEMMA TypeInit ==
  ASSUME AllocInit, stack = <<>>
  PROVE  TypeInv
<1>1. GprStart \in Nat
  BY BanksAssumption DEF GprStart
<1>2. /\ prog \in Programs /\ dip \in {"Off", "Isr", "All"} /\ framesFirst \in BOOLEAN
      /\ stage = "callgraph" /\ start \in Nat /\ region \in Nat /\ floatAt \in Nat
      /\ base \in [prog.funcs -> Nat] /\ done = {}
  <2>1. framesFirst \in BOOLEAN
    BY DEF AllocInit, HasWindow
  <2>2. base \in [prog.funcs -> Nat]
    BY <1>1 DEF AllocInit
  <2> QED BY <1>1, <2>1, <2>2 DEF AllocInit
<1>3. save \in [low : Nat \cup {None}, isr : Nat \cup {None}, high : Nat \cup {None}]
  BY DEF AllocInit, NoSaves
<1> QED BY <1>2, <1>3 DEF TypeInv, TypeOK, Settled

(* Every step of the allocator keeps the types.                            *)
LEMMA TypeAlloc ==
  ASSUME TypeInv, AllocNext, UNCHANGED stack
  PROVE  TypeInv'
<1>1. ProgOK /\ BasesOK
  BY TypeInvFacts DEF TypeInv
<1>2. prog' = prog
  BY DEF AllocNext, AcceptCallGraph, AssignMain, AssignRegion, OpenLowRegion,
         OpenHighRegion, GlobalsAboveFrames, FallBackToGlobalsFirst, PlaceGlobals,
         BasesAboveGlobals, PlaceLocals, Refuse
<1>3. LowCtx' = LowCtx /\ HighCtx' = HighCtx
  BY <1>2, RigidContexts
<1>4. Handlers = {} => LowCtx = {} /\ HighCtx = {}
  BY <1>1, Contexts
<1>5. GprStart \in Nat
  BY BanksAssumption DEF GprStart
<1>6. LowSaveBytes \in Nat /\ IsrSaveBytes \in Nat
  BY SaveAssumption
<1>7. OverlayEnd \in Nat
  BY <1>1, EndsBound DEF OverlayEnd, TypeInv, TypeOK
<1> USE DEF TypeInv
<1>8. CASE AcceptCallGraph
  BY <1>8, <1>3 DEF AcceptCallGraph, TypeOK, Settled, AllSlots
<1>9. ASSUME NEW f \in prog.funcs, AssignMain(f)
      PROVE  TypeInv'
  <2>1. MainBase(f) \in Nat
    BY <1>1, BaseInAbove DEF MainBase, TypeOK
  <2> HIDE DEF MainBase
  <2> QED BY <1>9, <1>3, <2>1 DEF AssignMain, TypeOK, Settled, AllSlots
<1>10. ASSUME NEW f \in prog.funcs, AssignRegion(f)
       PROVE  TypeInv'
  <2>1. f \notin RegionRoots => Callers(f) # {}
    BY <1>1, <1>10, Contexts DEF AssignRegion, RegionRoots, Settled
  <2>2. IsrBase(f, RegionRoots) \in Nat
    BY <1>1, <2>1, BaseInAbove DEF IsrBase, TypeOK
  <2> DEFINE b == IsrBase(f, RegionRoots)
  <2> HIDE DEF b
  <2>3. base' = [base EXCEPT ![f] = b] /\ b \in Nat
    BY <1>10, <2>2 DEF AssignRegion, b
  <2> QED BY <1>10, <1>3, <2>3 DEF AssignRegion, TypeOK, Settled, AllSlots
<1>11. CASE OpenLowRegion
  <2> DEFINE isrBase == Max({start} \cup {End(f) : f \in MainCtx})
  <2>1. isrBase \in Nat
    BY <1>1, EndsBound, Contexts DEF TypeOK
  <2> HIDE DEF isrBase
  <2>2. region' \in Nat /\ save' \in [low : Nat \cup {None}, isr : Nat \cup {None}, high : Nat \cup {None}]
    <3>1. save \in [low : Nat \cup {None}, isr : Nat \cup {None}, high : Nat \cup {None}]
      BY DEF TypeOK
    <3>2. \/ save' = [save EXCEPT !.low = isrBase] /\ region' = isrBase + LowSaveBytes
          \/ save' = [save EXCEPT !.isr = isrBase] /\ region' = isrBase + IsrSaveBytes
          \/ save' = save /\ region' = isrBase
      BY <1>11 DEF OpenLowRegion, isrBase
    <3> QED BY <1>6, <2>1, <3>1, <3>2
  <2> QED BY <1>11, <1>3, <2>2 DEF OpenLowRegion, TypeOK, Settled, AllSlots
<1>12. CASE OpenHighRegion
  <2> DEFINE hiBase == Max({End(f) : f \in prog.funcs})
  <2>1. hiBase \in Nat
    <3>1. "main" \in prog.funcs
      BY <1>1 DEF ProgOK, IsProgram
    <3>2. End("main") \in Nat
      BY <1>1, <3>1, EndAbove
    <3>3. {End("main")} \cup {End(f) : f \in prog.funcs} = {End(f) : f \in prog.funcs}
      BY <3>1
    <3> QED BY <1>1, <3>2, <3>3, EndsBound
  <2> HIDE DEF hiBase
  <2>2. region' \in Nat /\ save' \in [low : Nat \cup {None}, isr : Nat \cup {None}, high : Nat \cup {None}]
    <3>1. save \in [low : Nat \cup {None}, isr : Nat \cup {None}, high : Nat \cup {None}]
      BY DEF TypeOK
    <3>2. \/ save' = [save EXCEPT !.high = hiBase] /\ region' = hiBase + IsrSaveBytes
          \/ save' = save /\ region' = hiBase
      BY <1>12 DEF OpenHighRegion, hiBase
    <3> QED BY <1>6, <2>1, <3>1, <3>2
  <2> QED BY <1>12, <1>3, <2>2 DEF OpenHighRegion, TypeOK, Settled, AllSlots
<1>13. CASE GlobalsAboveFrames
  <2>1. FloatStart(OverlayEnd) \in Nat
    BY <1>1, <1>7, <1>13, GlobalsBounds DEF GlobalsAboveFrames, FramesFirstFits
  <2> QED BY <1>13, <1>3, <2>1 DEF GlobalsAboveFrames, BasesDone, TypeOK, Settled, AllSlots
<1>14. CASE FallBackToGlobalsFirst
  <2>1. save' \in [low : Nat \cup {None}, isr : Nat \cup {None}, high : Nat \cup {None}]
    BY <1>14 DEF FallBackToGlobalsFirst, NoSaves
  <2> QED BY <1>14, <1>3, <2>1
          DEF FallBackToGlobalsFirst, BasesDone, TypeOK, Settled, AllSlots
<1>15. CASE PlaceGlobals
  <2>1. FloatStart(GprStart) \in Nat
    BY <1>1, <1>5, <1>15, GlobalsBounds DEF PlaceGlobals
  <2>2. GlobalsEnd(FloatStart(GprStart)) \in Nat
    BY <1>1, <1>5, <2>1, GlobalsBounds
  <2> QED BY <1>15, <1>3, <2>1, <2>2 DEF PlaceGlobals, TypeOK, Settled, AllSlots
<1>16. CASE BasesAboveGlobals
  BY <1>16, <1>3 DEF BasesAboveGlobals, BasesDone, TypeOK, Settled, AllSlots
<1>17. CASE PlaceLocals
  <2>1. \A f \in prog.funcs : SlotAddr(f) \in [AllSlots(f) -> Nat]
    BY <1>1, SlotAddrInFrame
  <2>2. \A f \in prog.funcs : slots'[f] = SlotAddr(f)
    BY <1>17 DEF PlaceLocals
  <2> QED BY <1>17, <1>3, <2>1, <2>2 DEF PlaceLocals, TypeOK, Settled, AllSlots
<1>18. CASE Refuse
  BY <1>18, <1>3 DEF Refuse, TypeOK, Settled, AllSlots
<1> QED BY <1>8, <1>9, <1>10, <1>11, <1>12, <1>13, <1>14, <1>15, <1>16, <1>17, <1>18
        DEF AllocNext

-----------------------------------------------------------------------------
(* What each step of the running program does to the return stack, entry   *)
(* by entry.                                                                *)
Activation == [fn : prog.funcs, held : SUBSET Nat]

LEMMA EnteredTyped ==
  ASSUME ProgOK, NEW f \in prog.funcs
  PROVE  /\ Entered(f) \in Activation
         /\ Entered(f).fn = f /\ Entered(f).held = AllSlots(f)
         /\ AllSlots(f) \subseteq Nat
<1>1. Len(prog.width[f]) \in Nat
  BY DEF ProgOK, IsProgram
<1> QED BY <1>1 DEF Entered, Activation, AllSlots

LEMMA PushStack ==
  ASSUME NEW S, NEW q \in Seq(S), NEW e \in S
  PROVE  /\ Append(q, e) \in Seq(S) /\ Len(Append(q, e)) = Len(q) + 1
         /\ Append(q, e)[Len(q) + 1] = e
         /\ \A i \in 1..Len(q) : Append(q, e)[i] = q[i]
OBVIOUS

LEMMA PopStack ==
  ASSUME NEW S, NEW q \in Seq(S), NEW n \in Nat, n <= Len(q)
  PROVE  /\ SubSeq(q, 1, n) \in Seq(S) /\ Len(SubSeq(q, 1, n)) = n
         /\ \A i \in 1..n : SubSeq(q, 1, n)[i] = q[i]
OBVIOUS

LEMMA CallStack ==
  ASSUME TypeOK, NEW s \in prog.sites, NEW c \in s.callees, Call(s, c)
  PROVE  /\ stack' \in Seq(Activation) /\ Len(stack') = Len(stack) + 1
         /\ Len(stack) \in Nat \ {0} /\ stack[Len(stack)].fn = s.caller
         /\ \A i \in 1..(Len(stack) - 1) : stack'[i] = stack[i]
         /\ stack'[Len(stack)].fn = s.caller /\ stack'[Len(stack)].held = s.live
         /\ stack'[Len(stack) + 1] = Entered(c)
         /\ c \in prog.funcs /\ s.live \subseteq AllSlots(s.caller)
<1> DEFINE n == Len(stack)
           q == [stack EXCEPT ![n].held = s.live]
<1>1. ProgOK
  BY TypeInvFacts
<1>2. /\ c \in prog.funcs /\ s.live \subseteq AllSlots(s.caller) /\ s.caller \in prog.funcs
      /\ s.live \in SUBSET Nat
  BY <1>1, EnteredTyped DEF ProgOK, IsProgram, AllSlots
<1>3. stack \in Seq(Activation) /\ n \in Nat \ {0} /\ n \in 1..n
  BY DEF TypeOK, Call, Activation
<1>4. stack[n] \in Activation /\ stack[n].fn = s.caller
  BY <1>3 DEF Call, Top
<1>5. [stack[n] EXCEPT !.held = s.live] \in Activation
  BY <1>2, <1>4 DEF Activation
<1>6. q \in Seq(Activation) /\ Len(q) = n
  BY <1>3, <1>5
<1>7. /\ \A i \in 1..(n - 1) : q[i] = stack[i]
      /\ q[n] = [stack[n] EXCEPT !.held = s.live]
  BY <1>3
<1>8. q[n].fn = s.caller /\ q[n].held = s.live
  BY <1>4, <1>7 DEF Activation
<1>9. Entered(c) \in Activation
  BY <1>1, <1>2, EnteredTyped
<1>10. stack' = Append(q, Entered(c))
  BY DEF Call
<1> HIDE DEF q
<1>11. /\ stack' \in Seq(Activation) /\ Len(stack') = n + 1 /\ stack'[n + 1] = Entered(c)
       /\ \A i \in 1..n : stack'[i] = q[i]
  BY <1>6, <1>9, <1>10, PushStack
<1>12. \A i \in 1..(n - 1) : stack'[i] = stack[i]
  BY <1>3, <1>7, <1>11
<1>13. stack'[n] = q[n]
  BY <1>3, <1>11
<1> QED BY <1>2, <1>3, <1>4, <1>8, <1>11, <1>12, <1>13

LEMMA ReturnStack ==
  ASSUME TypeOK, Return
  PROVE  /\ stack' \in Seq(Activation) /\ Len(stack') = Len(stack) - 1
         /\ Len(stack) \in Nat \ {0, 1}
         /\ \A i \in 1..(Len(stack) - 2) : stack'[i] = stack[i]
         /\ stack'[Len(stack) - 1] = Entered(stack[Len(stack) - 1].fn)
         /\ stack[Len(stack) - 1].fn \in prog.funcs
<1> DEFINE n == Len(stack)
           e == Entered(stack[n - 1].fn)
           q == SubSeq(stack, 1, n - 2)
<1>1. ProgOK
  BY TypeInvFacts
<1>2. stack \in Seq(Activation) /\ n \in Nat \ {0, 1} /\ n - 1 \in 1..n
  BY DEF TypeOK, Return, Activation
<1>3. stack[n - 1].fn \in prog.funcs
  <2>1. stack[n - 1] \in Activation
    BY <1>2
  <2> QED BY <2>1 DEF Activation
<1>4. e \in Activation
  BY <1>1, <1>3, EnteredTyped
<1>5. n - 2 \in Nat /\ n - 2 <= Len(stack)
  BY <1>2
<1>6. q \in Seq(Activation) /\ Len(q) = n - 2 /\ \A i \in 1..(n - 2) : q[i] = stack[i]
  BY <1>2, <1>5, PopStack
<1>7. stack' = Append(q, e)
  BY DEF Return
<1> HIDE DEF e, q
<1>8. /\ stack' \in Seq(Activation) /\ Len(stack') = n - 2 + 1 /\ stack'[n - 2 + 1] = e
      /\ \A i \in 1..(n - 2) : stack'[i] = q[i]
  BY <1>4, <1>6, <1>7, PushStack
<1>9. n - 2 + 1 = n - 1
  BY <1>2
<1> QED BY <1>2, <1>3, <1>6, <1>8, <1>9 DEF e

LEMMA PreemptStack ==
  ASSUME TypeOK, NEW h \in Handlers, Preempt(h)
  PROVE  /\ stack' \in Seq(Activation) /\ Len(stack') = Len(stack) + 1
         /\ Len(stack) \in Nat \ {0} /\ h \in prog.funcs
         /\ \A i \in 1..Len(stack) : stack'[i] = stack[i]
         /\ stack'[Len(stack) + 1] = Entered(h)
<1>1. ProgOK
  BY TypeInvFacts
<1>2. h \in prog.funcs
  BY <1>1 DEF Handlers, ProgOK, IsProgram
<1>3. stack \in Seq(Activation) /\ Len(stack) \in Nat \ {0}
  BY DEF TypeOK, Preempt, Activation
<1>4. Entered(h) \in Activation
  BY <1>1, <1>2, EnteredTyped
<1>5. stack' = Append(stack, Entered(h))
  BY DEF Preempt
<1> QED BY <1>2, <1>3, <1>4, <1>5, PushStack

LEMMA RetfieStack ==
  ASSUME TypeOK, ReturnFromInterrupt
  PROVE  /\ stack' \in Seq(Activation) /\ Len(stack') = Len(stack) - 1
         /\ Len(stack) \in Nat \ {0}
         /\ \A i \in 1..(Len(stack) - 1) : stack'[i] = stack[i]
<1>1. stack \in Seq(Activation) /\ Len(stack) \in Nat \ {0}
  BY DEF TypeOK, ReturnFromInterrupt, Activation
<1>2. Len(stack) - 1 \in Nat /\ Len(stack) - 1 <= Len(stack)
  BY <1>1
<1>3. stack' = SubSeq(stack, 1, Len(stack) - 1)
  BY DEF ReturnFromInterrupt
<1> QED BY <1>1, <1>2, <1>3, PopStack

(* Every step of the running program keeps the types.                      *)
LEMMA TypeRun ==
  ASSUME TypeInv, RunNext
  PROVE  TypeInv'
<1> USE DEF TypeInv
<1>1. ProgOK
  BY TypeInvFacts
<1>2. UNCHANGED allocVars /\ stage = "run"
  <2>1. UNCHANGED allocVars
    BY DEF RunNext, PowerOn, Call, Return, Preempt, ReturnFromInterrupt
  <2>2. stage = "run" \/ stack # <<>>
    <3>1. Len(stack) > 1 => stack # <<>>
      OBVIOUS
    <3> QED BY <3>1 DEF RunNext, PowerOn, Call, Return, Preempt, ReturnFromInterrupt
  <2> QED BY <2>1, <2>2 DEF TypeOK
<1>3. prog' = prog
  BY <1>2 DEF allocVars
<1>4. Settled' /\ Activation' = Activation /\ \A f : AllSlots(f)' = AllSlots(f)
  BY <1>2, <1>3, RigidContexts DEF Settled, allocVars, Activation, AllSlots
<1>5. SUFFICES /\ stack' \in Seq(Activation)
               /\ \A i \in 1..Len(stack') : stack'[i].held \subseteq AllSlots(stack'[i].fn)
  BY <1>2, <1>4 DEF TypeOK, allocVars, Activation
<1>6. \A i \in 1..Len(stack) : stack[i].held \subseteq AllSlots(stack[i].fn)
  BY DEF TypeOK
<1>7. CASE PowerOn
  <2>1. "main" \in prog.funcs
    BY <1>1 DEF ProgOK, IsProgram
  <2>2. Entered("main") \in Activation /\ Entered("main").held = AllSlots(Entered("main").fn)
    BY <1>1, <2>1, EnteredTyped
  <2> QED BY <1>7, <2>2 DEF PowerOn
<1>8. ASSUME NEW s \in prog.sites, NEW c \in s.callees, Call(s, c)
      PROVE  /\ stack' \in Seq(Activation)
             /\ \A i \in 1..Len(stack') : stack'[i].held \subseteq AllSlots(stack'[i].fn)
  <2>1. ASSUME NEW i \in 1..Len(stack')
        PROVE  stack'[i].held \subseteq AllSlots(stack'[i].fn)
    <3>1. i \in 1..(Len(stack) - 1) \/ i = Len(stack) \/ i = Len(stack) + 1
      BY <1>8, CallStack
    <3>2. CASE i \in 1..(Len(stack) - 1)
      BY <1>6, <1>8, <3>2, CallStack
    <3>3. CASE i = Len(stack)
      BY <1>8, <3>3, CallStack
    <3>4. CASE i = Len(stack) + 1
      BY <1>1, <1>8, <3>4, CallStack, EnteredTyped
    <3> QED BY <3>1, <3>2, <3>3, <3>4
  <2> QED BY <1>8, <2>1, CallStack
<1>9. CASE Return
  <2>1. ASSUME NEW i \in 1..Len(stack')
        PROVE  stack'[i].held \subseteq AllSlots(stack'[i].fn)
    <3>1. i \in 1..(Len(stack) - 2) \/ i = Len(stack) - 1
      BY <1>9, ReturnStack
    <3>2. CASE i \in 1..(Len(stack) - 2)
      BY <1>6, <1>9, <3>2, ReturnStack
    <3>3. CASE i = Len(stack) - 1
      BY <1>1, <1>9, <3>3, ReturnStack, EnteredTyped
    <3> QED BY <3>1, <3>2, <3>3
  <2> QED BY <1>9, <2>1, ReturnStack
<1>10. ASSUME NEW h \in Handlers, Preempt(h)
       PROVE  /\ stack' \in Seq(Activation)
              /\ \A i \in 1..Len(stack') : stack'[i].held \subseteq AllSlots(stack'[i].fn)
  <2>1. ASSUME NEW i \in 1..Len(stack')
        PROVE  stack'[i].held \subseteq AllSlots(stack'[i].fn)
    <3>1. i \in 1..Len(stack) \/ i = Len(stack) + 1
      BY <1>10, PreemptStack
    <3>2. CASE i \in 1..Len(stack)
      BY <1>6, <1>10, <3>2, PreemptStack
    <3>3. CASE i = Len(stack) + 1
      BY <1>1, <1>10, <3>3, PreemptStack, EnteredTyped
    <3> QED BY <3>1, <3>2, <3>3
  <2> QED BY <1>10, <2>1, PreemptStack
<1>11. CASE ReturnFromInterrupt
  BY <1>6, <1>11, RetfieStack
<1> QED BY <1>7, <1>8, <1>9, <1>10, <1>11 DEF RunNext

LEMMA TypeStutter ==
  ASSUME TypeInv, UNCHANGED vars
  PROVE  TypeInv'
<1>1. LowCtx' = LowCtx /\ HighCtx' = HighCtx
  BY RigidContexts DEF vars, allocVars
<1> QED BY <1>1 DEF TypeInv, TypeOK, Settled, vars, allocVars, AllSlots

LEMMA TypeStep ==
  ASSUME TypeInv, [Next]_vars
  PROVE  TypeInv'
BY TypeAlloc, TypeRun, TypeStutter DEF Next

(* Whatever the device and the program, the allocator's bases, regions,    *)
(* save areas and slots stay addresses, and the return stack of the        *)
(* program it emits holds only slots of the functions on it.               *)
THEOREM TypeCorrect == Spec => []TypeOK
<1>1. Init => TypeInv
  BY TypeInit DEF Init
<1>2. TypeInv /\ [Next]_vars => TypeInv'
  BY TypeStep
<1>3. TypeInv => TypeOK
  BY DEF TypeInv
<1> QED BY <1>1, <1>2, <1>3, PTL DEF Spec
=============================================================================
