---------------------------- MODULE ScheduleProof ----------------------------
(***************************************************************************)
(* For every set of texts: what the scheduler does is a reordering that    *)
(* leaves labels, jumps, calls and returns where they are (OrderHolds),    *)
(* never adds a bank switch (NeverMoreSwitches), and, until a move         *)
(* overtakes a line its guards do not look at, keeps every skip before its *)
(* target (SkipsKeepTargets) and what the text computes (MeaningKept).     *)
(*                                                                         *)
(* The argument: a swap and a splice are bijections of the positions that  *)
(* stay between two barriers, and such bijections compose. Between the     *)
(* first and the last line a move changes, the bundle's own switch goes    *)
(* and at most one comes; before and after, the same lines switch. Neither *)
(* line of a swap is a skip or behind one; a bundle is no skip, and is put *)
(* behind one only when the splice counts as overtaking.                   *)
(*                                                                         *)
(* What a text computes: a line the first phase moves sets or clears a bit *)
(* of a file its neighbour does not name, so the two commute in every      *)
(* machine. A spliced text runs two lines ahead of the other between the   *)
(* gap and the bundle's old place, alike in all but the bundle's byte,     *)
(* which no line there names, and in W, which the line at the gap sets;    *)
(* behind the old place they are alike in all but W, which nothing reads   *)
(* before it is set.                                                       *)
(***************************************************************************)
EXTENDS Schedule, MachineProof, FiniteSetTheorems, SequenceTheorems

-----------------------------------------------------------------------------
(* Reorderings of a text.                                                  *)

(* Between two positions there is no label and no transfer of control.     *)
Straight(ls, p, q) ==
    \A r \in 1..Len(ls) : (p <= r /\ r <= q) \/ (q <= r /\ r <= p) => IsInsn(ls[r])

Bijections(n) ==
    {f \in [1..n -> 1..n] :
        /\ \A p, q \in 1..n : f[p] = f[q] => p = q
        /\ \A q \in 1..n : \E p \in 1..n : f[p] = q}

(* f says where each line of b was in a.                                   *)
Reorders(f, a, b) ==
    /\ Len(b) = Len(a)
    /\ f \in Bijections(Len(a))
    /\ \A p \in 1..Len(a) : b[p] = a[f[p]] /\ (f[p] = p \/ Straight(a, p, f[p]))

IsText(ls) == Len(ls) \in Nat \ {0} /\ DOMAIN ls = 1..Len(ls)

(* A text is a reordering of itself.                                       *)
LEMMA SameText ==
  ASSUME NEW a, Len(a) \in Nat
  PROVE  Reorders([p \in 1..Len(a) |-> p], a, a)
BY DEF Reorders, Bijections

(* A reordering leaves the barriers where they are.                        *)
LEMMA KindsKept ==
  ASSUME NEW a, NEW b, NEW f, Len(a) \in Nat, Reorders(f, a, b), NEW r \in 1..Len(a)
  PROVE  /\ IsInsn(b[r]) <=> IsInsn(a[r])
         /\ ~IsInsn(a[r]) => b[r] = a[r]
<1>1. f[r] \in 1..Len(a) /\ b[r] = a[f[r]]
  BY DEF Reorders, Bijections
<1>2. CASE f[r] = r
  BY <1>1, <1>2
<1>3. CASE Straight(a, r, f[r])
  <2>1. IsInsn(a[r]) /\ IsInsn(a[f[r]])
    BY <1>1, <1>3 DEF Straight
  <2> QED BY <1>1, <2>1
<1> QED BY <1>2, <1>3 DEF Reorders

(* Bijections compose.                                                     *)
LEMMA ComposedBijection ==
  ASSUME NEW n \in Nat, NEW f \in Bijections(n), NEW s \in Bijections(n)
  PROVE  [p \in 1..n |-> f[s[p]]] \in Bijections(n)
<1> DEFINE h == [p \in 1..n |-> f[s[p]]]
<1>1. f \in [1..n -> 1..n] /\ s \in [1..n -> 1..n]
  BY DEF Bijections
<1>2. h \in [1..n -> 1..n]
  BY <1>1
<1>3. \A p, q \in 1..n : h[p] = h[q] => p = q
  BY <1>1 DEF Bijections
<1>4. ASSUME NEW q \in 1..n PROVE \E p \in 1..n : h[p] = q
  <2>1. PICK u \in 1..n : f[u] = q
    BY DEF Bijections
  <2>2. PICK p \in 1..n : s[p] = u
    BY DEF Bijections
  <2> QED BY <2>1, <2>2
<1> HIDE DEF h
<1>5. h \in Bijections(n)
  BY <1>2, <1>3, <1>4 DEF Bijections
<1> QED BY <1>5 DEF h

(* Reorderings compose.                                                    *)
LEMMA Composed ==
  ASSUME NEW a, NEW b, NEW c, NEW f, NEW s, Len(a) \in Nat,
         Reorders(f, a, b), Reorders(s, b, c)
  PROVE  Reorders([p \in 1..Len(a) |-> f[s[p]]], a, c)
<1> DEFINE n == Len(a)
           h == [p \in 1..n |-> f[s[p]]]
<1>1. Len(b) = n /\ Len(c) = n /\ f \in Bijections(n) /\ s \in Bijections(n)
  BY DEF Reorders
<1>2. h \in Bijections(n)
  BY <1>1, ComposedBijection
<1>3. ASSUME NEW p \in 1..n
      PROVE  c[p] = a[h[p]] /\ (h[p] = p \/ Straight(a, p, h[p]))
  <2>1. s[p] \in 1..n /\ c[p] = b[s[p]] /\ (s[p] = p \/ Straight(b, p, s[p]))
    BY <1>1 DEF Reorders, Bijections
  <2>2. /\ f[s[p]] \in 1..n /\ b[s[p]] = a[f[s[p]]]
        /\ f[s[p]] = s[p] \/ Straight(a, s[p], f[s[p]])
    BY <1>1, <2>1 DEF Reorders, Bijections
  <2>3. h[p] = f[s[p]]
    OBVIOUS
  <2>4. s[p] = p \/ Straight(a, p, s[p])
    <3> SUFFICES ASSUME Straight(b, p, s[p]) PROVE Straight(a, p, s[p])
      BY <2>1
    <3> QED BY <1>1, KindsKept DEF Straight
  <2> HIDE DEF h, n
  <2>5. h[p] = p \/ Straight(a, p, h[p])
    <3>1. CASE s[p] = p
      BY <2>2, <2>3, <3>1
    <3>2. CASE f[s[p]] = s[p]
      BY <2>3, <2>4, <3>2
    <3>3. CASE Straight(a, p, s[p]) /\ Straight(a, s[p], f[s[p]])
      BY <2>1, <2>2, <2>3, <3>3 DEF Straight, n
    <3> QED BY <2>2, <2>4, <3>1, <3>2, <3>3
  <2> QED BY <2>1, <2>2, <2>3, <2>5
<1> HIDE DEF h
<1>4. Reorders(h, a, c)
  BY <1>1, <1>2, <1>3 DEF Reorders
<1> QED BY <1>4 DEF h

(* Each line occurs as often as before.                                    *)
Often(ls, l) == Cardinality({p \in DOMAIN ls : ls[p] = l})

(* A reordering has each line as often.                                    *)
LEMMA SameOften ==
  ASSUME NEW a, NEW b, NEW f, IsText(a), IsText(b), Reorders(f, a, b), NEW l
  PROVE  Often(a, l) = Often(b, l)
<1> DEFINE A == {p \in DOMAIN a : a[p] = l}
           B == {p \in DOMAIN b : b[p] = l}
           u == [p \in B |-> f[p]]
<1>1. /\ DOMAIN a = 1..Len(a) /\ DOMAIN b = 1..Len(a) /\ Len(a) \in Nat
      /\ f \in [1..Len(a) -> 1..Len(a)]
      /\ \A p, q \in 1..Len(a) : f[p] = f[q] => p = q
      /\ \A q \in 1..Len(a) : \E p \in 1..Len(a) : f[p] = q
      /\ \A p \in 1..Len(a) : b[p] = a[f[p]]
  BY DEF Reorders, Bijections, IsText
<1>2. u \in [B -> A]
  BY <1>1
<1>3. \A p, q \in B : u[p] = u[q] => p = q
  BY <1>1
<1>4. \A q \in A : \E p \in B : u[p] = q
  BY <1>1
<1>5. IsFiniteSet(B)
  <2>1. IsFiniteSet(1..Len(a))
    BY <1>1, FS_Interval
  <2>2. B \in SUBSET (1..Len(a))
    BY <1>1
  <2> QED BY <2>1, <2>2, FS_Subset, Zenon
<1> HIDE DEF A, B, u
<1>6. u \in Bijection(B, A)
  BY <1>2, <1>3, <1>4 DEF Bijection, Injection, Surjection, IsInjective
<1>7. ExistsBijection(B, A)
  BY <1>6 DEF ExistsBijection
<1>8. Cardinality(A) = Cardinality(B)
  BY <1>5, <1>7, FS_Bijection
<1> QED BY <1>8 DEF A, B, Often

-----------------------------------------------------------------------------
(* What a swap and a splice do to the lines.                               *)

SwapOrder(n, i) == [p \in 1..n |-> IF p = i THEN i + 1 ELSE IF p = i + 1 THEN i ELSE p]

(* What a swap does to the lines.                                          *)
LEMMA SwapIs ==
  ASSUME NEW S, NEW ls \in Seq(S), NEW i \in 1..Len(ls) - 1
  PROVE  /\ Swap(ls, i) \in Seq(S) /\ Len(Swap(ls, i)) = Len(ls)
         /\ Swap(ls, i)[i] = ls[i + 1] /\ Swap(ls, i)[i + 1] = ls[i]
         /\ \A p \in 1..Len(ls) : p # i /\ p # i + 1 => Swap(ls, i)[p] = ls[p]
<1>1. Len(ls) \in Nat /\ DOMAIN ls = 1..Len(ls) /\ i \in 1..Len(ls) /\ i + 1 \in 1..Len(ls)
  OBVIOUS
<1>2. ls[i] \in S /\ ls[i + 1] \in S
  BY <1>1
<1>3. Swap(ls, i) = [p \in 1..Len(ls) |-> IF p = i + 1 THEN ls[i] ELSE IF p = i THEN ls[i + 1] ELSE ls[p]]
  BY <1>1 DEF Swap
<1> QED BY <1>1, <1>2, <1>3

(* A swap of two instructions is a reordering.                             *)
LEMMA SwapReorders ==
  ASSUME NEW S, NEW ls \in Seq(S), NEW i \in 1..Len(ls) - 1, IsInsn(ls[i]), IsInsn(ls[i + 1])
  PROVE  Reorders(SwapOrder(Len(ls), i), ls, Swap(ls, i))
<1> DEFINE n == Len(ls)
           s == SwapOrder(n, i)
<1>1. n \in Nat /\ i \in 1..n /\ i + 1 \in 1..n
  OBVIOUS
<1> HIDE DEF n
<1>2. /\ s \in [1..n -> 1..n] /\ s[i] = i + 1 /\ s[i + 1] = i
      /\ \A p \in 1..n : p # i /\ p # i + 1 => s[p] = p
  BY <1>1 DEF SwapOrder
<1> HIDE DEF s
<1>3. s \in Bijections(n)
  <2>1. \A p \in 1..n : s[s[p]] = p
    BY <1>1, <1>2
  <2> QED BY <1>2, <2>1 DEF Bijections
<1>4. ASSUME NEW p \in 1..n PROVE Swap(ls, i)[p] = ls[s[p]] /\ (s[p] = p \/ Straight(ls, p, s[p]))
  <2>1. CASE p = i \/ p = i + 1
    <3>1. ASSUME NEW r \in 1..n, i <= r, r <= i + 1 PROVE IsInsn(ls[r])
      <4>1. r = i \/ r = i + 1
        BY <1>1, <3>1
      <4> QED BY <4>1, Zenon
    <3>2. (p = i /\ s[p] = i + 1) \/ (p = i + 1 /\ s[p] = i)
      BY <1>2, <2>1, Zenon
    <3>3. ASSUME NEW r \in 1..n, (p <= r /\ r <= s[p]) \/ (s[p] <= r /\ r <= p)
          PROVE  IsInsn(ls[r])
      <4>1. i <= r /\ r <= i + 1
        BY <1>1, <3>2, <3>3
      <4> QED BY <3>1, <4>1
    <3>4. Straight(ls, p, s[p])
      BY <3>3, Zenon DEF Straight, n
    <3> QED BY <1>2, <2>1, <3>4, SwapIs
  <2>2. CASE p # i /\ p # i + 1
    BY <1>2, <2>2, SwapIs DEF n
  <2> QED BY <2>1, <2>2
<1> QED BY <1>3, <1>4, SwapIs DEF Reorders, n, s

(* The gap a splice puts the bundle in.                                    *)
LEMMA RunIs ==
  ASSUME NEW ls, NEW i \in Nat, i > 1, IsInsn(ls[i - 1])
  PROVE  LET s == RunStart(ls, i, Bank(ls[i - 1]))
         IN  /\ s \in 1..i - 1
             /\ \A p \in s..i - 1 : IsInsn(ls[p]) /\ Bank(ls[p]) = Bank(ls[i - 1])
<1> DEFINE bank == Bank(ls[i - 1])
           In(p) == IsInsn(ls[p]) /\ Bank(ls[p]) = bank
           T == {s \in 1..i - 1 : \A p \in s..i - 1 : In(p)}
<1>1. T \subseteq Nat /\ i - 1 \in T
  OBVIOUS
<1>2. PICK s \in T : \A y \in T : s <= y
  <2> HIDE DEF T
  <2> QED BY <1>1, LeastNat
<1>3. s = 1 \/ ~In(s - 1)
  <2> SUFFICES ASSUME s # 1, In(s - 1) PROVE FALSE
    OBVIOUS
  <2>1. s \in 1..i - 1 /\ \A p \in s..i - 1 : In(p)
    BY <1>2
  <2>2. s - 1 \in 1..i - 1
    BY <2>1
  <2>3. \A p \in s - 1..i - 1 : p = s - 1 \/ p \in s..i - 1
    BY <2>1
  <2> HIDE DEF In
  <2>4. s - 1 \in T
    BY <2>1, <2>2, <2>3
  <2> QED BY <1>2, <2>1, <2>4
<1>4. \E q \in 1..i - 1 :
        /\ \A p \in q..i - 1 : IsInsn(ls[p]) /\ Bank(ls[p]) = bank
        /\ q = 1 \/ ~IsInsn(ls[q - 1]) \/ Bank(ls[q - 1]) # bank
  BY <1>2, <1>3
<1> HIDE DEF bank
<1>5. LET q == RunStart(ls, i, bank)
      IN  q \in 1..i - 1 /\ \A p \in q..i - 1 : IsInsn(ls[p]) /\ Bank(ls[p]) = bank
  BY <1>4 DEF RunStart
<1> QED BY <1>5 DEF bank

(* The gap found is before the bundle, in a run of instructions of one     *)
(* bank.                                                                   *)
LEMMA GapIs ==
  ASSUME NEW ls, NEW i \in Nat, i > 1, Movable(ls, i)
  PROVE  LET gap == FirstGap(ls, i, Bank(ls[i - 1]))
         IN  /\ gap \in 2..i - 1
             /\ \A p \in gap - 1..i - 1 : IsInsn(ls[p]) /\ Bank(ls[p]) = Bank(ls[i - 1])
<1> DEFINE bank == Bank(ls[i - 1])
           s == RunStart(ls, i, bank)
           gap == FirstGap(ls, i, bank)
<1>1. IsInsn(ls[i - 1]) /\ Gaps(ls, i, bank) # {}
  BY DEF Movable, InRegion
<1>2. s \in 1..i - 1 /\ \A p \in s..i - 1 : IsInsn(ls[p]) /\ Bank(ls[p]) = bank
  BY <1>1, RunIs
<1>3. Gaps(ls, i, bank) \subseteq s + 1..i - 1
  BY DEF Gaps
<1> HIDE DEF s, bank
<1>4. gap \in Gaps(ls, i, bank)
  <2>1. Gaps(ls, i, bank) \subseteq Nat
    BY <1>2, <1>3
  <2>2. \E g \in Gaps(ls, i, bank) : \A h \in Gaps(ls, i, bank) : g <= h
    BY <1>1, <2>1, LeastNat
  <2> QED BY <2>2 DEF FirstGap
<1> HIDE DEF gap
<1>5. gap \in s + 1..i - 1
  BY <1>3, <1>4
<1>6. gap \in 2..i - 1 /\ \A p \in gap - 1..i - 1 : IsInsn(ls[p]) /\ Bank(ls[p]) = bank
  BY <1>2, <1>5
<1> QED BY <1>6 DEF gap, bank

SpliceOrder(n, i, gap) ==
    [p \in 1..n |-> IF p = gap THEN i + 1 ELSE IF p = gap + 1 THEN i + 2
                    ELSE IF gap + 2 <= p /\ p <= i + 2 THEN p - 2 ELSE p]

(* The lines of two texts joined.                                          *)
LEMMA Concatenated ==
  ASSUME NEW S, NEW a \in Seq(S), NEW b \in Seq(S)
  PROVE  /\ a \o b \in Seq(S) /\ Len(a \o b) = Len(a) + Len(b)
         /\ \A p \in 1..Len(a) : (a \o b)[p] = a[p]
         /\ \A p \in Len(a) + 1..Len(a) + Len(b) : (a \o b)[p] = b[p - Len(a)]
BY ConcatProperties

(* The lines of a part of a text.                                          *)
LEMMA Part ==
  ASSUME NEW S, NEW ls \in Seq(S), NEW u \in 1..Len(ls) + 1, NEW v \in u - 1..Len(ls)
  PROVE  /\ SubSeq(ls, u, v) \in Seq(S) /\ Len(SubSeq(ls, u, v)) = v - u + 1
         /\ \A p \in 1..v - u + 1 : SubSeq(ls, u, v)[p] = ls[u + p - 1]
<1>1. \A p \in u..v : ls[p] \in S
  OBVIOUS
<1> QED BY <1>1, SubSeqProperties

(* What a splice does to the lines.                                        *)
LEMMA SplicedIs ==
  ASSUME NEW S, NEW ls \in Seq(S), NEW i \in Nat, i + 2 <= Len(ls), NEW gap \in 2..i - 1
  PROVE  /\ Spliced(ls, i, gap) \in Seq(S) /\ Len(Spliced(ls, i, gap)) = Len(ls)
         /\ \A p \in 1..Len(ls) :
              Spliced(ls, i, gap)[p] = ls[SpliceOrder(Len(ls), i, gap)[p]]
<1> DEFINE n == Len(ls)
           a == SubSeq(ls, 1, gap - 1)
           b == SubSeq(ls, i + 1, i + 2)
           c == SubSeq(ls, gap, i)
           d == SubSeq(ls, i + 3, n)
           ab == a \o b
           abc == ab \o c
           all == abc \o d
<1>0. n \in Nat
  OBVIOUS
<1>1. a \in Seq(S) /\ Len(a) = gap - 1 /\ \A p \in 1..gap - 1 : a[p] = ls[p]
  <2>1. 1 \in 1..n + 1 /\ gap - 1 \in 1 - 1..n /\ (gap - 1) - 1 + 1 = gap - 1 /\ \A p \in Int : 1 + p - 1 = p
    BY <1>0
  <2> QED BY <2>1, Part
<1>2. b \in Seq(S) /\ Len(b) = 2 /\ b[1] = ls[i + 1] /\ b[2] = ls[i + 2]
  <2>1. i + 1 \in 1..n + 1 /\ i + 2 \in (i + 1) - 1..n /\ (i + 2) - (i + 1) + 1 = 2
        /\ (i + 1) + 1 - 1 = i + 1 /\ (i + 1) + 2 - 1 = i + 2 /\ 1 \in 1..2 /\ 2 \in 1..2
    BY <1>0
  <2> QED BY <2>1, Part
<1>3. c \in Seq(S) /\ Len(c) = i - gap + 1 /\ \A p \in 1..i - gap + 1 : c[p] = ls[gap + p - 1]
  <2>1. gap \in 1..n + 1 /\ i \in gap - 1..n
    BY <1>0
  <2> QED BY <2>1, Part
<1>4. d \in Seq(S) /\ Len(d) = n - i - 2 /\ \A p \in 1..n - i - 2 : d[p] = ls[i + 2 + p]
  <2>1. i + 3 \in 1..n + 1 /\ n \in (i + 3) - 1..n /\ n - (i + 3) + 1 = n - i - 2
    BY <1>0
  <2>2. /\ d \in Seq(S) /\ Len(d) = n - (i + 3) + 1
        /\ \A p \in 1..n - (i + 3) + 1 : d[p] = ls[(i + 3) + p - 1]
    BY <2>1, Part
  <2> HIDE DEF d, n
  <2>3. ASSUME NEW p \in 1..n - i - 2 PROVE d[p] = ls[i + 2 + p]
    <3>1. p \in 1..n - (i + 3) + 1
      BY <2>1
    <3>2. (i + 3) + p - 1 = i + 2 + p
      BY <1>0
    <3> QED BY <2>2, <3>1, <3>2
  <2> QED BY <2>1, <2>2, <2>3
<1> HIDE DEF a, b, c, d, n
<1>5. /\ ab \in Seq(S) /\ Len(ab) = gap + 1 /\ \A p \in 1..gap - 1 : ab[p] = ls[p]
      /\ ab[gap] = ls[i + 1] /\ ab[gap + 1] = ls[i + 2]
  <2>1. /\ ab \in Seq(S) /\ Len(ab) = Len(a) + Len(b) /\ \A p \in 1..Len(a) : ab[p] = a[p]
        /\ \A p \in Len(a) + 1..Len(a) + Len(b) : ab[p] = b[p - Len(a)]
    <3>1. a \in Seq(S) /\ b \in Seq(S)
      BY <1>1, <1>2
    <3> QED BY <3>1, Concatenated
  <2>2. ab[gap] = b[1] /\ ab[gap + 1] = b[2]
    <3>1. gap \in Len(a) + 1..Len(a) + Len(b) /\ gap + 1 \in Len(a) + 1..Len(a) + Len(b)
          /\ gap - Len(a) = 1 /\ (gap + 1) - Len(a) = 2
      BY <1>1, <1>2
    <3> HIDE DEF ab
    <3>2. \A p \in Len(a) + 1..Len(a) + Len(b) : ab[p] = b[p - Len(a)]
      BY <2>1
    <3>3. ab[gap] = b[gap - Len(a)]
      BY <3>1, <3>2, Zenon
    <3>4. ab[gap + 1] = b[(gap + 1) - Len(a)]
      BY <3>1, <3>2, Zenon
    <3> QED BY <3>1, <3>3, <3>4, Zenon
  <2> HIDE DEF ab
  <2> QED BY <1>1, <1>2, <2>1, <2>2
<1> HIDE DEF ab
<1>6. /\ abc \in Seq(S) /\ Len(abc) = i + 2 /\ \A p \in 1..gap - 1 : abc[p] = ls[p]
      /\ abc[gap] = ls[i + 1] /\ abc[gap + 1] = ls[i + 2]
      /\ \A p \in gap + 2..i + 2 : abc[p] = ls[p - 2]
  <2>1. /\ abc \in Seq(S) /\ Len(abc) = Len(ab) + Len(c) /\ \A p \in 1..Len(ab) : abc[p] = ab[p]
        /\ \A p \in Len(ab) + 1..Len(ab) + Len(c) : abc[p] = c[p - Len(ab)]
    <3>1. ab \in Seq(S) /\ c \in Seq(S)
      BY <1>3, <1>5
    <3> QED BY <3>1, Concatenated
  <2> HIDE DEF abc
  <2>2. ASSUME NEW p \in gap + 2..i + 2 PROVE abc[p] = ls[p - 2]
    <3>1. p \in Len(ab) + 1..Len(ab) + Len(c) /\ p - Len(ab) = p - gap - 1
          /\ p - gap - 1 \in 1..i - gap + 1 /\ gap + (p - gap - 1) - 1 = p - 2
      BY <1>3, <1>5
    <3>2. abc[p] = c[p - Len(ab)]
      BY <2>1, <3>1, Zenon
    <3>3. c[p - gap - 1] = ls[gap + (p - gap - 1) - 1]
      BY <1>3, <3>1, Zenon
    <3> QED BY <3>1, <3>2, <3>3, Zenon
  <2>3. Len(abc) = i + 2
    <3>1. (gap + 1) + (i - gap + 1) = i + 2
      OBVIOUS
    <3> QED BY <1>3, <1>5, <2>1, <3>1, Zenon
  <2>4. gap \in 1..Len(ab) /\ gap + 1 \in 1..Len(ab) /\ \A p \in 1..gap - 1 : p \in 1..Len(ab)
    BY <1>5
  <2> QED BY <1>5, <2>1, <2>2, <2>3, <2>4
<1> HIDE DEF abc
<1>7. /\ all \in Seq(S) /\ Len(all) = n /\ \A p \in 1..i + 2 : all[p] = abc[p]
      /\ \A p \in i + 3..n : all[p] = ls[p]
  <2>0. abc \in Seq(S) /\ d \in Seq(S)
    BY <1>4, <1>6
  <2>1. /\ all \in Seq(S) /\ Len(all) = Len(abc) + Len(d) /\ \A p \in 1..Len(abc) : all[p] = abc[p]
        /\ \A p \in Len(abc) + 1..Len(abc) + Len(d) : all[p] = d[p - Len(abc)]
    BY <2>0, Concatenated
  <2> HIDE DEF all
  <2>2. ASSUME NEW p \in i + 3..n PROVE all[p] = ls[p]
    <3>1. p \in Len(abc) + 1..Len(abc) + Len(d) /\ p - Len(abc) = p - i - 2
          /\ p - i - 2 \in 1..n - i - 2 /\ i + 2 + (p - i - 2) = p
      BY <1>0, <1>4, <1>6
    <3>2. all[p] = d[p - Len(abc)]
      BY <2>1, <3>1, Zenon
    <3>3. d[p - i - 2] = ls[i + 2 + (p - i - 2)]
      BY <1>4, <3>1, Zenon
    <3> QED BY <3>1, <3>2, <3>3, Zenon
  <2>3. Len(all) = n
    <3>1. (i + 2) + (n - i - 2) = n
      BY <1>0
    <3> QED BY <1>4, <1>6, <2>1, <3>1, Zenon
  <2> QED BY <1>6, <2>1, <2>2, <2>3
<1>8. Spliced(ls, i, gap) = all
  BY DEF Spliced, all, abc, ab, a, b, c, d, n
<1> HIDE DEF all
<1>9. ASSUME NEW p \in 1..n PROVE all[p] = ls[SpliceOrder(n, i, gap)[p]]
  <2>1. SpliceOrder(n, i, gap)[p] = IF p = gap THEN i + 1 ELSE IF p = gap + 1 THEN i + 2
                    ELSE IF gap + 2 <= p /\ p <= i + 2 THEN p - 2 ELSE p
    BY DEF SpliceOrder
  <2>2. CASE p \in 1..gap - 1
    <3>1. all[p] = abc[p]
      <4>1. p \in 1..i + 2
        BY <2>2
      <4> QED BY <1>7, <4>1, Zenon
    <3>2. SpliceOrder(n, i, gap)[p] = p
      BY <2>1, <2>2
    <3>3. abc[p] = ls[p]
      BY <1>6, <2>2, Zenon
    <3> QED BY <3>1, <3>2, <3>3, Zenon
  <2>3. CASE p = gap \/ p = gap + 1
    <3>1. all[p] = abc[p] /\ gap \in Int
      BY <1>7, <2>3
    <3>2. SpliceOrder(n, i, gap)[p] = IF p = gap THEN i + 1 ELSE i + 2
      BY <2>1, <2>3, Zenon
    <3>3. abc[p] = IF p = gap THEN ls[i + 1] ELSE ls[i + 2]
      BY <1>6, <2>3
    <3> QED BY <3>1, <3>2, <3>3, Zenon
  <2>4. CASE p \in gap + 2..i + 2
    <3>1. all[p] = abc[p]
      <4>1. p \in 1..i + 2
        BY <2>4
      <4> QED BY <1>7, <4>1, Zenon
    <3>2. SpliceOrder(n, i, gap)[p] = p - 2
      BY <2>1, <2>4
    <3>3. abc[p] = ls[p - 2]
      BY <1>6, <2>4, Zenon
    <3> QED BY <3>1, <3>2, <3>3, Zenon
  <2>5. CASE p \in i + 3..n
    BY <1>7, <2>1, <2>5
  <2> QED BY <1>0, <2>2, <2>3, <2>4, <2>5
<1> QED BY <1>7, <1>8, <1>9 DEF n

(* A splice over instructions is a reordering.                             *)
LEMMA SpliceReorders ==
  ASSUME NEW S, NEW ls \in Seq(S), NEW i \in Nat, i + 2 <= Len(ls), NEW gap \in 2..i - 1,
         \A p \in gap..i + 2 : IsInsn(ls[p])
  PROVE  Reorders(SpliceOrder(Len(ls), i, gap), ls, Spliced(ls, i, gap))
<1> DEFINE n == Len(ls)
           s == SpliceOrder(n, i, gap)
           back == [q \in 1..n |-> IF q = i + 1 THEN gap ELSE IF q = i + 2 THEN gap + 1
                                   ELSE IF gap <= q /\ q <= i THEN q + 2 ELSE q]
<1>1. n \in Nat /\ i + 2 <= n
  OBVIOUS
<1> HIDE DEF n
<1>2. s \in [1..n -> 1..n] /\ back \in [1..n -> 1..n]
  BY <1>1 DEF SpliceOrder
<1>3. \A p \in 1..n : back[s[p]] = p
  BY <1>1, <1>2 DEF SpliceOrder
<1>4. \A q \in 1..n : s[back[q]] = q
  BY <1>1, <1>2 DEF SpliceOrder
<1>5. \A p \in 1..n : s[p] = p \/ (p \in gap..i + 2 /\ s[p] \in gap..i + 2)
  BY <1>1 DEF SpliceOrder
<1> HIDE DEF s, back
<1>6. s \in Bijections(n)
  BY <1>2, <1>3, <1>4 DEF Bijections
<1>7. \A p \in 1..n : s[p] = p \/ Straight(ls, p, s[p])
  BY <1>1, <1>5 DEF Straight
<1>8. Len(Spliced(ls, i, gap)) = n /\ \A p \in 1..n : Spliced(ls, i, gap)[p] = ls[s[p]]
  BY SplicedIs DEF n, s
<1> QED BY <1>6, <1>7, <1>8 DEF Reorders, n, s

-----------------------------------------------------------------------------
(* The order of the lines.                                                 *)

Order ==
    /\ text \in Texts /\ lines \in Seq({text[p] : p \in DOMAIN text})
    /\ \E f \in Bijections(Len(text)) : Reorders(f, text, lines)

IInv ==
    /\ Order
    /\ stage \in {"phase1", "phase2", "done"} /\ at \in 2..Len(lines) + 1
    /\ overtaken \in BOOLEAN

(* A reordering is as long as its text.                                    *)
LEMMA TextIs ==
  ASSUME Order
  PROVE  IsText(text) /\ IsText(lines) /\ Len(lines) = Len(text)
<1>1. text # <<>> /\ text \in Seq({text[p] : p \in DOMAIN text})
  BY TextsAssumption DEF Order
<1>2. Len(lines) = Len(text)
  BY DEF Order, Reorders
<1> QED BY <1>1, <1>2 DEF IsText, Order

(* One more reordering.                                                    *)
LEMMA OrderMore ==
  ASSUME Order, NEW s, Reorders(s, lines, lines'), text' = text,
         lines' \in Seq({text[p] : p \in DOMAIN text})
  PROVE  Order'
<1> DEFINE n == Len(text)
<1>1. PICK f \in Bijections(n) : Reorders(f, text, lines)
  BY DEF Order
<1>2. n \in Nat
  BY TextIs DEF IsText
<1> DEFINE h == [p \in 1..n |-> f[s[p]]]
<1>3. Reorders(h, text, lines')
  BY <1>1, <1>2, Composed
<1> HIDE DEF h
<1>4. h \in Bijections(n)
  BY <1>3 DEF Reorders
<1> QED BY <1>3, <1>4 DEF Order

(* The first state has the text itself.                                    *)
LEMMA InitOrder == Init => IInv
<1> SUFFICES ASSUME Init PROVE IInv
  OBVIOUS
<1>1. text \in Texts /\ lines = text /\ stage = "phase1" /\ at = 2 /\ overtaken = FALSE
  BY DEF Init
<1>2. text # <<>> /\ text \in Seq({text[p] : p \in DOMAIN text})
  BY <1>1, TextsAssumption
<1>3. Len(text) \in Nat \ {0}
  BY <1>2
<1> DEFINE f == [p \in 1..Len(text) |-> p]
<1>4. Reorders(f, text, lines)
  BY <1>1, <1>3, SameText
<1> HIDE DEF f
<1>5. Order
  BY <1>1, <1>2, <1>4 DEF Order, Reorders
<1>6. at \in 2..Len(lines) + 1
  BY <1>1, <1>3
<1> QED BY <1>1, <1>5, <1>6 DEF IInv

(* What a step does to the lines, and where.                               *)
Swaps(i) ==
    /\ i \in 2..Len(lines) - 1 /\ Excursion(lines, i)
    /\ lines' = Swap(lines, i) \/ lines' = Swap(lines, i - 1)
Splices(i) ==
    /\ i \in 2..Len(lines) - 2 /\ Movable(lines, i)
    /\ lines' = Spliced(lines, i, FirstGap(lines, i, Bank(lines[i - 1])))

(* A step swaps two instructions, splices a bundle or leaves the lines     *)
(* alone.                                                                  *)
LEMMA Moves ==
  ASSUME IInv, [Next]_vars
  PROVE  \/ lines' = lines
         \/ \E i \in 2..Len(lines) - 1 : Swaps(i)
         \/ \E i \in 2..Len(lines) - 2 : Splices(i)
<1>0. at \in 2..Len(lines) + 1 /\ Len(lines) \in Nat
  BY TextIs DEF IInv, IsText
<1>1. CASE Phase1
  <2>1. PICK i \in at..Len(lines) - 1 :
          /\ First(LAMBDA p : Excursion(lines, p), i)
          /\ lines' = IF Sinks(lines, i) THEN Swap(lines, i)
                      ELSE IF Hoists(lines, i) THEN Swap(lines, i - 1) ELSE lines
    BY <1>1 DEF Phase1
  <2>2. i \in 2..Len(lines) - 1
    BY <1>0
  <2>3. Excursion(lines, i)
    BY <2>1 DEF First
  <2>4. lines' = lines \/ lines' = Swap(lines, i) \/ lines' = Swap(lines, i - 1)
    BY <2>1
  <2> QED BY <2>2, <2>3, <2>4 DEF Swaps
<1>2. CASE Phase2
  <2>1. PICK i \in at..Len(lines) - 2 :
          /\ First(LAMBDA p : Movable(lines, p), i)
          /\ lines' = Spliced(lines, i, FirstGap(lines, i, Bank(lines[i - 1])))
    BY <1>2 DEF Phase2
  <2>2. i \in 2..Len(lines) - 2
    BY <1>0
  <2>3. Movable(lines, i)
    BY <2>1 DEF First
  <2> QED BY <2>1, <2>2, <2>3 DEF Splices
<1>3. CASE Phase1Ends \/ Phase2Ends \/ Finished \/ UNCHANGED vars
  BY <1>3 DEF Phase1Ends, Phase2Ends, Finished, vars
<1> QED BY <1>1, <1>2, <1>3 DEF Next

(* Every step leaves a reordering.                                         *)
LEMMA OrderKept ==
  ASSUME IInv, [Next]_vars
  PROVE  Order'
<1> DEFINE S == {text[p] : p \in DOMAIN text}
<1>1. Order /\ lines \in Seq(S) /\ Len(lines) \in Nat
  BY TextIs DEF IInv, Order, IsText
<1>2. text' = text
  BY DEF Next, Phase1, Phase1Ends, Phase2, Phase2Ends, Finished, vars
<1> HIDE DEF S
<1>3. CASE lines' = lines
  BY <1>1, <1>2, <1>3 DEF Order
<1>4. ASSUME NEW i \in 2..Len(lines) - 1, Swaps(i) PROVE Order'
  <2>1. IsInsn(lines[i - 1]) /\ IsInsn(lines[i]) /\ IsInsn(lines[i + 1])
    <3>1. i - 1 \in i - 1..i + 1 /\ i \in i - 1..i + 1 /\ i + 1 \in i - 1..i + 1
      BY <1>1
    <3> QED BY <1>4, <3>1 DEF Swaps, Excursion, InRegion
  <2>2. PICK j \in {i, i - 1} : lines' = Swap(lines, j)
    BY <1>4 DEF Swaps
  <2>3. j \in 1..Len(lines) - 1 /\ IsInsn(lines[j]) /\ IsInsn(lines[j + 1])
    BY <1>1, <2>1
  <2>4. Reorders(SwapOrder(Len(lines), j), lines, lines')
    BY <1>1, <2>2, <2>3, SwapReorders
  <2>5. lines' \in Seq(S)
    BY <1>1, <2>2, <2>3, SwapIs
  <2> QED BY <1>1, <1>2, <2>4, <2>5, OrderMore DEF S
<1>5. ASSUME NEW i \in 2..Len(lines) - 2, Splices(i) PROVE Order'
  <2> DEFINE gap == FirstGap(lines, i, Bank(lines[i - 1]))
  <2>1. gap \in 2..i - 1 /\ \A p \in gap - 1..i - 1 : IsInsn(lines[p])
    BY <1>5, GapIs DEF Splices
  <2>2. \A p \in i - 1..i + 2 : IsInsn(lines[p])
    BY <1>5 DEF Splices, Movable, InRegion
  <2>3. lines' = Spliced(lines, i, gap)
    BY <1>5 DEF Splices
  <2> HIDE DEF gap
  <2>4. \A p \in gap..i + 2 : IsInsn(lines[p])
    BY <2>1, <2>2
  <2>5. i \in Nat /\ i + 2 <= Len(lines)
    BY <1>1
  <2>6. Reorders(SpliceOrder(Len(lines), i, gap), lines, lines')
    BY <1>1, <2>1, <2>3, <2>4, <2>5, SpliceReorders
  <2>7. lines' \in Seq(S)
    BY <1>1, <2>1, <2>3, <2>5, SplicedIs
  <2> QED BY <1>1, <1>2, <2>6, <2>7, OrderMore DEF S
<1> QED BY <1>3, <1>4, <1>5, Moves

(* Every step keeps the invariant.                                         *)
LEMMA StepOrder ==
  ASSUME IInv, [Next]_vars
  PROVE  IInv'
<1>1. Order /\ Order' /\ IsText(lines) /\ IsText(lines)' /\ Len(lines') = Len(lines) /\ text' = text
  <2>1. Order /\ Order' /\ text' = text
    BY OrderKept DEF IInv, Next, Phase1, Phase1Ends, Phase2, Phase2Ends, Finished, vars
  <2>2. IsText(lines) /\ Len(lines) = Len(text)
    BY <2>1, TextIs
  <2>3. (IsText(lines) /\ Len(lines) = Len(text))'
    BY <2>1, TextIs, PTL
  <2> QED BY <2>1, <2>2, <2>3
<1>2. Len(lines) \in Nat \ {0} /\ at \in 2..Len(lines) + 1
  BY <1>1 DEF IsText, IInv
<1>3. at' \in 2..Len(lines) + 1
  <2>1. CASE Phase1
    BY <1>2, <2>1 DEF Phase1
  <2>2. CASE Phase1Ends
    BY <1>2, <2>2 DEF Phase1Ends
  <2>3. CASE Phase2 \/ Phase2Ends \/ Finished \/ UNCHANGED vars
    BY <1>2, <2>3 DEF Phase2, Phase2Ends, Finished, vars
  <2> QED BY <2>1, <2>2, <2>3 DEF Next
<1>4. stage' \in {"phase1", "phase2", "done"}
  BY DEF IInv, Next, Phase1, Phase1Ends, Phase2, Phase2Ends, Finished, vars
<1>5. overtaken' \in BOOLEAN
  <2>1. CASE Phase2
    <3>1. PICK i \in at..Len(lines) - 2 :
            overtaken' = (overtaken \/ Overtakes(lines, i, FirstGap(lines, i, Bank(lines[i - 1]))))
      BY <2>1 DEF Phase2
    <3> QED BY <3>1
  <2>2. CASE ~Phase2
    BY <2>2 DEF IInv, Next, Phase1, Phase1Ends, Phase2Ends, Finished, vars
  <2> QED BY <2>1, <2>2
<1> QED BY <1>1, <1>3, <1>4, <1>5 DEF IInv

(* The invariant has the types.                                            *)
LEMMA OrderType == IInv => TypeOK
<1> SUFFICES ASSUME IInv PROVE TypeOK
  OBVIOUS
<1>1. IsText(text) /\ IsText(lines) /\ Len(lines) = Len(text)
  BY TextIs DEF IInv
<1>2. PICK f \in Bijections(Len(text)) : Reorders(f, text, lines)
  BY DEF IInv, Order
<1>3. \A p \in DOMAIN text : ~IsInsn(text[p]) => lines[p] = text[p]
  BY <1>1, <1>2, KindsKept DEF IsText
<1>4. ASSUME NEW l
      PROVE  Cardinality({p \in DOMAIN text : text[p] = l})
                = Cardinality({p \in DOMAIN lines : lines[p] = l})
  <2>1. Often(text, l) = Often(lines, l)
    BY <1>1, <1>2, SameOften
  <2> QED BY <2>1 DEF Often
<1> QED BY <1>1, <1>3, <1>4 DEF TypeOK, IInv

(* At every moment the lines are the text's own, each as often as in the   *)
(* text, and none has crossed a label, a jump, a call or a return:         *)
(* whatever the two phases of schedule do, it is a reordering inside the   *)
(* straight-line parts.                                                    *)
THEOREM OrderHolds == Spec => []IInv
  BY InitOrder, StepOrder, PTL DEF Spec

(* The scheduler keeps its text a sequence of lines of the input and its   *)
(* cursor inside it, for every set of texts.                               *)
THEOREM TypeCorrect == Spec => []TypeOK
  BY OrderHolds, OrderType, PTL

-----------------------------------------------------------------------------
(* Bank switches.                                                          *)

(* q is the nearest line before p that needs a bank, and it is another.    *)
Differs(ls, q, p) ==
    /\ Needs(ls, q) /\ Bank(ls[q]) # Bank(ls[p])
    /\ \A r \in q + 1..p - 1 : ~Needs(ls, r)

(* Two texts that differ between lo and hi only.                           *)
DifferInside(a, b, lo, hi) ==
    /\ IsText(a) /\ IsText(b) /\ Len(b) = Len(a)
    /\ lo \in 1..Len(a) /\ hi \in lo..Len(a)
    /\ \A p \in 1..Len(a) : p < lo \/ p > hi => b[p] = a[p]

(* A line switches when the nearest line before it that needs a bank needs *)
(* another.                                                                *)
LEMMA SwitchingIs ==
  ASSUME NEW ls, IsText(ls), NEW p \in 1..Len(ls)
  PROVE  p \in Switching(ls) <=> Needs(ls, p) /\ \E q \in 1..p - 1 : Differs(ls, q, p)
BY DEF Switching, Differs, IsText

(* After a line that needs the same bank there is no switch.               *)
LEMMA NoSwitch ==
  ASSUME NEW ls, IsText(ls), NEW p \in 1..Len(ls), NEW q \in 1..p - 1,
         Needs(ls, q), Bank(ls[q]) = Bank(ls[p]), \A r \in q + 1..p - 1 : ~Needs(ls, r)
  PROVE  p \notin Switching(ls)
<1>1. ASSUME NEW u \in 1..p - 1, Differs(ls, u, p) PROVE FALSE
  <2>1. u = q \/ u \in q + 1..p - 1 \/ q \in u + 1..p - 1
    OBVIOUS
  <2> QED BY <1>1, <2>1 DEF Differs
<1> QED BY <1>1, SwitchingIs

(* Before the place where two texts differ they switch at the same lines.  *)
LEMMA SwitchBefore ==
  ASSUME NEW a, NEW b, NEW lo, NEW hi, DifferInside(a, b, lo, hi), NEW p \in 1..lo - 1,
         p \in Switching(b)
  PROVE  p \in Switching(a)
<1>1. Len(a) \in Nat /\ lo \in 1..Len(a)
  BY DEF DifferInside, IsText
<1>2. p \in 1..Len(a) /\ \A r \in 1..p : b[r] = a[r] /\ (Needs(b, r) <=> Needs(a, r))
  BY <1>1 DEF DifferInside, Needs
<1>3. PICK q \in 1..p - 1 : Differs(b, q, p)
  BY <1>1, <1>2, SwitchingIs DEF DifferInside
<1>4. Needs(b, p)
  BY <1>1, <1>2, SwitchingIs DEF DifferInside
<1>5. Differs(a, q, p)
  BY <1>2, <1>3 DEF Differs
<1> QED BY <1>1, <1>2, <1>4, <1>5, SwitchingIs DEF DifferInside

(* A switch after the two texts agree again has its line before hi.        *)
LEMMA SwitchAfter ==
  ASSUME NEW a, NEW b, NEW lo, NEW hi, DifferInside(a, b, lo, hi), NEW p \in hi + 1..Len(a),
         p \in Switching(b), p \notin Switching(a)
  PROVE  /\ \A r \in hi + 1..p - 1 : ~Needs(b, r)
         /\ \E q \in 1..hi : Differs(b, q, p)
<1>1. Len(a) \in Nat /\ lo \in 1..Len(a) /\ hi \in lo..Len(a) /\ p \in 1..Len(a) /\ Len(b) = Len(a)
  BY DEF DifferInside, IsText
<1>2. \A r \in hi + 1..p : b[r] = a[r] /\ (Needs(b, r) <=> Needs(a, r))
  BY <1>1 DEF DifferInside, Needs
<1>3. Needs(b, p)
  BY <1>1, SwitchingIs DEF DifferInside
<1>4. PICK q \in 1..p - 1 : Differs(b, q, p)
  BY <1>1, SwitchingIs DEF DifferInside
<1>5. q \notin hi + 1..p - 1
  <2> SUFFICES ASSUME q \in hi + 1..p - 1 PROVE FALSE
    OBVIOUS
  <2>1. \A r \in q + 1..p - 1 : r \in hi + 1..p
    BY <1>1
  <2>2. p \in hi + 1..p /\ q \in hi + 1..p
    BY <1>1
  <2>3. Differs(a, q, p)
    BY <1>2, <1>4, <2>1, <2>2 DEF Differs
  <2>4. Needs(a, p)
    BY <1>2, <1>3, <2>2
  <2> QED BY <1>1, <2>3, <2>4, SwitchingIs DEF DifferInside
<1>6. q \in 1..hi
  BY <1>1, <1>5
<1>7. \A r \in hi + 1..p - 1 : r \in q + 1..p - 1
  BY <1>1, <1>6
<1> QED BY <1>4, <1>6, <1>7 DEF Differs

(* So at most one switch is new there.                                     *)
LEMMA OneNewAfter ==
  ASSUME NEW a, NEW b, NEW lo, NEW hi, DifferInside(a, b, lo, hi),
         NEW p \in hi + 1..Len(a), NEW q \in hi + 1..Len(a),
         p \in Switching(b), p \notin Switching(a), q \in Switching(b), q \notin Switching(a)
  PROVE  p = q
<1>1. Len(a) \in Nat /\ lo \in 1..Len(a) /\ hi \in lo..Len(a) /\ Len(b) = Len(a)
  BY DEF DifferInside, IsText
<1>2. Needs(b, p) /\ Needs(b, q)
  BY <1>1, SwitchingIs DEF DifferInside
<1>3. p \notin hi + 1..q - 1 /\ q \notin hi + 1..p - 1
  BY <1>2, SwitchAfter
<1> QED BY <1>1, <1>3

(* A text has finitely many switches.                                      *)
LEMMA SwitchingFinite ==
  ASSUME NEW ls, IsText(ls)
  PROVE  IsFiniteSet(Switching(ls)) /\ Cardinality(Switching(ls)) \in Nat
<1>1. IsFiniteSet(1..Len(ls))
  BY FS_Interval DEF IsText
<1>2. Switching(ls) \in SUBSET (1..Len(ls))
  BY DEF Switching, IsText
<1>3. IsFiniteSet(Switching(ls))
  BY <1>1, <1>2, FS_Subset, Zenon
<1> QED BY <1>3, FS_CardinalityType

(* One switch goes and at most one comes.                                  *)
LEMMA OneForOne ==
  ASSUME NEW a, NEW b, IsText(a), IsText(b), NEW gone \in Switching(a), gone \notin Switching(b),
         \A p, q \in Switching(b) \ Switching(a) : p = q
  PROVE  Switches(b) <= Switches(a)
<1> DEFINE A == Switching(a)
           B == Switching(b)
<1>1. IsFiniteSet(A) /\ Cardinality(A) \in Nat /\ IsFiniteSet(B) /\ Cardinality(B) \in Nat
  BY SwitchingFinite
<1>2. Switches(a) = Cardinality(A) /\ Switches(b) = Cardinality(B)
  BY DEF Switches
<1>3. gone \in A /\ gone \notin B /\ \A p, q \in B \ A : p = q
  OBVIOUS
<1> HIDE DEF A, B
<1>4. IsFiniteSet(A \ {gone}) /\ Cardinality(A \ {gone}) = Cardinality(A) - 1
  BY <1>1, <1>3, FS_RemoveElement
<1>5. CASE B \subseteq A
  <2>1. B \in SUBSET A
    BY <1>5
  <2>2. Cardinality(B) <= Cardinality(A)
    BY <1>1, <2>1, FS_Subset, Zenon
  <2> QED BY <1>2, <2>2
<1>6. ASSUME NEW p \in B \ A PROVE Cardinality(B) <= Cardinality(A)
  <2> DEFINE D == A \ {gone}
  <2>1. IsFiniteSet(D \cup {p}) /\ Cardinality(D \cup {p}) = Cardinality(D) + 1
    <3>1. p \notin D
      OBVIOUS
    <3> HIDE DEF D
    <3>2. IsFiniteSet(D)
      BY <1>4 DEF D
    <3> QED BY <3>1, <3>2, FS_AddElement
  <2>2. B \in SUBSET (D \cup {p})
    BY <1>3
  <2> HIDE DEF D
  <2>3. Cardinality(B) <= Cardinality(D \cup {p})
    BY <2>1, <2>2, FS_Subset, Zenon
  <2>4. Cardinality(D \cup {p}) = Cardinality(A)
    BY <1>1, <1>4, <2>1 DEF D
  <2> QED BY <2>3, <2>4
<1> QED BY <1>2, <1>5, <1>6

(* No new line that switches, no more switches.                            *)
LEMMA NoneNew ==
  ASSUME NEW a, NEW b, IsText(a), IsText(b), Switching(b) \subseteq Switching(a)
  PROVE  Switches(b) <= Switches(a)
<1> DEFINE A == Switching(a)
           B == Switching(b)
<1>1. IsFiniteSet(A) /\ B \in SUBSET A
  BY SwitchingFinite
<1> HIDE DEF A, B
<1>2. Cardinality(B) <= Cardinality(A)
  BY <1>1, FS_Subset, Zenon
<1> QED BY <1>2 DEF Switches, A, B

(* A swap changes two lines.                                               *)
LEMMA SwapDiffers ==
  ASSUME NEW S, NEW ls \in Seq(S), NEW i \in 1..Len(ls) - 1
  PROVE  DifferInside(ls, Swap(ls, i), i, i + 1)
<1>1. Len(ls) \in Nat \ {0} /\ DOMAIN ls = 1..Len(ls) /\ i \in 1..Len(ls) /\ i + 1 \in i..Len(ls)
  OBVIOUS
<1>2. Swap(ls, i) \in Seq(S) /\ Len(Swap(ls, i)) = Len(ls)
      /\ \A p \in 1..Len(ls) : p # i /\ p # i + 1 => Swap(ls, i)[p] = ls[p]
  BY SwapIs
<1>3. \A p \in 1..Len(ls) : p < i \/ p > i + 1 => p # i /\ p # i + 1
  BY <1>1
<1> DEFINE b == Swap(ls, i)
<1>4. IsText(b)
  <2> HIDE DEF b
  <2>1. b \in Seq(S) /\ Len(b) = Len(ls)
    BY <1>2 DEF b
  <2> QED BY <1>1, <2>1 DEF IsText
<1> HIDE DEF b
<1> QED BY <1>1, <1>2, <1>3, <1>4 DEF DifferInside, IsText, b

(* An excursion sinks past the instruction after it.                       *)
LEMMA SinkSaves ==
  ASSUME NEW S, NEW a \in Seq(S), NEW i \in 2..Len(a) - 1, Excursion(a, i)
  PROVE  Switches(Swap(a, i)) <= Switches(a)
<1> DEFINE b == Swap(a, i)
           n == Len(a)
<1>1. n \in Nat /\ i \in 1..n - 1 /\ i - 1 \in 1..n /\ i \in 1..n /\ i + 1 \in 1..n
  OBVIOUS
<1>2. DifferInside(a, b, i, i + 1)
  BY <1>1, SwapDiffers
<1>3. b[i] = a[i + 1] /\ b[i + 1] = a[i] /\ b[i - 1] = a[i - 1]
  <2>1. i - 1 # i /\ i - 1 # i + 1
    BY <1>1
  <2> QED BY <1>1, <2>1, SwapIs
<1> HIDE DEF b, n
<1>4. IsText(a) /\ IsText(b) /\ Len(b) = n
  BY <1>2 DEF DifferInside, n
<1>5. /\ Needs(a, i - 1) /\ Needs(a, i) /\ Needs(a, i + 1)
      /\ Bank(a[i - 1]) = Bank(a[i + 1]) /\ Bank(a[i]) # Bank(a[i + 1])
  <2>1. i - 1 \in i - 1..i + 1 /\ i \in i - 1..i + 1 /\ i + 1 \in i - 1..i + 1
    BY <1>1
  <2> QED BY <2>1 DEF Excursion, InRegion, IsMoveCandidate, Needs
<1>6. i \in Switching(a) /\ i + 1 \in Switching(a)
  <2>1. Differs(a, i - 1, i) /\ i - 1 \in 1..i - 1
    BY <1>1, <1>5 DEF Differs
  <2>2. Differs(a, i, i + 1) /\ i \in 1..(i + 1) - 1
    BY <1>1, <1>5 DEF Differs
  <2> QED BY <1>1, <1>4, <1>5, <2>1, <2>2, SwitchingIs DEF n
<1>7. i \notin Switching(b)
  <2>1. Needs(b, i - 1) /\ Bank(b[i - 1]) = Bank(b[i])
    BY <1>3, <1>5 DEF Needs
  <2>2. i - 1 \in 1..i - 1 /\ \A r \in (i - 1) + 1..i - 1 : ~Needs(b, r)
    BY <1>1
  <2> QED BY <1>1, <1>4, <2>1, <2>2, NoSwitch
<1>8. ASSUME NEW p \in Switching(b) \ Switching(a) PROVE p \in (i + 1) + 1..n
  <2>1. p \in 1..n
    BY <1>4 DEF Switching, IsText
  <2>2. p \notin 1..i - 1
    BY <1>2, <1>8, SwitchBefore
  <2> QED BY <1>1, <1>6, <1>8, <2>1, <2>2
<1>9. \A p, q \in Switching(b) \ Switching(a) : p = q
  BY <1>2, <1>8, OneNewAfter DEF n
<1>10. Switches(b) <= Switches(a)
  BY <1>4, <1>6, <1>7, <1>9, OneForOne
<1> QED BY <1>10 DEF b

(* It is hoisted over the instruction before it.                           *)
LEMMA HoistSaves ==
  ASSUME NEW S, NEW a \in Seq(S), NEW i \in 2..Len(a) - 1, Excursion(a, i)
  PROVE  Switches(Swap(a, i - 1)) <= Switches(a)
<1> DEFINE b == Swap(a, i - 1)
           n == Len(a)
<1>1. n \in Nat /\ i - 1 \in 1..n - 1 /\ i - 1 \in 1..n /\ i \in 1..n /\ i + 1 \in 1..n /\ (i - 1) + 1 = i
  OBVIOUS
<1>2. DifferInside(a, b, i - 1, i)
  BY <1>1, SwapDiffers
<1>3. b[i - 1] = a[i] /\ b[i] = a[i - 1] /\ b[i + 1] = a[i + 1]
  <2>1. i + 1 # i /\ i + 1 # i - 1
    BY <1>1
  <2> QED BY <1>1, <2>1, SwapIs
<1> HIDE DEF b, n
<1>4. IsText(a) /\ IsText(b) /\ Len(b) = n
  BY <1>2 DEF DifferInside, n
<1>5. /\ Needs(a, i - 1) /\ Needs(a, i) /\ Needs(a, i + 1)
      /\ Bank(a[i - 1]) = Bank(a[i + 1]) /\ Bank(a[i]) # Bank(a[i + 1])
  <2>1. i - 1 \in i - 1..i + 1 /\ i \in i - 1..i + 1 /\ i + 1 \in i - 1..i + 1
    BY <1>1
  <2> QED BY <2>1 DEF Excursion, InRegion, IsMoveCandidate, Needs
<1>6. i \in Switching(a) /\ i + 1 \in Switching(a)
  <2>1. Differs(a, i - 1, i) /\ i - 1 \in 1..i - 1
    BY <1>1, <1>5 DEF Differs
  <2>2. Differs(a, i, i + 1) /\ i \in 1..(i + 1) - 1
    BY <1>1, <1>5 DEF Differs
  <2> QED BY <1>1, <1>4, <1>5, <2>1, <2>2, SwitchingIs DEF n
<1>7. i + 1 \notin Switching(b)
  <2>1. Needs(b, i) /\ Bank(b[i]) = Bank(b[i + 1])
    BY <1>3, <1>5 DEF Needs
  <2>2. i \in 1..(i + 1) - 1 /\ \A r \in i + 1..(i + 1) - 1 : ~Needs(b, r)
    BY <1>1
  <2> QED BY <1>1, <1>4, <2>1, <2>2, NoSwitch
<1>8. ASSUME NEW p \in Switching(b) \ Switching(a) PROVE p = i - 1
  <2>1. p \in 1..n
    BY <1>4 DEF Switching, IsText
  <2>2. p \notin 1..(i - 1) - 1
    BY <1>2, <1>8, SwitchBefore
  <2>3. p \notin i + 1..n
    <3> SUFFICES ASSUME p \in i + 1..n PROVE FALSE
      OBVIOUS
    <3>1. \A r \in i + 1..p - 1 : ~Needs(b, r)
      BY <1>2, <1>8, SwitchAfter DEF n
    <3>2. Needs(b, i + 1)
      BY <1>3, <1>5 DEF Needs
    <3>3. p = i + 1
      BY <1>1, <3>1, <3>2
    <3> QED BY <1>7, <1>8, <3>3
  <2> QED BY <1>1, <1>6, <1>8, <2>1, <2>2, <2>3
<1>9. Switches(b) <= Switches(a)
  BY <1>4, <1>6, <1>7, <1>8, OneForOne
<1> QED BY <1>9 DEF b

(* A splice changes the lines between the gap and the bundle.              *)
LEMMA SpliceDiffers ==
  ASSUME NEW S, NEW ls \in Seq(S), NEW i \in Nat, i + 2 <= Len(ls), NEW gap \in 2..i - 1
  PROVE  /\ DifferInside(ls, Spliced(ls, i, gap), gap, i + 2)
         /\ Spliced(ls, i, gap)[gap] = ls[i + 1] /\ Spliced(ls, i, gap)[gap + 1] = ls[i + 2]
         /\ \A p \in gap + 2..i + 2 : Spliced(ls, i, gap)[p] = ls[p - 2]
<1> DEFINE b == Spliced(ls, i, gap)
           n == Len(ls)
           s == SpliceOrder(n, i, gap)
<1>1. n \in Nat \ {0} /\ DOMAIN ls = 1..n /\ gap \in 1..n /\ i + 2 \in gap..n
  OBVIOUS
<1>2. b \in Seq(S) /\ Len(b) = n /\ \A p \in 1..n : b[p] = ls[s[p]]
  BY SplicedIs
<1> HIDE DEF b, n
<1>3. /\ s[gap] = i + 1 /\ s[gap + 1] = i + 2
      /\ \A p \in gap + 2..i + 2 : s[p] = p - 2
      /\ \A p \in 1..n : p < gap \/ p > i + 2 => s[p] = p
  BY <1>1 DEF SpliceOrder
<1> HIDE DEF s
<1>4. \A p \in 1..n : p < gap \/ p > i + 2 => b[p] = ls[p]
  BY <1>1, <1>2, <1>3
<1>5. b[gap] = ls[i + 1] /\ b[gap + 1] = ls[i + 2]
  <2>1. gap \in 1..n /\ gap + 1 \in 1..n
    BY <1>1
  <2> QED BY <1>2, <1>3, <2>1
<1>6. \A p \in gap + 2..i + 2 : b[p] = ls[p - 2]
  <2>1. \A p \in gap + 2..i + 2 : p \in 1..n
    BY <1>1
  <2> QED BY <1>2, <1>3, <2>1
<1>7. IsText(ls) /\ IsText(b)
  BY <1>1, <1>2 DEF IsText, n
<1> QED BY <1>1, <1>2, <1>4, <1>5, <1>6, <1>7 DEF DifferInside, b, n

(* A constant's store goes to where its bank is selected already.          *)
LEMMA SpliceSaves ==
  ASSUME NEW S, NEW a \in Seq(S), NEW i \in 2..Len(a) - 2, Movable(a, i),
         NEW gap \in 2..i - 1,
         \A p \in gap - 1..i - 1 : IsInsn(a[p]) /\ Bank(a[p]) = Bank(a[i - 1])
  PROVE  Switches(Spliced(a, i, gap)) <= Switches(a)
<1> DEFINE b == Spliced(a, i, gap)
           n == Len(a)
           bank == Bank(a[i - 1])
           In(ls, p) == Needs(ls, p) /\ Bank(ls[p]) = bank
<1>1. n \in Nat /\ i \in Nat /\ i + 2 <= n /\ i >= 3
  OBVIOUS
<1>2. /\ DifferInside(a, b, gap, i + 2)
      /\ b[gap] = a[i + 1] /\ b[gap + 1] = a[i + 2] /\ \A p \in gap + 2..i + 2 : b[p] = a[p - 2]
  BY <1>1, SpliceDiffers
<1> HIDE DEF b
<1>3. IsText(a) /\ IsText(b) /\ Len(b) = n
  BY <1>2 DEF DifferInside
<1>4. b[gap - 1] = a[gap - 1]
  <2>1. gap - 1 \in 1..n /\ gap - 1 < gap
    BY <1>1
  <2> QED BY <1>2, <2>1 DEF DifferInside
<1>5. /\ bank # NoBank /\ bank # Bank(a[i])
      /\ a[i + 1][1] = "movlw" /\ Bank(a[i + 2]) = bank
      /\ \A p \in i - 1..i + 2 : IsInsn(a[p])
  BY DEF Movable, Bundle, InRegion
<1>6. Bank(a[i + 1]) = NoBank
  BY <1>5 DEF Bank, FileAddr, IsLiteral, LiteralOps
<1> HIDE DEF bank
<1>7. \A p \in gap - 1..i - 1 : In(a, p)
  BY <1>5 DEF Needs, bank
<1>8. In(a, i + 2) /\ ~Needs(a, i + 1) /\ (Needs(a, i) <=> Bank(a[i]) # NoBank)
  <2>1. i \in i - 1..i + 2 /\ i + 2 \in i - 1..i + 2
    BY <1>1
  <2> QED BY <1>5, <1>6, <2>1 DEF Needs
<1>9. ~Needs(b, gap) /\ In(b, gap - 1) /\ In(b, gap + 1)
  <2>1. gap - 1 \in gap - 1..i - 1
    BY <1>1
  <2> QED BY <1>2, <1>4, <1>7, <1>8, <2>1 DEF Needs
<1>10. \A p \in gap + 2..i + 1 : In(b, p)
  <2> SUFFICES ASSUME NEW p \in gap + 2..i + 1 PROVE In(b, p)
    OBVIOUS
  <2>1. p - 2 \in gap - 1..i - 1 /\ p \in gap + 2..i + 2
    BY <1>1
  <2> QED BY <1>2, <1>7, <2>1 DEF Needs
<1>11. b[i + 2] = a[i] /\ (Needs(b, i + 2) <=> Needs(a, i))
  <2>1. i + 2 \in gap + 2..i + 2 /\ (i + 2) - 2 = i
    BY <1>1
  <2> QED BY <1>2, <2>1 DEF Needs
<1> HIDE DEF In
<1>12. \A p \in gap..i + 1 : p \notin Switching(b)
  <2> SUFFICES ASSUME NEW p \in gap..i + 1 PROVE p \notin Switching(b)
    OBVIOUS
  <2>0. p \in 1..Len(b)
    BY <1>1, <1>3
  <2>1. CASE p = gap
    BY <1>3, <1>9, <2>0, <2>1, SwitchingIs
  <2>2. CASE p = gap + 1
    <3>1. gap - 1 \in 1..p - 1 /\ \A r \in (gap - 1) + 1..p - 1 : r = gap
      BY <1>1, <2>2
    <3> QED BY <1>3, <1>9, <2>0, <2>2, <3>1, NoSwitch DEF In
  <2>3. CASE p \in gap + 2..i + 1
    <3>1. p - 1 \in 1..p - 1 /\ \A r \in (p - 1) + 1..p - 1 : FALSE
      BY <1>1, <2>3
    <3>2. In(b, p - 1) /\ In(b, p)
      <4>1. p - 1 = gap + 1 \/ p - 1 \in gap + 2..i + 1
        BY <2>3
      <4> QED BY <1>9, <1>10, <2>3, <4>1
    <3> QED BY <1>3, <2>0, <3>1, <3>2, NoSwitch DEF In
  <2> QED BY <2>1, <2>2, <2>3
<1>13. CASE Needs(a, i)
  <2>1. Differs(a, i - 1, i) /\ i - 1 \in 1..i - 1
    <3>1. i - 1 \in gap - 1..i - 1
      BY <1>1
    <3> QED BY <1>1, <1>5, <1>7, <3>1 DEF Differs, In
  <2>2. Differs(a, i, i + 2) /\ i \in 1..(i + 2) - 1
    <3>1. \A r \in i + 1..(i + 2) - 1 : r = i + 1
      BY <1>1
    <3> QED BY <1>1, <1>5, <1>8, <1>13, <3>1 DEF Differs, In
  <2>3. i \in Switching(a) /\ i + 2 \in Switching(a)
    <3>1. i \in 1..Len(a) /\ i + 2 \in 1..Len(a)
      BY <1>1
    <3> QED BY <1>3, <1>8, <1>13, <2>1, <2>2, <3>1, SwitchingIs DEF In
  <2>4. i \notin Switching(b)
    <3>1. i \in gap..i + 1
      BY <1>1
    <3> QED BY <1>12, <3>1
  <2>5. ASSUME NEW p \in Switching(b) \ Switching(a) PROVE p \in (i + 2) + 1..n
    <3>1. p \in 1..n
      BY <1>3 DEF Switching, IsText
    <3>2. p \notin 1..gap - 1
      BY <1>2, <2>5, SwitchBefore
    <3>3. p \notin gap..i + 1 /\ p # i + 2
      BY <1>12, <2>3, <2>5
    <3> QED BY <1>1, <3>1, <3>2, <3>3
  <2>6. \A p, q \in Switching(b) \ Switching(a) : p = q
    <3> SUFFICES ASSUME NEW p \in Switching(b) \ Switching(a), NEW q \in Switching(b) \ Switching(a)
                 PROVE  p = q
      OBVIOUS
    <3>1. p \in (i + 2) + 1..Len(a) /\ q \in (i + 2) + 1..Len(a)
      BY <2>5
    <3>2. p \in Switching(b) /\ p \notin Switching(a) /\ q \in Switching(b) /\ q \notin Switching(a)
      OBVIOUS
    <3>3. DifferInside(a, b, gap, i + 2)
      BY <1>2
    <3> QED BY <3>1, <3>2, <3>3, OneNewAfter
  <2>7. Switches(b) <= Switches(a)
    BY <1>3, <2>3, <2>4, <2>6, OneForOne
  <2> QED BY <2>7 DEF b
<1>14. CASE ~Needs(a, i)
  <2>1. ASSUME NEW p \in Switching(b), p \notin Switching(a) PROVE FALSE
    <3>1. p \in 1..n
      BY <1>3, <2>1 DEF Switching, IsText
    <3>2. p \notin 1..gap - 1
      BY <1>2, <2>1, SwitchBefore
    <3>3. p \notin gap..i + 1
      BY <1>12, <2>1
    <3>4. p # i + 2
      BY <1>3, <1>11, <1>14, <2>1, <3>1, SwitchingIs
    <3>5. p \in (i + 2) + 1..Len(a)
      BY <1>1, <3>1, <3>2, <3>3, <3>4
    <3>6. PICK q \in 1..i + 2 : Differs(b, q, p)
      BY <1>2, <2>1, <3>5, SwitchAfter
    <3>7. q = i + 1
      <4>1. Needs(b, i + 1) /\ ~Needs(b, i + 2)
        <5>1. i + 1 \in gap + 2..i + 1
          BY <1>1
        <5> QED BY <1>10, <1>11, <1>14, <5>1 DEF In
      <4>2. i + 1 \notin q + 1..p - 1 /\ q # i + 2
        BY <3>6, <4>1 DEF Differs
      <4> QED BY <1>1, <3>5, <4>2
    <3>8. Needs(b, p) /\ Bank(b[p]) # bank
      <4>1. i + 1 \in gap + 2..i + 1
        BY <1>1
      <4>2. Bank(b[i + 1]) = bank
        BY <1>10, <4>1 DEF In
      <4> QED BY <1>3, <2>1, <3>1, <3>6, <3>7, <4>2, SwitchingIs DEF Differs
    <3>9. \A r \in (i + 2) + 1..p : b[r] = a[r] /\ (Needs(b, r) <=> Needs(a, r))
      <4>1. \A r \in (i + 2) + 1..p : r \in 1..Len(a) /\ r > i + 2
        BY <1>1, <3>5
      <4> QED BY <1>2, <4>1 DEF DifferInside, Needs
    <3>10. Differs(a, i + 2, p)
      <4>1. p \in (i + 2) + 1..p
        BY <1>1, <3>5
      <4>2. \A r \in (i + 2) + 1..p - 1 : r \in q + 1..p - 1 /\ r \in (i + 2) + 1..p
        BY <1>1, <3>5, <3>7
      <4> QED BY <1>8, <3>6, <3>8, <3>9, <4>1, <4>2 DEF Differs, In
    <3>11. Needs(a, p) /\ i + 2 \in 1..p - 1
      <4>1. p \in (i + 2) + 1..p /\ i + 2 \in 1..p - 1
        BY <1>1, <3>5
      <4> QED BY <3>8, <3>9, <4>1
    <3> QED BY <1>3, <2>1, <3>1, <3>10, <3>11, SwitchingIs
  <2>2. Switches(b) <= Switches(a)
    BY <1>3, <2>1, NoneNew
  <2> QED BY <2>2 DEF b
<1> QED BY <1>13, <1>14

(* No step adds a switch.                                                  *)
LEMMA SwitchesKept ==
  ASSUME IInv, [Next]_vars
  PROVE  Switches(lines') <= Switches(lines)
<1> DEFINE S == {text[p] : p \in DOMAIN text}
<1>1. lines \in Seq(S) /\ IsText(lines)
  BY TextIs DEF IInv, Order
<1> HIDE DEF S
<1>2. CASE lines' = lines
  <2>1. Switches(lines) \in Nat
    BY <1>1, SwitchingFinite DEF Switches
  <2>2. Switches(lines') = Switches(lines)
    BY <1>2
  <2> QED BY <2>1, <2>2
<1>3. ASSUME NEW i \in 2..Len(lines) - 1, Swaps(i) PROVE Switches(lines') <= Switches(lines)
  BY <1>1, <1>3, SinkSaves, HoistSaves DEF Swaps
<1>4. ASSUME NEW i \in 2..Len(lines) - 2, Splices(i) PROVE Switches(lines') <= Switches(lines)
  <2> DEFINE gap == FirstGap(lines, i, Bank(lines[i - 1]))
  <2>1. /\ gap \in 2..i - 1
        /\ \A p \in gap - 1..i - 1 : IsInsn(lines[p]) /\ Bank(lines[p]) = Bank(lines[i - 1])
    BY <1>4, GapIs DEF Splices
  <2>2. lines' = Spliced(lines, i, gap) /\ Movable(lines, i)
    BY <1>4 DEF Splices
  <2> HIDE DEF gap
  <2>3. Switches(Spliced(lines, i, gap)) <= Switches(lines)
    BY <1>1, <2>1, <2>2, SpliceSaves
  <2> QED BY <2>2, <2>3
<1> QED BY <1>2, <1>3, <1>4, Moves

(* No step of either phase makes the bank-select pass insert more switches *)
(* than it would have before (find_dead_w_gap and the sink and hoist of    *)
(* try_reorder claim to save one each).                                    *)
THEOREM SwitchesNeverGrow == Spec => NeverMoreSwitches
<1>1. IInv /\ [Next]_vars => [Switches(lines') <= Switches(lines)]_vars
  BY SwitchesKept
<1> QED BY <1>1, OrderHolds, PTL DEF Spec, NeverMoreSwitches

-----------------------------------------------------------------------------
(* Skips and what they skip.                                               *)

(* The instruction after a skip is the one that was after it.              *)
Aims(f, a, b) ==
    Reorders(f, a, b) /\ \A p \in 1..Len(a) - 1 : IsSkip(b[p]) => f[p + 1] = f[p] + 1
SkipsAimed == \E f \in Bijections(Len(text)) : Aims(f, text, lines)

AimInv == IInv /\ (~overtaken => SkipsAimed)

(* One more reordering that keeps each skip before its target.             *)
LEMMA AimsMore ==
  ASSUME NEW a, NEW b, NEW c, NEW f, NEW s, Len(a) \in Nat,
         Aims(f, a, b), Reorders(s, b, c),
         \A p \in 1..Len(a) - 1 : IsSkip(c[p]) => s[p + 1] = s[p] + 1
  PROVE  Aims([p \in 1..Len(a) |-> f[s[p]]], a, c)
<1> DEFINE n == Len(a)
           h == [p \in 1..n |-> f[s[p]]]
<1>1. Reorders(h, a, c)
  BY Composed DEF Aims
<1>2. Reorders(f, a, b) /\ \A p \in 1..n - 1 : IsSkip(b[p]) => f[p + 1] = f[p] + 1
  BY DEF Aims
<1>3. \A p \in 1..n : s[p] \in 1..n /\ c[p] = b[s[p]]
  BY <1>2 DEF Reorders, Bijections
<1>4. ASSUME NEW p \in 1..n - 1, IsSkip(c[p]) PROVE h[p + 1] = h[p] + 1
  <2>1. p \in 1..n /\ p + 1 \in 1..n
    OBVIOUS
  <2>2. s[p + 1] = s[p] + 1 /\ s[p] \in 1..n - 1
    BY <1>3, <1>4, <2>1
  <2>3. IsSkip(b[s[p]])
    BY <1>3, <1>4, <2>1
  <2>4. f[s[p] + 1] = f[s[p]] + 1
    BY <1>2, <2>2, <2>3
  <2> QED BY <2>1, <2>2, <2>4
<1> HIDE DEF h
<1>5. Aims(h, a, c)
  BY <1>1, <1>4 DEF Aims
<1> QED BY <1>5 DEF h

(* In the text itself every skip is before its target.                     *)
LEMMA InitAims == Init => AimInv
<1> SUFFICES ASSUME Init PROVE AimInv
  OBVIOUS
<1>1. IInv
  BY InitOrder
<1>2. Len(text) \in Nat
  BY <1>1, TextIs DEF IInv, IsText
<1> DEFINE f == [p \in 1..Len(text) |-> p]
<1>3. lines = text
  BY DEF Init
<1>4. Reorders(f, text, lines)
  BY <1>2, <1>3, SameText
<1>5. \A p \in 1..Len(text) - 1 : f[p + 1] = f[p] + 1
  <2>1. \A p \in 1..Len(text) - 1 : p \in 1..Len(text) /\ p + 1 \in 1..Len(text)
    BY <1>2
  <2> QED BY <1>2, <2>1
<1> HIDE DEF f
<1>6. Aims(f, text, lines) /\ f \in Bijections(Len(text))
  BY <1>4, <1>5 DEF Aims, Reorders
<1> QED BY <1>1, <1>6 DEF AimInv, SkipsAimed

(* The two lines of a swap, and the one before them, are no skips after.   *)
LEMMA SwapAims ==
  ASSUME NEW S, lines \in Seq(S), Len(lines) \in Nat, NEW i \in 2..Len(lines) - 1,
         Excursion(lines, i), NEW j,
         \/ j = i /\ Sinks(lines, i)
         \/ j = i - 1 /\ Hoists(lines, i)
  PROVE  \A p \in 1..Len(lines) - 1 :
            IsSkip(Swap(lines, j)[p]) => /\ SwapOrder(Len(lines), j)[p] = p
                                         /\ SwapOrder(Len(lines), j)[p + 1] = p + 1
<1> DEFINE n == Len(lines)
<1>1. n \in Nat /\ j \in 1..n - 1 /\ i - 1 \in 1..n /\ i \in 1..n /\ i + 1 \in 1..n
  OBVIOUS
<1> HIDE DEF n
<1>2. ~IsSkip(lines[i]) /\ ~IsSkipTarget(lines, i) /\ \A p \in i - 1..i + 1 : IsInsn(lines[p])
  BY DEF Excursion, IsMoveCandidate, InRegion
<1>3. ~IsSkip(lines[i - 1])
  <2>1. IsInsn(lines[i - 1]) /\ i > 1
    BY <1>1, <1>2
  <2> QED BY <1>2, <2>1 DEF IsSkipTarget
<1>4. /\ Swap(lines, j)[j] = lines[j + 1] /\ Swap(lines, j)[j + 1] = lines[j]
      /\ \A p \in 1..n : p # j /\ p # j + 1 => Swap(lines, j)[p] = lines[p]
  BY <1>1, SwapIs DEF n
<1>5. ~IsSkip(lines[j]) /\ ~IsSkip(lines[j + 1])
  <2>1. CASE j = i /\ Sinks(lines, i)
    BY <1>2, <2>1 DEF Sinks
  <2>2. CASE j = i - 1
    <3>1. j + 1 = i
      BY <1>1, <2>2
    <3> QED BY <1>2, <1>3, <2>2, <3>1
  <2> QED BY <2>1, <2>2
<1>6. j > 1 => ~IsSkip(lines[j - 1])
  <2>1. CASE j = i
    BY <1>3, <2>1
  <2>2. CASE j = i - 1 /\ Hoists(lines, i)
    <3>1. ~IsSkipTarget(lines, j)
      BY <2>2 DEF Hoists
    <3>2. IsSkip(lines[j - 1]) => IsInsn(lines[j - 1])
      BY DEF IsSkip, SkipOps, IsInsn
    <3> QED BY <3>1, <3>2 DEF IsSkipTarget
  <2> QED BY <2>1, <2>2
<1>7. ASSUME NEW p \in 1..n - 1, IsSkip(Swap(lines, j)[p])
      PROVE  SwapOrder(n, j)[p] = p /\ SwapOrder(n, j)[p + 1] = p + 1
  <2>0. p \in 1..n /\ p + 1 \in 1..n
    BY <1>1
  <2>1. p # j /\ p # j + 1
    BY <1>4, <1>5, <1>7
  <2>2. p # j - 1
    <3> SUFFICES ASSUME p = j - 1 PROVE FALSE
      OBVIOUS
    <3>1. j > 1 /\ Swap(lines, j)[p] = lines[p]
      BY <1>1, <1>4, <2>0, <2>1
    <3> QED BY <1>6, <1>7, <3>1
  <2>3. p + 1 # j /\ p + 1 # j + 1
    BY <1>1, <2>1, <2>2
  <2> QED BY <2>0, <2>1, <2>3 DEF SwapOrder
<1> QED BY <1>7 DEF n

(* A splice moves a bundle that is no skip to a place no skip is before.   *)
LEMMA SpliceAims ==
  ASSUME NEW S, lines \in Seq(S), NEW i \in 2..Len(lines) - 2, Movable(lines, i),
         NEW gap \in 2..i - 1, ~IsSkip(lines[gap - 1])
  PROVE  \A p \in 1..Len(lines) - 1 :
            IsSkip(Spliced(lines, i, gap)[p]) =>
              SpliceOrder(Len(lines), i, gap)[p + 1] = SpliceOrder(Len(lines), i, gap)[p] + 1
<1> DEFINE n == Len(lines)
           b == Spliced(lines, i, gap)
           s == SpliceOrder(n, i, gap)
<1>1. n \in Nat /\ i \in Nat /\ i + 2 <= n
  OBVIOUS
<1>2. /\ b[gap] = lines[i + 1] /\ b[gap + 1] = lines[i + 2]
      /\ \A p \in gap + 2..i + 2 : b[p] = lines[p - 2]
      /\ \A p \in 1..n : p < gap => b[p] = lines[p]
  BY <1>1, SpliceDiffers DEF DifferInside
<1> HIDE DEF b, n
<1>3. /\ s[gap] = i + 1 /\ s[gap + 1] = i + 2
      /\ \A p \in gap + 2..i + 2 : s[p] = p - 2
      /\ \A p \in 1..n : p < gap \/ p > i + 2 => s[p] = p
  BY <1>1 DEF SpliceOrder
<1> HIDE DEF s
<1>4. ~IsSkip(lines[i]) /\ ~IsSkip(lines[i + 1]) /\ ~IsSkip(lines[i + 2])
  BY DEF Movable, Bundle, IsSkip, SkipOps
<1>5. ASSUME NEW p \in 1..n - 1, IsSkip(b[p]) PROVE s[p + 1] = s[p] + 1
  <2>1. p # gap - 1
    <3>1. gap - 1 \in 1..n /\ gap - 1 < gap
      BY <1>1
    <3> QED BY <1>2, <1>5, <3>1
  <2>2. p # gap /\ p # gap + 1
    BY <1>2, <1>4, <1>5
  <2>3. p # i + 2
    <3>1. i + 2 \in gap + 2..i + 2 /\ (i + 2) - 2 = i
      BY <1>1
    <3> QED BY <1>2, <1>4, <1>5, <3>1
  <2>4. CASE p < gap - 1 \/ p > i + 2
    <3>1. /\ p \in 1..n /\ p + 1 \in 1..n
          /\ p < gap \/ p > i + 2
          /\ p + 1 < gap \/ p + 1 > i + 2
      BY <1>1, <2>4
    <3> QED BY <1>3, <3>1
  <2>5. CASE p \in gap + 2..i + 1
    <3>1. p \in gap + 2..i + 2 /\ p + 1 \in gap + 2..i + 2
      BY <2>5
    <3> QED BY <1>3, <3>1
  <2> QED BY <1>1, <2>1, <2>2, <2>3, <2>4, <2>5
<1> QED BY <1>5 DEF n, b, s

(* Every step keeps the skips aimed, or has overtaken one.                 *)
LEMMA StepAims ==
  ASSUME AimInv, [Next]_vars
  PROVE  AimInv'
<1>1. IInv /\ IInv'
  BY StepOrder DEF AimInv
<1> SUFFICES ASSUME ~overtaken' PROVE SkipsAimed'
  BY <1>1 DEF AimInv
<1>2. text' = text /\ (lines' = lines \/ Phase1 \/ Phase2)
  BY DEF Next, Phase1, Phase1Ends, Phase2, Phase2Ends, Finished, vars
<1>3. PICK f \in Bijections(Len(text)) : Aims(f, text, lines)
  <2>1. overtaken' = overtaken \/ Phase2
    BY DEF Next, Phase1, Phase1Ends, Phase2, Phase2Ends, Finished, vars
  <2>2. Phase2 => (overtaken => overtaken')
    BY DEF Phase2
  <2>3. ~overtaken
    BY <2>1, <2>2
  <2> QED BY <2>3 DEF AimInv, SkipsAimed
<1>4. CASE lines' = lines
  BY <1>2, <1>3, <1>4 DEF SkipsAimed
<1>5. CASE Phase1 /\ lines' # lines
  <2> DEFINE S == {text[p] : p \in DOMAIN text}
  <2>1. lines \in Seq(S) /\ Len(lines) \in Nat /\ Len(text) = Len(lines)
        /\ at \in 2..Len(lines) + 1
    BY <1>1, TextIs DEF IInv, Order, IsText
  <2> HIDE DEF S
  <2>2. PICK i \in at..Len(lines) - 1 :
          /\ First(LAMBDA p : Excursion(lines, p), i)
          /\ lines' = IF Sinks(lines, i) THEN Swap(lines, i)
                      ELSE IF Hoists(lines, i) THEN Swap(lines, i - 1) ELSE lines
    BY <1>5 DEF Phase1
  <2>3. Excursion(lines, i)
    BY <2>2 DEF First
  <2>4. i \in 2..Len(lines) - 1
    BY <2>1
  <2>5. PICK j : /\ lines' = Swap(lines, j)
                 /\ \/ j = i /\ Sinks(lines, i)
                    \/ j = i - 1 /\ Hoists(lines, i)
    BY <1>5, <2>2
  <2>6. j \in 1..Len(lines) - 1
    BY <2>1, <2>4, <2>5
  <2>7. IsInsn(lines[j]) /\ IsInsn(lines[j + 1])
    <3>1. \A p \in i - 1..i + 1 : IsInsn(lines[p])
      BY <2>3 DEF Excursion, InRegion
    <3>2. j \in i - 1..i + 1 /\ j + 1 \in i - 1..i + 1
      BY <2>1, <2>4, <2>5
    <3> QED BY <3>1, <3>2
  <2> DEFINE s == SwapOrder(Len(lines), j)
  <2>8. Reorders(s, lines, lines')
    BY <2>1, <2>5, <2>6, <2>7, SwapReorders
  <2>9. \A p \in 1..Len(lines) - 1 : IsSkip(lines'[p]) => s[p + 1] = s[p] + 1
    BY <2>1, <2>3, <2>4, <2>5, SwapAims
  <2> HIDE DEF s
  <2> DEFINE h == [p \in 1..Len(text) |-> f[s[p]]]
  <2>10. Aims(h, text, lines')
    BY <1>3, <2>1, <2>8, <2>9, AimsMore
  <2> HIDE DEF h
  <2>11. h \in Bijections(Len(text))
    BY <2>10 DEF Aims, Reorders
  <2> QED BY <1>2, <2>10, <2>11 DEF SkipsAimed
<1>6. CASE Phase2
  <2> DEFINE S == {text[p] : p \in DOMAIN text}
  <2>1. lines \in Seq(S) /\ Len(lines) \in Nat /\ Len(text) = Len(lines)
        /\ at \in 2..Len(lines) + 1
    BY <1>1, TextIs DEF IInv, Order, IsText
  <2> HIDE DEF S
  <2>2. PICK i \in at..Len(lines) - 2 :
          /\ First(LAMBDA p : Movable(lines, p), i)
          /\ lines' = Spliced(lines, i, FirstGap(lines, i, Bank(lines[i - 1])))
          /\ overtaken' = (overtaken \/ Overtakes(lines, i, FirstGap(lines, i, Bank(lines[i - 1]))))
    BY <1>6 DEF Phase2
  <2> DEFINE gap == FirstGap(lines, i, Bank(lines[i - 1]))
             s == SpliceOrder(Len(lines), i, gap)
  <2>3. Movable(lines, i)
    BY <2>2 DEF First
  <2>4. i \in 2..Len(lines) - 2 /\ i \in Nat /\ i > 1 /\ i + 2 <= Len(lines)
    BY <2>1
  <2>5. gap \in 2..i - 1 /\ \A p \in gap - 1..i - 1 : IsInsn(lines[p])
    BY <2>3, <2>4, GapIs
  <2>6. \A p \in i - 1..i + 2 : IsInsn(lines[p])
    BY <2>3 DEF Movable, InRegion
  <2>7. lines' = Spliced(lines, i, gap) /\ ~IsSkip(lines[gap - 1])
    BY <2>2 DEF Overtakes
  <2> HIDE DEF gap
  <2>8. \A p \in gap..i + 2 : IsInsn(lines[p])
    BY <2>5, <2>6
  <2>9. Reorders(s, lines, lines')
    BY <2>1, <2>4, <2>5, <2>7, <2>8, SpliceReorders
  <2>10. \A p \in 1..Len(lines) - 1 : IsSkip(lines'[p]) => s[p + 1] = s[p] + 1
    BY <2>1, <2>3, <2>4, <2>5, <2>7, SpliceAims
  <2> HIDE DEF s
  <2> DEFINE h == [p \in 1..Len(text) |-> f[s[p]]]
  <2>11. Aims(h, text, lines')
    BY <1>3, <2>1, <2>9, <2>10, AimsMore
  <2> HIDE DEF h
  <2>12. h \in Bijections(Len(text))
    BY <2>11 DEF Aims, Reorders
  <2> QED BY <1>2, <2>11, <2>12 DEF SkipsAimed
<1> QED BY <1>2, <1>4, <1>5, <1>6

(* As long as no move has overtaken a line its guards do not look at       *)
(* (phase 2's overtaken lines, a gap behind a skip), every skip is still   *)
(* followed by the instruction it was followed by in the text: swaps keep  *)
(* away from skips and their targets, and a bundle is never put between    *)
(* them.                                                                   *)
THEOREM SkipsKeepTargets == Spec => [](~overtaken => SkipsAimed)
<1>1. AimInv => (~overtaken => SkipsAimed)
  BY DEF AimInv
<1> QED BY <1>1, InitAims, StepAims, PTL DEF Spec

-----------------------------------------------------------------------------
(* A line on two machines that differ in W or in some registers only.      *)

IsOp(l) == IsLine(l) /\ IsInsn(l) /\ (Len(l) = 3 <=> l[1] \in FileOps \cup BitOps)

Alike(U, ma, mb) ==
    /\ ma \in Machine(Cells) /\ mb \in Machine(Cells)
    /\ ma.c = mb.c /\ ma.z = mb.z
    /\ \A g \in Cells : g \notin U => ma.mem[g] = mb.mem[g]

Names(l, U) == l[1] \notin LiteralOps /\ l[2] \in U

SameInput(l, ma, mb) == ReadsW(l) => ma.w = mb.w

(* What the line makes of the two.                                         *)
StillAlike(U, l, ma, mb, ea, eb) ==
    /\ Alike(U, ea, eb)
    /\ \A g \in Cells : g \in U => ea.mem[g] = ma.mem[g] /\ eb.mem[g] = mb.mem[g]
    /\ (ma.w = mb.w \/ WritesW(l)) => ea.w = eb.w

(* An instruction that does not read W makes the same value of any W.      *)
LEMMA NoW ==
  ASSUME NEW l, l[1] \in AluOps, ~ReadsW(l), NEW x, NEW w1, NEW w2, NEW c
  PROVE  Value(l[1], x, w1, c) = Value(l[1], x, w2, c) /\ Carry(l[1], x, w1, c) = Carry(l[1], x, w2, c)
<1>1. l[1] \in {"movlw", "movf", "incf", "decf", "comf", "incfsz", "decfsz", "rlf", "rrf"}
  BY DEF AluOps, LiteralOps, FileOps, ReadsW, IsLiteral
<1> QED BY <1>1 DEF Value, Carry

FlagsAgree(op, x, ma, mb, ea, eb) ==
    /\ ea.c = eb.c /\ ea.z = eb.z
    /\ Value(op, x, ma.w, ma.c) = Value(op, x, mb.w, mb.c)

(* Equal flags, operands and, where it is read, W make equal flags.        *)
LEMMA SameFlags ==
  ASSUME NEW l, l[1] \in AluOps, NEW U, NEW ma, NEW mb, Alike(U, ma, mb), NEW x,
         SameInput(l, ma, mb), NEW ea, NEW eb, Flags(ma, l[1], x, ea), Flags(mb, l[1], x, eb)
  PROVE  FlagsAgree(l[1], x, ma, mb, ea, eb)
<1>1. ma.c = mb.c /\ ma.z = mb.z
  BY DEF Alike
<1>2. /\ Value(l[1], x, ma.w, ma.c) = Value(l[1], x, mb.w, mb.c)
      /\ Carry(l[1], x, ma.w, ma.c) = Carry(l[1], x, mb.w, mb.c)
  <2>1. CASE ma.w = mb.w
    BY <1>1, <2>1
  <2>2. CASE ~ReadsW(l)
    BY <1>1, <2>2, NoW
  <2> QED BY <2>1, <2>2 DEF SameInput
<1> QED BY <1>1, <1>2 DEF Flags, FlagsAgree

(* A literal keeps two machines alike.                                     *)
LEMMA LiteralAlike ==
  ASSUME NEW l, IsOp(l), l[1] \in LiteralOps, NEW U, NEW ma, NEW mb, Alike(U, ma, mb),
         SameInput(l, ma, mb), NEW ea, NEW eb, ea = Exec(ma, l), eb = Exec(mb, l)
  PROVE  StillAlike(U, l, ma, mb, ea, eb)
<1>1. l[1] \notin Transfers /\ l[1] \in AluOps /\ ma \in Machine(Cells) /\ mb \in Machine(Cells)
  BY OpsApart DEF AluOps, Alike
<1>2. ToW(ma, l[1], l[2], ea) /\ ToW(mb, l[1], l[2], eb)
  BY <1>1, ExecIs DEF IsOp
<1>3. /\ ea.c = eb.c /\ ea.z = eb.z
      /\ Value(l[1], l[2], ma.w, ma.c) = Value(l[1], l[2], mb.w, mb.c)
  <2>1. Flags(ma, l[1], l[2], ea) /\ Flags(mb, l[1], l[2], eb)
    BY <1>2 DEF ToW
  <2>2. FlagsAgree(l[1], l[2], ma, mb, ea, eb)
    BY <1>1, <2>1, SameFlags
  <2> QED BY <2>2 DEF FlagsAgree
<1>4. ea.mem = ma.mem /\ eb.mem = mb.mem /\ ea.w = eb.w /\ ea \in Machine(Cells) /\ eb \in Machine(Cells)
  BY <1>2, <1>3 DEF ToW, Flags
<1> QED BY <1>3, <1>4 DEF StillAlike, Alike

(* Which instructions write W.                                             *)
LEMMA WritesWIs ==
  ASSUME NEW l, IsOp(l)
  PROVE  /\ l[1] \in FileOps => (WritesW(l) <=> l[3] = "w") /\ l[3] \in {"w", "f"} /\ l[2] \in Cells
         /\ l[1] \in BitOps \cup {"movwf", "clrf"} => ~WritesW(l)
<1>1. l[1] \in FileOps => Len(l) = 3 /\ l[1] \notin BitOps /\ l[1] \notin LiteralOps
                          /\ l[3] \in {"w", "f"} /\ l[2] \in Cells
  BY OpsApart DEF IsOp, IsLine, Transfers
<1>2. l[1] \in BitOps \cup {"movwf", "clrf"} => l[1] \notin LiteralOps /\ ~Selectable(l)
  BY OpsApart DEF IsOp, Selectable
<1> QED BY <1>1, <1>2 DEF WritesW, Selectable, IsLiteral

(* An operation on a file both machines agree on keeps them alike.         *)
LEMMA FileAlike ==
  ASSUME NEW l, IsOp(l), l[1] \in FileOps, NEW U, NEW ma, NEW mb, Alike(U, ma, mb), ~Names(l, U),
         SameInput(l, ma, mb), NEW ea, NEW eb, ea = Exec(ma, l), eb = Exec(mb, l)
  PROVE  StillAlike(U, l, ma, mb, ea, eb)
<1> DEFINE f == l[2]
           x == ma.mem[f]
<1>1. /\ l[1] \in AluOps /\ ma \in Machine(Cells) /\ mb \in Machine(Cells)
      /\ f \in Cells /\ l[3] \in {"w", "f"} /\ l[1] \notin LiteralOps /\ (WritesW(l) <=> l[3] = "w")
  BY OpsApart, WritesWIs DEF AluOps, Alike
<1>2. f \notin U /\ mb.mem[f] = x /\ x \in Byte /\ ma.mem \in [Cells -> Byte] /\ mb.mem \in [Cells -> Byte]
  BY <1>1, MachineIs DEF Names, Alike
<1>3. ea = Alu(ma, l[1], x, l[3] = "f", f) /\ eb = Alu(mb, l[1], x, l[3] = "f", f)
  <2>1. /\ ea = Alu(ma, l[1], ma.mem[l[2]], l[3] = "f", l[2])
        /\ eb = Alu(mb, l[1], mb.mem[l[2]], l[3] = "f", l[2])
    BY <1>1, ExecCases
  <2> QED BY <1>2, <2>1, Zenon
<1> HIDE DEF x, f
<1>4. CASE l[3] # "f"
  <2>1. ToW(ma, l[1], x, ea) /\ ToW(mb, l[1], x, eb)
    BY <1>1, <1>2, <1>3, <1>4, AluToW
  <2>2. ea.c = eb.c /\ ea.z = eb.z /\ Value(l[1], x, ma.w, ma.c) = Value(l[1], x, mb.w, mb.c)
    <3>1. Flags(ma, l[1], x, ea) /\ Flags(mb, l[1], x, eb)
      BY <2>1 DEF ToW
    <3>2. FlagsAgree(l[1], x, ma, mb, ea, eb)
      BY <1>1, <3>1, SameFlags
    <3> QED BY <3>2 DEF FlagsAgree
  <2>3. ea.mem = ma.mem /\ eb.mem = mb.mem /\ ea.w = eb.w /\ ea \in Machine(Cells) /\ eb \in Machine(Cells)
    BY <2>1, <2>2 DEF ToW, Flags
  <2> QED BY <2>2, <2>3 DEF StillAlike, Alike
<1>5. CASE l[3] = "f"
  <2> DEFINE v == Value(l[1], x, ma.w, ma.c)
  <2>1. /\ Flags(ma, l[1], x, ea) /\ ea.w = ma.w /\ ea.mem = [ma.mem EXCEPT ![f] = v]
        /\ Flags(mb, l[1], x, eb) /\ eb.w = mb.w
        /\ eb.mem = [mb.mem EXCEPT ![f] = Value(l[1], x, mb.w, mb.c)]
    BY <1>1, <1>2, <1>3, <1>5, AluToFile
  <2>2. ea.c = eb.c /\ ea.z = eb.z /\ v = Value(l[1], x, mb.w, mb.c)
    <3>1. FlagsAgree(l[1], x, ma, mb, ea, eb)
      BY <1>1, <2>1, SameFlags
    <3> QED BY <3>1 DEF FlagsAgree
  <2>3. ea \in Machine(Cells) /\ eb \in Machine(Cells)
    BY <2>1 DEF Flags
  <2> HIDE DEF v
  <2>4. \A g \in Cells : /\ ea.mem[g] = IF g = f THEN v ELSE ma.mem[g]
                         /\ eb.mem[g] = IF g = f THEN v ELSE mb.mem[g]
    BY <1>2, <2>1, <2>2
  <2>5. Alike(U, ea, eb)
    BY <2>2, <2>3, <2>4 DEF Alike
  <2>6. (ma.w = mb.w \/ WritesW(l)) => ea.w = eb.w
    BY <1>1, <1>5, <2>1
  <2> QED BY <1>2, <2>4, <2>5, <2>6 DEF StillAlike
<1> QED BY <1>4, <1>5

(* What setting or clearing a bit does.                                    *)
BitPut(mm, f, b, to, e) ==
    /\ e \in Machine(Cells) /\ e.w = mm.w
    /\ f = STATUS => /\ e.mem = mm.mem
                     /\ e.c = (IF b = C THEN to ELSE mm.c) /\ e.z = (IF b = C THEN mm.z ELSE to)
    /\ f # STATUS => /\ e.c = mm.c /\ e.z = mm.z /\ f \in Cells
                     /\ e.mem = [mm.mem EXCEPT ![f] = @ + (to - BitOf(@, b)) * 2^b]

(* What writing a bit changes.                                             *)
LEMMA SetBitParts ==
  ASSUME NEW mm \in Machine(Cells), NEW f, NEW b, NEW to \in 0..1,
         (f \in Cells /\ b \in 0..7) \/ (f = STATUS /\ b \in {C, Z}), NEW e, e = SetBit(mm, f, b, to)
  PROVE  BitPut(mm, f, b, to, e)
<1>1. mm = [w |-> mm.w, c |-> mm.c, z |-> mm.z, mem |-> mm.mem] /\ mm.mem \in [Cells -> Byte]
  BY MachineIs
<1>2. e \in Machine(Cells)
  BY SetBitIs
<1>3. CASE f = STATUS
  <2>1. e = IF b = C THEN [mm EXCEPT !.c = to] ELSE [mm EXCEPT !.z = to]
    BY <1>3 DEF SetBit
  <2>2. e = IF b = C THEN [w |-> mm.w, c |-> to, z |-> mm.z, mem |-> mm.mem]
            ELSE [w |-> mm.w, c |-> mm.c, z |-> to, mem |-> mm.mem]
    BY <1>1, <2>1
  <2> QED BY <1>2, <1>3, <2>2 DEF BitPut
<1>4. CASE f # STATUS
  <2> DEFINE n == [mm.mem EXCEPT ![f] = @ + (to - BitOf(@, b)) * 2^b]
  <2>1. e = [mm EXCEPT !.mem = n]
    BY <1>1, <1>4 DEF SetBit
  <2> HIDE DEF n
  <2>2. e = [w |-> mm.w, c |-> mm.c, z |-> mm.z, mem |-> n]
    BY <1>1, <2>1
  <2>3. e.w = mm.w /\ e.c = mm.c /\ e.z = mm.z /\ e.mem = n
    BY <2>2
  <2> QED BY <1>2, <1>4, <2>3 DEF n, BitPut
<1> QED BY <1>3, <1>4

(* One register changed alike on both.                                     *)
LEMMA WroteAlike ==
  ASSUME NEW U, NEW l, NEW ma, NEW mb, Alike(U, ma, mb), NEW f \in Cells, f \notin U, NEW v,
         NEW ea, NEW eb, ea \in Machine(Cells), eb \in Machine(Cells), ea.c = eb.c, ea.z = eb.z,
         ea.w = ma.w, eb.w = mb.w, ~WritesW(l),
         ea.mem = [ma.mem EXCEPT ![f] = v], eb.mem = [mb.mem EXCEPT ![f] = v]
  PROVE  StillAlike(U, l, ma, mb, ea, eb)
<1>1. ma.mem \in [Cells -> Byte] /\ mb.mem \in [Cells -> Byte]
  BY MachineIs DEF Alike
<1>2. \A g \in Cells : /\ ea.mem[g] = IF g = f THEN v ELSE ma.mem[g]
                       /\ eb.mem[g] = IF g = f THEN v ELSE mb.mem[g]
  BY <1>1
<1>3. \A g \in Cells : g \notin U => ma.mem[g] = mb.mem[g]
  BY DEF Alike
<1>4. Alike(U, ea, eb)
  BY <1>2, <1>3 DEF Alike
<1> QED BY <1>2, <1>4 DEF StillAlike

(* A store of W, or a clear, keeps two machines alike.                     *)
LEMMA StoreAlike ==
  ASSUME NEW l, IsOp(l), l[1] \in {"movwf", "clrf"}, NEW U, NEW ma, NEW mb, Alike(U, ma, mb),
         ~Names(l, U), SameInput(l, ma, mb), NEW ea, NEW eb, ea = Exec(ma, l), eb = Exec(mb, l)
  PROVE  StillAlike(U, l, ma, mb, ea, eb)
<1>1. /\ ma \in Machine(Cells) /\ mb \in Machine(Cells) /\ ma.c = mb.c /\ ma.z = mb.z
      /\ l[1] \notin LiteralOps /\ l[1] \notin Transfers /\ ~WritesW(l)
  BY OpsApart, WritesWIs DEF Alike, Transfers, LiteralOps
<1>2. l[2] \in Cells
  BY OpsApart DEF IsOp, IsLine, Transfers
<1>3. l[2] \notin U
  BY <1>1 DEF Names
<1>a. ea \in Machine(Cells) /\ eb \in Machine(Cells)
  BY <1>1, ExecIs DEF IsOp
<1>4. CASE l[1] = "movwf"
  <2> DEFINE v == ma.w
  <2>1. v = mb.w
    BY <1>4 DEF SameInput, ReadsW
  <2>2. ea = Wrote(ma, l[2], ma.w) /\ eb = Wrote(mb, l[2], mb.w)
    BY <1>1, <1>4, ExecCases
  <2>3. /\ ea.w = ma.w /\ ea.c = ma.c /\ ea.z = ma.z /\ ea.mem = [ma.mem EXCEPT ![l[2]] = ma.w]
        /\ eb.w = mb.w /\ eb.c = mb.c /\ eb.z = mb.z /\ eb.mem = [mb.mem EXCEPT ![l[2]] = mb.w]
    BY <2>2 DEF Wrote
  <2>4. /\ ea.c = eb.c /\ ea.z = eb.z
        /\ ea.mem = [ma.mem EXCEPT ![l[2]] = v] /\ eb.mem = [mb.mem EXCEPT ![l[2]] = v]
    BY <1>1, <2>1, <2>3
  <2>5. ea.w = ma.w /\ eb.w = mb.w
    BY <2>3
  <2> HIDE DEF v
  <2>6. ~WritesW(l)
    BY <1>1
  <2> QED BY <1>2, <1>3, <1>a, <2>4, <2>5, <2>6, WroteAlike
<1>5. CASE l[1] = "clrf"
  <2>1. ea = Cleared(ma, l[2]) /\ eb = Cleared(mb, l[2])
    BY <1>1, <1>5, ExecCases
  <2>2. /\ ea.w = ma.w /\ ea.c = ma.c /\ ea.z = 1 /\ ea.mem = [ma.mem EXCEPT ![l[2]] = 0]
        /\ eb.w = mb.w /\ eb.c = mb.c /\ eb.z = 1 /\ eb.mem = [mb.mem EXCEPT ![l[2]] = 0]
    BY <2>1 DEF Cleared
  <2>3. ea.c = eb.c /\ ea.z = eb.z
    BY <1>1, <2>2
  <2>4. /\ ea.w = ma.w /\ ea.mem = [ma.mem EXCEPT ![l[2]] = 0]
        /\ eb.w = mb.w /\ eb.mem = [mb.mem EXCEPT ![l[2]] = 0]
    BY <2>2
  <2>5. ~WritesW(l)
    BY <1>1
  <2> QED BY <1>2, <1>3, <1>a, <2>3, <2>4, <2>5, WroteAlike
<1> QED BY <1>4, <1>5

(* A bit instruction keeps two machines alike.                             *)
LEMMA BitAlike ==
  ASSUME NEW l, IsOp(l), l[1] \in BitOps, NEW U, NEW ma, NEW mb, Alike(U, ma, mb), ~Names(l, U),
         NEW ea, NEW eb, ea = Exec(ma, l), eb = Exec(mb, l)
  PROVE  StillAlike(U, l, ma, mb, ea, eb)
<1>1. /\ ma \in Machine(Cells) /\ mb \in Machine(Cells) /\ ma.c = mb.c /\ ma.z = mb.z
      /\ l[1] \notin LiteralOps /\ ~WritesW(l)
  BY OpsApart, WritesWIs DEF Alike
<1>2. (l[2] \in Cells /\ l[3] \in 0..7) \/ (l[2] = STATUS /\ l[3] \in {C, Z})
  BY OpsApart DEF IsOp, IsLine, Transfers
<1>3. l[2] \notin U
  BY <1>1 DEF Names
<1>4. CASE l[1] \in {"btfsc", "btfss"}
  <2>1. ea = ma /\ eb = mb
    BY <1>1, <1>4, ExecCases
  <2> QED BY <1>1, <2>1 DEF StillAlike
<1>5. ASSUME NEW to \in 0..1, ea = SetBit(ma, l[2], l[3], to), eb = SetBit(mb, l[2], l[3], to)
      PROVE  StillAlike(U, l, ma, mb, ea, eb)
  <2>0. BitPut(ma, l[2], l[3], to, ea) /\ BitPut(mb, l[2], l[3], to, eb)
    BY <1>1, <1>2, <1>5, SetBitParts
  <2>1. CASE l[2] = STATUS
    <3>1. /\ ea \in Machine(Cells) /\ ea.w = ma.w /\ ea.mem = ma.mem
          /\ ea.c = (IF l[3] = C THEN to ELSE ma.c) /\ ea.z = (IF l[3] = C THEN ma.z ELSE to)
      BY <2>0, <2>1 DEF BitPut
    <3>2. /\ eb \in Machine(Cells) /\ eb.w = mb.w /\ eb.mem = mb.mem
          /\ eb.c = (IF l[3] = C THEN to ELSE mb.c) /\ eb.z = (IF l[3] = C THEN mb.z ELSE to)
      BY <2>0, <2>1 DEF BitPut
    <3> QED BY <1>1, <3>1, <3>2 DEF StillAlike, Alike
  <2>2. CASE l[2] # STATUS
    <3> DEFINE v == ma.mem[l[2]] + (to - BitOf(ma.mem[l[2]], l[3])) * 2^l[3]
    <3>1. /\ ea \in Machine(Cells) /\ ea.w = ma.w /\ ea.c = ma.c /\ ea.z = ma.z /\ l[2] \in Cells
          /\ ea.mem = [ma.mem EXCEPT ![l[2]] = @ + (to - BitOf(@, l[3])) * 2^l[3]]
      BY <2>0, <2>2 DEF BitPut
    <3>2. /\ eb \in Machine(Cells) /\ eb.w = mb.w /\ eb.c = mb.c /\ eb.z = mb.z
          /\ eb.mem = [mb.mem EXCEPT ![l[2]] = @ + (to - BitOf(@, l[3])) * 2^l[3]]
      BY <2>0, <2>2 DEF BitPut
    <3>3. mb.mem[l[2]] = ma.mem[l[2]]
      BY <1>3, <3>1 DEF Alike
    <3>4. ea.mem = [ma.mem EXCEPT ![l[2]] = v] /\ eb.mem = [mb.mem EXCEPT ![l[2]] = v]
      BY <3>1, <3>2, <3>3
    <3> HIDE DEF v
    <3>5. ea.c = eb.c /\ ea.z = eb.z
      BY <1>1, <3>1, <3>2
    <3>6. l[2] \in Cells /\ l[2] \notin U /\ ~WritesW(l) /\ ea.w = ma.w /\ eb.w = mb.w
      BY <1>1, <1>3, <3>1, <3>2
    <3>7. ea \in Machine(Cells) /\ eb \in Machine(Cells)
      BY <3>1, <3>2
    <3> QED BY <3>4, <3>5, <3>6, <3>7, WroteAlike
  <2> QED BY <2>1, <2>2
<1>6. CASE l[1] = "bcf"
  <2>1. ea = SetBit(ma, l[2], l[3], 0) /\ eb = SetBit(mb, l[2], l[3], 0)
    BY <1>1, <1>6, ExecCases
  <2> QED BY <1>5, <2>1
<1>7. CASE l[1] = "bsf"
  <2>1. ea = SetBit(ma, l[2], l[3], 1) /\ eb = SetBit(mb, l[2], l[3], 1)
    BY <1>1, <1>7, ExecCases
  <2> QED BY <1>5, <2>1
<1> QED BY <1>4, <1>6, <1>7 DEF BitOps

(* The kinds of instruction.                                               *)
LEMMA OpKinds ==
  ASSUME NEW l, IsOp(l)
  PROVE  l[1] \in LiteralOps \cup FileOps \cup BitOps \cup {"movwf", "clrf"}
         /\ l[1] \notin Transfers
BY DEF IsOp, IsLine, IsInsn, Transfers

(* Two machines alike but for the bytes of U stay so over a line that      *)
(* names none of them and, unless they agree on W, does not read it; a     *)
(* line that writes W makes them agree on it.                              *)
LEMMA ExecAlike ==
  ASSUME NEW l, IsOp(l), NEW U, NEW ma, NEW mb, Alike(U, ma, mb), ~Names(l, U),
         SameInput(l, ma, mb), NEW ea, NEW eb, ea = Exec(ma, l), eb = Exec(mb, l)
  PROVE  StillAlike(U, l, ma, mb, ea, eb)
<1>1. CASE l[1] \in LiteralOps
  BY <1>1, LiteralAlike
<1>2. CASE l[1] \in FileOps
  BY <1>2, FileAlike
<1>3. CASE l[1] \in BitOps
  BY <1>3, BitAlike
<1>4. CASE l[1] \in {"movwf", "clrf"}
  BY <1>4, StoreAlike
<1> QED BY <1>1, <1>2, <1>3, <1>4, OpKinds

(* Two machines alike skip alike.                                          *)
LEMMA SkipsAlike ==
  ASSUME NEW l, IsOp(l), NEW U, NEW ma, NEW mb, Alike(U, ma, mb), ~Names(l, U)
  PROVE  Skips(ma, l) <=> Skips(mb, l)
<1>1. ma.c = mb.c /\ ma.z = mb.z /\ \A g \in Cells : g \notin U => ma.mem[g] = mb.mem[g]
  BY DEF Alike
<1>2. CASE l[1] \in {"btfsc", "btfss"}
  <2>1. l[1] \in BitOps /\ l[1] \notin LiteralOps
    BY <1>2 DEF BitOps, LiteralOps
  <2>2. l[2] \in Cells \/ l[2] = STATUS
    BY <2>1, OpsApart DEF IsOp, IsLine, Transfers
  <2>3. Bit(ma, l[2], l[3]) = Bit(mb, l[2], l[3])
    BY <1>1, <2>1, <2>2 DEF Bit, Names
  <2> QED BY <1>2, <2>3 DEF Skips
<1>3. CASE l[1] \in {"incfsz", "decfsz"}
  <2>1. l[1] \in FileOps /\ l[1] \notin LiteralOps
    BY <1>3 DEF FileOps, LiteralOps
  <2>2. l[2] \in Cells
    BY <2>1, WritesWIs
  <2>3. ma.mem[l[2]] = mb.mem[l[2]]
    BY <1>1, <2>1, <2>2 DEF Names
  <2>4. Value(l[1], ma.mem[l[2]], ma.w, ma.c) = Value(l[1], mb.mem[l[2]], mb.w, mb.c)
    BY <1>3, <2>3 DEF Value
  <2> QED BY <1>3, <2>4 DEF Skips
<1>4. CASE l[1] \notin {"btfsc", "btfss", "incfsz", "decfsz"}
  BY <1>4 DEF Skips
<1> QED BY <1>2, <1>3, <1>4

-----------------------------------------------------------------------------
(* A swap.                                                                 *)

(* A bit of a banked file set or cleared, and an instruction that names    *)
(* another file: either order does the same.                               *)
LEMMA Commute ==
  ASSUME NEW l, IsOp(l), l[1] \in {"bcf", "bsf"}, l[2] # STATUS, NEW k, IsOp(k),
         ~Names(k, {l[2]}), NEW mm \in Machine(Cells)
  PROVE  Exec(Exec(mm, l), k) = Exec(Exec(mm, k), l)
<1> DEFINE f == l[2]
           b == l[3]
           to == IF l[1] = "bcf" THEN 0 ELSE 1
           U == {f}
           ma == Exec(mm, l)
           ea == Exec(mm, k)
           eb == Exec(ma, k)
           e == Exec(ea, l)
<1>1. /\ l[1] \in BitOps /\ to \in 0..1
      /\ (f \in Cells /\ b \in 0..7) \/ (f = STATUS /\ b \in {C, Z})
  <2>1. l[1] \in BitOps
    BY DEF BitOps
  <2> QED BY <2>1, OpsApart DEF IsOp, IsLine, Transfers
<1>2. ASSUME NEW n \in Machine(Cells) PROVE BitPut(n, f, b, to, Exec(n, l))
  <2>1. CASE l[1] = "bcf"
    <3>1. Exec(n, l) = SetBit(n, f, b, 0)
      BY <2>1, ExecCases
    <3> QED BY <1>1, <2>1, <3>1, SetBitParts
  <2>2. CASE l[1] = "bsf"
    <3>1. Exec(n, l) = SetBit(n, f, b, 1)
      BY <2>2, ExecCases
    <3> QED BY <1>1, <2>2, <3>1, SetBitParts
  <2> QED BY <2>1, <2>2
<1>3. BitPut(mm, f, b, to, ma)
  BY <1>2
<1> DEFINE v == mm.mem[f] + (to - BitOf(mm.mem[f], b)) * 2^b
<1> HIDE DEF ma, to, b, v
<1>4. /\ ma \in Machine(Cells) /\ ma.w = mm.w /\ ma.c = mm.c /\ ma.z = mm.z /\ f \in Cells
      /\ mm.mem \in [Cells -> Byte] /\ ma.mem = [mm.mem EXCEPT ![f] = v]
  BY <1>3, MachineIs DEF BitPut, v
<1>5. Alike(U, mm, ma)
  BY <1>4 DEF Alike
<1>6. StillAlike(U, k, mm, ma, ea, eb)
  BY <1>4, <1>5, ExecAlike DEF SameInput
<1>7. BitPut(ea, f, b, to, e)
  BY <1>2, <1>6 DEF StillAlike, Alike
<1> HIDE DEF ea, eb, e, f, U
<1>8. /\ ea \in Machine(Cells) /\ eb \in Machine(Cells) /\ ea.c = eb.c /\ ea.z = eb.z /\ ea.w = eb.w
      /\ ea.mem[f] = mm.mem[f] /\ eb.mem[f] = ma.mem[f]
      /\ \A g \in Cells : g # f => ea.mem[g] = eb.mem[g]
  BY <1>4, <1>6 DEF StillAlike, Alike, U
<1>9. /\ e \in Machine(Cells) /\ e.w = ea.w /\ e.c = ea.c /\ e.z = ea.z
      /\ e.mem = [ea.mem EXCEPT ![f] = v]
  BY <1>7, <1>8 DEF BitPut, v, f
<1>10. e.mem = eb.mem
  <2>1. ea.mem \in [Cells -> Byte] /\ eb.mem \in [Cells -> Byte] /\ e.mem \in [Cells -> Byte]
    BY <1>8, <1>9, MachineIs
  <2>2. ma.mem[f] = v /\ e.mem[f] = v /\ \A g \in Cells : g # f => e.mem[g] = ea.mem[g]
    BY <1>4, <1>9, <2>1
  <2>3. ASSUME NEW g \in Cells PROVE e.mem[g] = eb.mem[g]
    <3>1. CASE g = f
      BY <1>8, <2>2, <3>1, Zenon
    <3>2. CASE g # f
      BY <1>8, <2>2, <3>2, Zenon
    <3> QED BY <3>1, <3>2
  <2> QED BY <2>1, <2>3
<1>11. e = eb
  BY <1>8, <1>9, <1>10, MachineIs
<1> QED BY <1>11 DEF e, ea, eb, ma

IsTextOf(ls) == IsCode(ls) /\ \A p \in 1..Len(ls) : IsInsn(ls[p]) => IsOp(ls[p])

CanSwap(ls, j) ==
    /\ j \in 1..Len(ls) - 1 /\ IsInsn(ls[j]) /\ IsInsn(ls[j + 1])
    /\ ~IsSkip(ls[j]) /\ ~IsSkip(ls[j + 1]) /\ ~IsSkipTarget(ls, j)
    /\ \A mm \in Machine(Cells) : Exec(Exec(mm, ls[j]), ls[j + 1]) = Exec(Exec(mm, ls[j + 1]), ls[j])

(* Only the skips skip.                                                    *)
LEMMA NoSkip == \A l, mm : ~IsSkip(l) => ~Skips(mm, l)
BY DEF IsSkip, SkipOps, Skips

(* Two lines one after the other.                                          *)
LEMMA TwoSteps ==
  ASSUME NEW code, IsTextOf(code), NEW max \in Nat, NEW s \in States(code, max), Bound(code, s),
         NEW j, j = s.pc, j + 1 <= Len(code), IsInsn(code[j]), IsInsn(code[j + 1]),
         ~IsSkip(code[j]), ~IsSkip(code[j + 1]), NEW e,
         e = St(Exec(Exec(s.m, code[j]), code[j + 1]), j + 2, s.left - 2)
  PROVE  /\ Comes(code, s, e) /\ e \in States(code, max) /\ Bound(code, e) /\ s.left >= 2
         /\ ~AtTurnsEnd(code, s)
<1> DEFINE u == Step(code, s)
<1>0. /\ IsCode(code) /\ Len(code) \in Nat /\ s.pc \in 1..Len(code) - 1 /\ s.left \in 0..max
      /\ s.m \in Machine(Cells)
  BY StateIs DEF IsTextOf, IsCode
<1>1. s.left >= 2 /\ code[s.pc][1] \notin {"label", "goto", "call", "return"}
      /\ code[s.pc + 1][1] \notin {"label", "goto", "call", "return"}
  <2>1. code[s.pc][1] \notin {"label", "goto", "call", "return"}
        /\ code[s.pc + 1][1] \notin {"label", "goto", "call", "return"}
    BY Zenon DEF IsInsn
  <2>2. s.left >= Len(code) + 1 - s.pc
    BY <2>1, Zenon DEF Bound
  <2>3. s.left >= 2
    BY <1>0, <2>2
  <2> QED BY <2>1, <2>3
<1>2. ~AtTurnsEnd(code, s)
  <2>1. ~(s.pc > Len(code)) /\ s.left # 0
    BY <1>0, <1>1
  <2> QED BY <1>1, <2>1, Zenon DEF AtTurnsEnd
<1>3. u = St(Exec(s.m, code[s.pc]), s.pc + 1, s.left - 1)
  BY <1>0, <1>1, InsnStep, NoSkip
<1>4. u \in States(code, max) /\ Bound(code, u)
  BY <1>0, <1>2, StepIs, BoundKept
<1> HIDE DEF u
<1>5. u.m = Exec(s.m, code[s.pc]) /\ u.pc = s.pc + 1 /\ u.left = s.left - 1
  BY <1>3 DEF St
<1>6. ~AtTurnsEnd(code, u)
  BY <1>0, <1>1, <1>5 DEF AtTurnsEnd
<1>7. Step(code, u) = St(Exec(u.m, code[u.pc]), u.pc + 1, u.left - 1)
  BY <1>0, <1>1, <1>4, <1>5, InsnStep, NoSkip
<1>8. e = Step(code, u)
  BY <1>0, <1>5, <1>7
<1>9. e \in States(code, max) /\ Bound(code, e)
  BY <1>0, <1>4, <1>6, <1>8, StepIs, BoundKept
<1>10. Comes(code, s, e)
  BY <1>2, <1>6, <1>8 DEF Comes, u
<1> QED BY <1>1, <1>2, <1>9, <1>10

(* Where a step may lead.                                                  *)
Onward(code, s, e) ==
    \/ e.pc = s.pc + 1
    \/ e.pc = s.pc + 2 /\ IsSkip(code[s.pc])
    \/ e.pc \in 1..Len(code) /\ ~IsInsn(code[e.pc])

(* Texts as long as each other have the same states.                       *)
LEMMA StatesSame ==
  ASSUME NEW a, NEW b, Len(b) = Len(a), NEW max
  PROVE  States(b, max) = States(a, max)
BY DEF States

(* A line two texts share does the same in both.                           *)
LEMMA SameStep ==
  ASSUME NEW a, IsCode(a), NEW b, IsCode(b), SameLabels(a, b), NEW max \in Nat,
         NEW s \in States(a, max), Bound(a, s), b[s.pc] = a[s.pc], ~AtTurnsEnd(a, s)
  PROVE  \E e \in States(a, max) :
            /\ Comes(a, s, e) /\ Comes(b, s, e) /\ e.left < s.left /\ Bound(a, e)
            /\ Onward(a, s, e)
<1> DEFINE e == Step(a, s)
<1>0. /\ Len(a) \in Nat /\ Len(b) = Len(a) /\ s \in States(b, max) /\ s.pc \in 1..Len(a)
      /\ s.left \in 1..max
  BY StateIs, StatesSame DEF IsCode, SameLabels, AtTurnsEnd
<1>1. ~AtTurnsEnd(b, s)
  BY <1>0 DEF AtTurnsEnd
<1>2. e \in States(a, max) /\ e.left \in 0..s.left - 1 /\ Bound(a, e)
  BY StepIs, BoundKept
<1>3. Step(b, s) = e /\ Onward(a, s, e)
  <2>1. CASE a[s.pc][1] \in {"label", "goto"}
    <3>1. PICK q, left : /\ Step(a, s) = St(s.m, q, left) /\ Step(b, s) = St(s.m, q, left)
                         /\ Leads(a, s, q, left)
      BY <1>0, <2>1, JumpStep
    <3>2. e.pc = q
      BY <3>1 DEF St
    <3>3. q = s.pc + 1 \/ (q \in 1..Len(a) /\ a[q][1] \in {"label", "goto"})
      BY <1>0, <3>1 DEF Leads
    <3> QED BY <3>1, <3>2, <3>3 DEF Onward, IsInsn
  <2>2. CASE a[s.pc][1] \notin {"label", "goto"}
    <3>1. /\ Step(a, s) = St(Exec(s.m, a[s.pc]), s.pc + (IF Skips(s.m, a[s.pc]) THEN 2 ELSE 1), s.left - 1)
          /\ Step(b, s) = St(Exec(s.m, b[s.pc]), s.pc + (IF Skips(s.m, b[s.pc]) THEN 2 ELSE 1), s.left - 1)
      BY <1>0, <2>2, InsnStep
    <3>2. e.pc = s.pc + (IF Skips(s.m, a[s.pc]) THEN 2 ELSE 1)
      BY <3>1 DEF St
    <3> QED BY <3>1, <3>2, NoSkip DEF Onward
  <2> QED BY <2>1, <2>2
<1>4. Comes(a, s, e) /\ Comes(b, s, e)
  BY <1>1, <1>3 DEF Comes
<1>5. e.left < s.left
  BY <1>0, <1>2
<1> QED BY <1>2, <1>3, <1>4, <1>5

(* The texts' outcomes are the same when the turns' ends are.              *)
LEMMA OutcomeSame ==
  ASSUME NEW a, IsTextOf(a), NEW b, IsCode(b), Len(b) = Len(a), NEW u, NEW v, NEW mm,
         u = TurnOf(Cells, MaxTurn, a, mm, 1), v = TurnOf(Cells, MaxTurn, b, mm, 1),
         u.m.mem = v.m.mem, u.pc = v.pc, u.pc \in Nat, u.pc <= Len(a) => b[u.pc] = a[u.pc]
  PROVE  Outcome(b, mm) = Outcome(a, mm)
BY DEF Outcome, IsTextOf, IsCode

(* A turn's end within the text is at no operation.                        *)
LEMMA EndIs ==
  ASSUME NEW a, IsCode(a), NEW max \in Nat, NEW s \in States(a, max), Bound(a, s), AtTurnsEnd(a, s),
         s.pc <= Len(a)
  PROVE  ~IsInsn(a[s.pc])
<1>1. Len(a) \in Nat /\ s.pc \in 1..Len(a) /\ s.left \in 0..max
  BY StateIs DEF IsCode
<1> QED BY <1>1 DEF Bound, AtTurnsEnd, IsInsn

(* A swapped text has the same labels where they were.                     *)
LEMMA SwapText ==
  ASSUME NEW S, NEW ls \in Seq(S), IsTextOf(ls), NEW j, CanSwap(ls, j), NEW b, b = Swap(ls, j)
  PROVE  /\ IsTextOf(b) /\ SameLabels(ls, b) /\ Len(b) = Len(ls)
         /\ b[j] = ls[j + 1] /\ b[j + 1] = ls[j]
         /\ \A p \in 1..Len(ls) : p # j /\ p # j + 1 => b[p] = ls[p]
<1>1. j \in 1..Len(ls) - 1 /\ Len(ls) \in Nat
  BY DEF CanSwap, IsTextOf, IsCode
<1>2. /\ b \in Seq(S) /\ Len(b) = Len(ls) /\ b[j] = ls[j + 1] /\ b[j + 1] = ls[j]
      /\ \A p \in 1..Len(ls) : p # j /\ p # j + 1 => b[p] = ls[p]
  BY <1>1, SwapIs
<1>3. \A p \in 1..Len(ls) : \E q \in 1..Len(ls) : b[p] = ls[q]
  <2>1. j \in 1..Len(ls) /\ j + 1 \in 1..Len(ls)
    BY <1>1
  <2> QED BY <1>2, <2>1
<1>4. DOMAIN b = 1..Len(b)
  BY <1>2
<1>5. IsTextOf(b)
  BY <1>2, <1>3, <1>4 DEF IsTextOf, IsCode
<1>6. SameLabels(ls, b)
  BY <1>1, <1>2 DEF SameLabels, CanSwap, IsInsn
<1> QED BY <1>2, <1>5, <1>6

(* A swap of two lines that may be swapped does not change what a text     *)
(* computes: the two texts are in the same state wherever they are not     *)
(* between the two lines.                                                  *)
LEMMA SwapMeans ==
  ASSUME NEW S, NEW ls \in Seq(S), IsTextOf(ls), NEW j, CanSwap(ls, j), Len(ls) <= MaxTurn,
         NEW mm \in Machine(Cells)
  PROVE  Outcome(Swap(ls, j), mm) = Outcome(ls, mm)
<1> DEFINE b == Swap(ls, j)
           D == States(ls, MaxTurn)
           R == {<<s, s>> : s \in {t \in D : t.pc # j + 1 /\ Bound(ls, t)}}
<1>1. /\ IsTextOf(b) /\ SameLabels(ls, b) /\ Len(b) = Len(ls)
      /\ b[j] = ls[j + 1] /\ b[j + 1] = ls[j]
      /\ \A p \in 1..Len(ls) : p # j /\ p # j + 1 => b[p] = ls[p]
  BY SwapText
<1>2. /\ Len(ls) \in Nat /\ MaxTurn \in Nat /\ j \in 1..Len(ls) - 1 /\ IsCode(ls) /\ IsCode(b)
      /\ IsInsn(ls[j]) /\ IsInsn(ls[j + 1])
  BY <1>1, MachinesAssumption DEF IsTextOf, IsCode, CanSwap
<1> HIDE DEF b
<1>3. D = States(b, MaxTurn)
  BY <1>1, StatesSame
<1>4. ASSUME NEW s \in D, s.pc # j + 1, Bound(ls, s), ~(AtTurnsEnd(ls, s) /\ AtTurnsEnd(b, s))
      PROVE  \E e \in D : /\ Comes(ls, s, e) /\ Comes(b, s, e) /\ e.left < s.left
                          /\ e.pc # j + 1 /\ Bound(ls, e)
  <2>0. s.pc \in 1..Len(ls) + 2 /\ s.left \in 0..MaxTurn /\ s.m \in Machine(Cells)
    BY <1>2, StateIs
  <2>1. CASE s.pc = j
    <3> DEFINE e == St(Exec(Exec(s.m, ls[j]), ls[j + 1]), j + 2, s.left - 2)
    <3>1. /\ Comes(ls, s, e) /\ e \in D /\ Bound(ls, e) /\ s.left >= 2
      BY <1>2, <1>4, <2>1, TwoSteps DEF CanSwap
    <3>2. e = St(Exec(Exec(s.m, b[j]), b[j + 1]), j + 2, s.left - 2)
      BY <1>1, <2>0 DEF CanSwap
    <3>3. Bound(b, s)
      BY <1>1, <1>2, <1>4, <2>0, <2>1, <3>1 DEF Bound
    <3>4. Comes(b, s, e)
      BY <1>1, <1>2, <1>3, <2>1, <3>2, <3>3, TwoSteps DEF CanSwap
    <3>5. e.pc = j + 2 /\ e.left = s.left - 2
      BY DEF St
    <3> HIDE DEF e
    <3> QED BY <1>2, <2>0, <3>1, <3>4, <3>5
  <2>2. CASE s.pc # j
    <3>1. s.pc <= Len(ls) => b[s.pc] = ls[s.pc]
      BY <1>1, <1>4, <2>0, <2>2
    <3>2. ~AtTurnsEnd(ls, s)
      BY <1>1, <1>2, <1>4, <2>0, <3>1 DEF AtTurnsEnd
    <3>3. s.pc \in 1..Len(ls) /\ b[s.pc] = ls[s.pc]
      BY <1>2, <2>0, <3>1, <3>2 DEF AtTurnsEnd
    <3>4. PICK e \in D : /\ Comes(ls, s, e) /\ Comes(b, s, e) /\ e.left < s.left /\ Bound(ls, e)
                         /\ Onward(ls, s, e)
      BY <1>1, <1>2, <1>4, <3>2, <3>3, SameStep
    <3>5. e.pc # j + 1
      <4> SUFFICES ASSUME e.pc = j + 1 PROVE FALSE
        OBVIOUS
      <4>1. e.pc # s.pc + 1 /\ ~(e.pc \in 1..Len(ls) /\ ~IsInsn(ls[e.pc]))
        BY <1>2, <2>2, <3>3
      <4>2. s.pc + 1 = j /\ IsSkip(ls[s.pc])
        BY <1>2, <3>3, <3>4, <4>1 DEF Onward
      <4>3. IsSkipTarget(ls, j)
        <5>1. IsInsn(ls[s.pc])
          BY <4>2 DEF IsSkip, SkipOps, IsInsn
        <5>2. j > 1 /\ j - 1 = s.pc
          BY <1>2, <3>3, <4>2
        <5> QED BY <4>2, <5>1, <5>2 DEF IsSkipTarget
      <4> QED BY <4>3 DEF CanSwap
    <3> QED BY <3>4, <3>5
  <2> QED BY <2>1, <2>2
<1>5. R \subseteq States(ls, MaxTurn) \X States(b, MaxTurn)
  BY <1>3
<1>6. Follows(ls, b, R)
  <2> SUFFICES ASSUME NEW s \in D, s.pc # j + 1, Bound(ls, s), ~(AtTurnsEnd(ls, s) /\ AtTurnsEnd(b, s))
               PROVE  \E q \in R : /\ Comes(ls, s, q[1]) /\ Comes(b, s, q[2])
                                   /\ q[1].left + q[2].left < s.left + s.left
    BY DEF Follows
  <2>1. PICK e \in D : /\ Comes(ls, s, e) /\ Comes(b, s, e) /\ e.left < s.left
                       /\ e.pc # j + 1 /\ Bound(ls, e)
    BY <1>4
  <2>2. e.left + e.left < s.left + s.left
    <3>1. e.left \in Nat /\ s.left \in Nat
      BY <1>2, StateIs
    <3> QED BY <2>1, <3>1
  <2>3. <<e, e>> \in R
    BY <2>1
  <2> QED BY <2>1, <2>2, <2>3
<1> DEFINE o == St(mm, 1, MaxTurn)
           u == TurnOf(Cells, MaxTurn, ls, mm, 1)
           v == TurnOf(Cells, MaxTurn, b, mm, 1)
<1>7. <<o, o>> \in R
  <2>1. 1 \in 1..Len(ls) + 2 /\ MaxTurn \in 0..MaxTurn /\ 1 # j + 1
    BY <1>2
  <2>2. o \in D /\ o.pc = 1 /\ o.left = MaxTurn
    BY <1>2, <2>1, StateIs
  <2> HIDE DEF o
  <2>3. Bound(ls, o)
    BY <1>2, <2>2 DEF Bound
  <2> QED BY <2>1, <2>2, <2>3
<1> HIDE DEF R
<1>8. <<u, v>> \in R /\ AtTurnsEnd(ls, u) /\ AtTurnsEnd(b, v)
  BY <1>2, <1>5, <1>6, <1>7, TurnsPaired
<1> HIDE DEF u, v, D
<1>9. u = v /\ u \in D /\ u.pc # j + 1 /\ Bound(ls, u)
  BY <1>8 DEF R
<1>10. u.pc <= Len(ls) => b[u.pc] = ls[u.pc]
  <2> SUFFICES ASSUME u.pc <= Len(ls) PROVE b[u.pc] = ls[u.pc]
    OBVIOUS
  <2>1. ~IsInsn(ls[u.pc])
    BY <1>2, <1>8, <1>9, EndIs DEF D
  <2>2. u.pc \in 1..Len(ls) + 2
    BY <1>2, <1>9, StateIs DEF D
  <2>3. u.pc \in 1..Len(ls)
    BY <1>2, <2>2
  <2> QED BY <1>1, <1>2, <1>9, <2>1, <2>3
<1>11. u.pc \in Nat
  BY <1>2, <1>9, StateIs DEF D
<1> QED BY <1>1, <1>2, <1>9, <1>10, <1>11, OutcomeSame DEF u, v, b

(* A line the first phase may move sets or clears a bit of a banked file.  *)
LEMMA CandidateIs ==
  ASSUME NEW ls, IsTextOf(ls), NEW i \in 1..Len(ls), IsInsn(ls[i]), IsMoveCandidate(ls, i)
  PROVE  /\ IsOp(ls[i]) /\ ls[i][1] \in {"bcf", "bsf"} /\ FileAddr(ls[i]) = ls[i][2]
         /\ ls[i][2] \notin {None, STATUS, PCLATH}
         /\ ~IsSkip(ls[i]) /\ ~IsSkipTarget(ls, i)
<1> DEFINE l == ls[i]
<1>1. IsOp(l)
  BY DEF IsTextOf
<1>2. /\ Bank(l) # NoBank /\ ~IsSkip(l) /\ ~IsSkipTarget(ls, i)
      /\ ~TouchesFlags(l) /\ ~ReadsW(l) /\ ~WritesW(l)
  BY DEF IsMoveCandidate
<1> HIDE DEF l
<1>3. FileAddr(l) # None
  BY <1>2 DEF Bank
<1>4. ~IsLiteral(l) /\ l[2] \notin {STATUS, PCLATH} /\ FileAddr(l) = l[2]
  BY <1>3 DEF FileAddr
<1>5. l[1] \notin FileOps
  <2> SUFFICES ASSUME l[1] \in FileOps PROVE FALSE
    OBVIOUS
  <2>1. Selectable(l)
    BY <1>1, OpsApart DEF IsOp, Selectable
  <2>2. l[1] \in {"incfsz", "decfsz"}
    BY <1>2, <2>1 DEF TouchesFlags
  <2> QED BY <1>2, <2>2 DEF IsSkip, SkipOps
<1>6. l[1] \notin {"movwf", "clrf", "btfsc", "btfss"}
  BY <1>2 DEF ReadsW, TouchesFlags, IsSkip, SkipOps
<1>7. l[1] \in {"bcf", "bsf"}
  BY <1>1, <1>4, <1>5, <1>6, OpKinds DEF IsLiteral, BitOps
<1> QED BY <1>1, <1>2, <1>3, <1>4, <1>7 DEF l

(* A line that is of another file does not name it.                        *)
LEMMA OtherFile ==
  ASSUME NEW l, FileAddr(l) = l[2], l[2] \notin {None, STATUS, PCLATH}, NEW k, ~SameFile(l, k)
  PROVE  ~Names(k, {l[2]})
BY DEF Names, SameFile, FileAddr, IsLiteral

(* What the first phase swaps may be swapped.                              *)
LEMMA PhaseSwaps ==
  ASSUME NEW ls, IsTextOf(ls), NEW i \in 2..Len(ls) - 1, Excursion(ls, i), NEW j,
         (j = i /\ Sinks(ls, i)) \/ (j = i - 1 /\ Hoists(ls, i))
  PROVE  CanSwap(ls, j)
<1>0. Len(ls) \in Nat /\ i \in 1..Len(ls) /\ i - 1 \in 1..Len(ls) /\ i + 1 \in 1..Len(ls)
  BY DEF IsTextOf, IsCode
<1>1. IsInsn(ls[i - 1]) /\ IsInsn(ls[i]) /\ IsInsn(ls[i + 1])
  <2>1. i - 1 \in i - 1..i + 1 /\ i \in i - 1..i + 1 /\ i + 1 \in i - 1..i + 1
    BY <1>0
  <2> QED BY <2>1 DEF Excursion, InRegion
<1>2. IsOp(ls[i - 1]) /\ IsOp(ls[i + 1])
  BY <1>0, <1>1 DEF IsTextOf
<1>3. /\ IsOp(ls[i]) /\ ls[i][1] \in {"bcf", "bsf"} /\ FileAddr(ls[i]) = ls[i][2]
      /\ ls[i][2] \notin {None, STATUS, PCLATH}
      /\ ~IsSkip(ls[i]) /\ ~IsSkipTarget(ls, i)
  BY <1>0, <1>1, CandidateIs DEF Excursion
<1>4. CASE j = i /\ Sinks(ls, i)
  <2>1. ~IsSkip(ls[i + 1]) /\ ~Names(ls[i + 1], {ls[i][2]})
    BY <1>3, <1>4, OtherFile DEF Sinks
  <2>2. \A mm \in Machine(Cells) : Exec(Exec(mm, ls[i]), ls[i + 1]) = Exec(Exec(mm, ls[i + 1]), ls[i])
    BY <1>2, <1>3, <2>1, Commute
  <2> QED BY <1>0, <1>1, <1>3, <1>4, <2>1, <2>2 DEF CanSwap
<1>5. CASE j = i - 1 /\ Hoists(ls, i)
  <2>1. ~IsSkipTarget(ls, i - 1) /\ ~Names(ls[i - 1], {ls[i][2]})
    BY <1>3, <1>5, OtherFile DEF Hoists
  <2>2. \A mm \in Machine(Cells) : Exec(Exec(mm, ls[i]), ls[i - 1]) = Exec(Exec(mm, ls[i - 1]), ls[i])
    BY <1>2, <1>3, <2>1, Commute
  <2>3. ~IsSkip(ls[i - 1])
    BY <1>1, <1>3 DEF IsSkipTarget
  <2>4. j \in 1..Len(ls) - 1 /\ j + 1 = i
    BY <1>0, <1>5
  <2> QED BY <1>1, <1>3, <1>5, <2>1, <2>2, <2>3, <2>4 DEF CanSwap
<1> QED BY <1>4, <1>5

-----------------------------------------------------------------------------
(* A splice.                                                               *)

Bundled(l, k, mm, e) ==
    /\ e \in Machine(Cells) /\ e.w = l[2] /\ e.c = mm.c /\ e.z = mm.z
    /\ l[2] \in Byte /\ k[2] \in Cells /\ e.mem = [mm.mem EXCEPT ![k[2]] = l[2]]

(* What a bundle does: the byte gets the constant, as W does.              *)
LEMMA BundleIs ==
  ASSUME NEW l, IsOp(l), l[1] = "movlw", NEW k, IsOp(k), k[1] = "movwf", NEW mm \in Machine(Cells),
         NEW e, e = Exec(Exec(mm, l), k)
  PROVE  Bundled(l, k, mm, e)
<1> DEFINE u == Exec(mm, l)
<1>1. l[1] \in LiteralOps /\ l[1] \notin Transfers /\ k[1] \notin Transfers
  BY OpKinds DEF LiteralOps
<1>2. l[2] \in Byte /\ ToW(mm, l[1], l[2], u)
  BY <1>1, ExecIs DEF IsOp
<1> HIDE DEF u
<1>3. u \in Machine(Cells) /\ u.w = l[2] /\ u.c = mm.c /\ u.z = mm.z /\ u.mem = mm.mem
  BY <1>2 DEF ToW, Flags, Value, Carry, Zero
<1>4. e = Wrote(u, k[2], u.w)
  BY <1>3, ExecCases DEF u
<1>5. k[2] \in Cells /\ e \in Machine(Cells)
  BY <1>1, <1>3, ExecIs DEF IsOp, u
<1> QED BY <1>2, <1>3, <1>4, <1>5 DEF Wrote, Bundled

(* A value no line reads from p on is read by none after it, unless the    *)
(* line at p sets another.                                                 *)
LEMMA ReadOn ==
  ASSUME NEW ls, IsTextOf(ls), NEW p \in 1..Len(ls), ~StillRead(ls, p)
  PROVE  /\ ~ReadsW(ls[p])
         /\ IsInsn(ls[p]) /\ ~WritesW(ls[p]) => ~StillRead(ls, p + 1)
         /\ IsSkip(ls[p]) /\ ~WritesW(ls[p]) => ~StillRead(ls, p + 2)
         /\ ~IsInsn(ls[p]) => \A q \in p + 1..Len(ls) + 1 : ~StillRead(ls, q)
<1> DEFINE Sets(u, r) == InRegion(ls, u, r) /\ WritesW(ls[r]) /\ ~IsSkipTarget(ls, r)
           n == Len(ls)
<1>0. n \in Nat /\ p \in 1..n
  BY DEF IsTextOf, IsCode
<1>1. \A q \in p..n : ReadsW(ls[q]) => \E r \in p..q - 1 : Sets(p, r)
  BY DEF StillRead
<1>2. ~ReadsW(ls[p])
  BY <1>0, <1>1
<1>3. ASSUME NEW u \in p + 1..n + 1, StillRead(ls, u), \A r \in p..u - 1 : ~Sets(p, r) PROVE FALSE
  <2>1. PICK q \in u..n : ReadsW(ls[q]) /\ \A r \in u..q - 1 : ~Sets(u, r)
    BY <1>3 DEF StillRead
  <2>2. q \in p..n
    BY <1>0
  <2>3. PICK r \in p..q - 1 : Sets(p, r)
    BY <1>1, <2>1, <2>2
  <2>4. r \in u..q - 1
    BY <1>0, <1>3, <2>3
  <2>5. InRegion(ls, u, r)
    <3>1. \A v \in u..r : v \in p..r
      BY <1>0
    <3> QED BY <1>0, <2>3, <3>1 DEF InRegion
  <2> QED BY <2>1, <2>3, <2>4, <2>5
<1>4. ASSUME ~WritesW(ls[p]) PROVE ~Sets(p, p)
  BY <1>4
<1>5. ASSUME IsInsn(ls[p]), ~WritesW(ls[p]) PROVE ~StillRead(ls, p + 1)
  <2>1. \A r \in p..(p + 1) - 1 : r = p
    BY <1>0
  <2> HIDE DEF Sets
  <2> QED BY <1>0, <1>3, <1>4, <1>5, <2>1
<1>6. ASSUME IsSkip(ls[p]), ~WritesW(ls[p]) PROVE ~StillRead(ls, p + 2)
  <2>1. \A r \in p..(p + 2) - 1 : r = p \/ r = p + 1
    BY <1>0
  <2>2. IsInsn(ls[p])
    BY <1>6 DEF IsSkip, SkipOps, IsInsn
  <2>3. IsSkipTarget(ls, p + 1)
    BY <1>0, <1>6, <2>2 DEF IsSkipTarget
  <2>4. ~Sets(p, p + 1)
    BY <2>3
  <2>5. CASE p + 2 \in p + 1..n + 1
    <3> HIDE DEF Sets
    <3> QED BY <1>0, <1>3, <1>4, <1>6, <2>1, <2>4, <2>5
  <2>6. CASE p + 2 > n
    BY <1>0, <2>6 DEF StillRead
  <2> QED BY <1>0, <2>5, <2>6
<1>7. ASSUME ~IsInsn(ls[p]), NEW q \in p + 1..n + 1 PROVE ~StillRead(ls, q)
  <2>1. \A r \in p..q - 1 : ~InRegion(ls, p, r)
    BY <1>0, <1>7 DEF InRegion
  <2> QED BY <1>3, <2>1
<1> QED BY <1>2, <1>5, <1>6, <1>7

MaySplice(ls, i, gap) ==
    /\ i \in 3..Len(ls) - 2 /\ gap \in 2..i - 1
    /\ \A p \in gap - 1..i + 2 : IsInsn(ls[p])
    /\ ls[i + 1][1] = "movlw" /\ ls[i + 2][1] = "movwf"
    /\ ~IsSkip(ls[gap - 1]) /\ ~IsSkip(ls[i - 1]) /\ ~IsSkip(ls[i])
    /\ \A p \in gap..i : ~Names(ls[p], {ls[i + 2][2]})
    /\ ~ReadsW(ls[gap]) /\ WritesW(ls[gap])
    /\ ~StillRead(ls, i + 3)

(* The spliced text, line by line.                                         *)
SplicedFrom(ls, i, gap, b) ==
    /\ Len(b) = Len(ls) /\ b[gap] = ls[i + 1] /\ b[gap + 1] = ls[i + 2]
    /\ \A p \in gap..i : b[p + 2] = ls[p]
    /\ \A p \in 1..Len(ls) : p < gap \/ p > i + 2 => b[p] = ls[p]

(* A spliced text, line by line; its labels are where they were.           *)
LEMMA SpliceText ==
  ASSUME NEW S, NEW ls \in Seq(S), IsTextOf(ls), NEW i, NEW gap, MaySplice(ls, i, gap),
         NEW b, b = Spliced(ls, i, gap)
  PROVE  SplicedFrom(ls, i, gap, b) /\ IsTextOf(b) /\ SameLabels(ls, b)
<1> DEFINE n == Len(ls)
           s == SpliceOrder(n, i, gap)
<1>0. n \in Nat /\ i \in Nat /\ i \in 3..n - 2 /\ gap \in 2..i - 1 /\ i + 2 <= n
  BY DEF IsTextOf, IsCode, MaySplice
<1>1. b \in Seq(S) /\ Len(b) = n /\ \A p \in 1..n : b[p] = ls[s[p]]
  BY <1>0, SplicedIs
<1> HIDE DEF n
<1>2. /\ s[gap] = i + 1 /\ s[gap + 1] = i + 2
      /\ \A p \in gap..i : s[p + 2] = p /\ p + 2 \in 1..n
      /\ \A p \in 1..n : p < gap \/ p > i + 2 => s[p] = p
      /\ \A p \in 1..n : s[p] \in 1..n
      /\ gap \in 1..n /\ gap + 1 \in 1..n
  BY <1>0 DEF SpliceOrder
<1> HIDE DEF s
<1>3. SplicedFrom(ls, i, gap, b)
  <2>1. b[gap] = ls[i + 1] /\ b[gap + 1] = ls[i + 2]
    BY <1>1, <1>2
  <2>2. ASSUME NEW p \in gap..i PROVE b[p + 2] = ls[p]
    <3>1. p + 2 \in 1..n /\ s[p + 2] = p
      BY <1>2
    <3> QED BY <1>1, <3>1
  <2>3. ASSUME NEW p \in 1..n, p < gap \/ p > i + 2 PROVE b[p] = ls[p]
    BY <1>1, <1>2, <2>3
  <2> QED BY <1>1, <2>1, <2>2, <2>3 DEF SplicedFrom, n
<1>4. IsTextOf(b)
  <2>1. DOMAIN b = 1..Len(b)
    BY <1>1
  <2> QED BY <1>0, <1>1, <1>2, <2>1 DEF IsTextOf, IsCode, n
<1>5. SameLabels(ls, b)
  <2>1. ASSUME NEW p \in gap..i + 2 PROVE IsInsn(ls[p]) /\ IsInsn(b[p])
    <3>1. IsInsn(ls[p])
      BY <1>0 DEF MaySplice
    <3>2. s[p] \in gap..i + 2
      <4>1. CASE p \in gap + 2..i + 2
        <5>1. p - 2 \in gap..i /\ (p - 2) + 2 = p
          BY <1>0, <4>1
        <5>2. s[p] = p - 2
          BY <1>2, <5>1
        <5> QED BY <1>0, <5>1, <5>2
      <4>2. CASE p = gap \/ p = gap + 1
        BY <1>0, <1>2, <4>2
      <4> QED BY <1>0, <4>1, <4>2
    <3>3. IsInsn(ls[s[p]])
      BY <1>0, <3>2 DEF MaySplice
    <3>4. p \in 1..n
      BY <1>0
    <3> QED BY <1>1, <3>1, <3>3, <3>4
  <2>2. ASSUME NEW p \in 1..n, ls[p][1] = "label" \/ b[p][1] = "label" PROVE ls[p] = b[p]
    <3>1. p \notin gap..i + 2
      BY <2>1, <2>2 DEF IsInsn
    <3>2. p < gap \/ p > i + 2
      BY <1>0, <3>1
    <3> QED BY <1>1, <1>2, <3>2
  <2> QED BY <1>1, <2>2 DEF SameLabels, n
<1> QED BY <1>3, <1>4, <1>5

(* How a turn of the text and one of the spliced text stand to each other: *)
(* alike outside the bundle's way; the bundle done in one and to come in   *)
(* the other; and W apart, where no line reads it.                         *)
Outside(ls, i, gap, s, t) == t = s /\ s.pc \notin gap + 1..i + 2

Behind(ls, i, gap, s, t) ==
    /\ s.pc \in gap..i + 1 /\ t.pc = s.pc + 2 /\ t.left = s.left - 2
    /\ Alike({ls[i + 2][2]}, s.m, t.m) /\ t.m.mem[ls[i + 2][2]] = ls[i + 1][2]
    /\ s.pc # gap => s.m.w = t.m.w

Unread(ls, i, s, t) ==
    /\ t.pc = s.pc /\ t.left = s.left /\ Alike({}, s.m, t.m)
    /\ \/ s.pc >= i + 3 /\ ~StillRead(ls, s.pc)
       \/ s.left = 0 /\ s.pc <= Len(ls) /\ ~IsInsn(ls[s.pc])

Beside(ls, i, gap, s, t) ==
    /\ Bound(ls, s)
    /\ Outside(ls, i, gap, s, t) \/ Behind(ls, i, gap, s, t) \/ Unread(ls, i, s, t)

(* Both come to such states again, with less to go.                        *)
Onwards(ls, b, i, gap, max, s, t) ==
    \E e \in States(ls, max), f \in States(b, max) :
        /\ Comes(ls, s, e) /\ Comes(b, t, f) /\ e.left + f.left < s.left + t.left
        /\ Beside(ls, i, gap, e, f)

(* Two turns not in the moved lines go on alike, up to the gap.            *)
LEMMA OutsideOn ==
  ASSUME NEW ls, IsTextOf(ls), NEW i, NEW gap, MaySplice(ls, i, gap), NEW b, IsTextOf(b),
         SameLabels(ls, b), SplicedFrom(ls, i, gap, b), NEW max \in Nat,
         NEW s \in States(ls, max), Bound(ls, s), s.pc \notin gap + 1..i + 2,
         ~(AtTurnsEnd(ls, s) /\ AtTurnsEnd(b, s))
  PROVE  Onwards(ls, b, i, gap, max, s, s)
<1>0. /\ IsCode(ls) /\ IsCode(b) /\ Len(ls) \in Nat /\ Len(b) = Len(ls)
      /\ i \in 3..Len(ls) - 2 /\ gap \in 2..i - 1
      /\ s \in States(b, max) /\ s.pc \in 1..Len(ls) + 2 /\ s.left \in 0..max /\ s.m \in Machine(Cells)
  BY StatesSame, StateIs DEF IsTextOf, IsCode, MaySplice, SplicedFrom
<1>1. CASE s.pc = gap
  <2> DEFINE l == ls[i + 1]
             k == ls[i + 2]
             f == St(Exec(Exec(s.m, b[gap]), b[gap + 1]), gap + 2, s.left - 2)
  <2>1. /\ b[gap] = l /\ b[gap + 1] = k /\ IsInsn(ls[gap]) /\ IsInsn(l) /\ IsInsn(k)
        /\ l[1] = "movlw" /\ k[1] = "movwf"
    <3>1. gap \in gap - 1..i + 2 /\ i + 1 \in gap - 1..i + 2 /\ i + 2 \in gap - 1..i + 2
      BY <1>0
    <3> QED BY <3>1 DEF MaySplice, SplicedFrom
  <2>2. IsOp(l) /\ IsOp(k)
    <3>1. i + 1 \in 1..Len(ls) /\ i + 2 \in 1..Len(ls)
      BY <1>0
    <3> QED BY <2>1, <3>1 DEF IsTextOf
  <2>3. ~IsSkip(l) /\ ~IsSkip(k)
    BY <2>1 DEF IsSkip, SkipOps
  <2>4. s.left >= Len(ls) + 1 - gap
    BY <1>0, <1>1, <2>1 DEF Bound, IsInsn
  <2>5. Bound(b, s)
    BY <1>0, <1>1, <2>4 DEF Bound
  <2>6. gap + 1 <= Len(b)
    BY <1>0
  <2> HIDE DEF l, k
  <2>7. Comes(b, s, f) /\ f \in States(b, max) /\ s.left >= 2
    BY <1>0, <1>1, <2>1, <2>2, <2>3, <2>5, <2>6, TwoSteps
  <2> DEFINE mm == Exec(Exec(s.m, l), k)
  <2>8. /\ mm \in Machine(Cells) /\ mm.w = l[2] /\ mm.c = s.m.c /\ mm.z = s.m.z
        /\ l[2] \in Byte /\ k[2] \in Cells /\ mm.mem = [s.m.mem EXCEPT ![k[2]] = l[2]]
    <3>1. Bundled(l, k, s.m, mm)
      BY <1>0, <2>1, <2>2, BundleIs
    <3> QED BY <3>1 DEF Bundled
  <2>9. f = St(mm, gap + 2, s.left - 2)
    BY <2>1
  <2> HIDE DEF mm, f
  <2>10. f.m = mm /\ f.pc = gap + 2 /\ f.left = s.left - 2
    BY <2>9 DEF St
  <2>11. s.m.mem \in [Cells -> Byte]
    BY <1>0, MachineIs
  <2>12. Alike({k[2]}, s.m, f.m) /\ f.m.mem[k[2]] = l[2]
    BY <1>0, <2>8, <2>10, <2>11 DEF Alike
  <2>13. Behind(ls, i, gap, s, f)
    BY <1>0, <1>1, <2>10, <2>12 DEF Behind, l, k
  <2>14. Comes(ls, s, s) /\ s.left + f.left < s.left + s.left
    BY <1>0, <2>10 DEF Comes
  <2> QED BY <2>7, <2>13, <2>14 DEF Onwards, Beside
<1>2. CASE s.pc # gap
  <2>1. s.pc <= Len(ls) => b[s.pc] = ls[s.pc]
    <3>1. s.pc < gap \/ s.pc > i + 2
      BY <1>0, <1>2
    <3> QED BY <1>0, <3>1 DEF SplicedFrom
  <2>2. ~AtTurnsEnd(ls, s)
    BY <1>0, <2>1 DEF AtTurnsEnd
  <2>3. s.pc \in 1..Len(ls) /\ b[s.pc] = ls[s.pc]
    BY <1>0, <2>1, <2>2 DEF AtTurnsEnd
  <2>4. PICK e \in States(ls, max) :
          Comes(ls, s, e) /\ Comes(b, s, e) /\ e.left < s.left /\ Bound(ls, e) /\ Onward(ls, s, e)
    BY <1>0, <2>2, <2>3, SameStep
  <2>5. e.pc \notin gap + 1..i + 2
    <3> SUFFICES ASSUME e.pc \in gap + 1..i + 2 PROVE FALSE
      OBVIOUS
    <3>1. e.pc \in 1..Len(ls) /\ IsInsn(ls[e.pc])
      <4>1. e.pc \in gap - 1..i + 2 /\ e.pc \in 1..Len(ls)
        BY <1>0
      <4> QED BY <4>1 DEF MaySplice
    <3>2. e.pc # s.pc + 1
      BY <1>0, <1>2, <2>3
    <3>3. e.pc = s.pc + 2 /\ IsSkip(ls[s.pc])
      BY <2>4, <3>1, <3>2 DEF Onward
    <3>4. s.pc = gap - 1
      BY <1>0, <1>2, <2>3, <3>3
    <3> QED BY <3>3, <3>4 DEF MaySplice
  <2>6. e \in States(b, max) /\ e.left \in Nat /\ s.left \in Nat
    BY <1>0, StatesSame, StateIs
  <2>7. e.left + e.left < s.left + s.left
    BY <2>4, <2>6
  <2>8. Beside(ls, i, gap, e, e)
    BY <2>4, <2>5 DEF Beside, Outside
  <2> QED BY <2>4, <2>6, <2>7, <2>8 DEF Onwards
<1> QED BY <1>1, <1>2

(* The spliced text, two lines ahead, has stored the constant; the other   *)
(* has yet to.                                                             *)
LEMMA BehindOn ==
  ASSUME NEW ls, IsTextOf(ls), NEW i, NEW gap, MaySplice(ls, i, gap), NEW b, IsTextOf(b),
         SplicedFrom(ls, i, gap, b), NEW max \in Nat,
         NEW s \in States(ls, max), NEW t \in States(b, max), Bound(ls, s), Behind(ls, i, gap, s, t)
  PROVE  Onwards(ls, b, i, gap, max, s, t) /\ ~AtTurnsEnd(ls, s)
<1> DEFINE x == ls[i + 2][2]
           U == {x}
           l == ls[s.pc]
<1>0. /\ IsCode(ls) /\ IsCode(b) /\ Len(ls) \in Nat /\ Len(b) = Len(ls)
      /\ i \in 3..Len(ls) - 2 /\ gap \in 2..i - 1
      /\ s.pc \in gap..i + 1 /\ t.pc = s.pc + 2 /\ t.left = s.left - 2 /\ s.left \in 0..max
      /\ s.m \in Machine(Cells) /\ t.m \in Machine(Cells) /\ t.left \in 0..max
  BY StateIs DEF IsTextOf, IsCode, MaySplice, SplicedFrom, Behind
<1>1. s.pc \in 1..Len(ls) /\ IsInsn(l) /\ IsOp(l)
  <2>1. s.pc \in gap - 1..i + 2 /\ s.pc \in 1..Len(ls)
    BY <1>0
  <2> QED BY <2>1 DEF MaySplice, IsTextOf
<1>2. s.left >= Len(ls) + 1 - s.pc /\ l[1] \notin {"label", "goto", "call", "return"}
  BY <1>0, <1>1 DEF Bound, IsInsn
<1>3. ~AtTurnsEnd(ls, s)
  <2>1. ~(s.pc > Len(ls)) /\ s.left # 0
    BY <1>0, <1>1, <1>2
  <2> QED BY <1>2, <2>1, Zenon DEF AtTurnsEnd
<1>4. Alike(U, s.m, t.m) /\ t.m.mem[x] = ls[i + 1][2] /\ (s.pc # gap => s.m.w = t.m.w)
  BY DEF Behind
<1>5. CASE s.pc = i + 1
  <2> DEFINE e == St(Exec(Exec(s.m, ls[i + 1]), ls[i + 2]), i + 3, s.left - 2)
             mm == Exec(Exec(s.m, ls[i + 1]), ls[i + 2])
             k == ls[i + 1][2]
  <2>1. /\ IsInsn(ls[i + 1]) /\ IsInsn(ls[i + 2]) /\ IsOp(ls[i + 1]) /\ IsOp(ls[i + 2])
        /\ ls[i + 1][1] = "movlw" /\ ls[i + 2][1] = "movwf" /\ i + 2 <= Len(ls)
    <3>1. i + 1 \in gap - 1..i + 2 /\ i + 2 \in gap - 1..i + 2 /\ i + 1 \in 1..Len(ls) /\ i + 2 \in 1..Len(ls)
      BY <1>0
    <3> QED BY <1>0, <3>1 DEF MaySplice, IsTextOf
  <2>2. ~IsSkip(ls[i + 1]) /\ ~IsSkip(ls[i + 2])
    BY <2>1 DEF IsSkip, SkipOps
  <2>a. i + 1 + 1 = i + 2 /\ i + 1 + 2 = i + 3
    BY <1>0
  <2>3. Comes(ls, s, e) /\ e \in States(ls, max) /\ Bound(ls, e)
    BY <1>0, <1>5, <2>1, <2>2, <2>a, TwoSteps
  <2>4. /\ mm \in Machine(Cells) /\ mm.c = s.m.c /\ mm.z = s.m.z /\ k \in Byte /\ x \in Cells
        /\ mm.mem = [s.m.mem EXCEPT ![x] = k]
    <3>1. Bundled(ls[i + 1], ls[i + 2], s.m, mm)
      BY <1>0, <2>1, BundleIs
    <3> QED BY <3>1 DEF Bundled
  <2>5. e = St(mm, i + 3, s.left - 2)
    OBVIOUS
  <2> HIDE DEF e, mm, U, x, k
  <2>6. e.m = mm /\ e.pc = i + 3 /\ e.left = s.left - 2
    BY <2>5 DEF St
  <2>7. s.m.mem \in [Cells -> Byte]
    BY <1>0, MachineIs
  <2>8. Alike({}, e.m, t.m)
    BY <1>4, <2>4, <2>6, <2>7 DEF Alike, U, k
  <2>9. Unread(ls, i, e, t)
    BY <1>0, <1>5, <2>6, <2>8 DEF Unread, MaySplice
  <2>10. Comes(b, t, t) /\ e.left + t.left < s.left + t.left
    BY <1>0, <2>6 DEF Comes
  <2> QED BY <1>3, <2>3, <2>9, <2>10 DEF Onwards, Beside
<1>6. CASE s.pc # i + 1
  <2> DEFINE e == Step(ls, s)
             f == Step(b, t)
             ea == Exec(s.m, l)
             eb == Exec(t.m, l)
             d == IF Skips(s.m, l) THEN 2 ELSE 1
  <2>1. s.pc \in gap..i
    BY <1>0, <1>6
  <2>2. b[t.pc] = l /\ t.pc \in 1..Len(b) /\ t.left >= 1
    <3>1. b[s.pc + 2] = l
      BY <2>1 DEF SplicedFrom
    <3>2. t.pc \in 1..Len(b)
      BY <1>0, <2>1
    <3>3. t.left >= 1
      BY <1>0, <1>2, <2>1
    <3> QED BY <1>0, <3>1, <3>2, <3>3
  <2>3. ~AtTurnsEnd(b, t)
    <3>1. ~(t.pc > Len(b)) /\ t.left # 0
      BY <1>0, <2>2
    <3> QED BY <1>2, <2>2, <3>1, Zenon DEF AtTurnsEnd
  <2>4. e \in States(ls, max) /\ f \in States(b, max) /\ Bound(ls, e)
    BY <1>0, <1>3, <2>3, StepIs, BoundKept
  <2>5. ~Names(l, U) /\ SameInput(l, s.m, t.m)
    BY <1>4, <2>1 DEF MaySplice, SameInput
  <2>6. Skips(t.m, l) <=> Skips(s.m, l)
    BY <1>1, <1>4, <2>5, SkipsAlike
  <2>7. e = St(ea, s.pc + d, s.left - 1)
    BY <1>0, <1>2, InsnStep
  <2>8. f = St(eb, t.pc + d, t.left - 1)
    <3>1. f = St(Exec(t.m, b[t.pc]), t.pc + (IF Skips(t.m, b[t.pc]) THEN 2 ELSE 1), t.left - 1)
      BY <1>0, <1>2, <2>2, InsnStep
    <3> QED BY <2>2, <2>6, <3>1
  <2>9. StillAlike(U, l, s.m, t.m, ea, eb)
    BY <1>1, <1>4, <2>5, ExecAlike
  <2>10. d \in 1..2 /\ (d = 2 => IsSkip(l))
    BY NoSkip
  <2> HIDE DEF e, f, ea, eb, d, U
  <2>11. e.m = ea /\ f.m = eb /\ e.pc = s.pc + d /\ f.pc = t.pc + d
         /\ e.left = s.left - 1 /\ f.left = t.left - 1
    BY <2>7, <2>8 DEF St
  <2>12. e.pc \in gap + 1..i + 1
    <3>1. s.pc + d <= i + 1
      <4>1. CASE s.pc = i \/ s.pc = i - 1
        <5>1. ~IsSkip(l)
          BY <4>1 DEF MaySplice
        <5> QED BY <1>0, <2>1, <2>10, <5>1
      <4>2. CASE s.pc < i - 1
        BY <1>0, <2>1, <2>10, <4>2
      <4> QED BY <1>0, <2>1, <4>1, <4>2
    <3>2. s.pc + d \in gap + 1..i + 1
      BY <1>0, <2>1, <2>10, <3>1
    <3> QED BY <2>11, <3>2, Zenon
  <2>13. Alike(U, e.m, f.m)
    BY <2>9, <2>11 DEF StillAlike
  <2>14. f.m.mem[x] = ls[i + 1][2]
    <3>1. x \in Cells
      <4>1. i + 2 \in 1..Len(ls) /\ i + 2 \in gap - 1..i + 2
        BY <1>0
      <4>2. IsOp(ls[i + 2]) /\ ls[i + 2][1] = "movwf"
        BY <4>1 DEF MaySplice, IsTextOf
      <4> QED BY <4>2, OpsApart DEF IsOp, IsLine, Transfers
    <3>2. eb.mem[x] = t.m.mem[x]
      BY <2>9, <3>1 DEF StillAlike, U
    <3> QED BY <1>4, <2>11, <3>2
  <2>15. e.m.w = f.m.w
    <3>1. s.m.w = t.m.w \/ WritesW(l)
      BY <1>4 DEF MaySplice
    <3> QED BY <2>9, <2>11, <3>1 DEF StillAlike
  <2>16. Behind(ls, i, gap, e, f)
    <3>1. f.pc = e.pc + 2 /\ f.left = e.left - 2
      <4>1. t.pc + d = (s.pc + d) + 2 /\ t.left - 1 = (s.left - 1) - 2
        BY <1>0, <2>10
      <4> QED BY <2>11, <4>1, Zenon
    <3>2. e.pc \in gap..i + 1
      BY <1>0, <2>12
    <3> QED BY <2>13, <2>14, <2>15, <3>1, <3>2 DEF Behind, U, x
  <2>17. Comes(ls, s, e) /\ Comes(b, t, f)
    BY <1>3, <2>3 DEF Comes, e, f
  <2>18. e.left + f.left < s.left + t.left
    BY <1>0, <2>11
  <2> QED BY <1>3, <2>4, <2>16, <2>17, <2>18 DEF Onwards, Beside
<1> QED BY <1>5, <1>6

(* Behind the bundle's old place the two agree on all but a W nothing      *)
(* reads.                                                                  *)
LEMMA UnreadOn ==
  ASSUME NEW ls, IsTextOf(ls), NEW i, NEW gap, MaySplice(ls, i, gap), NEW b, IsTextOf(b),
         SameLabels(ls, b), SplicedFrom(ls, i, gap, b), NEW max \in Nat,
         NEW s \in States(ls, max), NEW t \in States(b, max), Bound(ls, s), Unread(ls, i, s, t),
         ~(AtTurnsEnd(ls, s) /\ AtTurnsEnd(b, t))
  PROVE  Onwards(ls, b, i, gap, max, s, t)
<1> DEFINE l == ls[s.pc]
           e == Step(ls, s)
           f == Step(b, t)
<1>0. /\ IsCode(ls) /\ IsCode(b) /\ Len(ls) \in Nat /\ Len(b) = Len(ls)
      /\ i \in 3..Len(ls) - 2 /\ gap \in 2..i - 1
      /\ s.pc \in 1..Len(ls) + 2 /\ t.pc = s.pc /\ t.left = s.left /\ s.left \in 0..max
      /\ s.m \in Machine(Cells) /\ t.m \in Machine(Cells) /\ Alike({}, s.m, t.m)
  BY StateIs DEF IsTextOf, IsCode, MaySplice, SplicedFrom, Unread
<1>1. s.left # 0 /\ s.pc >= i + 3 /\ ~StillRead(ls, s.pc) /\ s.pc <= Len(ls)
  <2>1. s.left # 0
    BY <1>0 DEF AtTurnsEnd
  <2>2. s.pc <= Len(ls)
    BY <1>0 DEF AtTurnsEnd
  <2> QED BY <2>1, <2>2 DEF Unread
<1>2. s.pc \in 1..Len(ls) /\ b[s.pc] = l /\ s.left >= 1
  BY <1>0, <1>1 DEF SplicedFrom
<1>3. ~AtTurnsEnd(ls, s) /\ ~AtTurnsEnd(b, t)
  BY <1>0, <1>1, <1>2 DEF AtTurnsEnd
<1>4. /\ e \in States(ls, max) /\ f \in States(b, max) /\ Bound(ls, e)
      /\ Comes(ls, s, e) /\ Comes(b, t, f)
  BY <1>0, <1>3, StepIs, BoundKept DEF Comes
<1> HIDE DEF e, f
<1>5. CASE l[1] \in {"label", "goto"}
  <2>1. PICK q, left : e = St(s.m, q, left) /\ f = St(t.m, q, left) /\ Leads(ls, s, q, left)
    BY <1>0, <1>2, <1>5, JumpStep DEF e, f
  <2>2. e.m = s.m /\ f.m = t.m /\ e.pc = q /\ f.pc = q /\ e.left = left /\ f.left = left
    BY <2>1 DEF St
  <2>3. left \in 0..s.left - 1 /\ q \in Int
    <3>0. s.pc \in Nat /\ s.left \in Nat \ {0} /\ Len(ls) \in Nat
      BY <1>0, <1>2
    <3>1. CASE q = s.pc + 1 /\ left = s.left - 1
      BY <3>0, <3>1
    <3>2. CASE q \in s.pc + 1..Len(ls) /\ left = s.left - 1
      BY <3>0, <3>2
    <3>3. CASE q \in 1..Len(ls) /\ left = 0
      BY <3>0, <3>3
    <3> QED BY <2>1, <3>1, <3>2, <3>3 DEF Leads
  <2>4. \/ q >= i + 3 /\ ~StillRead(ls, q)
        \/ left = 0 /\ q <= Len(ls) /\ ~IsInsn(ls[q])
    <3>1. CASE left = 0 /\ q \in 1..Len(ls) /\ ls[q][1] \in {"label", "goto"}
      BY <1>0, <3>1 DEF IsInsn
    <3>2. CASE q \in s.pc + 1..Len(ls) + 1
      <4>1. ~IsInsn(l)
        BY <1>5 DEF IsInsn
      <4>2. ~StillRead(ls, q)
        BY <1>1, <1>2, <3>2, <4>1, ReadOn
      <4> QED BY <1>0, <1>1, <3>2, <4>2
    <3>3. q = s.pc + 1 => q \in s.pc + 1..Len(ls) + 1
      BY <1>0, <1>2
    <3>4. q \in s.pc + 1..Len(ls) => q \in s.pc + 1..Len(ls) + 1
      BY <1>0
    <3> QED BY <2>1, <3>1, <3>2, <3>3, <3>4 DEF Leads
  <2>5. Unread(ls, i, e, f)
    BY <1>0, <2>2, <2>4 DEF Unread
  <2>6. e.left + f.left < s.left + t.left
    BY <1>0, <2>2, <2>3
  <2> QED BY <1>4, <2>5, <2>6 DEF Onwards, Beside
<1>6. CASE l[1] \notin {"label", "goto"}
  <2> DEFINE ea == Exec(s.m, l)
             eb == Exec(t.m, l)
             d == IF Skips(s.m, l) THEN 2 ELSE 1
  <2>1. IsInsn(l) /\ IsOp(l)
    <3>1. IsInsn(l)
      BY <1>1, <1>2, <1>3, <1>6 DEF AtTurnsEnd, IsInsn
    <3> QED BY <1>2, <3>1 DEF IsTextOf
  <2>2. ~Names(l, {}) /\ SameInput(l, s.m, t.m)
    BY <1>1, <1>2, ReadOn DEF Names, SameInput
  <2>3. Skips(t.m, l) <=> Skips(s.m, l)
    BY <1>0, <2>1, <2>2, SkipsAlike
  <2>4. StillAlike({}, l, s.m, t.m, ea, eb)
    BY <1>0, <2>1, <2>2, ExecAlike
  <2>5. e = St(ea, s.pc + d, s.left - 1)
    BY <1>0, <1>6, InsnStep DEF e
  <2>6. f = St(eb, s.pc + d, s.left - 1)
    <3>1. f = St(Exec(t.m, b[t.pc]), t.pc + (IF Skips(t.m, b[t.pc]) THEN 2 ELSE 1), t.left - 1)
      BY <1>0, <1>2, <1>6, InsnStep DEF f
    <3> QED BY <1>0, <1>2, <2>3, <3>1
  <2>7. d \in 1..2 /\ (d = 2 => IsSkip(l))
    BY NoSkip
  <2> HIDE DEF ea, eb, d
  <2>8. /\ e.m = ea /\ f.m = eb /\ e.pc = s.pc + d /\ f.pc = s.pc + d
        /\ e.left = s.left - 1 /\ f.left = s.left - 1
    BY <2>5, <2>6 DEF St
  <2>9. e.left + f.left < s.left + t.left
    BY <1>0, <2>8
  <2>10. CASE WritesW(l)
    <3>1. ea.w = eb.w /\ Alike({}, ea, eb)
      BY <2>4, <2>10 DEF StillAlike
    <3>2. ea = eb
      <4>1. /\ ea \in Machine(Cells) /\ eb \in Machine(Cells) /\ ea.c = eb.c /\ ea.z = eb.z
            /\ \A g \in Cells : ea.mem[g] = eb.mem[g]
        BY <3>1 DEF Alike
      <4>2. ea.mem = eb.mem
        <5>1. ea.mem \in [Cells -> Byte] /\ eb.mem \in [Cells -> Byte]
          BY <4>1, MachineIs
        <5> QED BY <4>1, <5>1
      <4> QED BY <3>1, <4>1, <4>2, MachineIs
    <3>3. f = e
      BY <2>5, <2>6, <3>2
    <3>4. e.pc \notin gap + 1..i + 2
      BY <1>0, <1>1, <2>7, <2>8
    <3>5. Beside(ls, i, gap, e, f)
      BY <1>4, <3>3, <3>4 DEF Beside, Outside
    <3> QED BY <1>4, <2>9, <3>5 DEF Onwards
  <2>11. CASE ~WritesW(l)
    <3>1. ~StillRead(ls, s.pc + d)
      <4>1. CASE d = 1
        BY <1>1, <1>2, <2>1, <2>11, <4>1, ReadOn
      <4>2. CASE d = 2
        BY <1>1, <1>2, <2>7, <2>11, <4>2, ReadOn
      <4> QED BY <2>7, <4>1, <4>2
    <3>2. e.pc >= i + 3
      BY <1>0, <1>1, <2>7, <2>8
    <3>3. Alike({}, e.m, f.m)
      BY <2>4, <2>8 DEF StillAlike
    <3>4. Unread(ls, i, e, f)
      BY <2>8, <3>1, <3>2, <3>3 DEF Unread
    <3> QED BY <1>4, <2>9, <3>4 DEF Onwards, Beside
  <2> QED BY <2>10, <2>11
<1> QED BY <1>5, <1>6

(* The ends leave the same memory, at the same line.                       *)
LEMMA EndsAlike ==
  ASSUME NEW ls, IsTextOf(ls), NEW i, NEW gap, MaySplice(ls, i, gap), NEW b,
         SplicedFrom(ls, i, gap, b), NEW max \in Nat,
         NEW s \in States(ls, max), NEW t \in States(b, max), Beside(ls, i, gap, s, t),
         IsTextOf(b), AtTurnsEnd(ls, s)
  PROVE  s.m.mem = t.m.mem /\ s.pc = t.pc /\ s.pc \in Nat /\ (s.pc <= Len(ls) => b[s.pc] = ls[s.pc])
<1>0. /\ IsCode(ls) /\ Len(ls) \in Nat /\ s.pc \in 1..Len(ls) + 2 /\ Len(b) = Len(ls)
      /\ i \in 3..Len(ls) - 2 /\ gap \in 2..i - 1
      /\ s.m \in Machine(Cells) /\ t.m \in Machine(Cells)
  BY StateIs DEF IsTextOf, IsCode, MaySplice, SplicedFrom
<1>1. ~Behind(ls, i, gap, s, t)
  BY BehindOn DEF Beside
<1>2. s.pc = t.pc
  BY <1>1 DEF Beside, Outside, Unread
<1>3. s.m.mem = t.m.mem
  <2>1. CASE t = s
    BY <2>1
  <2>2. CASE Alike({}, s.m, t.m)
    <3>1. s.m.mem \in [Cells -> Byte] /\ t.m.mem \in [Cells -> Byte]
      BY <1>0, MachineIs
    <3>2. \A g \in Cells : s.m.mem[g] = t.m.mem[g]
      BY <2>2 DEF Alike
    <3> QED BY <3>1, <3>2
  <2> QED BY <1>1, <2>1, <2>2 DEF Beside, Outside, Unread
<1>4. ASSUME s.pc <= Len(ls) PROVE b[s.pc] = ls[s.pc]
  <2>1. s.pc \in 1..Len(ls)
    BY <1>0, <1>4
  <2>2. ~IsInsn(ls[s.pc])
    BY <1>0, <1>4, EndIs DEF Beside
  <2>3. s.pc \notin gap - 1..i + 2
    BY <2>2 DEF MaySplice
  <2>4. s.pc < gap \/ s.pc > i + 2
    BY <1>0, <2>1, <2>3
  <2> QED BY <2>1, <2>4 DEF SplicedFrom
<1> QED BY <1>0, <1>2, <1>3, <1>4

(* A splice that overtakes nothing does not change what a text computes.   *)
LEMMA SpliceMeans ==
  ASSUME NEW S, NEW ls \in Seq(S), IsTextOf(ls), Len(ls) <= MaxTurn, NEW i, NEW gap,
         MaySplice(ls, i, gap), NEW mm \in Machine(Cells)
  PROVE  Outcome(Spliced(ls, i, gap), mm) = Outcome(ls, mm)
<1> DEFINE b == Spliced(ls, i, gap)
           Pairs == States(ls, MaxTurn) \X States(b, MaxTurn)
           R == {p \in Pairs : Beside(ls, i, gap, p[1], p[2])}
<1>1. SplicedFrom(ls, i, gap, b) /\ IsTextOf(b) /\ SameLabels(ls, b)
  BY SpliceText
<1>2. /\ Len(ls) \in Nat /\ MaxTurn \in Nat /\ IsCode(ls) /\ IsCode(b) /\ Len(b) = Len(ls)
      /\ gap \in 2..i - 1
  BY <1>1, MachinesAssumption DEF IsTextOf, IsCode, SplicedFrom, MaySplice
<1> HIDE DEF b
<1>3. ASSUME NEW s \in States(ls, MaxTurn), NEW t \in States(b, MaxTurn), Beside(ls, i, gap, s, t),
             ~(AtTurnsEnd(ls, s) /\ AtTurnsEnd(b, t))
      PROVE  Onwards(ls, b, i, gap, MaxTurn, s, t)
  <2>1. CASE Outside(ls, i, gap, s, t)
    BY <1>1, <1>2, <1>3, <2>1, OutsideOn DEF Beside, Outside
  <2>2. CASE Behind(ls, i, gap, s, t)
    BY <1>1, <1>2, <1>3, <2>2, BehindOn DEF Beside
  <2>3. CASE Unread(ls, i, s, t)
    BY <1>1, <1>2, <1>3, <2>3, UnreadOn DEF Beside
  <2> QED BY <1>3, <2>1, <2>2, <2>3 DEF Beside
<1>4. Follows(ls, b, R)
  <2> SUFFICES ASSUME NEW p \in R, ~(AtTurnsEnd(ls, p[1]) /\ AtTurnsEnd(b, p[2]))
               PROVE  \E q \in R : /\ Comes(ls, p[1], q[1]) /\ Comes(b, p[2], q[2])
                                   /\ q[1].left + q[2].left < p[1].left + p[2].left
    BY DEF Follows
  <2>1. p[1] \in States(ls, MaxTurn) /\ p[2] \in States(b, MaxTurn) /\ Beside(ls, i, gap, p[1], p[2])
    OBVIOUS
  <2>2. PICK e \in States(ls, MaxTurn), f \in States(b, MaxTurn) :
          /\ Comes(ls, p[1], e) /\ Comes(b, p[2], f) /\ e.left + f.left < p[1].left + p[2].left
          /\ Beside(ls, i, gap, e, f)
    BY <1>3, <2>1 DEF Onwards
  <2>3. <<e, f>> \in R
    BY <2>2
  <2> QED BY <2>2, <2>3
<1> DEFINE o == St(mm, 1, MaxTurn)
           u == TurnOf(Cells, MaxTurn, ls, mm, 1)
           v == TurnOf(Cells, MaxTurn, b, mm, 1)
<1>5. <<o, o>> \in R
  <2>1. 1 \in 1..Len(ls) + 2 /\ MaxTurn \in 0..MaxTurn /\ 1 \notin gap + 1..i + 2
    BY <1>2
  <2>2. o \in States(ls, MaxTurn) /\ o \in States(b, MaxTurn) /\ o.pc = 1 /\ o.left = MaxTurn
    BY <1>2, <2>1, StateIs, StatesSame
  <2> HIDE DEF o
  <2>3. Bound(ls, o)
    BY <1>2, <2>2 DEF Bound
  <2>4. Beside(ls, i, gap, o, o)
    BY <2>1, <2>2, <2>3 DEF Beside, Outside
  <2> QED BY <2>2, <2>4
<1>6. R \subseteq States(ls, MaxTurn) \X States(b, MaxTurn)
  OBVIOUS
<1> HIDE DEF R
<1>7. <<u, v>> \in R /\ AtTurnsEnd(ls, u) /\ AtTurnsEnd(b, v)
  BY <1>2, <1>4, <1>5, <1>6, TurnsPaired
<1> HIDE DEF u, v
<1>8. u \in States(ls, MaxTurn) /\ v \in States(b, MaxTurn) /\ Beside(ls, i, gap, u, v)
  BY <1>7 DEF R
<1>9. u.m.mem = v.m.mem /\ u.pc = v.pc /\ u.pc \in Nat /\ (u.pc <= Len(ls) => b[u.pc] = ls[u.pc])
  BY <1>1, <1>2, <1>7, <1>8, EndsAlike
<1> QED BY <1>1, <1>2, <1>9, OutcomeSame DEF u, v, b

(* The line the bundle is put before does not read W.                      *)
LEMMA GapReads ==
  ASSUME NEW ls, NEW i \in Nat, i > 1, Movable(ls, i)
  PROVE  ~ReadsW(ls[FirstGap(ls, i, Bank(ls[i - 1]))])
<1> DEFINE bank == Bank(ls[i - 1])
           G == Gaps(ls, i, bank)
<1>1. IsInsn(ls[i - 1]) /\ G # {}
  BY DEF Movable, InRegion
<1>2. G \subseteq Nat
  <2>1. RunStart(ls, i, bank) \in 1..i - 1
    BY <1>1, RunIs
  <2> QED BY <2>1 DEF Gaps
<1>3. \E g \in G : \A h \in G : g <= h
  BY <1>1, <1>2, LeastNat
<1>4. FirstGap(ls, i, bank) \in G
  BY <1>3 DEF FirstGap
<1> QED BY <1>4 DEF Gaps

(* What the second phase moves may be moved, unless it overtakes.          *)
LEMMA MovableMay ==
  ASSUME NEW ls, Len(ls) \in Nat, NEW i \in 2..Len(ls) - 2, Movable(ls, i), NEW gap,
         gap = FirstGap(ls, i, Bank(ls[i - 1])), ~Overtakes(ls, i, gap)
  PROVE  MaySplice(ls, i, gap)
<1> DEFINE x == ls[i + 2][2]
<1>1. i \in Nat /\ i > 1
  OBVIOUS
<1>2. /\ gap \in 2..i - 1
      /\ \A p \in gap - 1..i - 1 : IsInsn(ls[p]) /\ Bank(ls[p]) = Bank(ls[i - 1])
  BY <1>1, GapIs
<1>3. ~ReadsW(ls[gap])
  BY <1>1, GapReads
<1>4. \A p \in i - 1..i + 2 : IsInsn(ls[p])
  BY DEF Movable, InRegion
<1>5. \A p \in gap - 1..i + 2 : IsInsn(ls[p])
  BY <1>1, <1>2, <1>4
<1>6. /\ ls[i + 1][1] = "movlw" /\ ls[i + 2][1] = "movwf" /\ Bank(ls[i + 2]) # NoBank
      /\ ~IsSkip(ls[i]) /\ ~IsSkipTarget(ls, i)
  BY DEF Movable, Bundle
<1>7. ~IsSkip(ls[i - 1])
  <2>1. IsInsn(ls[i - 1])
    BY <1>1, <1>4
  <2> QED BY <1>1, <1>6, <2>1 DEF IsSkipTarget
<1>8. FileAddr(ls[i + 2]) = x /\ x \notin {None, STATUS, PCLATH}
  <2>1. FileAddr(ls[i + 2]) # None
    BY <1>6 DEF Bank
  <2> QED BY <2>1 DEF FileAddr
<1>9. ASSUME NEW p \in gap..i PROVE ~Names(ls[p], {x})
  <2>1. ~SameFile(ls[i + 2], ls[p])
    BY DEF Overtakes
  <2> QED BY <1>8, <2>1, OtherFile
<1>10. ~IsSkip(ls[gap - 1]) /\ WritesW(ls[gap]) /\ ~StillRead(ls, i + 3)
  BY DEF Overtakes
<1>11. i \in 3..Len(ls) - 2
  BY <1>1, <1>2
<1> QED BY <1>2, <1>3, <1>5, <1>6, <1>7, <1>9, <1>10, <1>11 DEF MaySplice

-----------------------------------------------------------------------------
(* What the text computes.                                                 *)

MeaningInv == IInv /\ (overtaken \/ SameResult)

(* The lines are instructions over the cells, no more than a turn takes.   *)
LEMMA LinesAre ==
  ASSUME IInv
  PROVE  /\ lines \in Seq({text[p] : p \in DOMAIN text}) /\ Len(lines) \in Nat
         /\ Len(lines) <= MaxTurn /\ at \in 2..Len(lines) + 1 /\ IsTextOf(lines)
<1>1. /\ text \in Texts /\ lines \in Seq({text[p] : p \in DOMAIN text})
      /\ IsText(lines) /\ Len(lines) = Len(text)
  BY TextIs DEF IInv, Order
<1>2. /\ Len(text) <= MaxTurn
      /\ \A p \in DOMAIN text : IsLine(text[p]) /\ (Len(text[p]) = 3 <=> text[p][1] \in FileOps \union BitOps)
  BY <1>1, TextsAssumption
<1>3. Len(lines) \in Nat /\ DOMAIN lines = 1..Len(lines)
  BY <1>1 DEF IsText
<1>4. ASSUME NEW p \in 1..Len(lines)
      PROVE  IsLine(lines[p]) /\ (Len(lines[p]) = 3 <=> lines[p][1] \in FileOps \union BitOps)
  <2>1. lines[p] \in {text[q] : q \in DOMAIN text}
    BY <1>1, <1>3
  <2> QED BY <1>2, <2>1
<1>5. IsTextOf(lines)
  BY <1>3, <1>4 DEF IsTextOf, IsCode, IsOp
<1> QED BY <1>1, <1>2, <1>3, <1>5 DEF IInv

(* The text computes what it computes.                                     *)
LEMMA InitMeans == Init => MeaningInv
<1> SUFFICES ASSUME Init PROVE MeaningInv
  OBVIOUS
<1>1. IInv
  BY InitOrder
<1>2. lines = text
  BY DEF Init
<1> QED BY <1>1, <1>2 DEF MeaningInv, SameResult

(* No swap, and no splice that overtakes nothing, changes what the text    *)
(* computes.                                                               *)
LEMMA StepMeans ==
  ASSUME MeaningInv, [Next]_vars
  PROVE  MeaningInv'
<1>1. IInv /\ IInv'
  BY StepOrder DEF MeaningInv
<1> SUFFICES ASSUME ~overtaken' PROVE SameResult'
  BY <1>1 DEF MeaningInv
<1>2. text' = text /\ (lines' = lines \/ Phase1 \/ Phase2)
  BY DEF Next, Phase1, Phase1Ends, Phase2, Phase2Ends, Finished, vars
<1>3. \A m \in Machines : Outcome(lines, m) = Outcome(text, m)
  <2>1. overtaken' = overtaken \/ Phase2
    BY DEF Next, Phase1, Phase1Ends, Phase2, Phase2Ends, Finished, vars
  <2>2. Phase2 => (overtaken => overtaken')
    BY DEF Phase2
  <2>3. ~overtaken
    BY <2>1, <2>2
  <2> QED BY <2>3 DEF MeaningInv, SameResult
<1> DEFINE S == {text[p] : p \in DOMAIN text}
<1>4. /\ lines \in Seq(S) /\ Len(lines) \in Nat /\ Len(lines) <= MaxTurn
      /\ at \in 2..Len(lines) + 1 /\ IsTextOf(lines)
  BY <1>1, LinesAre
<1> HIDE DEF S
<1>5. \A m \in Machines : m \in Machine(Cells)
  BY MachinesAssumption
<1>6. \A m \in Machines : Outcome(lines', m) = Outcome(lines, m)
  <2>1. CASE lines' = lines
    BY <2>1
  <2>2. CASE Phase1 /\ lines' # lines
    <3>1. PICK i \in at..Len(lines) - 1 :
            /\ First(LAMBDA p : Excursion(lines, p), i)
            /\ lines' = IF Sinks(lines, i) THEN Swap(lines, i)
                        ELSE IF Hoists(lines, i) THEN Swap(lines, i - 1) ELSE lines
      BY <2>2 DEF Phase1
    <3>2. Excursion(lines, i)
      BY <3>1 DEF First
    <3>3. i \in 2..Len(lines) - 1
      BY <1>4
    <3>4. PICK j : /\ lines' = Swap(lines, j)
                   /\ \/ j = i /\ Sinks(lines, i)
                      \/ j = i - 1 /\ Hoists(lines, i)
      BY <2>2, <3>1
    <3>5. CanSwap(lines, j)
      BY <1>4, <3>2, <3>3, <3>4, PhaseSwaps
    <3>6. ASSUME NEW m \in Machines PROVE Outcome(Swap(lines, j), m) = Outcome(lines, m)
      BY <1>4, <1>5, <3>5, SwapMeans
    <3> QED BY <3>4, <3>6
  <2>3. CASE Phase2
    <3>1. PICK i \in at..Len(lines) - 2 :
            /\ First(LAMBDA p : Movable(lines, p), i)
            /\ lines' = Spliced(lines, i, FirstGap(lines, i, Bank(lines[i - 1])))
            /\ overtaken' = (overtaken \/ Overtakes(lines, i, FirstGap(lines, i, Bank(lines[i - 1]))))
      BY <2>3 DEF Phase2
    <3> DEFINE gap == FirstGap(lines, i, Bank(lines[i - 1]))
    <3>2. Movable(lines, i)
      BY <3>1 DEF First
    <3>3. i \in 2..Len(lines) - 2
      BY <1>4
    <3>4. lines' = Spliced(lines, i, gap) /\ ~Overtakes(lines, i, gap)
      BY <3>1
    <3>5. MaySplice(lines, i, gap)
      BY <1>4, <3>2, <3>3, <3>4, MovableMay
    <3> HIDE DEF gap
    <3>6. ASSUME NEW m \in Machines PROVE Outcome(Spliced(lines, i, gap), m) = Outcome(lines, m)
      BY <1>4, <1>5, <3>5, SpliceMeans
    <3> QED BY <3>4, <3>6
  <2> QED BY <1>2, <2>1, <2>2, <2>3
<1> QED BY <1>2, <1>3, <1>6 DEF SameResult

(* Until a bundle overtakes a use of its byte or of W, a later reader of   *)
(* its own, or parts a skip from its target, the scheduled text computes   *)
(* what the unscheduled one does, from every machine state:                *)
(* SameUnlessOvertaken.                                                    *)
THEOREM MeaningKept == Spec => []SameUnlessOvertaken
<1>1. MeaningInv => SameUnlessOvertaken
  BY DEF MeaningInv, SameUnlessOvertaken
<1> QED BY <1>1, InitMeans, StepMeans, PTL DEF Spec
=============================================================================
