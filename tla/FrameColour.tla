----------------------------- MODULE FrameColour -----------------------------
(***************************************************************************)
(* The slots of a frame: frame_layout's pins (values that may take the slot *)
(* of the value they are made from) and its greedy colouring.  Everything  *)
(* here reads a function f, its Flow (fl) and the values homed in the      *)
(* return-value region (retvals), whose bytes calls rewrite.               *)
(***************************************************************************)
EXTENDS FrameFlow

Casts == {"freeze", "zext", "sext", "trunc"}

OnCycle(fl, b) == b \in fl.reached[b]

(* A value with a slot of its own of the width asked for.                  *)
Plain(f, fl, v, w) == v \in DOMAIN fl.defs /\ v \notin fl.objects /\ f.width[v] = w

(* Nothing reads s past pos in the text, or past the ends of the blocks.   *)
DeadAfter(fl, s, blocks, pos) ==
    /\ \A b \in blocks : s \notin fl.liveOut[b]
    /\ \A u \in fl.uses[s] : u <= pos

Sources(phi) == {a[1] : a \in Arms(phi)} \ {Nil}
EdgeBlocks(phi) == {a[2] : a \in Arms(phi)}
BlocksOf(phi, s) == {a[2] : a \in {c \in Arms(phi) : c[1] = s}}
LastCopy(f, phi, s) == Max({EndOf(f, b) : b \in BlocksOf(phi, s)})

(* Phi-edge coalescing: a phi with one register source takes its slot when *)
(* the source is dead after the copies and the merge runs once.            *)
CanPinPhi(f, fl, retvals, pt, s) ==
    LET phi == InstAt(f, pt)
    IN  /\ Sources(phi) = {s} /\ Plain(f, fl, s, f.width[phi.dst]) /\ s \notin retvals
        /\ ~OnCycle(fl, pt[1])
        /\ \A b \in EdgeBlocks(phi) : b < pt[1]
        /\ DeadAfter(fl, s, EdgeBlocks(phi), LastCopy(f, phi, s))

(* Range copies: a freeze or a cast takes its source's slot when this is   *)
(* the source's last use and runs once.                                    *)
CanPinCopy(f, fl, retvals, pt, s) ==
    LET inst == InstAt(f, pt)
    IN  /\ s \in DOMAIN fl.defs /\ s \notin fl.objects /\ s \notin retvals
        /\ inst.op = "freeze" => f.width[s] = f.width[inst.dst]
        /\ ~OnCycle(fl, pt[1])
        /\ DeadAfter(fl, s, {pt[1]}, At(pt[1], pt[2]))

(* Bitmask lanes: acc | mask under a condition is one BSF on the           *)
(* accumulator, so the lane takes its slot.                                *)
CanPinLane(f, fl, retvals, pt, acc) ==
    /\ Plain(f, fl, acc, f.width[InstAt(f, pt).dst]) /\ acc \notin retvals
    /\ ~OnCycle(fl, pt[1])
    /\ DeadAfter(fl, acc, {pt[1]}, At(pt[1], pt[2]))

(* The coalesce map: each pinned value with the value whose slot it takes. *)
Pins(f, fl, retvals) ==
    LET pin(pt, s) ==
            LET inst == InstAt(f, pt)
            IN  \/ inst.op = "phi" /\ CanPinPhi(f, fl, retvals, pt, s)
                \/ inst.op \in Casts /\ s = inst.reads[1] /\ CanPinCopy(f, fl, retvals, pt, s)
                \/ inst.op = "lane" /\ s = inst.reads[1] /\ CanPinLane(f, fl, retvals, pt, s)
    IN  UNION {{<<InstAt(f, pt).dst, s>> : s \in {v \in DOMAIN fl.defs : pin(pt, v)}} :
                   pt \in Points(f)}

-----------------------------------------------------------------------------
(* Diamond pins: a phi of two registers or more may take an arm's slot.    *)

(* A call couples the frame to a callee's base; only leaves pin diamonds.  *)
Leaf(f) == PointsOf(f, "call") = {}

CanDiamond(f, fl, retvals, pt) ==
    LET phi == InstAt(f, pt)
    IN  /\ phi.dst \notin retvals
        /\ \A b \in EdgeBlocks(phi) : b < pt[1]
        /\ phi.dst \notin Sources(phi)
        /\ \A s \in Sources(phi) : s \in DOMAIN fl.defs /\ s \notin fl.objects
        /\ Cardinality(Sources(phi)) >= 2

(* On a cycle the arm must also be computed in the one block that carries  *)
(* it, by an instruction: every arrival then finds fresh bytes.            *)
EligibleArm(f, fl, retvals, pt, s) ==
    LET phi == InstAt(f, pt)
    IN  /\ f.width[s] = f.width[phi.dst] /\ s \notin retvals
        /\ OnCycle(fl, pt[1]) =>
               /\ \E b \in Blocks(f) : BlocksOf(phi, s) = {b} /\ BlockAt(fl.defs[s]) = b
               /\ s \notin Range(f.params) /\ InstAt(f, DefPoint(f, s)).op # "phi"
        /\ DeadAfter(fl, s, EdgeBlocks(phi), LastCopy(f, phi, s))

EligibleArms(f, fl, retvals, pt) ==
    LET arms == InstAt(f, pt).arms
    IN  IF CanDiamond(f, fl, retvals, pt)
        THEN SelectSeq([n \in DOMAIN arms |-> arms[n][1]],
                       LAMBDA s : s # Nil /\ EligibleArm(f, fl, retvals, pt, s))
        ELSE <<>>

(* At most one per merge: the first phi of the block with an eligible arm. *)
Diamonds(f, fl, retvals) ==
    IF ~Leaf(f) THEN {}
    ELSE {<<InstAt(f, pt).dst, EligibleArms(f, fl, retvals, pt)>> : pt \in
             {q \in PointsOf(f, "phi") :
                 /\ EligibleArms(f, fl, retvals, q) # <<>>
                 /\ \A i \in 1..q[2] - 1 : EligibleArms(f, fl, retvals, <<q[1], i>>) = <<>>}}

-----------------------------------------------------------------------------
(* Colouring.                                                              *)

Meets(x, y) == ~(x.hi < y.lo \/ y.hi < x.lo)

(* Seeded fault: a second value pinned to a slot is not compared.          *)
NoPinClash(fl, of, slot, s, v) == FALSE

(* pin_clash: an occupant other than the pin's source holds the slot when  *)
(* v does.                                                                 *)
PinClash(fl, of, slot, s, v) ==
    \E o \in DOMAIN of : of[o] = slot /\ o # s /\ Meets(fl.live[v], fl.live[o])

Usable(fl, c, s, v) == s \in DOMAIN c.of /\ ~PinClash(fl, c.of, c.of[s], s, v)

(* v joins a slot, which grows to hold it.                                 *)
Join(f, fl, c, v, slot) ==
    LET was == c.slots[slot]
    IN  [c EXCEPT
            !.slots[slot] = [lo |-> Min({was.lo, fl.live[v].lo}), hi |-> Max({was.hi, fl.live[v].hi}),
                             w |-> Max({was.w, f.width[v]})],
            !.of = (v :> slot) @@ @]

(* first_fit: the lowest slot free over v's interval, else a fresh one.    *)
FirstFit(f, fl, c, v) ==
    LET free == {i \in DOMAIN c.slots : ~Meets(fl.live[v], c.slots[i])}
    IN  IF free # {} THEN Join(f, fl, c, v, Min(free))
        ELSE [c EXCEPT !.slots = Append(@, [lo |-> fl.live[v].lo, hi |-> fl.live[v].hi,
                                            w |-> f.width[v]]),
                       !.of = (v :> Len(c.slots) + 1) @@ @]

PinsOf(pairs, v) == UNION {{p[2]} : p \in {q \in pairs : q[1] = v}}

(* The arms an entry of extra lists for v, in edge order.                  *)
ArmsFor(extra, v) == IF PinsOf(extra, v) = {} THEN <<>> ELSE CHOOSE l \in PinsOf(extra, v) : TRUE

(* One value: its pin, else its first usable arm, else the lowest free     *)
(* slot; a value one of whose arms has no slot yet waits for the second    *)
(* sweep.                                                                  *)
ColourValue(f, fl, pins, extra, c, v) ==
    LET pinned == {s \in PinsOf(pins, v) : Usable(fl, c, s, v)}
        arms   == SelectSeq(ArmsFor(extra, v), LAMBDA s : Usable(fl, c, s, v))
    IN  IF pinned # {} THEN Join(f, fl, c, v, c.of[CHOOSE s \in pinned : TRUE])
        ELSE IF arms # <<>> THEN Join(f, fl, c, v, c.of[arms[1]])
        ELSE IF \E s \in Range(ArmsFor(extra, v)) : s \notin DOMAIN c.of
             THEN [c EXCEPT !.waiting = Append(@, v)]
        ELSE FirstFit(f, fl, c, v)

ColourWaiting(f, fl, extra, c, v) ==
    LET arms == SelectSeq(ArmsFor(extra, v), LAMBDA s : Usable(fl, c, s, v))
    IN  IF arms # <<>> THEN Join(f, fl, c, v, c.of[arms[1]]) ELSE FirstFit(f, fl, c, v)

Colour(f, fl, pins, extra) ==
    LET first == FoldLeft(LAMBDA c, v : Once(LAMBDA x : ColourValue(f, fl, pins, extra, x, v), c),
                          [slots |-> <<>>, of |-> <<>>, waiting |-> <<>>], fl.order)
    IN  FoldLeft(LAMBDA c, v : Once(LAMBDA x : ColourWaiting(f, fl, extra, x, v), c), first, first.waiting)

Widths(c) == [i \in DOMAIN c.slots |-> c.slots[i].w]
WidthSum(c) == FoldLeft(+, 0, Widths(c))

(* frame_layout: the diamond pins are kept only where they shrink the      *)
(* frame.                                                                  *)
FrameLayout(f, fl, retvals) ==
    LET pins   == Once(LAMBDA s : s, Pins(f, fl, retvals))
        extra  == Once(LAMBDA s : s, Diamonds(f, fl, retvals))
        base   == Colour(f, fl, pins, {})
        pinned == Colour(f, fl, pins, extra)
        kept   == IF extra # {} /\ WidthSum(pinned) < WidthSum(base) THEN pinned ELSE base
    IN  Once(LAMBDA c : [widths |-> Widths(c), of |-> c.of], kept)
=============================================================================
