------------------------------ MODULE FrameFlow ------------------------------
(***************************************************************************)
(* Control and data flow of one IR function, as alloc's frame_layout       *)
(* computes it: block order, uses, liveness and the live interval of every *)
(* value in the linear order of the blocks.                                *)
(*                                                                         *)
(* A function is a record: params, the sequence of its parameters; blocks, *)
(* the sequence of its blocks in textual order, the entry first; width, the *)
(* byte width of every value.  A block is a sequence of instructions       *)
(*   [op, dst, reads, arms, to, fn, kept]                                  *)
(* phi arms are pairs <<value, predecessor>>; to lists a branch's targets;  *)
(* a pointer is an alloca's name or the result of a gep of it, whose reads *)
(* are the object and the index values.  Nil is a constant operand and the *)
(* missing result.                                                         *)
(***************************************************************************)
EXTENDS Integers, Sequences, FiniteSets, SequencesExt, TLC

Nil == ""
Span == 32     \* above the length of every block

(* A position: instructions of block b, from Start(b), and the block's end. *)
At(b, i) == b * Span + i - 1
Start(b) == At(b, 1)
EndOf(f, b) == At(b, Len(f.blocks[b]) + 1)
BlockAt(pos) == pos \div Span
IndexAt(pos) == (pos % Span) + 1

Blocks(f) == DOMAIN f.blocks
Points(f) == UNION {{b} \X DOMAIN f.blocks[b] : b \in Blocks(f)}
InstAt(f, pt) == f.blocks[pt[1]][pt[2]]
PointsOf(f, op) == {pt \in Points(f) : InstAt(f, pt).op = op}
Arms(phi) == Range(phi.arms)

(* Op(x); TLC evaluates x, and the result, once and completely.            *)
Once(Op(_), x) == CHOOSE y \in {Op(v) : v \in {x}} : y = y

Iterate(Step(_), x, n) == FoldLeft(LAMBDA y, i : Once(Step, y), x, [i \in 1..n |-> i])

-----------------------------------------------------------------------------
(* Values, objects and pointers.                                           *)

(* Every value that may take a slot, params first, then in text order.  A  *)
(* gep's result takes none: its address is computed where it is used.      *)
DefSeq(f) ==
    f.params \o FlattenSeq([b \in Blocks(f) |->
        SelectSeq([i \in DOMAIN f.blocks[b] |->
                      IF f.blocks[b][i].op = "gep" THEN Nil ELSE f.blocks[b][i].dst],
                  LAMBDA v : v # Nil)])

DefPoint(f, v) == CHOOSE pt \in Points(f) : InstAt(f, pt).dst = v

Objects(f) == {InstAt(f, pt).dst : pt \in PointsOf(f, "alloca")}

(* What a value resolves to, when it points to a local object.             *)
PointsTo(f, v, obj) ==
    obj \in Objects(f) /\
    (v = obj \/ \E pt \in PointsOf(f, "gep") : InstAt(f, pt).dst = v /\ InstAt(f, pt).reads[1] = obj)

(* uses: a phi's source is used at the end of its predecessor.             *)
DirectUses(f, v) ==
    {At(pt[1], pt[2]) : pt \in {q \in Points(f) :
        \/ v \in Range(InstAt(f, q).reads)
        \/ InstAt(f, q).op = "gep" /\ InstAt(f, q).dst = v}}
    \union {EndOf(f, a[2]) : a \in {c \in UNION {Arms(InstAt(f, q)) : q \in PointsOf(f, "phi")} :
                                        c[1] = v}}

(* The selector computes an address again at every access, so the object   *)
(* and the indices of a gep are used wherever its result is.               *)
Uses(f, v) ==
    DirectUses(f, v)
    \union UNION {DirectUses(f, InstAt(f, pt).dst) :
                      pt \in {q \in PointsOf(f, "gep") : v \in Range(InstAt(f, q).reads)}}

(* Objects whose address leaves the function's view: stored, turned into a *)
(* number, returned, or passed to a callee that keeps it.                  *)
Escaped(f) ==
    {o \in Objects(f) : \E pt \in Points(f) :
        LET inst == InstAt(f, pt)
        IN  \/ inst.op \in {"store", "trunc", "ret"} /\ inst.reads # <<>>
               /\ PointsTo(f, inst.reads[1], o)
            \/ \E n \in inst.kept : PointsTo(f, inst.reads[n], o)}

-----------------------------------------------------------------------------
(* The graph of the blocks.                                                *)

Succ(f) == [b \in Blocks(f) |-> Range(Last(f.blocks[b]).to)]
Preds(succ) == [b \in DOMAIN succ |-> {a \in DOMAIN succ : b \in succ[a]}]

(* Blocks reached along one edge or more.                                  *)
Reached(succ) ==
    Iterate(LAMBDA r : [b \in DOMAIN r |-> r[b] \union UNION {r[c] : c \in r[b]}],
            succ, Cardinality(DOMAIN succ))

(* Iterative dominators: an unreachable block keeps the full set.          *)
Dominators(succ) ==
    LET preds == Preds(succ)
        all   == DOMAIN succ
    IN  Iterate(LAMBDA d : [b \in all |->
                    IF b = 1 THEN {1}
                    ELSE {b} \union {a \in all : \A p \in preds[b] : a \in d[p]}],
                [b \in all |-> IF b = 1 THEN {1} ELSE all],
                2 * Cardinality(all))

-----------------------------------------------------------------------------
(* Liveness.                                                               *)

UseBeforeDef(f, defs, uses, b) ==
    {v \in DOMAIN uses : \E u \in uses[v] :
        BlockAt(u) = b /\ (BlockAt(defs[v]) # b \/ u <= defs[v])}

(* The backward fixpoint of live_in and live_out.                          *)
LiveIn(succ, before, killed) ==
    Iterate(LAMBDA in : [b \in DOMAIN succ |->
                before[b] \union (UNION {in[s] : s \in succ[b]} \ killed[b])],
            [b \in DOMAIN succ |-> {}], Cardinality(DOMAIN succ) + 1)

(* The predecessor ends at which a phi's slot is written.                  *)
PhiPredEnds(f, v) ==
    UNION {{EndOf(f, a[2]) : a \in Arms(InstAt(f, pt))} :
               pt \in {q \in PointsOf(f, "phi") : InstAt(f, q).dst = v}}

(* A value occupies its slot from the first of its definition, uses, copy  *)
(* points and blocks it is live into, to the last of them and of the ends  *)
(* of those blocks' predecessors.                                          *)
Interval(f, preds, defs, uses, liveIn, v) ==
    LET touched == {defs[v]} \union uses[v] \union PhiPredEnds(f, v)
        into    == {b \in Blocks(f) : v \in liveIn[b]}
    IN  [lo |-> Min(touched \union {Start(b) : b \in into \ {1}}),
         hi |-> Max(touched \union UNION {{EndOf(f, p) : p \in preds[b]} : b \in into})]

(* Values in order of their first position, then of definition.            *)
ColourOrder(f, sortKey) ==
    LET vals  == DefSeq(f)
        order == SortSeq([i \in DOMAIN vals |-> i],
                         LAMBDA i, j : \/ sortKey[vals[i]] < sortKey[vals[j]]
                                       \/ sortKey[vals[i]] = sortKey[vals[j]] /\ i < j)
    IN  [i \in DOMAIN vals |-> vals[order[i]]]

(* Everything frame_layout knows of a function before it pins and colours. *)
(* precise bounds memory objects by their uses; off, and for an escaped    *)
(* object, the slot is held from entry to exit.                            *)
Flow(f, precise) ==
    LET vals   == Range(DefSeq(f))
        defs   == [v \in vals |-> IF v \in Range(f.params) THEN Start(1)
                                  ELSE At(DefPoint(f, v)[1], DefPoint(f, v)[2])]
        uses   == [v \in vals |-> Uses(f, v)]
        fixed  == IF precise THEN Escaped(f) ELSE Objects(f)
        succ   == Succ(f)
        preds  == Preds(succ)
        before == [b \in Blocks(f) |-> UseBeforeDef(f, defs, uses, b)]
        killed == [b \in Blocks(f) |-> {v \in vals \ fixed : BlockAt(defs[v]) = b}]
        liveIn == LiveIn(succ, before, killed)
        whole  == [lo |-> Start(1), hi |-> EndOf(f, Len(f.blocks))]
        live   == [v \in vals |-> IF v \in fixed THEN whole
                                  ELSE Interval(f, preds, defs, uses, liveIn, v)]
    IN  [defs |-> defs, uses |-> uses, objects |-> Objects(f), succ |-> succ,
         preds |-> preds, reached |-> Reached(succ), liveIn |-> liveIn,
         liveOut |-> [b \in Blocks(f) |-> UNION {liveIn[s] : s \in succ[b]}],
         live |-> live,
         order |-> ColourOrder(f, [v \in vals |-> IF v \in Objects(f) \ fixed THEN Start(1)
                                                  ELSE live[v].lo])]
=============================================================================
