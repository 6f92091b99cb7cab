------------------------------ MODULE HomeSlots ------------------------------
(***************************************************************************)
(* Which values live outside their own frame: home_results leaves a call's *)
(* result in the fixed return-value region, home_args computes a call's    *)
(* argument straight into the callee's parameter slot.                     *)
(*                                                                         *)
(* A program p is a record: order, the functions in module order; funcs,   *)
(* their records; pic18, whether the device has a fixed return-value       *)
(* region.  Value names are unique in the program.  fl maps a function to  *)
(* its Flow.                                                               *)
(***************************************************************************)
EXTENDS FrameColour

Calls == {"call"}
Clobbers == {"call", "asm"}     \* what may rewrite the return-value bytes

(* No instruction of block b at an index of the given range is of ops.     *)
Free(f, b, from, to, ops) == \A i \in from..to : f.blocks[b][i].op \notin ops

BlockFree(f, b, ops) == Free(f, b, 1, Len(f.blocks[b]), ops)

(* Blocks on some path from one of a set of blocks to b, ends included.    *)
Between(fl, from, b) ==
    ({b} \union {c \in DOMAIN fl.succ : b \in fl.reached[c]})
    \intersect (from \union UNION {fl.reached[a] : a \in from})

-----------------------------------------------------------------------------
(* Results.                                                                *)

(* Seeded fault: only the call's own block and the reader's are searched.  *)
ResultHomeOkEnds(f, fl, call, use) ==
    IF use[1] = call[1]
    THEN use[2] > call[2] /\ Free(f, call[1], call[2] + 1, use[2] - 1, Clobbers)
    ELSE /\ call[1] \in Dominators(fl.succ)[use[1]]
         /\ ~OnCycle(fl, call[1]) /\ ~OnCycle(fl, use[1])
         /\ Free(f, call[1], call[2] + 1, Len(f.blocks[call[1]]), Clobbers)
         /\ Free(f, use[1], 1, use[2] - 1, Clobbers)

(* result_home_ok: nothing on a path from the call to its one read         *)
(* rewrites the return-value bytes.                                        *)
ResultHomeOk(f, fl, call, use) ==
    IF use[1] = call[1]
    THEN use[2] > call[2] /\ Free(f, call[1], call[2] + 1, use[2] - 1, Clobbers)
    ELSE /\ call[1] \in Dominators(fl.succ)[use[1]]
         /\ ~OnCycle(fl, call[1]) /\ ~OnCycle(fl, use[1])
         /\ Free(f, call[1], call[2] + 1, Len(f.blocks[call[1]]), Clobbers)
         /\ Free(f, use[1], 1, use[2] - 1, Clobbers)
         /\ \A b \in Between(fl, {call[1]}, use[1]) \ {call[1], use[1]} : BlockFree(f, b, Clobbers)

UsePoint(u) == <<BlockAt(u), IndexAt(u)>>

IsAsm(f, pt) == pt \in Points(f) /\ InstAt(f, pt).op = "asm"

(* home_results, for one function.                                         *)
HomedResults(f, fl) ==
    {InstAt(f, pt).dst : pt \in
        {q \in PointsOf(f, "call") :
            LET d == InstAt(f, q).dst
            IN  /\ d # Nil
                /\ \E u \in DirectUses(f, d) :
                      /\ Uses(f, d) = {u}
                      /\ u # At(q[1], q[2]) /\ ~IsAsm(f, UsePoint(u))
                      /\ ResultHomeOk(f, fl, q, UsePoint(u))}}

-----------------------------------------------------------------------------
(* Arguments.                                                              *)

(* Instructions the selector computes straight into their result's slot.   *)
Homable == {"load", "bin", "lane", "call", "trunc", "sext"}

(* Seeded fault: calls between the two blocks are not looked for.          *)
CrossBlockOkEnds(f, fl, def, call) ==
    /\ def[1] \in Dominators(fl.succ)[call[1]]
    /\ ~OnCycle(fl, def[1]) /\ ~OnCycle(fl, call[1])
    /\ Free(f, def[1], def[2] + 1, Len(f.blocks[def[1]]), Calls)
    /\ Free(f, call[1], 1, call[2] - 1, Calls)

(* cross_block_ok: the definition dominates the call, both run at most     *)
(* once, and no call lies on a path between them.                          *)
CrossBlockOk(f, fl, def, call) ==
    /\ def[1] \in Dominators(fl.succ)[call[1]]
    /\ ~OnCycle(fl, def[1]) /\ ~OnCycle(fl, call[1])
    /\ Free(f, def[1], def[2] + 1, Len(f.blocks[def[1]]), Calls)
    /\ Free(f, call[1], 1, call[2] - 1, Calls)
    /\ \A b \in Between(fl, {def[1]}, call[1]) \ {def[1], call[1]} : BlockFree(f, b, Calls)

(* phi_home_ok: the phi's merge holds the call and runs at most once, every *)
(* predecessor brings an arm, and no call lies between a copy and it.      *)
PhiHomeOk(f, fl, def, call) ==
    LET m == call[1]
    IN  /\ def[1] = m /\ def[2] < call[2] /\ EdgeBlocks(InstAt(f, def)) # {}
        /\ fl.preds[m] \subseteq EdgeBlocks(InstAt(f, def))
        /\ ~OnCycle(fl, m)
        /\ Free(f, m, 1, call[2] - 1, Calls)
        /\ \A p \in fl.preds[m] :
              \A b \in Between(fl, {p}, m) \ {p, m} : BlockFree(f, b, Calls)

(* entry_path_ok: the call runs at most once and is the first on every     *)
(* path from the entry.                                                    *)
EntryPathOk(f, fl, call) ==
    /\ ~OnCycle(fl, call[1])
    /\ call[1] \in {1} \union fl.reached[1] =>
          \A b \in Between(fl, {1}, call[1]) :
              IF b = call[1] THEN Free(f, b, 1, call[2] - 1, Calls) ELSE BlockFree(f, b, Calls)

CalleesOf(p, f) == {InstAt(p.funcs[f], pt).fn : pt \in PointsOf(p.funcs[f], "call")}
Reaches(p, f) ==
    Iterate(LAMBDA s : s \union UNION {CalleesOf(p, g) : g \in s}, {f}, Len(p.order))

(* Where the value an argument passes is written, when it may be written   *)
(* into the callee: a parameter at the entry, a phi at its predecessors'   *)
(* ends, anything else where it is defined.                                *)
HomeWrites(f, fl, v, call) ==
    LET def == DefPoint(f, v)
    IN  IF v \in Range(f.params)
        THEN IF EntryPathOk(f, fl, call) THEN {<<1, 1>>} ELSE {}
        ELSE IF InstAt(f, def).op = "phi"
        THEN IF PhiHomeOk(f, fl, def, call)
             THEN {<<b, Len(f.blocks[b]) + 1>> : b \in EdgeBlocks(InstAt(f, def))} ELSE {}
        ELSE IF /\ InstAt(f, def).op \in Homable
                /\ IF def[1] = call[1] THEN Free(f, def[1], def[2] + 1, call[2] - 1, Calls)
                   ELSE CrossBlockOk(f, fl, def, call)
             THEN {def} ELSE {}

(* Seeded fault: chained results are homed twice.                          *)
NoResultHomed(retvals, v) == FALSE

(* A value home_results took: it stays out of home_args.                   *)
ResultHomed(retvals, v) == v \in retvals

Candidate(p, fl, retvals, name, call, n) ==
    LET f      == p.funcs[name]
        inst   == InstAt(f, call)
        v      == inst.reads[n]
        target == p.funcs[inst.fn].params[n]
    IN  [fn |-> name, callee |-> inst.fn, src |-> v, tgt |-> target, call |-> call,
         ok |-> /\ v \in DOMAIN fl[name].defs /\ v \notin fl[name].objects
                /\ ~ResultHomed(retvals, v) /\ name \notin Reaches(p, inst.fn)
                /\ f.width[v] = p.funcs[inst.fn].width[target]
                /\ DirectUses(f, v) = {At(call[1], call[2])}
                /\ Cardinality({k \in DOMAIN inst.reads : inst.reads[k] = v}) = 1,
         writes |-> IF v \in DOMAIN fl[name].defs THEN HomeWrites(f, fl[name], v, call) ELSE {}]

(* Candidates in the order of the functions, blocks, calls and arguments.  *)
Candidates(p, fl, retvals) ==
    SelectSeq(
        FlattenSeq([k \in DOMAIN p.order |->
            LET f == p.funcs[p.order[k]]
            IN  FlattenSeq([b \in Blocks(f) |->
                    FlattenSeq([i \in DOMAIN f.blocks[b] |->
                        IF f.blocks[b][i].op # "call" THEN <<>>
                        ELSE [n \in DOMAIN f.blocks[b][i].reads |->
                                 Candidate(p, fl, retvals, p.order[k], <<b, i>>, n)]])])]),
        LAMBDA c : c.ok /\ c.writes # {})

(* The end of a chain of pass-throughs.                                    *)
FinalTarget(next, tgt, n) ==
    Iterate(LAMBDA t : IF t \in DOMAIN next THEN next[t] ELSE t, tgt, n)

Follows(fl, from, to) ==
    IF from[1] = to[1] THEN from[2] <= to[2] ELSE to[1] \in fl.reached[from[1]]

(* Blocks a walk from block b reaches before it meets one of mine.         *)
BlocksUntil(fl, b, mine, target) ==
    LET stops == {m[1] : m \in mine} \union {target}
    IN  Iterate(LAMBDA s : s \union UNION {fl.succ[c] : c \in s \ stops}, fl.succ[b],
                Cardinality(DOMAIN fl.succ))

(* A write at t is still there at the call: some path from t runs none of  *)
(* the owner's writes.                                                     *)
Visible(fl, t, call, mine) ==
    IF t[1] = call[1] /\ t[2] <= call[2]
    THEN ~\E m \in mine : m[1] = t[1] /\ m[2] > t[2] /\ m[2] < call[2]
    ELSE /\ ~\E m \in mine : m[1] = t[1] /\ m[2] > t[2]
         /\ call[1] \in BlocksUntil(fl, t[1], mine, call[1])
         /\ ~\E m \in mine : m[1] = call[1] /\ m[2] < call[2]

Clobbered(fl, mine, theirs, call) ==
    \E t \in theirs : (\E m \in mine : Follows(fl, m, t)) /\ Visible(fl, t, call, mine)

(* Two parameters of one callee never share a byte.                        *)
DistinctParams(next, n, c, k) ==
    /\ c.callee = k.callee /\ c.tgt # k.tgt
    /\ FinalTarget(next, c.tgt, n) = c.tgt /\ FinalTarget(next, k.tgt, n) = k.tgt

(* Two homed values of one caller collide when either's write may land     *)
(* between the other's write and its call.                                 *)
Collide(next, n, fl, c, k) ==
    /\ c.fn = k.fn /\ ~DistinctParams(next, n, c, k)
    /\ Clobbered(fl[c.fn], k.writes, c.writes, k.call) \/ Clobbered(fl[c.fn], c.writes, k.writes, c.call)

(* home_args: each candidate is kept unless it collides with a kept one.   *)
(* The result maps a homed value to the parameter it is computed into.     *)
HomedArgs(p, fl, retvals) ==
    LET cands == Candidates(p, fl, retvals)
        n     == Len(p.order)
        next  == [v \in {c.src : c \in Range(cands)} |->
                     (CHOOSE c \in Range(cands) : c.src = v).tgt]
        kept  == FoldLeft(LAMBDA ks, c : IF \E k \in Range(ks) : Collide(next, n, fl, c, k)
                                         THEN ks ELSE Append(ks, c),
                          <<>>, cands)
    IN  [v \in {c.src : c \in Range(kept)} |-> (CHOOSE c \in Range(kept) : c.src = v).tgt]

(* final_tgt: pass-through chains resolve to the last parameter.           *)
FinalHomes(homed, n) == [v \in DOMAIN homed |-> FinalTarget(homed, homed[v], n)]

OwnerOf(p, param) == CHOOSE f \in Range(p.order) : param \in Range(p.funcs[f].params)

(* Callees whose frame must not dip below a caller's end.                  *)
HomedCallees(p, finals) == {OwnerOf(p, finals[v]) : v \in DOMAIN finals}
=============================================================================
