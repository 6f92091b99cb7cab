----------------------------- MODULE Pic18Select -----------------------------
(***************************************************************************)
(* Whole functions and the whole text: block joins, the bank a function    *)
(* leaves, callees before callers, recipes, handlers and their narrowing.  *)
(***************************************************************************)
EXTENDS HandlerSaves

IsPlain(p, f) == p.kind[f] = "plain"

\* The blocks b may be left for.  A switch lists its own block too.
Targets(b) ==
    CASE b.term.op = "br" -> {b.term.t.to}
      [] b.term.op = "cond" -> {b.term.t.to, b.term.f.to}
      [] b.term.op = "switch" ->
            {b.name, b.term.f.to} \cup {b.term.cases[k].to : k \in DOMAIN b.term.cases}
      [] OTHER -> {}

Preds(p, f, name) == {b.name : b \in {c \in Range(p.body[f]) : name \in Targets(c)}}

\* A block label takes the bank every predecessor has been recorded to end
\* with; a predecessor still to be emitted leaves it unknown.
Joined(e, p, f, k) ==
    LET ps == Preds(p, f, p.body[f][k].name)
        ends == {IF b \in DOMAIN e.ends THEN e.ends[b] ELSE NoBank : b \in ps}
    IN  IF k = 1 \/ Agreed(ends) = NoBank THEN e ELSE [e EXCEPT !.bsr = Agreed(ends)]

LabelOf(p, f, k) == IF k = 1 THEN <<f>> ELSE Block(f, p.body[f][k].name)

EmitTerminator(e, p, f, x) ==
    CASE x.op = "br" -> Edge(e, f, x.t)
      [] x.op = "cond" /\ x.how = "fused" -> EmitFused(e, f, x)
      [] x.op = "cond" /\ x.how # "fused" -> EmitCond(e, f, x)
      [] x.op = "switch" /\ x.how = "chain" -> EmitChain(e, f, x)
      [] x.op = "switch" /\ x.how = "table" -> EmitTable(e, f, x)
      [] x.op = "ret" /\ IsHandler(p, f) -> EmitEpilogue(e, p, f)
      [] x.op = "ret" /\ ~IsHandler(p, f) -> EmitReturn(e, x)

\* The end bank is not recorded when the terminator itself selected banks.
EmitBlock(e, p, exits, f, k) ==
    LET b == p.body[f][k]
        entered == Joined(EmitLabel(e, LabelOf(p, f, k)), p, f, k)
        opened == IF k = 1 /\ IsHandler(p, f) THEN EmitPrologue(entered, p, f) ELSE entered
        items == FoldLeft(LAMBDA s, it : EmitItem(s, exits, f, it), opened, b.items)
        left == EmitTerminator([items EXCEPT !.dirty = FALSE], p, f, b.term)
        end == IF left.dirty THEN NoBank ELSE left.bsr
    IN  [left EXCEPT !.ends = [n \in DOMAIN @ \cup {b.name} |->
                                  IF n = b.name THEN end ELSE @[n]]]

EmitFunc(p, exits, f) ==
    FoldLeft(LAMBDA e, k : EmitBlock(e, p, exits, f, k), Fresh, [k \in DOMAIN p.body[f] |-> k])

\* What the return blocks agree on; nothing for a handler.
ExitBank(p, f, e) ==
    IF IsHandler(p, f) THEN NoBank
    ELSE Agreed({e.ends[b.name] : b \in {c \in Range(p.body[f]) : c.term.op = "ret"}})

\* The shift recipe, the shape of all of them: count, value and scratch in
\* banks of their own, a counted loop, the result copied without a bank.
EmitRecipe(f, b) ==
    LET loop == <<f, "tmp", 0>>
        done == <<f, "tmp", 1>>
        mask == Operands(Emit(Fresh, To("label", <<f>>)),
                         <<Ins("movf_w", b.count, ""), Ins("addlw", NoBank, ""),
                           Ins("movwf", b.scratch, "")>>)
        test == EmitLines(mask, <<Test("btfsc", NoBank), To("goto", done)>>)
        shift == Operands(EmitLabel(test, loop),
                          <<Ins("bsf", NoBank, "STATUS"), Ins("rrcf", b.value, ""),
                            Test("decfsz", b.scratch)>>)
    IN  EmitLines(EmitLabel(Emit(shift, To("goto", loop)), done),
                  <<Ins("movff", NoBank, "RETVAL"), Line("return")>>)

\* Lines of a naked function, as written.
EmitNaked(p, f) == EmitLines(Emit(Fresh, To("label", <<f>>)), p.body[f])

-----------------------------------------------------------------------------
(* The module.                                                             *)

Recipes(p) == {f \in Range(p.order) : p.kind[f] = "recipe"}
Naked(p) == {f \in Range(p.order) : p.kind[f] = "naked"}

Callees(p, f) ==
    LET items == UNION {Range(b.items) : b \in Range(p.body[f])}
    IN  UNION {Range(it.at) : it \in {x \in items : x.op \in {"call", "dispatch"}}}

\* The plain functions with their callees done first, in module order.
RECURSIVE Emitted(_, _, _)
Emitted(p, bodies, exits) ==
    LET todo == SelectSeq(p.order, LAMBDA f : IsPlain(p, f) /\ f \notin DOMAIN bodies)
        ready == SelectSeq(todo, LAMBDA f : \A g \in Callees(p, f) : g \notin Range(todo))
        f == IF ready = <<>> THEN todo[1] ELSE ready[1]
        e == EmitFunc(p, exits, f)
    IN  IF todo = <<>> THEN bodies
        ELSE Emitted(p, bodies @@ (f :> e.out), exits @@ (f :> ExitBank(p, f, e)))

\* What the recipes leave is known before any function is emitted.
RecipeExits(p) == [f \in Recipes(p) |-> EmitRecipe(f, p.body[f]).bsr]

Bodies(p) ==
    Emitted(p, [f \in {} |-> <<>>], RecipeExits(p))
    @@ [f \in Recipes(p) |-> EmitRecipe(f, p.body[f]).out]
    @@ [f \in Naked(p) |-> EmitNaked(p, f).out]

Text(p) ==
    LET bodies == Bodies(p)
    IN  FlattenSeq([k \in DOMAIN p.order |->
            IF IsHandler(p, p.order[k]) THEN Narrow(p, bodies, p.order[k])
            ELSE bodies[p.order[k]]])
=============================================================================
