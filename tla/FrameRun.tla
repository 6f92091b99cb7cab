------------------------------ MODULE FrameRun ------------------------------
(***************************************************************************)
(* A program compiled into frames, then run on them.  The compilation is   *)
(* alloc's: results and arguments homed, every function's frame coloured,  *)
(* frames placed over each other, phi copies ordered edge by edge.  The    *)
(* run keeps, beside the bytes of RAM, the value every SSA name has; what  *)
(* an instruction reads from RAM must be the value its operand names.      *)
(*                                                                         *)
(* A value is a token: two executions of an instruction never produce one  *)
(* token while anything still holds the earlier one.                       *)
(***************************************************************************)
EXTENDS HomeSlots, DeviceRam

CONSTANT Programs      \* the programs to compile, by name; main is order[1]

VARIABLES
    prog,       \* the program compiled
    scope,      \* dip: callees may start below a caller's end; precise: the
                \*   bound of memory objects
    stage,      \* "results", "args", "frames", "bases", "run", "refused", "done"
    retvals,    \* function -> values homed in the return-value region
    homes,      \* value -> parameter it is computed into
    frames,     \* function -> its slot widths and the slot of every value
    addr,       \* value -> address of its first byte
    mem,        \* byte address -> <<token, byte of the value>>
    env,        \* value -> the token SSA says it has; 0 before its definition
    stack,      \* activations, the running one last: function, point, objects
                \*   lent to it
    leaked      \* objects whose address has left the program's view

compiled == <<prog, scope, retvals, homes, frames, addr>>
vars == <<prog, scope, stage, retvals, homes, frames, addr, mem, env, stack, leaked>>

-----------------------------------------------------------------------------
(* Fixed bytes below the frames.                                           *)

RetLo == 0        \* the return-value bytes: retval_lo and the next
ProdLo == 2       \* PRODL, PRODH: PHI_COPY_TEMP_LO on PIC18
Region == 0..Banks[Len(Banks)].hi

P == Programs[prog]
Main == P.order[1]
Names == Range(P.order)

Flows ==
    Once(LAMBDA flows : flows,
         [k \in DOMAIN Programs |-> [precise \in BOOLEAN |->
             [g \in Range(Programs[k].order) |-> Flow(Programs[k].funcs[g], precise)]]])
Fl == Flows[prog][scope.precise]

Homed == UNION {retvals[g] : g \in DOMAIN retvals}

(* The two bytes that break a copy cycle.                                  *)
TempLo == IF P.pic18 THEN ProdLo ELSE RetLo

-----------------------------------------------------------------------------
(* Placing the frames.  One bank holds them all, so no base moves for a    *)
(* bank and no homed argument is priced out.                               *)

CallSites(p, g) ==
    UNION {{<<c, pt>> : pt \in {q \in PointsOf(p.funcs[c], "call") : InstAt(p.funcs[c], q).fn = g}} :
               c \in Range(p.order)}

(* Slots of c's frame that a call at pt must leave alone.                  *)
LiveSlots(p, fl, lay, c, pt) ==
    {lay[c].of[v] : v \in {x \in DOMAIN lay[c].of :
        /\ x # InstAt(p.funcs[c], pt).dst
        /\ fl[c].live[x].lo <= At(pt[1], pt[2]) /\ At(pt[1], pt[2]) <= fl[c].live[x].hi}}

(* A callee's base: above every caller's frame, or above what is live at   *)
(* each of its call sites when it may dip.                                 *)
CallBase(p, fl, lay, base, dips, g) ==
    IF CallSites(p, g) = {} THEN GprStart
    ELSE Max({IF dips
              THEN LiveHigh(base[s[1]], lay[s[1]].widths, LiveSlots(p, fl, lay, s[1], s[2]))
              ELSE FrameEnd(base[s[1]], lay[s[1]].widths) : s \in CallSites(p, g)})

Bases(p, fl, lay, dip, stacked) ==
    Iterate(LAMBDA base : [g \in Range(p.order) |->
                CallBase(p, fl, lay, base, dip /\ g \notin stacked, g)],
            [g \in Range(p.order) |-> GprStart], Len(p.order))

(* The slot's address; a homed argument's is its parameter's, a homed      *)
(* result's the return-value region.                                       *)
Addresses(p, lay, base, homed, inRetval) ==
    LET slot(g, v) == Cursor(base[g], lay[g].widths)[lay[g].of[v]] - lay[g].widths[lay[g].of[v]]
        owned      == UNION {{<<g, v>> : v \in DOMAIN lay[g].of} : g \in Range(p.order)}
        own        == [v \in {o[2] : o \in owned} |-> slot((CHOOSE o \in owned : o[2] = v)[1], v)]
        final      == FinalHomes(homed, Len(p.order))
    IN  [v \in DOMAIN own |->
            IF v \in inRetval THEN RetLo
            ELSE IF v \in DOMAIN final THEN own[final[v]] ELSE own[v]]

-----------------------------------------------------------------------------
(* emit_phi_copies: the copies of one edge, one after the other.           *)

Phis(f, b) == SelectSeq(f.blocks[b], LAMBDA inst : inst.op = "phi")

(* The copies of the edge from a to b: destination and source.             *)
EdgeCopies(f, a, b) ==
    [n \in DOMAIN Phis(f, b) |->
        [dst |-> Phis(f, b)[n].dst,
         src |-> (CHOOSE arm \in Arms(Phis(f, b)[n]) : arm[2] = a)[1]]]

NoSlot == -1

(* Seeded fault: a copy already made still blocks the others.              *)
BlockedByDone(da, st, back, i) ==
    \E j \in DOMAIN da \ {i} :
        IF back THEN st.src[j] = da[i] ELSE st.src[i] # NoSlot /\ da[j] = st.src[i]

(* A copy waits: on a back edge for the readers of its destination, on a   *)
(* forward edge for the writer of its source.                              *)
Blocked(da, st, back, i) ==
    \E j \in DOMAIN da \ (st.done \union {i}) :
        IF back THEN st.src[j] = da[i] ELSE st.src[i] # NoSlot /\ da[j] = st.src[i]

Emit(da, st, back, i) ==
    IF i \in st.done \/ Blocked(da, st, back, i) THEN st
    ELSE [st EXCEPT !.done = @ \union {i},
                    !.plan = Append(@, IF st.staged = i THEN <<"unstage", i>> ELSE <<"copy", i>>),
                    !.staged = IF @ = i THEN 0 ELSE @]

(* No copy can go: a back edge parks one source in the temporary, once at  *)
(* a time; anything else is refused.                                       *)
BreakCycle(f, copies, st, back, temp) ==
    LET open == {i \in DOMAIN copies \ st.done : st.src[i] # NoSlot}
        pick == Min(open)
    IN  IF ~back \/ st.staged # 0 \/ open = {} \/ f.width[copies[pick].dst] > 2
        THEN [st EXCEPT !.ok = FALSE]
        ELSE [st EXCEPT !.staged = pick, !.src[pick] = temp, !.plan = Append(@, <<"stage", pick>>)]

CopyOrder(f, copies, place, back, temp) ==
    LET da    == [i \in DOMAIN copies |-> place[copies[i].dst]]
        first == [done |-> {}, plan |-> <<>>, staged |-> 0, ok |-> TRUE,
                  src |-> [i \in DOMAIN copies |->
                              IF copies[i].src = Nil THEN NoSlot ELSE place[copies[i].src]]]
        sweep(st) == FoldLeft(LAMBDA s, i : Once(LAMBDA x : Emit(da, x, back, i), s), st, [i \in DOMAIN copies |-> i])
        round(st) == LET next == sweep(st)
                     IN  IF next.done # st.done \/ st.done = DOMAIN copies \/ ~st.ok THEN next
                         ELSE BreakCycle(f, copies, st, back, temp)
    IN  Iterate(round, first, 3 * Len(copies) + 1)

IsBack(fl, a, b) == b \in Dominators(fl.succ)[a]

EdgePlan(g, place, a, b) ==
    CopyOrder(P.funcs[g], EdgeCopies(P.funcs[g], a, b), place, IsBack(Fl[g], a, b), TempLo)

Emits(place) ==
    \A g \in Names : \A a \in Blocks(P.funcs[g]) : \A b \in Fl[g].succ[a] : EdgePlan(g, place, a, b).ok

-----------------------------------------------------------------------------
(* Memory.                                                                 *)

Write(m, a, w, t) == [x \in DOMAIN m |-> IF x \in a..a + w - 1 THEN <<t, x - a>> ELSE m[x]]
Copy(m, from, to, w) == [x \in DOMAIN m |-> IF x \in to..to + w - 1 THEN m[from + (x - to)] ELSE m[x]]

Fresh(st) ==
    LET held == {c[1] : c \in Range(st.mem)} \union Range(st.env)
    IN  Min((1..Cardinality(held) + 1) \ held)

(* A new value lands in v's slot; nowhere in the case of a gep's result.   *)
Define(st, f, v) ==
    IF v = Nil THEN st
    ELSE [mem |-> Write(st.mem, addr[v], f.width[v], Fresh(st)), env |-> [st.env EXCEPT ![v] = Fresh(st)]]

(* v's slot receives what another value, or a constant, is.                *)
Move(st, f, src, dst) ==
    IF src = Nil THEN Define(st, f, dst)
    ELSE [mem |-> Copy(st.mem, addr[src], addr[dst], f.width[dst]),
          env |-> [st.env EXCEPT ![dst] = st.env[src]]]

JunkRetval(st) == [st EXCEPT !.mem = Write(st.mem, RetLo, 2, Fresh(st))]

Top == Last(stack)
F == P.funcs[Top.fn]
Current == InstAt(F, Top.at)
After(act) == [act EXCEPT !.at = <<act.at[1], act.at[2] + 1>>]

ObjectOf(f, v) == {o \in Objects(f) : PointsTo(f, v, o)}

(* Operands whose slots computing v reads: a gep's are its terms'.         *)
Terms(f, v) ==
    IF v = Nil \/ v \in Objects(f) THEN {}
    ELSE IF \E pt \in PointsOf(f, "gep") : InstAt(f, pt).dst = v
    THEN Range(Tail(InstAt(f, DefPoint(f, v)).reads)) \ {Nil}
    ELSE {v}

(* Objects an instruction reads the bytes of.                              *)
ObjectsRead(f, inst, act) ==
    IF inst.op # "load" \/ inst.reads = <<>> THEN {}
    ELSE IF ObjectOf(f, inst.reads[1]) # {} THEN ObjectOf(f, inst.reads[1])
    ELSE act.lent \union leaked

(* Everything the next instruction reads, a branch's edge copies included. *)
Needed ==
    IF stage # "run" \/ Current.op = "gep" THEN {}
    ELSE {v \in UNION {Terms(F, Current.reads[n]) : n \in DOMAIN Current.reads}
               \union ObjectsRead(F, Current, Top)
               \union UNION {{c.src : c \in Range(EdgeCopies(F, Top.at[1], b))} : b \in Range(Current.to)}
             : v \in DOMAIN env /\ env[v] # 0}

-----------------------------------------------------------------------------
(* Compilation.                                                            *)

Init ==
    /\ prog \in DOMAIN Programs
    /\ scope \in [dip : BOOLEAN, precise : BOOLEAN]
    /\ scope.dip => Len(P.order) > 1         \* neither choice changes anything
    /\ scope.precise => Objects(P.funcs[Main]) # {}    \* for the others
    /\ stage = "results"
    /\ retvals = [g \in Names |-> {}] /\ homes = <<>> /\ frames = <<>> /\ addr = <<>>
    /\ mem = [a \in Region |-> <<0, 0>>]
    /\ env = [v \in UNION {DOMAIN Fl[g].defs : g \in Names} |-> 0]
    /\ stack = <<>> /\ leaked = {}

(* home_results; a device without the fixed region has none.               *)
HomeResults ==
    /\ stage = "results"
    /\ stage' = "args"
    /\ retvals' = [g \in Names |-> IF P.pic18 THEN HomedResults(P.funcs[g], Fl[g]) ELSE {}]
    /\ UNCHANGED <<prog, scope, homes, frames, addr, mem, env, stack, leaked>>

(* home_args. *)
HomeArgs ==
    /\ stage = "args"
    /\ stage' = "frames"
    /\ homes' = HomedArgs(P, Fl, Homed)
    /\ UNCHANGED <<prog, scope, retvals, frames, addr, mem, env, stack, leaked>>

(* frame_layout, function by function.                                     *)
LayFrames ==
    /\ stage = "frames"
    /\ stage' = "bases"
    /\ frames' = [g \in Names |-> FrameLayout(P.funcs[g], Fl[g], retvals[g])]
    /\ UNCHANGED <<prog, scope, retvals, homes, addr, mem, env, stack, leaked>>

(* Bases, addresses and the copies of every edge: a cycle of copies the    *)
(* selector cannot order is refused.                                       *)
PlaceFrames ==
    /\ stage = "bases"
    /\ LET final == FinalHomes(homes, Len(P.order))
           base  == Bases(P, Fl, frames, scope.dip, HomedCallees(P, final))
       IN  addr' = Addresses(P, frames, base, homes, Homed)
    /\ IF Emits(addr')
       THEN stage' = "run" /\ stack' = <<[fn |-> Main, at |-> <<1, 1>>, lent |-> {}]>>
       ELSE stage' = "refused" /\ UNCHANGED stack
    /\ UNCHANGED <<prog, scope, retvals, homes, frames, mem, env, leaked>>

-----------------------------------------------------------------------------
(* The run.                                                                *)

Running(ops) == stage = "run" /\ Current.op \in ops

Becomes(st) == mem' = st.mem /\ env' = st.env

Cells == [mem |-> mem, env |-> env]

(* Objects whose address the instruction gives away for good.              *)
Leaks(f, inst) ==
    UNION {ObjectOf(f, inst.reads[n]) : n \in
              {k \in DOMAIN inst.reads : \/ inst.op \in {"store", "trunc", "ret"} /\ k = 1
                                         \/ k \in inst.kept}}

(* Arithmetic, a load, a cast: the result is a new value in its slot.      *)
Compute ==
    /\ Running({"bin", "load", "lane", "freeze", "zext", "sext", "trunc"})
    /\ Becomes(Define(Cells, F, Current.dst))
    /\ stack' = Front(stack) \o <<After(Top)>>
    /\ leaked' = leaked \union Leaks(F, Current)
    /\ UNCHANGED <<stage, compiled>>

(* An address or an object's storage: nothing is computed.                 *)
Skip ==
    /\ Running({"gep", "alloca"})
    /\ stack' = Front(stack) \o <<After(Top)>>
    /\ UNCHANGED <<stage, compiled, mem, env, leaked>>

(* A store changes the object it points to.                                *)
Store ==
    /\ Running({"store"})
    /\ IF ObjectOf(F, Current.reads[2]) = {} THEN UNCHANGED <<mem, env>>
       ELSE Becomes(Define(Cells, F, CHOOSE o \in ObjectOf(F, Current.reads[2]) : TRUE))
    /\ stack' = Front(stack) \o <<After(Top)>>
    /\ leaked' = leaked \union Leaks(F, Current)
    /\ UNCHANGED <<stage, compiled>>

(* Inline assembly may use the return-value bytes.                         *)
Asm ==
    /\ Running({"asm"})
    /\ Becomes(JunkRetval(Cells))
    /\ stack' = Front(stack) \o <<After(Top)>>
    /\ UNCHANGED <<stage, compiled, leaked>>

(* The arguments move to the parameters in order, then the callee runs.    *)
Call ==
    /\ Running({"call"})
    /\ LET callee == P.funcs[Current.fn]
           moves  == [n \in DOMAIN Current.reads |-> n]
       IN  Becomes(FoldLeft(LAMBDA st, n :
                                IF Current.reads[n] = Nil \/ ObjectOf(F, Current.reads[n]) # {}
                                THEN Define(st, callee, callee.params[n])
                                ELSE Move(st, callee, Current.reads[n], callee.params[n]),
                            Cells, moves))
    /\ stack' = Append(stack,
                       [fn |-> Current.fn, at |-> <<1, 1>>,
                        lent |-> Top.lent \union UNION {ObjectOf(F, v) : v \in Range(Current.reads)}])
    /\ leaked' = leaked \union Leaks(F, Current)
    /\ UNCHANGED <<stage, compiled>>

(* The value returned goes through the return-value bytes to the call's    *)
(* result; a call without one leaves them in no known state; main's return *)
(* ends the run.                                                           *)
Return ==
    /\ Running({"ret"})
    /\ leaked' = leaked \union Leaks(F, Current)
    /\ IF Len(stack) = 1
       THEN stage' = "done" /\ UNCHANGED <<mem, env, stack>>
       ELSE LET caller == stack[Len(stack) - 1]
                cf     == P.funcs[caller.fn]
                dst    == InstAt(cf, caller.at).dst
                value  == IF Current.reads = <<>> THEN Nil ELSE Current.reads[1]
                plain  == value \in DOMAIN env /\ ObjectOf(F, value) = {}
                inRet  == IF plain THEN Copy(mem, addr[value], RetLo, F.width[value])
                          ELSE Write(mem, RetLo, 2, Fresh(Cells))
            IN  /\ stack' = Front(Front(stack)) \o <<After(caller)>>
                /\ mem' = IF dst = Nil THEN inRet ELSE Copy(inRet, RetLo, addr[dst], cf.width[dst])
                /\ env' = IF dst = Nil THEN env
                          ELSE [env EXCEPT ![dst] = IF plain THEN env[value] ELSE Fresh(Cells)]
                /\ UNCHANGED stage
    /\ UNCHANGED compiled

(* One step of an edge's plan; every destination takes its source's value  *)
(* from before the edge.                                                   *)
RunStep(m, f, copies, before, step) ==
    LET c == copies[step[2]]
        w == f.width[c.dst]
    IN  IF step[1] = "stage" THEN Copy(m, addr[c.src], TempLo, w)
        ELSE IF step[1] = "unstage" THEN Copy(m, TempLo, addr[c.dst], w)
        ELSE IF c.src = Nil THEN Write(m, addr[c.dst], w, before[c.dst])
        ELSE Copy(m, addr[c.src], addr[c.dst], w)

(* A branch: the copies of the edge run in their order, then the target    *)
(* block starts past its phis.                                             *)
TakeEdge ==
    /\ Running({"br"})
    /\ \E b \in Range(Current.to) :
          LET a      == Top.at[1]
              copies == EdgeCopies(F, a, b)
              consts == FoldLeft(LAMBDA st, i : IF copies[i].src = Nil
                                                THEN [st EXCEPT !.env[copies[i].dst] = Fresh(st)] ELSE st,
                                 Cells, [i \in DOMAIN copies |-> i])
              merged == [v \in DOMAIN env |->
                            IF \E i \in DOMAIN copies : copies[i].dst = v
                            THEN LET c == copies[CHOOSE i \in DOMAIN copies : copies[i].dst = v]
                                 IN  IF c.src = Nil THEN consts.env[v] ELSE env[c.src]
                            ELSE env[v]]
              plan   == EdgePlan(Top.fn, addr, a, b).plan
          IN  /\ mem' = FoldLeft(LAMBDA m, step : RunStep(m, F, copies, merged, step), mem, plan)
              /\ env' = merged
              /\ stack' = Front(stack) \o <<[Top EXCEPT !.at = <<b, Len(Phis(F, b)) + 1>>]>>
    /\ UNCHANGED <<stage, compiled, leaked>>

Next == HomeResults \/ HomeArgs \/ LayFrames \/ PlaceFrames
        \/ Compute \/ Skip \/ Store \/ Asm \/ Call \/ Return \/ TakeEdge

Spec == Init /\ [][Next]_vars

-----------------------------------------------------------------------------
(* Properties.                                                             *)

TypeOK ==
    /\ stage \in {"results", "args", "frames", "bases", "run", "refused", "done"}
    /\ \A v \in DOMAIN addr : addr[v] \in Region
    /\ DOMAIN homes \intersect Homed = {}
    /\ stage \in {"run", "done"} =>
          /\ DOMAIN addr = DOMAIN env
          /\ \A k \in DOMAIN stack : stack[k].fn \in Names /\ stack[k].at \in Points(P.funcs[stack[k].fn])

(* isel's promise for emit_phi_copies: a copy never overwrites a slot a    *)
(* later copy of its edge still needs to read (a copy of a slot onto itself *)
(* overwrites nothing).                                                    *)
NoCopyClobbers ==
    stage = "run" =>
        \A g \in Names : \A a \in Blocks(P.funcs[g]) : \A b \in Fl[g].succ[a] :
            LET copies == EdgeCopies(P.funcs[g], a, b)
                plan   == EdgePlan(g, addr, a, b).plan
            IN  \A j \in DOMAIN plan : \A i \in 1..j - 1 :
                    LET early == copies[plan[i][2]]
                        late  == copies[plan[j][2]]
                        moves == early.src = Nil \/ addr[early.src] # addr[early.dst]
                    IN  plan[i][1] = "copy" /\ moves /\ plan[j][1] # "unstage" /\ late.src # Nil
                        => addr[late.src] # addr[early.dst]

OwnerOfValue(v) == CHOOSE g \in Names : v \in DOMAIN Fl[g].defs

(* Every byte of v's slot holds the value SSA says v has.                  *)
Holds(v) == \A k \in 0..P.funcs[OwnerOfValue(v)].width[v] - 1 : mem[addr[v] + k] = <<env[v], k>>

(* What an instruction reads from a frame is the value its operand names:  *)
(* no value that shares the slot, no copy of an edge and no callee's frame *)
(* wrote over it since.                                                    *)
LocalsHold == \A v \in Needed \ (Homed \union DOMAIN homes) : Holds(v)

(* A call's result left in the return-value bytes is still there when it   *)
(* is read: no call, assembly or edge copy came between.                   *)
ResultsHold == \A v \in Needed \intersect Homed : Holds(v)

(* An argument computed into the callee's parameter is still there at the  *)
(* call, whatever the caller and its other callees wrote in between.       *)
ArgsHold == \A v \in Needed \intersect DOMAIN homes : Holds(v)

(* A program is refused for a merge that swaps values round a loop, never  *)
(* for copies that have an order.                                          *)
RefusedForSwap ==
    stage = "refused" =>
        \E g \in Names : \E a \in Blocks(P.funcs[g]) : \E b \in Fl[g].succ[a] :
            LET copies == EdgeCopies(P.funcs[g], a, b)
                reads  == [i \in DOMAIN copies |-> {j \in DOMAIN copies : j # i /\ copies[j].dst = copies[i].src}]
            IN  \E i \in DOMAIN copies : i \in Reached(reads)[i]
=============================================================================
