------------------------------ MODULE IsrSplit ------------------------------
(***************************************************************************)
(* Who may run what: crates/legalize gives every interrupt level its own   *)
(* copy of each function it shares with another context, because a         *)
(* function has one static frame.                                          *)
(*                                                                         *)
(* The module is duplicate_isr_shared, split_isr_routines and              *)
(* fill_indirect_callees, followed by the compiled program running: calls, *)
(* callbacks stored in globals and dispatched, and interrupts.             *)
(*                                                                         *)
(* A function is a pair <<name, tag>>: tag is "orig" in the input and the  *)
(* priority in a copy (the suffixes _isr and _isr_high).  The input is     *)
(*   funcs      the functions, Main among them; all callbacks have one     *)
(*              signature                                                  *)
(*   low, high  the handlers: irq_priority # 1, and irq_priority = 1       *)
(*   compat     the handlers with irq_priority = 0                         *)
(*   calls      direct calls [in, to, arg]: arg is a function or NoFn      *)
(*   uses       operations that become routine calls [in, routine]         *)
(*   stores     stores to a field of a global [in, at, kind, vals]: kind   *)
(*              "named" stores one function, "param" the function's own    *)
(*              argument, "reg" whichever of vals was selected             *)
(*   copies     whole-object memcpy between globals [in, to, from]         *)
(*   sites      dispatches [in, at, reg]: load the field, call through it; *)
(*              reg is the name of the loaded SSA register                 *)
(* where a field is [obj, fld].                                            *)
(***************************************************************************)
EXTENDS Integers, Sequences, FiniteSets

CONSTANTS
    Programs,     \* the programs the compiler is given
    AllFields,    \* ALL_FIELDS: a read of every field of an object
    NoFn          \* no argument; a field that holds no function

Prios == {"low", "high"}
Other(p) == IF p = "low" THEN "high" ELSE "low"
Main == <<"main", "orig">>
CopyOf(f, p) == <<f[1], p>>
Original(f) == f = <<f[1], "orig">>

(* What reaches legalize: calls name functions of the module, nothing      *)
(* calls or stores a handler, a handle is filled by stores, and registers  *)
(* are numbered, so none has the name of a function.                       *)
IsProgram(p) ==
    LET callable == p.funcs \ (p.low \cup p.high)
        fields   == {s.at : s \in p.stores} \cup {d.at : d \in p.sites}
    IN  /\ DOMAIN p = {"funcs", "low", "high", "compat", "calls", "uses", "stores",
                       "copies", "sites"}
        /\ IsFiniteSet(p.funcs) /\ IsFiniteSet(p.uses)
        /\ Main \in callable /\ \A f \in p.funcs : Original(f)
        /\ p.low \subseteq p.funcs /\ p.high \subseteq p.funcs
        /\ p.low \cap p.high = {} /\ p.compat \subseteq p.low
        /\ p.calls \subseteq [in : p.funcs, to : callable, arg : callable \cup {NoFn}]
        /\ p.stores \subseteq
              [in : p.funcs, at : fields, kind : {"named", "param", "reg"}, vals : SUBSET callable]
        /\ \A s \in p.stores :
              /\ s.kind = "param" <=> s.vals = {}
              /\ s.kind = "named" => Cardinality(s.vals) = 1
        /\ p.sites \subseteq [in : p.funcs, at : fields, reg : {d.reg : d \in p.sites}]
        /\ \A d \in p.sites : d.reg = <<d.reg[1], "reg">>
        /\ p.uses \subseteq [in : p.funcs, routine : {u.routine : u \in p.uses}]
        /\ \A u \in p.uses : Original(u.routine) /\ u.routine \notin p.funcs
        /\ \A c \in p.copies : c.in \in p.funcs /\ \A e \in p.copies : c.to # e.from

ASSUME ProgramsAssumption == \A p \in Programs : IsProgram(p)

VARIABLES
    prog,       \* the module, as the passes rewrite it
    round,      \* "user", "routine", "dispatch": what the contexts are for
    stage,      \* the context being computed, or the step after them
    ctx,        \* per context, the functions found to run in it
    mark,       \* per priority, its context when stores last joined it
    params,     \* param_stores: per priority, argument stores met by the loop
    stored,     \* stored_lo, stored_hi
    spellings,  \* what each field was seen to be given [obj, fld, name, prio]
    callees,    \* candidate list of each dispatch
    held,       \* run time: the function each field holds
    stack       \* run time: activations, oldest first [fn, arg]

compileVars == <<prog, round, stage, ctx, mark, params, stored, spellings, callees>>
vars == <<compileVars, held, stack>>

Handlers == prog.low \cup prog.high

-----------------------------------------------------------------------------
(* The adjacency: direct calls, functions whose address is taken, and the  *)
(* register a dispatch calls through, which is a name like any other.      *)

Within(f, instrs) == {i \in instrs : i.in = f}

AddressTaken(f) ==
    (UNION {s.vals : s \in Within(f, prog.stores)})
    \cup ({c.arg : c \in Within(f, prog.calls)} \ {NoFn})

DirectCalls(f) == {c.to : c \in Within(f, prog.calls)}
RoutineCalls(f) == {u.routine : u \in Within(f, prog.uses)}

Targets(f) ==
    CASE round = "user" ->
            DirectCalls(f) \cup AddressTaken(f) \cup {d.reg : d \in Within(f, prog.sites)}
      [] round = "routine" -> DirectCalls(f) \cup RoutineCalls(f)
      [] OTHER ->
            DirectCalls(f) \cup RoutineCalls(f) \cup AddressTaken(f)
            \cup {d.reg : d \in Within(f, prog.sites)}

Closed(S) == \A f \in S : Targets(f) \subseteq S

(* isr_read_globals                                                        *)
Reads(S) ==
    {d.at : d \in {e \in prog.sites : e.in \in S}}
    \cup {[obj |-> c.from, fld |-> AllFields] : c \in {e \in prog.copies : e.in \in S}}

Feeds(R, at) == \E r \in R : r.obj = at.obj /\ r.fld \in {at.fld, AllFields}

(* Objects that are copied whole into an object R reads.                   *)
HandlesOf(R) == {c.from : c \in {e \in prog.copies : \E r \in R : r.obj = e.to}}

(* Stores of a function's own argument that feed R, and a call that        *)
(* forwards its argument to such a store.                                  *)
ArgumentStores(R) == {s \in prog.stores : s.kind = "param" /\ Feeds(R, s.at)}
ForwardsTo(c, s) == s.in = c.to /\ c.arg # NoFn

(* Functions stored where R reads them, directly, through a handle, or as  *)
(* an argument the callee stores.                                          *)
StoredFor(R) ==
    (UNION {s.vals : s \in {e \in prog.stores :
              e.kind = "named" /\ (Feeds(R, e.at) \/ e.at.obj \in HandlesOf(R))}})
    \cup {c.arg : c \in {e \in prog.calls : \E s \in ArgumentStores(R) : ForwardsTo(e, s)}}

-----------------------------------------------------------------------------
(* The contexts, one after the other: reachability, and for a priority     *)
(* the store-edge loop of isr_context_for around it.                       *)

Contexts == {"main", "low", "high"}
NextStage(s) == CASE s = "main" -> "low" [] s = "low" -> "high" [] OTHER -> "rewrite"

Roots == [main |-> {Main}, low |-> prog.low, high |-> prog.high]
NoneYet == [p \in Prios |-> {}]

(* reachable follows one more call.                                        *)
Expand ==
    /\ stage \in Contexts
    /\ ~Closed(ctx[stage])
    /\ ctx' = [ctx EXCEPT ![stage] = @ \cup UNION {Targets(f) : f \in @}]
    /\ UNCHANGED <<prog, round, stage, mark, params, stored, spellings, callees, held, stack>>

Joins == round # "routine" /\ stage \in Prios
Settled == Joins => ctx[stage] = mark[stage]

(* Seeded fault: the loop forgets whether anything joined.                 *)
JoinForever ==
    /\ Joins /\ Closed(ctx[stage]) /\ ~Settled
    /\ ctx' = [ctx EXCEPT ![stage] = @ \cup StoredFor(Reads(@))]
    /\ UNCHANGED <<prog, round, stage, mark, params, stored, spellings, callees, held, stack>>

(* One turn of the loop: what the context reads brings in what is stored   *)
(* there.  The loop ends when nothing joined, and also when the closure of *)
(* what joined adds nothing to it.                                         *)
JoinStored ==
    /\ Joins /\ Closed(ctx[stage]) /\ ~Settled
    /\ LET grown == ctx[stage] \cup StoredFor(Reads(ctx[stage]))
       IN  /\ ctx' = [ctx EXCEPT ![stage] = grown]
           /\ mark' = [mark EXCEPT ![stage] = grown]
    /\ params' = [params EXCEPT ![stage] = @ \cup ArgumentStores(Reads(ctx[stage]))]
    /\ UNCHANGED <<prog, round, stage, stored, spellings, callees, held, stack>>

ContextDone ==
    /\ stage \in Contexts
    /\ Closed(ctx[stage]) /\ Settled
    /\ stage' = NextStage(stage)
    /\ UNCHANGED <<prog, round, ctx, mark, params, stored, spellings, callees, held, stack>>

StartRound(r, m) ==
    /\ round' = r
    /\ stage' = "main"
    /\ ctx' = [main |-> {Main}, low |-> m.low, high |-> m.high]
    /\ mark' = NoneYet
    /\ params' = NoneYet

-----------------------------------------------------------------------------
(* duplicate_isr_shared.                                                   *)

(* Two handlers for one vector, or single-vector and priority mode mixed.  *)
VectorClash ==
    \/ Cardinality(prog.high) > 1
    \/ Cardinality(prog.low \ prog.compat) > 1
    \/ Cardinality(prog.compat) > 1
    \/ prog.compat # {} /\ prog.high \cup (prog.low \ prog.compat) # {}

ReentersMain == \E p \in Prios : Main \in ctx[p]

(* Seeded fault: what only the two handlers share keeps one frame.         *)
SharedWithMain(p) ==
    {f \in prog.funcs \ ({Main} \cup Handlers) : f \in ctx[p] /\ f \in ctx["main"]}

(* shared_lo, shared_hi: what a priority runs and another context runs too. *)
Shared(p) ==
    {f \in prog.funcs \ ({Main} \cup Handlers) :
        f \in ctx[p] /\ f \in ctx["main"] \cup ctx[Other(p)]}

NothingShared == \A p \in Prios : Shared(p) = {}

Copies(p) == {CopyOf(f, p) : f \in Shared(p)}

(* rewrite_lo, rewrite_hi: whose instructions speak of the copies.         *)
RewriteSet(p) == (ctx[p] \ ({Main} \cup Shared(p))) \cup Copies(p)

(* make_copies: a copy has the instructions of its original.               *)
Cloned(instrs) ==
    instrs \cup UNION {{[i EXCEPT !.in = CopyOf(i.in, p)] :
                          i \in {j \in instrs : j.in \in Shared(p)}} : p \in Prios}

(* rewrite_calls_to_copies, rewrite_inst_vals                              *)
CopyFor(in, f) == {p \in Prios : in \in RewriteSet(p) /\ f \in Shared(p)}
Respelled(f, ps) == IF ps = {} THEN f ELSE CopyOf(f, CHOOSE p \in ps : TRUE)
Renamed(in, f) == Respelled(f, CopyFor(in, f))

RenamedCalls ==
    {[c EXCEPT !.to = Renamed(c.in, @), !.arg = Renamed(c.in, @)] : c \in Cloned(prog.calls)}
RenamedStores ==
    {[s EXCEPT !.vals = {Renamed(s.in, v) : v \in @}] : s \in Cloned(prog.stores)}

(* The priorities whose copy a store or an argument must name instead.     *)
StoreHits(s) ==
    {p \in Prios :
        /\ s.in \notin RewriteSet(p) /\ s.kind = "named" /\ s.vals \subseteq Shared(p)
        /\ LET R == Reads(ctx[p])
           IN  Feeds(R, s.at) \/ s.at.obj \in HandlesOf(R)}

(* The fields a call's argument is stored into, of those the loop met.     *)
ForwardedFields(c, p) == {s.at : s \in {e \in params[p] : ForwardsTo(c, e)}}
ArgHits(c) ==
    {p \in Prios :
        c.in \notin RewriteSet(p) /\ c.arg \in Shared(p) /\ ForwardedFields(c, p) # {}}

(* No single spelling serves both priorities.                              *)
DualFeed ==
    \/ \E s \in RenamedStores : StoreHits(s) = Prios
    \/ \E c \in RenamedCalls : ArgHits(c) = Prios

NewCalls == {[c EXCEPT !.arg = Respelled(@, ArgHits(c))] : c \in RenamedCalls}
NewStores ==
    {[s EXCEPT !.vals = {Respelled(v, StoreHits(s)) : v \in @}] : s \in RenamedStores}

(* drop_dead_isr_originals: an argument its callee does not read takes the *)
(* spelling of the one copy, and originals with no use left go.            *)
CopiedOnce(p) == Shared(p) \ Shared(Other(p))
Ignored(c) == \A s \in NewStores : s.in = c.to => s.kind # "param"
FinalCalls ==
    {[c EXCEPT !.arg = IF Ignored(c) THEN Respelled(@, {p \in Prios : @ \in CopiedOnce(p)})
                       ELSE @] : c \in NewCalls}

(* Seeded fault: an original that is only called counts as unused.         *)
DeadIfCalled ==
    {f \in UNION {CopiedOnce(p) : p \in Prios} :
        /\ \A c \in FinalCalls : f # c.arg
        /\ \A s \in NewStores : f \notin s.vals}

Dead ==
    {f \in UNION {CopiedOnce(p) : p \in Prios} :
        /\ \A c \in FinalCalls : f \notin {c.to, c.arg}
        /\ \A s \in NewStores : f \notin s.vals}

Alive(instrs) == {i \in instrs : i.in \notin Dead}

(* A priority's name for the prio of a spelling; "main" for an original.   *)
PrioOf(ps) == IF ps = {} THEN "main" ELSE CHOOSE p \in ps : TRUE

Spelling(at, name, prio) == [obj |-> at.obj, fld |-> at.fld, name |-> name, prio |-> prio]

(* Only stores of a named function of the input module are recorded, and   *)
(* only arguments that were rewritten.                                     *)
StoreSpellings(s) ==
    {Spelling(s.at, Respelled(v, StoreHits(s)), PrioOf(StoreHits(s))) :
        v \in s.vals \cap prog.funcs}
ArgSpellings(c) ==
    UNION {{Spelling([at EXCEPT !.fld = AllFields], CopyOf(c.arg, p), p) :
              at \in ForwardedFields(c, p)} : p \in ArgHits(c)}
RecordedSpellings ==
    (UNION {StoreSpellings(s) : s \in {e \in RenamedStores : e.kind = "named"}})
    \cup UNION {ArgSpellings(c) : c \in RenamedCalls}

(* Seeded fault: a copied object brings no spellings along.                *)
ForwardedNever(S) == S

(* A whole-object copy carries the spellings of its source along.          *)
Forwarded(S) ==
    S \cup UNION {{[e EXCEPT !.obj = c.to] : e \in {x \in S : x.obj = c.from}} :
                    c \in Cloned(prog.copies)}

(* Originals whose address a rewrite replaced by the copy of p.            *)
Replaced(p) ==
    {f \in Shared(p) :
        \/ \E s \in Cloned(prog.stores) : f \in s.vals /\ p \in CopyFor(s.in, f)
        \/ \E c \in Cloned(prog.calls) : f = c.arg /\ p \in CopyFor(c.in, f)
        \/ \E s \in RenamedStores : f \in s.vals /\ p \in StoreHits(s)
        \/ \E c \in RenamedCalls : f = c.arg /\ p \in ArgHits(c)}

CannotDuplicate == VectorClash \/ ReentersMain \/ (~NothingShared /\ DualFeed)

Duplicate ==
    /\ round = "user" /\ stage = "rewrite"
    /\ ~CannotDuplicate
    /\ IF NothingShared
       THEN UNCHANGED <<prog, stored, spellings>>
       ELSE /\ prog' = [prog EXCEPT
                          !.funcs  = (@ \cup Copies("low") \cup Copies("high")) \ Dead,
                          !.calls  = Alive(FinalCalls),
                          !.stores = Alive(NewStores),
                          !.uses   = Alive(Cloned(@)),
                          !.copies = Alive(Cloned(@)),
                          !.sites  = Alive(Cloned(@))]
            /\ stored' = [p \in Prios |-> Replaced(p)]
            /\ spellings' = Forwarded(RecordedSpellings)
    /\ StartRound("routine", prog)
    /\ UNCHANGED <<callees, held, stack>>

-----------------------------------------------------------------------------
(* split_isr_routines, over the direct calls only.                         *)

Routines == {u.routine : u \in prog.uses}
(* Seeded fault: only routines both handlers reach are split.              *)
SharedByHandlers(p) == {r \in Routines : r \in ctx[p] /\ r \in ctx[Other(p)]}

SharedRoutines(p) ==
    {r \in Routines : r \in ctx[p] /\ r \in ctx["main"] \cup ctx[Other(p)]}

RoutineFor(in, r) ==
    IF in \in ctx["low"] /\ r \in SharedRoutines("low") THEN CopyOf(r, "low")
    ELSE IF in \in ctx["high"] /\ r \in SharedRoutines("high") THEN CopyOf(r, "high")
    ELSE r

SplitRoutines ==
    /\ round = "routine" /\ stage = "rewrite"
    /\ prog' = [prog EXCEPT !.uses = {[u EXCEPT !.routine = RoutineFor(u.in, @)] : u \in @},
                            !.funcs = @ \cup Routines
                                        \cup UNION {{CopyOf(r, p) : r \in SharedRoutines(p)} :
                                                      p \in Prios}]
    /\ StartRound("dispatch", prog)
    /\ UNCHANGED <<stored, spellings, callees, held, stack>>

-----------------------------------------------------------------------------
(* fill_indirect_callees, over the contexts of the rewritten module.       *)

TakenFunctions == (UNION {AddressTaken(f) : f \in prog.funcs}) \cap prog.funcs
StoredCopies(p) == {CopyOf(f, p) : f \in stored[p]}

(* The spellings recorded for the field a dispatch loads.                  *)
Scoped(d) == {e \in spellings : e.obj = d.at.obj /\ e.fld \in {d.at.fld, AllFields}}

(* A site does not run a frame of the priority that can preempt it.        *)
Occupiable(d) ==
    {e.name : e \in {x \in Scoped(d) :
        /\ x.prio = "low"  => d.in \notin ctx["high"]
        /\ x.prio = "high" => d.in \notin ctx["low"]}}

(* For a field without spellings: the functions of the site's contexts,    *)
(* and copies that were stored where another context reads.                *)
OfItsContexts(d) ==
    {g \in TakenFunctions :
        /\ d.in \in ctx["main"] =>
              \/ g \notin ctx["low"] \cup ctx["high"]
              \/ \E p \in Prios : g \in StoredCopies(p)
        /\ \A p \in Prios :
              d.in \in ctx[p] => g \in ctx[p] \cup StoredCopies(Other(p))}

Candidates(d) == IF Scoped(d) # {} THEN Occupiable(d) ELSE OfItsContexts(d)

(* The copies that must stand in for a candidate at this site.             *)
OwnCopies(d, g) ==
    {p \in Prios : d.in \in ctx[p] /\ Original(g) /\ CopyOf(g, p) \in prog.funcs}

NoSoundDispatch ==
    \E d \in prog.sites :
        \/ /\ \E p \in Prios : d.in \in ctx[p]
           /\ Scoped(d) # {} /\ Candidates(d) = {}
        \/ \E g \in Candidates(d) : OwnCopies(d, g) = Prios

FillCallees ==
    /\ round = "dispatch" /\ stage = "rewrite"
    /\ ~NoSoundDispatch
    /\ callees' = [d \in prog.sites |-> {Respelled(g, OwnCopies(d, g)) : g \in Candidates(d)}]
    /\ stage' = "callgraph"
    /\ UNCHANGED <<prog, round, ctx, mark, params, stored, spellings, held, stack>>

-----------------------------------------------------------------------------
(* callgraph::build: no function can reach itself.                         *)

CanCall(f) ==
    DirectCalls(f) \cup RoutineCalls(f)
    \cup UNION {callees[d] : d \in Within(f, prog.sites)}

(* The functions from which a chain of n calls starts.                     *)
Recursive ==
    LET chain[n \in 0..Cardinality(prog.funcs)] ==
            IF n = 0 THEN prog.funcs
            ELSE {f \in chain[n - 1] : CanCall(f) \cap chain[n - 1] # {}}
    IN  chain[Cardinality(prog.funcs)] # {}

AcceptCallGraph ==
    /\ stage = "callgraph"
    /\ ~Recursive
    /\ stage' = "run"
    /\ UNCHANGED <<prog, round, ctx, mark, params, stored, spellings, callees, held, stack>>

Refuse ==
    /\ \/ stage = "rewrite" /\ round = "user" /\ CannotDuplicate
       \/ stage = "rewrite" /\ round = "dispatch" /\ NoSoundDispatch
       \/ stage = "callgraph" /\ Recursive
    /\ stage' = "refused"
    /\ UNCHANGED <<prog, round, ctx, mark, params, stored, spellings, callees, held, stack>>

CompileNext ==
    \/ Expand \/ JoinStored \/ ContextDone
    \/ Duplicate \/ SplitRoutines \/ FillCallees \/ AcceptCallGraph \/ Refuse

-----------------------------------------------------------------------------
(* The compiled program.                                                   *)

Fields == {s.at : s \in prog.stores} \cup {d.at : d \in prog.sites}
          \cup {[s.at EXCEPT !.obj = c.to] : s \in prog.stores, c \in prog.copies}

Activation(f, a) == [fn |-> f, arg |-> a]
Top == stack[Len(stack)]
RunsIn(i) == stage = "run" /\ stack # <<>> /\ Top.fn = i.in
Level(f) == CASE f \in prog.high -> 2 [] f \in prog.low -> 1 [] OTHER -> 0

PowerOn ==
    /\ stage = "run" /\ stack = <<>>
    /\ stack' = <<Activation(Main, NoFn)>>
    /\ held' = [at \in Fields |-> NoFn]
    /\ UNCHANGED compileVars

Call(c) ==
    /\ RunsIn(c)
    /\ stack' = Append(stack, Activation(c.to, c.arg))
    /\ UNCHANGED <<compileVars, held>>

CallRoutine(u) ==
    /\ RunsIn(u)
    /\ stack' = Append(stack, Activation(u.routine, NoFn))
    /\ UNCHANGED <<compileVars, held>>

Store(s) ==
    /\ RunsIn(s)
    /\ \E v \in IF s.kind = "param" THEN {Top.arg} \ {NoFn} ELSE s.vals :
          held' = [held EXCEPT ![s.at] = v]
    /\ UNCHANGED <<compileVars, stack>>

CopyObject(c) ==
    /\ RunsIn(c)
    /\ held' = [at \in DOMAIN held |->
                  LET from == [at EXCEPT !.obj = c.from]
                  IN  IF at.obj = c.to /\ from \in DOMAIN held THEN held[from]
                      ELSE held[at]]
    /\ UNCHANGED <<compileVars, stack>>

(* The compare-and-call chain over the candidates; a pointer that matches  *)
(* none ends in the trap loop.  The program checks for a null pointer.     *)
Dispatch(d) ==
    /\ RunsIn(d)
    /\ held[d.at] # NoFn
    /\ IF held[d.at] \in callees[d]
       THEN /\ stack' = Append(stack, Activation(held[d.at], NoFn))
            /\ UNCHANGED <<compileVars, held>>
       ELSE /\ stage' = "trapped"
            /\ UNCHANGED <<prog, round, ctx, mark, params, stored, spellings, callees, held, stack>>

(* RETURN, or RETFIE when the newest activation is a handler's.            *)
Return ==
    /\ stage = "run" /\ Len(stack) > 1
    /\ stack' = SubSeq(stack, 1, Len(stack) - 1)
    /\ UNCHANGED <<compileVars, held>>

Preempt(h) ==
    /\ stage = "run" /\ stack # <<>>
    /\ h \in Handlers
    /\ \A i \in 1..Len(stack) : Level(stack[i].fn) < Level(h)
    /\ stack' = Append(stack, Activation(h, NoFn))
    /\ UNCHANGED <<compileVars, held>>

RunNext ==
    \/ PowerOn
    \/ \E c \in prog.calls : Call(c)
    \/ \E u \in prog.uses : CallRoutine(u)
    \/ \E s \in prog.stores : Store(s)
    \/ \E c \in prog.copies : CopyObject(c)
    \/ \E d \in prog.sites : Dispatch(d)
    \/ Return
    \/ \E h \in Handlers : Preempt(h)

Init ==
    /\ prog \in Programs
    /\ round = "user" /\ stage = "main"
    /\ ctx = Roots /\ mark = NoneYet /\ params = NoneYet
    /\ stored = NoneYet /\ spellings = {} /\ callees = <<>>
    /\ held = <<>> /\ stack = <<>>

Next == CompileNext \/ RunNext

Spec == Init /\ [][Next]_vars
CompileSpec == Spec /\ WF_vars(CompileNext)

-----------------------------------------------------------------------------
FieldSet == UNION {{s.at : s \in p.stores} \cup {d.at : d \in p.sites} : p \in Programs}
Names == UNION {p.funcs \cup {u.routine : u \in p.uses} : p \in Programs}
Functions == Names \cup {CopyOf(f, p) : f \in Names, p \in Prios}
Registers == UNION {{d.reg : d \in p.sites} : p \in Programs}

TypeOK ==
    /\ prog.funcs \subseteq Functions
    /\ stage \in Contexts \cup {"rewrite", "callgraph", "run", "trapped", "refused"}
    /\ round \in {"user", "routine", "dispatch"}
    /\ \A c \in Contexts : ctx[c] \subseteq Functions \cup Registers
    /\ \A p \in Prios : stored[p] \subseteq Names /\ mark[p] \subseteq Functions \cup Registers
    /\ \A p \in Prios : params[p] \subseteq prog.stores
    /\ \A e \in spellings : e.name \in Functions /\ e.prio \in {"main"} \cup Prios
    /\ stage \in {"callgraph", "run", "trapped"} =>
          /\ DOMAIN callees = prog.sites
          /\ \A d \in prog.sites : callees[d] \subseteq prog.funcs
    /\ \A i \in 1..Len(stack) : stack[i].fn \in prog.funcs

(***************************************************************************)
(* A function's frame is static, so no function is active twice, whatever  *)
(* is called, dispatched or interrupted: the duplication gave every        *)
(* context its own functions and every stored pointer the copy of the      *)
(* context that dispatches it.                                             *)
(***************************************************************************)
OneActivation ==
    \A i, j \in 1..Len(stack) : i # j => stack[i].fn # stack[j].fn

(* What the call graph lets a set of functions reach.                      *)
Executes(roots) ==
    LET upto[n \in 0..Cardinality(prog.funcs)] ==
            IF n = 0 THEN roots
            ELSE upto[n - 1] \cup UNION {CanCall(f) : f \in upto[n - 1]}
    IN  upto[Cardinality(prog.funcs)]

Registered == \A d \in prog.sites : Scoped(d) # {}

(***************************************************************************)
(* The functions the call graph lets each context run are disjoint: what   *)
(* the allocator's interrupt regions take for granted.  A dispatch of a    *)
(* field no spelling is recorded for lists copies stored for others, which *)
(* it never calls; the property asks that there be none.                   *)
(***************************************************************************)
Apart ==
    stage = "run" /\ Registered =>
        /\ Executes({Main}) \cap Executes(prog.low) = {}
        /\ Executes({Main}) \cap Executes(prog.high) = {}
        /\ Executes(prog.low) \cap Executes(prog.high) = {}

(***************************************************************************)
(* A dispatch finds the stored function among its candidates: the stored   *)
(* spelling and the candidate list are decided in different passes.        *)
(***************************************************************************)
NeverTraps == stage # "trapped"

(***************************************************************************)
(* The store-edge loop ends, and so does legalize: with a program that     *)
(* runs or with a refusal.                                                 *)
(***************************************************************************)
SplitTerminates == <>(stage \in {"run", "trapped", "refused"})
=============================================================================
