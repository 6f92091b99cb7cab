---------------------------- MODULE IsrSplitProof ----------------------------
(***************************************************************************)
(* For every program, legalize and the program it makes keep their types.  *)
(*                                                                         *)
(* The argument: a name the passes write is a function of the module or    *)
(* the copy of one, and a copy is made for whatever a rewrite may name; an *)
(* original is dropped only when the new instructions do not name it; the  *)
(* program only ever calls what its instructions and candidates name.      *)
(*                                                                         *)
(* Then, with an argument of its own: contexts that calls cannot leave,    *)
(* and one activation of each function.                                    *)
(***************************************************************************)
EXTENDS IsrSplit, FiniteSetTheorems, SequenceTheorems, NaturalsInduction, TLAPS

Cells == Functions \cup Registers

(* The module as the passes keep it.                                       *)
ProgOK ==
    /\ DOMAIN prog = {"funcs", "low", "high", "compat", "calls", "uses", "stores",
                      "copies", "sites"}
    /\ IsFiniteSet(prog.funcs) /\ IsFiniteSet(prog.uses)
    /\ prog.funcs \subseteq Functions
    /\ Main \in prog.funcs \ Handlers /\ Handlers \subseteq prog.funcs
    /\ prog.low \cap prog.high = {}
    /\ prog.calls \subseteq
          [in : prog.funcs, to : prog.funcs \ Handlers, arg : Functions \cup {NoFn}]
    /\ prog.uses \subseteq [in : prog.funcs, routine : Functions]
    /\ prog.stores \subseteq
          [in : prog.funcs, at : FieldSet, kind : {"named", "param", "reg"},
           vals : SUBSET Functions]
    /\ prog.sites \subseteq [in : prog.funcs, at : FieldSet, reg : Registers]

(* Where the passes are.                                                   *)
StageOK ==
    /\ stage \in Contexts \cup {"rewrite", "callgraph", "run", "trapped", "refused"}
    /\ round \in {"user", "routine", "dispatch"}
    /\ round = "user" => prog \in Programs
    /\ stage \in {"callgraph", "run", "trapped"} => round = "dispatch"
    /\ round # "dispatch" => Routines \subseteq Names
    /\ round = "dispatch" => Routines \subseteq prog.funcs

StateOK ==
    /\ ctx \in [Contexts -> SUBSET Cells]
    /\ mark \in [Prios -> SUBSET Cells]
    /\ params \in [Prios -> SUBSET prog.stores]
    /\ stored \in [Prios -> SUBSET Names]
    /\ \A e \in spellings : e.name \in prog.funcs /\ e.prio \in {"main"} \cup Prios

RunOK ==
    /\ stage \in {"callgraph", "run", "trapped"} =>
          /\ DOMAIN callees = prog.sites
          /\ \A d \in prog.sites : callees[d] \subseteq prog.funcs
    /\ stack \in Seq([fn : prog.funcs, arg : Functions \cup {NoFn}])
    /\ stage \notin {"run", "trapped"} => stack = <<>>

TypeInv == ProgOK /\ StageOK /\ StateOK /\ RunOK

-----------------------------------------------------------------------------
(* Constants.                                                              *)

LEMMA ProgramNames ==
  ASSUME NEW p \in Programs
  PROVE  /\ p.funcs \subseteq Names
         /\ \A u \in p.uses : u.routine \in Names
         /\ \A s \in p.stores : s.at \in FieldSet
         /\ \A d \in p.sites : d.at \in FieldSet /\ d.reg \in Registers
         /\ Names \subseteq Functions
<1>1. p.funcs \subseteq Names
  BY DEF Names
<1>2. \A u \in p.uses : u.routine \in Names
  BY DEF Names
<1>3. \A s \in p.stores : s.at \in FieldSet
  BY DEF FieldSet
<1>4. \A d \in p.sites : d.at \in FieldSet /\ d.reg \in Registers
  BY DEF FieldSet, Registers
<1>5. Names \subseteq Functions
  BY DEF Functions
<1> QED BY <1>1, <1>2, <1>3, <1>4, <1>5

LEMMA CopyIsFunction ==
  ASSUME NEW f \in Names, NEW p \in Prios
  PROVE  CopyOf(f, p) \in Functions
BY DEF Functions

(* What a program of the input is to the invariants.                       *)
LEMMA InputOK ==
  ASSUME prog \in Programs
  PROVE  /\ ProgOK
         /\ \A f \in prog.funcs : f = <<f[1], "orig">>
         /\ \A u \in prog.uses : u.routine = <<u.routine[1], "orig">> /\ u.routine \notin prog.funcs
         /\ \A d \in prog.sites : d.reg = <<d.reg[1], "reg">>
         /\ prog.funcs \subseteq Names
         /\ \A c \in prog.calls : c.arg \in prog.funcs \cup {NoFn}
         /\ \A s \in prog.stores : s.vals \subseteq prog.funcs
<1>1. IsProgram(prog)
  BY ProgramsAssumption
<1>2. Main \in prog.funcs \ Handlers /\ Handlers \subseteq prog.funcs
  BY <1>1 DEF IsProgram, Handlers
<1>3. prog.funcs \subseteq Names /\ prog.funcs \subseteq Functions
  BY ProgramNames
<1>4. prog.calls \subseteq
        [in : prog.funcs, to : prog.funcs \ Handlers, arg : (prog.funcs \ Handlers) \cup {NoFn}]
  BY <1>1 DEF IsProgram, Handlers
<1>5. prog.calls \subseteq
        [in : prog.funcs, to : prog.funcs \ Handlers, arg : Functions \cup {NoFn}]
  BY <1>3, <1>4
<1>6. prog.uses \subseteq [in : prog.funcs, routine : Functions]
  <2>1. prog.uses \subseteq [in : prog.funcs, routine : {u.routine : u \in prog.uses}]
    BY <1>1 DEF IsProgram
  <2>2. {u.routine : u \in prog.uses} \subseteq Functions
    BY ProgramNames
  <2> QED BY <2>1, <2>2
<1> DEFINE fields == {s.at : s \in prog.stores} \cup {d.at : d \in prog.sites}
<1>7. fields \subseteq FieldSet
  BY ProgramNames
<1>8. prog.stores \subseteq
        [in : prog.funcs, at : fields, kind : {"named", "param", "reg"},
         vals : SUBSET (prog.funcs \ Handlers)]
  BY <1>1 DEF IsProgram, Handlers
<1>9. prog.sites \subseteq [in : prog.funcs, at : fields, reg : {d.reg : d \in prog.sites}]
  BY <1>1 DEF IsProgram
<1>10. {d.reg : d \in prog.sites} \subseteq Registers
  BY ProgramNames
<1> HIDE DEF fields
<1>11. prog.stores \subseteq
        [in : prog.funcs, at : FieldSet, kind : {"named", "param", "reg"},
         vals : SUBSET Functions]
  BY <1>3, <1>7, <1>8
<1>12. prog.sites \subseteq [in : prog.funcs, at : FieldSet, reg : Registers]
  BY <1>7, <1>9, <1>10
<1>13. /\ \A f \in prog.funcs : f = <<f[1], "orig">>
       /\ \A u \in prog.uses : u.routine = <<u.routine[1], "orig">> /\ u.routine \notin prog.funcs
       /\ \A d \in prog.sites : d.reg = <<d.reg[1], "reg">>
  BY <1>1 DEF IsProgram, Original
<1>14. prog.low \cap prog.high = {} /\ IsFiniteSet(prog.funcs) /\ IsFiniteSet(prog.uses)
       /\ DOMAIN prog = {"funcs", "low", "high", "compat", "calls", "uses", "stores",
                         "copies", "sites"}
  BY <1>1 DEF IsProgram
<1>15. ProgOK
  BY <1>2, <1>3, <1>5, <1>6, <1>11, <1>12, <1>14 DEF ProgOK
<1>16. \A c \in prog.calls : c.arg \in prog.funcs \cup {NoFn}
  BY <1>4
<1>17. \A s \in prog.stores : s.vals \subseteq prog.funcs
  BY <1>8
<1> QED BY <1>3, <1>13, <1>15, <1>16, <1>17

-----------------------------------------------------------------------------
(* Types: the contexts.                                                    *)

LEMMA TypeInit ==
  ASSUME Init
  PROVE  TypeInv
<1>1. prog \in Programs
  BY DEF Init
<1>2. ProgOK /\ prog.funcs \subseteq Names
  BY <1>1, InputOK
<1>3. StageOK
  <2>1. Routines \subseteq Names
    BY <1>1, ProgramNames DEF Routines
  <2> QED BY <2>1 DEF Init, StageOK, Contexts
<1>4. StateOK
  <2>1. {Main} \subseteq Cells /\ prog.low \subseteq Cells /\ prog.high \subseteq Cells
    BY <1>2 DEF ProgOK, Handlers, Cells
  <2>2. ctx \in [Contexts -> SUBSET Cells]
    BY <2>1 DEF Init, Roots, Contexts
  <2>3. mark \in [Prios -> SUBSET Cells] /\ params \in [Prios -> SUBSET prog.stores]
        /\ stored \in [Prios -> SUBSET Names]
    BY DEF Init, NoneYet
  <2> QED BY <2>2, <2>3 DEF Init, StateOK
<1>5. RunOK
  BY DEF Init, RunOK
<1> QED BY <1>2, <1>3, <1>4, <1>5 DEF TypeInv

LEMMA TargetCells ==
  ASSUME ProgOK, NEW f
  PROVE  /\ DirectCalls(f) \subseteq prog.funcs \ Handlers
         /\ RoutineCalls(f) \subseteq Functions
         /\ AddressTaken(f) \subseteq Functions
         /\ Targets(f) \subseteq Cells
<1>1. DirectCalls(f) \subseteq prog.funcs \ Handlers
  BY DEF ProgOK, DirectCalls, Within
<1>2. RoutineCalls(f) \subseteq Functions
  BY DEF ProgOK, RoutineCalls, Within
<1>3. AddressTaken(f) \subseteq Functions
  <2>1. \A s \in Within(f, prog.stores) : s.vals \subseteq Functions
    BY DEF ProgOK, Within
  <2>2. \A c \in Within(f, prog.calls) : c.arg \in Functions \cup {NoFn}
    BY DEF ProgOK, Within
  <2> QED BY <2>1, <2>2 DEF AddressTaken
<1>4. {d.reg : d \in Within(f, prog.sites)} \subseteq Registers
  BY DEF ProgOK, Within
<1>5. prog.funcs \subseteq Functions
  BY DEF ProgOK
<1>6. Targets(f) \subseteq Cells
  BY <1>1, <1>2, <1>3, <1>4, <1>5 DEF Targets, Cells
<1> QED BY <1>1, <1>2, <1>3, <1>6

LEMMA StoredForCells ==
  ASSUME ProgOK, NEW R
  PROVE  StoredFor(R) \subseteq Functions
<1>1. \A s \in prog.stores : s.vals \subseteq Functions
  BY DEF ProgOK
<1>2. \A c \in prog.calls : c.arg # NoFn => c.arg \in Functions
  BY DEF ProgOK
<1> QED BY <1>1, <1>2 DEF StoredFor, ForwardsTo

LEMMA TypeContexts ==
  ASSUME TypeInv, Expand \/ JoinStored \/ ContextDone
  PROVE  TypeInv'
<1> USE DEF TypeInv
<1>1. ProgOK'
  BY DEF Expand, JoinStored, ContextDone, ProgOK, Handlers
<1>2. StageOK'
  <2>1. NextStage(stage) \in Contexts \cup {"rewrite"}
    BY DEF NextStage, Contexts
  <2>2. prog' = prog /\ round' = round /\ stage \in Contexts
    BY DEF Expand, JoinStored, Joins, Prios, Contexts, ContextDone
  <2>3. stage' \in Contexts \cup {"rewrite"}
    BY <2>1, <2>2 DEF Expand, JoinStored, ContextDone
  <2>4. Routines' = Routines
    BY <2>2 DEF Routines
  <2> QED BY <2>2, <2>3, <2>4 DEF StageOK, Contexts
<1>3. StateOK'
  <2>1. ctx' \in [Contexts -> SUBSET Cells]
    <3>1. CASE Expand
      <4>1. UNION {Targets(f) : f \in ctx[stage]} \subseteq Cells
        BY TargetCells
      <4> QED BY <3>1, <4>1 DEF Expand, StateOK
    <3>2. CASE JoinStored
      <4>1. StoredFor(Reads(ctx[stage])) \subseteq Cells
        BY StoredForCells DEF Cells
      <4> QED BY <3>2, <4>1 DEF JoinStored, StateOK
    <3>3. CASE ContextDone
      BY <3>3 DEF ContextDone, StateOK
    <3> QED BY <3>1, <3>2, <3>3
  <2>2. mark' \in [Prios -> SUBSET Cells]
    <3>1. CASE JoinStored
      <4>1. StoredFor(Reads(ctx[stage])) \subseteq Cells
        BY StoredForCells DEF Cells
      <4>2. stage \in Contexts
        BY <3>1 DEF JoinStored, Joins, Prios, Contexts
      <4>3. ctx[stage] \cup StoredFor(Reads(ctx[stage])) \subseteq Cells
        BY <4>1, <4>2 DEF StateOK
      <4> QED BY <3>1, <4>3 DEF JoinStored, StateOK
    <3> QED BY <3>1 DEF Expand, ContextDone, StateOK
  <2>3. params' \in [Prios -> SUBSET prog'.stores]
    <3>1. CASE JoinStored
      <4>1. ArgumentStores(Reads(ctx[stage])) \subseteq prog.stores
        BY DEF ArgumentStores
      <4> QED BY <3>1, <4>1 DEF JoinStored, StateOK
    <3> QED BY <3>1 DEF Expand, ContextDone, StateOK
  <2> QED BY <2>1, <2>2, <2>3 DEF StateOK, Expand, JoinStored, ContextDone
<1>4. RunOK'
  <2>1. stage \in Contexts /\ stage' \in Contexts \cup {"rewrite"}
    BY DEF Expand, JoinStored, Joins, Prios, Contexts, ContextDone, NextStage
  <2>2. stack = <<>>
    BY <2>1 DEF RunOK, Contexts
  <2>3. stack' = stack
    BY DEF Expand, JoinStored, ContextDone
  <2> QED BY <2>1, <2>2, <2>3 DEF RunOK, Contexts
<1> QED BY <1>1, <1>2, <1>3, <1>4

-----------------------------------------------------------------------------
(* Types: duplicate_isr_shared.                                            *)

(* Names of copies are new.                                                *)
LEMMA CopyFacts ==
  ASSUME NEW f, NEW p \in Prios
  PROVE  CopyOf(f, p)[1] = f[1] /\ CopyOf(f, p)[2] = p /\ p # "orig"
BY DEF CopyOf, Prios

LEMMA SharedFacts ==
  ASSUME ProgOK, prog \in Programs, NEW p \in Prios
  PROVE  /\ Shared(p) \subseteq prog.funcs \ ({Main} \cup Handlers)
         /\ Shared(p) \subseteq ctx[p] /\ Shared(p) \subseteq Names
         /\ Copies(p) \subseteq Functions
         /\ \A x \in Copies(p) : x[2] = p /\ x \notin prog.funcs
<1>1. Shared(p) \subseteq prog.funcs \ ({Main} \cup Handlers) /\ Shared(p) \subseteq ctx[p]
  BY DEF Shared
<1>2. Shared(p) \subseteq Names
  BY <1>1, InputOK
<1>3. Copies(p) \subseteq Functions
  BY <1>2, CopyIsFunction DEF Copies
<1>4. ASSUME NEW x \in Copies(p) PROVE x[2] = p /\ x \notin prog.funcs
  <2>1. PICK f \in Shared(p) : x = CopyOf(f, p)
    BY DEF Copies
  <2>2. x[2] = p /\ p # "orig"
    BY <2>1, CopyFacts
  <2>3. \A g \in prog.funcs : g[2] = "orig"
    <3>1. \A g \in prog.funcs : g = <<g[1], "orig">>
      BY InputOK
    <3> QED BY <3>1
  <2> QED BY <2>2, <2>3
<1> QED BY <1>1, <1>2, <1>3, <1>4

AllCopies == Copies("low") \cup Copies("high")

LEMMA RespelledIs ==
  ASSUME NEW f, NEW ps \in SUBSET Prios
  PROVE  \/ Respelled(f, ps) = f
         \/ \E p \in ps : Respelled(f, ps) = CopyOf(f, p)
BY DEF Respelled

LEMMA RespelledShared ==
  ASSUME NEW f, NEW ps \in SUBSET Prios, \A p \in ps : f \in Shared(p)
  PROVE  Respelled(f, ps) \in {f} \cup AllCopies
<1>1. \A p \in ps : CopyOf(f, p) \in AllCopies
  BY DEF AllCopies, Copies, Prios
<1> QED BY <1>1, RespelledIs

(* Dead originals are nobody's copy, and neither main nor a handler.       *)
LEMMA DeadFacts ==
  ASSUME ProgOK, prog \in Programs
  PROVE  /\ Dead \subseteq prog.funcs \ ({Main} \cup Handlers)
         /\ Dead \cap AllCopies = {}
         /\ \A c \in FinalCalls : c.to \notin Dead /\ c.arg \notin Dead
         /\ \A s \in NewStores : s.vals \cap Dead = {}
<1>1. Dead \subseteq prog.funcs \ ({Main} \cup Handlers)
  BY SharedFacts DEF Dead, CopiedOnce
<1>2. AllCopies \cap prog.funcs = {}
  BY SharedFacts DEF AllCopies, Prios
<1> QED BY <1>1, <1>2 DEF Dead

(* Cloning keeps the record and gives the instruction a new owner.         *)
LEMMA ClonedFrom ==
  ASSUME NEW S, NEW x \in Cloned(S)
  PROVE  \/ x \in S
         \/ \E p \in Prios : \E j \in S :
               j.in \in Shared(p) /\ x = [j EXCEPT !.in = CopyOf(j.in, p)]
BY DEF Cloned

NewFuncs == (prog.funcs \cup Copies("low") \cup Copies("high")) \ Dead
AllNames == prog.funcs \cup AllCopies

LEMMA ClonedCalls ==
  ASSUME ProgOK
  PROVE  Cloned(prog.calls) \subseteq
           [in : AllNames, to : prog.funcs \ Handlers, arg : Functions \cup {NoFn}]
<1> SUFFICES ASSUME NEW x \in Cloned(prog.calls)
             PROVE  x \in [in : AllNames, to : prog.funcs \ Handlers,
                           arg : Functions \cup {NoFn}]
  OBVIOUS
<1>1. CASE x \in prog.calls
  BY <1>1 DEF ProgOK, AllNames
<1>2. ASSUME NEW p \in Prios, NEW j \in prog.calls, j.in \in Shared(p),
             x = [j EXCEPT !.in = CopyOf(j.in, p)]
      PROVE  x \in [in : AllNames, to : prog.funcs \ Handlers, arg : Functions \cup {NoFn}]
  <2>1. CopyOf(j.in, p) \in AllNames
    BY <1>2 DEF AllNames, AllCopies, Copies, Prios
  <2>2. j \in [in : prog.funcs, to : prog.funcs \ Handlers, arg : Functions \cup {NoFn}]
    BY DEF ProgOK
  <2> QED BY <1>2, <2>1, <2>2
<1> QED BY <1>1, <1>2, ClonedFrom

LEMMA ClonedStores ==
  ASSUME ProgOK
  PROVE  Cloned(prog.stores) \subseteq
           [in : AllNames, at : FieldSet, kind : {"named", "param", "reg"},
            vals : SUBSET Functions]
<1> DEFINE R == [in : AllNames, at : FieldSet, kind : {"named", "param", "reg"},
                 vals : SUBSET Functions]
<1> SUFFICES ASSUME NEW x \in Cloned(prog.stores) PROVE x \in R
  OBVIOUS
<1>1. CASE x \in prog.stores
  BY <1>1 DEF ProgOK, AllNames
<1>2. ASSUME NEW p \in Prios, NEW j \in prog.stores, j.in \in Shared(p),
             x = [j EXCEPT !.in = CopyOf(j.in, p)]
      PROVE  x \in R
  <2>1. CopyOf(j.in, p) \in AllNames
    BY <1>2 DEF AllNames, AllCopies, Copies, Prios
  <2>2. j \in [in : prog.funcs, at : FieldSet, kind : {"named", "param", "reg"},
               vals : SUBSET Functions]
    BY DEF ProgOK
  <2> QED BY <1>2, <2>1, <2>2
<1> QED BY <1>1, <1>2, ClonedFrom

LEMMA ClonedUses ==
  ASSUME ProgOK
  PROVE  /\ Cloned(prog.uses) \subseteq [in : AllNames, routine : Functions]
         /\ \A x \in Cloned(prog.uses) : x.routine \in Routines
<1> SUFFICES ASSUME NEW x \in Cloned(prog.uses)
             PROVE  x \in [in : AllNames, routine : Functions] /\ x.routine \in Routines
  OBVIOUS
<1>1. CASE x \in prog.uses
  BY <1>1 DEF ProgOK, AllNames, Routines
<1>2. ASSUME NEW p \in Prios, NEW j \in prog.uses, j.in \in Shared(p),
             x = [j EXCEPT !.in = CopyOf(j.in, p)]
      PROVE  x \in [in : AllNames, routine : Functions] /\ x.routine \in Routines
  <2>1. CopyOf(j.in, p) \in AllNames
    BY <1>2 DEF AllNames, AllCopies, Copies, Prios
  <2>2. j \in [in : prog.funcs, routine : Functions] /\ j.routine \in Routines
    BY DEF ProgOK, Routines
  <2> QED BY <1>2, <2>1, <2>2
<1> QED BY <1>1, <1>2, ClonedFrom

LEMMA ClonedSites ==
  ASSUME ProgOK
  PROVE  Cloned(prog.sites) \subseteq [in : AllNames, at : FieldSet, reg : Registers]
<1> SUFFICES ASSUME NEW x \in Cloned(prog.sites)
             PROVE  x \in [in : AllNames, at : FieldSet, reg : Registers]
  OBVIOUS
<1>1. CASE x \in prog.sites
  BY <1>1 DEF ProgOK, AllNames
<1>2. ASSUME NEW p \in Prios, NEW j \in prog.sites, j.in \in Shared(p),
             x = [j EXCEPT !.in = CopyOf(j.in, p)]
      PROVE  x \in [in : AllNames, at : FieldSet, reg : Registers]
  <2>1. CopyOf(j.in, p) \in AllNames
    BY <1>2 DEF AllNames, AllCopies, Copies, Prios
  <2>2. j \in [in : prog.funcs, at : FieldSet, reg : Registers]
    BY DEF ProgOK
  <2> QED BY <1>2, <2>1, <2>2
<1> QED BY <1>1, <1>2, ClonedFrom

LEMMA CopiesAreFunctions ==
  ASSUME ProgOK, prog \in Programs
  PROVE  /\ AllCopies \subseteq Functions
         /\ AllNames \subseteq Functions
         /\ AllCopies \cap prog.funcs = {}
         /\ AllCopies \cap Handlers = {}
<1>1. AllCopies \subseteq Functions /\ AllCopies \cap prog.funcs = {}
  BY SharedFacts DEF AllCopies, Prios
<1>2. prog.funcs \subseteq Functions /\ Handlers \subseteq prog.funcs
  BY DEF ProgOK
<1> QED BY <1>1, <1>2 DEF AllNames

LEMMA RenamedIs ==
  ASSUME NEW in, NEW f
  PROVE  Renamed(in, f) \in {f} \cup AllCopies
<1>1. CopyFor(in, f) \in SUBSET Prios /\ \A p \in CopyFor(in, f) : f \in Shared(p)
  BY DEF CopyFor
<1> QED BY <1>1, RespelledShared DEF Renamed

(* A call of the rewritten module has the caller of a cloned call, the     *)
(* callee renamed for it, and some argument.                               *)
LEMMA FinalCallFrom ==
  ASSUME ProgOK, prog \in Programs, NEW c \in FinalCalls
  PROVE  /\ c \in [in : AllNames, to : AllNames \ Handlers, arg : Functions \cup {NoFn}]
         /\ \E o \in Cloned(prog.calls) : c.in = o.in /\ c.to = Renamed(o.in, o.to)
<1> DEFINE Args == Functions \cup {NoFn}
           R == [in : AllNames, to : AllNames \ Handlers, arg : Args]
<1>a. AllCopies \subseteq Functions /\ AllCopies \cap Handlers = {}
  BY CopiesAreFunctions
<1>1. PICK n \in NewCalls :
        c = [n EXCEPT !.arg = IF Ignored(n)
                              THEN Respelled(n.arg, {p \in Prios : n.arg \in CopiedOnce(p)})
                              ELSE n.arg]
  BY DEF FinalCalls
<1>2. PICK r \in RenamedCalls : n = [r EXCEPT !.arg = Respelled(r.arg, ArgHits(r))]
  BY DEF NewCalls
<1>3. PICK o \in Cloned(prog.calls) :
        r = [o EXCEPT !.to = Renamed(o.in, o.to), !.arg = Renamed(o.in, o.arg)]
  BY DEF RenamedCalls
<1>4. o \in [in : AllNames, to : prog.funcs \ Handlers, arg : Args]
  BY ClonedCalls
<1>5. Renamed(o.in, o.to) \in AllNames \ Handlers
  <2>1. Renamed(o.in, o.to) \in {o.to} \cup AllCopies
    BY RenamedIs
  <2> QED BY <1>a, <1>4, <2>1 DEF AllNames
<1>6. Renamed(o.in, o.arg) \in Args
  <2>1. Renamed(o.in, o.arg) \in {o.arg} \cup AllCopies
    BY RenamedIs
  <2> QED BY <1>a, <1>4, <2>1
<1> HIDE DEF Args
<1>7. r \in R /\ r.in = o.in /\ r.to = Renamed(o.in, o.to)
  BY <1>3, <1>4, <1>5, <1>6
<1>8. Respelled(r.arg, ArgHits(r)) \in Args
  <2>1. ArgHits(r) \in SUBSET Prios /\ \A p \in ArgHits(r) : r.arg \in Shared(p)
    BY DEF ArgHits
  <2>2. Respelled(r.arg, ArgHits(r)) \in {r.arg} \cup AllCopies
    BY <2>1, RespelledShared
  <2> QED BY <1>a, <1>7, <2>2 DEF Args
<1>9. n \in R /\ n.in = r.in /\ n.to = r.to
  BY <1>2, <1>7, <1>8
<1> DEFINE once == {p \in Prios : n.arg \in CopiedOnce(p)}
<1>10. Respelled(n.arg, once) \in Args
  <2>1. once \in SUBSET Prios /\ \A p \in once : n.arg \in Shared(p)
    BY DEF CopiedOnce
  <2>2. Respelled(n.arg, once) \in {n.arg} \cup AllCopies
    BY <2>1, RespelledShared
  <2> QED BY <1>a, <1>9, <2>2 DEF Args
<1> DEFINE last == IF Ignored(n) THEN Respelled(n.arg, once) ELSE n.arg
<1>11. last \in Args
  BY <1>9, <1>10
<1>12. c = [n EXCEPT !.arg = last]
  BY <1>1
<1> HIDE DEF last
<1>13. c \in R /\ c.in = n.in /\ c.to = n.to
  BY <1>9, <1>11, <1>12
<1> QED BY <1>7, <1>9, <1>13 DEF Args

LEMMA RenamedStoreTyped ==
  ASSUME ProgOK, prog \in Programs, NEW s \in RenamedStores
  PROVE  s \in [in : AllNames, at : FieldSet, kind : {"named", "param", "reg"},
                vals : SUBSET Functions]
<1>1. PICK o \in Cloned(prog.stores) :
        s = [o EXCEPT !.vals = {Renamed(o.in, v) : v \in o.vals}]
  BY DEF RenamedStores
<1>2. o \in [in : AllNames, at : FieldSet, kind : {"named", "param", "reg"},
             vals : SUBSET Functions]
  BY ClonedStores
<1> DEFINE vs == {Renamed(o.in, v) : v \in o.vals}
<1>3. vs \subseteq Functions
  <2>1. \A v \in o.vals : Renamed(o.in, v) \in {v} \cup AllCopies
    BY RenamedIs
  <2> QED BY <1>2, <2>1, CopiesAreFunctions
<1> HIDE DEF vs
<1> QED BY <1>1, <1>2, <1>3 DEF vs

LEMMA StoreHitsShared ==
  ASSUME NEW s
  PROVE  /\ StoreHits(s) \in SUBSET Prios
         /\ \A p \in StoreHits(s) : s.vals \subseteq Shared(p)
BY DEF StoreHits

LEMMA NewStoreTyped ==
  ASSUME ProgOK, prog \in Programs, NEW n \in NewStores
  PROVE  n \in [in : AllNames, at : FieldSet, kind : {"named", "param", "reg"},
                vals : SUBSET Functions]
<1>1. PICK s \in RenamedStores :
        n = [s EXCEPT !.vals = {Respelled(v, StoreHits(s)) : v \in s.vals}]
  BY DEF NewStores
<1>2. s \in [in : AllNames, at : FieldSet, kind : {"named", "param", "reg"},
             vals : SUBSET Functions]
  BY RenamedStoreTyped
<1> DEFINE vs == {Respelled(v, StoreHits(s)) : v \in s.vals}
<1>3. vs \subseteq Functions
  <2>1. \A v \in s.vals : Respelled(v, StoreHits(s)) \in {v} \cup AllCopies
    BY StoreHitsShared, RespelledShared
  <2> QED BY <1>2, <2>1, CopiesAreFunctions
<1> HIDE DEF vs
<1> QED BY <1>1, <1>2, <1>3 DEF vs

(* The module after duplicate_isr_shared.                                  *)
LEMMA DuplicatedProg ==
  ASSUME ProgOK, Duplicate, ~NothingShared
  PROVE  /\ DOMAIN prog' = DOMAIN prog
         /\ prog'.funcs = NewFuncs
         /\ prog'.low = prog.low /\ prog'.high = prog.high /\ prog'.compat = prog.compat
         /\ prog'.calls = Alive(FinalCalls)
         /\ prog'.stores = Alive(NewStores)
         /\ prog'.uses = Alive(Cloned(prog.uses))
         /\ prog'.sites = Alive(Cloned(prog.sites))
<1> DEFINE fs == (prog.funcs \cup Copies("low") \cup Copies("high")) \ Dead
           cs == Alive(FinalCalls)
           ss == Alive(NewStores)
           us == Alive(Cloned(prog.uses))
           os == Alive(Cloned(prog.copies))
           ds == Alive(Cloned(prog.sites))
<1>1. prog' = [prog EXCEPT !.funcs = fs, !.calls = cs, !.stores = ss, !.uses = us,
                           !.copies = os, !.sites = ds]
  BY DEF Duplicate
<1>2. DOMAIN prog = {"funcs", "low", "high", "compat", "calls", "uses", "stores",
                     "copies", "sites"}
  BY DEF ProgOK
<1> HIDE DEF fs, cs, ss, us, os, ds
<1>3. /\ DOMAIN prog' = DOMAIN prog
      /\ prog'.funcs = fs
      /\ prog'.low = prog.low /\ prog'.high = prog.high /\ prog'.compat = prog.compat
      /\ prog'.calls = cs /\ prog'.stores = ss /\ prog'.uses = us /\ prog'.sites = ds
  BY <1>1, <1>2
<1> QED BY <1>3 DEF fs, cs, ss, us, ds, NewFuncs

LEMMA ImageFinite ==
  ASSUME NEW S, IsFiniteSet(S), NEW g, DOMAIN g = S
  PROVE  IsFiniteSet({g[x] : x \in S})
<1> DEFINE T == {g[x] : x \in S}
           h == [x \in S |-> g[x]]
<1>1. h \in Surjection(S, T)
  BY DEF Surjection
<1> HIDE DEF T, h
<1>2. IsFiniteSet(T)
  BY <1>1, FS_Surjection
<1> QED BY <1>2 DEF T

LEMMA FiniteCopies ==
  ASSUME NEW S, IsFiniteSet(S), NEW p, NEW T \in SUBSET S
  PROVE  IsFiniteSet({CopyOf(f, p) : f \in T})
<1>1. IsFiniteSet(T)
  BY FS_Subset
<1> DEFINE g == [f \in T |-> CopyOf(f, p)]
<1>2. IsFiniteSet({g[f] : f \in T})
  <2>1. DOMAIN g = T
    OBVIOUS
  <2> HIDE DEF g
  <2> QED BY <1>1, <2>1, ImageFinite
<1>3. {g[f] : f \in T} = {CopyOf(f, p) : f \in T}
  OBVIOUS
<1> QED BY <1>2, <1>3

LEMMA FiniteCloned ==
  ASSUME NEW S, IsFiniteSet(S)
  PROVE  IsFiniteSet(Cloned(S))
<1> DEFINE Of(p) == {[i EXCEPT !.in = CopyOf(i.in, p)] : i \in {j \in S : j.in \in Shared(p)}}
<1>1. \A p \in Prios : IsFiniteSet(Of(p))
  <2> TAKE p \in Prios
  <2> DEFINE T == {j \in S : j.in \in Shared(p)}
  <2>1. IsFiniteSet(T)
    BY FS_Subset
  <2> HIDE DEF T
  <2> DEFINE g == [i \in T |-> [i EXCEPT !.in = CopyOf(i.in, p)]]
  <2>2. IsFiniteSet({g[i] : i \in T})
    <3>1. DOMAIN g = T
      OBVIOUS
    <3> HIDE DEF g
    <3> QED BY <2>1, <3>1, ImageFinite
  <2>3. {g[i] : i \in T} = {[i EXCEPT !.in = CopyOf(i.in, p)] : i \in T}
    OBVIOUS
  <2> QED BY <2>2, <2>3 DEF T
<1>2. Cloned(S) = S \cup Of("low") \cup Of("high")
  BY DEF Cloned, Prios
<1> HIDE DEF Of
<1>3. IsFiniteSet(Of("low")) /\ IsFiniteSet(Of("high"))
  BY <1>1 DEF Prios
<1>4. IsFiniteSet(S \cup Of("low"))
  BY <1>3, FS_Union
<1>5. IsFiniteSet(S \cup Of("low") \cup Of("high"))
  BY <1>3, <1>4, FS_Union
<1> QED BY <1>2, <1>5

LEMMA DuplicatedOK ==
  ASSUME ProgOK, prog \in Programs, Duplicate, ~NothingShared
  PROVE  ProgOK'
<1> DEFINE N == NewFuncs
<1>1. /\ DOMAIN prog' = DOMAIN prog
      /\ prog'.funcs = N
      /\ prog'.low = prog.low /\ prog'.high = prog.high
      /\ prog'.calls = Alive(FinalCalls)
      /\ prog'.stores = Alive(NewStores)
      /\ prog'.uses = Alive(Cloned(prog.uses))
      /\ prog'.sites = Alive(Cloned(prog.sites))
  BY DuplicatedProg
<1>2. N = AllNames \ Dead
  BY DEF NewFuncs, AllNames, AllCopies
<1> HIDE DEF N
<1>3. Handlers' = Handlers
  BY <1>1 DEF Handlers
<1>4. IsFiniteSet(N)
  <2>1. Shared("low") \subseteq prog.funcs /\ Shared("high") \subseteq prog.funcs
    BY SharedFacts DEF Prios
  <2>2. IsFiniteSet(Copies("low")) /\ IsFiniteSet(Copies("high"))
    BY <2>1, FiniteCopies DEF Copies, ProgOK
  <2>3. IsFiniteSet(prog.funcs \cup Copies("low"))
    BY <2>2, FS_Union DEF ProgOK
  <2>4. IsFiniteSet(prog.funcs \cup Copies("low") \cup Copies("high"))
    BY <2>2, <2>3, FS_Union
  <2> QED BY <2>4, FS_Subset DEF N, NewFuncs
<1>5. IsFiniteSet(Alive(Cloned(prog.uses)))
  <2>1. IsFiniteSet(Cloned(prog.uses))
    BY FiniteCloned DEF ProgOK
  <2> QED BY <2>1, FS_Subset DEF Alive
<1>6. N \subseteq Functions
  BY <1>2, CopiesAreFunctions
<1>7. Main \in N \ Handlers /\ Handlers \subseteq N
  BY <1>2, DeadFacts DEF ProgOK, AllNames
<1>8. Alive(FinalCalls) \subseteq [in : N, to : N \ Handlers, arg : Functions \cup {NoFn}]
  <2> SUFFICES ASSUME NEW c \in FinalCalls, c.in \notin Dead
               PROVE  c \in [in : N, to : N \ Handlers, arg : Functions \cup {NoFn}]
    BY DEF Alive
  <2>1. c \in [in : AllNames, to : AllNames \ Handlers, arg : Functions \cup {NoFn}]
    BY FinalCallFrom
  <2>2. c.to \notin Dead
    BY DeadFacts
  <2> QED BY <1>2, <2>1, <2>2
<1>9. Alive(NewStores) \subseteq
        [in : N, at : FieldSet, kind : {"named", "param", "reg"}, vals : SUBSET Functions]
  <2> SUFFICES ASSUME NEW s \in NewStores, s.in \notin Dead
               PROVE  s \in [in : N, at : FieldSet, kind : {"named", "param", "reg"},
                             vals : SUBSET Functions]
    BY DEF Alive
  <2>1. s \in [in : AllNames, at : FieldSet, kind : {"named", "param", "reg"},
               vals : SUBSET Functions]
    BY NewStoreTyped
  <2> QED BY <1>2, <2>1
<1>10. Alive(Cloned(prog.uses)) \subseteq [in : N, routine : Functions]
  <2> SUFFICES ASSUME NEW u \in Cloned(prog.uses), u.in \notin Dead
               PROVE  u \in [in : N, routine : Functions]
    BY DEF Alive
  <2>1. u \in [in : AllNames, routine : Functions]
    BY ClonedUses
  <2> QED BY <1>2, <2>1
<1>11. Alive(Cloned(prog.sites)) \subseteq [in : N, at : FieldSet, reg : Registers]
  <2> SUFFICES ASSUME NEW d \in Cloned(prog.sites), d.in \notin Dead
               PROVE  d \in [in : N, at : FieldSet, reg : Registers]
    BY DEF Alive
  <2>1. d \in [in : AllNames, at : FieldSet, reg : Registers]
    BY ClonedSites
  <2> QED BY <1>2, <2>1
<1>12. prog.low \cap prog.high = {}
       /\ DOMAIN prog = {"funcs", "low", "high", "compat", "calls", "uses", "stores",
                         "copies", "sites"}
  BY DEF ProgOK
<1> QED
  BY <1>1, <1>3, <1>4, <1>5, <1>6, <1>7, <1>8, <1>9, <1>10, <1>11, <1>12 DEF ProgOK

(* Every recorded spelling is the name of a function that stays.           *)
LEMMA SpellingsKept ==
  ASSUME ProgOK, prog \in Programs, NEW e \in Forwarded(RecordedSpellings)
  PROVE  e.name \in NewFuncs /\ e.prio \in {"main"} \cup Prios
<1>1. NewFuncs = AllNames \ Dead
  BY DEF NewFuncs, AllNames, AllCopies
<1>2. ASSUME NEW x \in RecordedSpellings
      PROVE  /\ x.name \in NewFuncs /\ x.prio \in {"main"} \cup Prios
             /\ DOMAIN x = {"obj", "fld", "name", "prio"}
  <2>1. CASE \E s \in RenamedStores : \E v \in s.vals \cap prog.funcs :
               x = Spelling(s.at, Respelled(v, StoreHits(s)), PrioOf(StoreHits(s)))
    <3>1. PICK s \in RenamedStores : \E v \in s.vals \cap prog.funcs :
            x = Spelling(s.at, Respelled(v, StoreHits(s)), PrioOf(StoreHits(s)))
      BY <2>1
    <3>2. PICK v \in s.vals \cap prog.funcs :
            x = Spelling(s.at, Respelled(v, StoreHits(s)), PrioOf(StoreHits(s)))
      BY <3>1
    <3>3. StoreHits(s) \in SUBSET Prios /\ \A p \in StoreHits(s) : v \in Shared(p)
      BY StoreHitsShared
    <3>4. Respelled(v, StoreHits(s)) \in {v} \cup AllCopies
      BY <3>3, RespelledShared
    <3> DEFINE n == [s EXCEPT !.vals = {Respelled(w, StoreHits(s)) : w \in s.vals}]
    <3>5. n \in NewStores
      BY DEF NewStores
    <3>6. n.vals = {Respelled(w, StoreHits(s)) : w \in s.vals}
      BY RenamedStoreTyped
    <3>7. Respelled(v, StoreHits(s)) \notin Dead
      BY <3>5, <3>6, DeadFacts
    <3>8. PrioOf(StoreHits(s)) \in {"main"} \cup Prios
      BY <3>3 DEF PrioOf
    <3> QED BY <1>1, <3>2, <3>4, <3>7, <3>8 DEF Spelling, AllNames
  <2>2. CASE \E c \in RenamedCalls : \E p \in ArgHits(c) : \E at \in ForwardedFields(c, p) :
               x = Spelling([at EXCEPT !.fld = AllFields], CopyOf(c.arg, p), p)
    <3>1. PICK c \in RenamedCalls : \E p \in ArgHits(c) : \E at \in ForwardedFields(c, p) :
            x = Spelling([at EXCEPT !.fld = AllFields], CopyOf(c.arg, p), p)
      BY <2>2
    <3>2. PICK p \in ArgHits(c) : \E at \in ForwardedFields(c, p) :
            x = Spelling([at EXCEPT !.fld = AllFields], CopyOf(c.arg, p), p)
      BY <3>1
    <3>3. p \in Prios /\ c.arg \in Shared(p)
      BY DEF ArgHits
    <3>4. CopyOf(c.arg, p) \in AllCopies
      BY <3>3 DEF Copies, AllCopies, Prios
    <3>5. CopyOf(c.arg, p) \notin Dead
      BY <3>4, DeadFacts
    <3>6. x.name = CopyOf(c.arg, p) /\ x.prio = p
          /\ DOMAIN x = {"obj", "fld", "name", "prio"}
      BY <3>2 DEF Spelling
    <3> QED BY <1>1, <3>3, <3>4, <3>5, <3>6 DEF AllNames
  <2>3. \/ \E s \in RenamedStores : \E v \in s.vals \cap prog.funcs :
              x = Spelling(s.at, Respelled(v, StoreHits(s)), PrioOf(StoreHits(s)))
        \/ \E c \in RenamedCalls : \E p \in ArgHits(c) : \E at \in ForwardedFields(c, p) :
              x = Spelling([at EXCEPT !.fld = AllFields], CopyOf(c.arg, p), p)
    <3>1. \/ \E s \in RenamedStores : x \in StoreSpellings(s)
          \/ \E c \in RenamedCalls : x \in ArgSpellings(c)
      BY DEF RecordedSpellings
    <3>2. \A s : x \in StoreSpellings(s) => \E v \in s.vals \cap prog.funcs :
            x = Spelling(s.at, Respelled(v, StoreHits(s)), PrioOf(StoreHits(s)))
      BY DEF StoreSpellings
    <3>3. \A c : x \in ArgSpellings(c) => \E p \in ArgHits(c) : \E at \in ForwardedFields(c, p) :
            x = Spelling([at EXCEPT !.fld = AllFields], CopyOf(c.arg, p), p)
      BY DEF ArgSpellings
    <3> QED BY <3>1, <3>2, <3>3
  <2> QED BY <2>1, <2>2, <2>3
<1>3. CASE e \in RecordedSpellings
  BY <1>2, <1>3
<1>4. CASE \E c \in Cloned(prog.copies) : \E x \in RecordedSpellings :
             e = [x EXCEPT !.obj = c.to]
  <2>1. PICK x \in RecordedSpellings, c \in Cloned(prog.copies) : e = [x EXCEPT !.obj = c.to]
    BY <1>4
  <2>2. e.name = x.name /\ e.prio = x.prio
    BY <1>2, <2>1
  <2> QED BY <1>2, <2>2
<1>5. e \in RecordedSpellings
      \/ \E c \in Cloned(prog.copies) : \E x \in RecordedSpellings : e = [x EXCEPT !.obj = c.to]
  BY DEF Forwarded
<1> QED BY <1>3, <1>4, <1>5

LEMMA TypeDuplicate ==
  ASSUME TypeInv, Duplicate
  PROVE  TypeInv'
<1>1. /\ round = "user" /\ stage = "rewrite" /\ prog \in Programs
      /\ round' = "routine" /\ stage' = "main"
  BY DEF TypeInv, StageOK, Duplicate, StartRound
<1>2. ProgOK
  BY DEF TypeInv
<1>3. ProgOK'
  <2>1. CASE NothingShared
    BY <1>2, <2>1 DEF Duplicate, ProgOK, Handlers
  <2>2. CASE ~NothingShared
    BY <1>1, <1>2, <2>2, DuplicatedOK
  <2> QED BY <2>1, <2>2
<1>4. StageOK'
  <2>1. Routines' \subseteq Routines
    <3>1. CASE NothingShared
      BY <3>1 DEF Duplicate, Routines
    <3>2. CASE ~NothingShared
      <4>1. prog'.uses = Alive(Cloned(prog.uses))
        BY <1>2, <3>2, DuplicatedProg
      <4>2. \A u \in prog'.uses : u.routine \in Routines
        BY <1>2, <4>1, ClonedUses DEF Alive
      <4> QED BY <4>2 DEF Routines
    <3> QED BY <3>1, <3>2
  <2>2. Routines \subseteq Names
    BY <1>1 DEF TypeInv, StageOK
  <2> QED BY <1>1, <2>1, <2>2 DEF StageOK, Contexts
<1>5. StateOK'
  <2>1. {Main} \subseteq Cells /\ prog.low \subseteq Cells /\ prog.high \subseteq Cells
    BY <1>2 DEF ProgOK, Handlers, Cells
  <2>2. ctx' \in [Contexts -> SUBSET Cells]
    BY <2>1 DEF Duplicate, StartRound, Contexts
  <2>3. mark' \in [Prios -> SUBSET Cells] /\ params' \in [Prios -> SUBSET prog'.stores]
    BY DEF Duplicate, StartRound, NoneYet
  <2>4. stored' \in [Prios -> SUBSET Names]
    <3>1. CASE NothingShared
      BY <3>1 DEF Duplicate, TypeInv, StateOK
    <3>2. CASE ~NothingShared
      <4>1. \A p \in Prios : Replaced(p) \subseteq Names
        <5>1. \A p \in Prios : Shared(p) \subseteq Names
          BY <1>1, <1>2, SharedFacts
        <5>2. \A p \in Prios : Replaced(p) \subseteq Shared(p)
          BY DEF Replaced
        <5> QED BY <5>1, <5>2
      <4>2. stored' = [p \in Prios |-> Replaced(p)]
        BY <3>2 DEF Duplicate
      <4> QED BY <4>1, <4>2
    <3> QED BY <3>1, <3>2
  <2>5. \A e \in spellings' : e.name \in prog'.funcs /\ e.prio \in {"main"} \cup Prios
    <3>1. CASE NothingShared
      BY <3>1 DEF Duplicate, TypeInv, StateOK
    <3>2. CASE ~NothingShared
      <4>1. spellings' = Forwarded(RecordedSpellings)
        BY <3>2 DEF Duplicate
      <4>2. prog'.funcs = NewFuncs
        BY <1>2, <3>2, DuplicatedProg
      <4> QED BY <1>1, <1>2, <4>1, <4>2, SpellingsKept
    <3> QED BY <3>1, <3>2
  <2> QED BY <2>2, <2>3, <2>4, <2>5 DEF StateOK
<1>6. RunOK'
  <2>1. stack = <<>>
    BY <1>1 DEF TypeInv, RunOK
  <2>2. stack' = stack
    BY DEF Duplicate
  <2> QED BY <1>1, <2>1, <2>2 DEF RunOK
<1> QED BY <1>3, <1>4, <1>5, <1>6 DEF TypeInv

-----------------------------------------------------------------------------
(* Types: the routines, the candidates, the call graph.                    *)

RoutineCopies == UNION {{CopyOf(r, p) : r \in SharedRoutines(p)} : p \in Prios}

LEMMA RoutineForIs ==
  ASSUME NEW in, NEW r
  PROVE  RoutineFor(in, r) \in {r} \cup RoutineCopies
BY DEF RoutineFor, RoutineCopies, Prios

LEMMA SplitProg ==
  ASSUME ProgOK, SplitRoutines
  PROVE  /\ DOMAIN prog' = DOMAIN prog
         /\ prog'.funcs = prog.funcs \cup Routines \cup RoutineCopies
         /\ prog'.uses = {[u EXCEPT !.routine = RoutineFor(u.in, u.routine)] : u \in prog.uses}
         /\ prog'.low = prog.low /\ prog'.high = prog.high
         /\ prog'.calls = prog.calls /\ prog'.stores = prog.stores
         /\ prog'.sites = prog.sites
<1> DEFINE fs == prog.funcs \cup Routines \cup RoutineCopies
           us == {[u EXCEPT !.routine = RoutineFor(u.in, u.routine)] : u \in prog.uses}
<1>1. prog' = [prog EXCEPT !.uses = us, !.funcs = fs]
  BY DEF SplitRoutines, RoutineCopies
<1>2. DOMAIN prog = {"funcs", "low", "high", "compat", "calls", "uses", "stores",
                     "copies", "sites"}
  BY DEF ProgOK
<1> HIDE DEF fs, us
<1>3. /\ DOMAIN prog' = DOMAIN prog
      /\ prog'.funcs = fs /\ prog'.uses = us
      /\ prog'.low = prog.low /\ prog'.high = prog.high
      /\ prog'.calls = prog.calls /\ prog'.stores = prog.stores
      /\ prog'.sites = prog.sites
  BY <1>1, <1>2
<1> QED BY <1>3 DEF fs, us

LEMMA FiniteRoutines ==
  ASSUME ProgOK
  PROVE  IsFiniteSet(Routines) /\ IsFiniteSet(RoutineCopies)
<1>1. IsFiniteSet(Routines)
  <2> DEFINE g == [u \in prog.uses |-> u.routine]
  <2>1. IsFiniteSet({g[u] : u \in prog.uses})
    <3>1. DOMAIN g = prog.uses /\ IsFiniteSet(prog.uses)
      BY DEF ProgOK
    <3> HIDE DEF g
    <3> QED BY <3>1, ImageFinite
  <2>2. {g[u] : u \in prog.uses} = Routines
    BY DEF Routines
  <2> QED BY <2>1, <2>2
<1>2. \A p \in Prios : IsFiniteSet({CopyOf(r, p) : r \in SharedRoutines(p)})
  <2> TAKE p \in Prios
  <2>1. SharedRoutines(p) \in SUBSET Routines
    BY DEF SharedRoutines
  <2> QED BY <1>1, <2>1, FiniteCopies
<1> DEFINE Of(p) == {CopyOf(r, p) : r \in SharedRoutines(p)}
<1>3. RoutineCopies = Of("low") \cup Of("high")
  BY DEF RoutineCopies, Prios
<1>4. IsFiniteSet(Of("low")) /\ IsFiniteSet(Of("high"))
  BY <1>2 DEF Prios
<1> HIDE DEF Of
<1>5. IsFiniteSet(Of("low") \cup Of("high"))
  BY <1>4, FS_Union
<1> QED BY <1>1, <1>3, <1>5

LEMMA TypeSplit ==
  ASSUME TypeInv, SplitRoutines
  PROVE  TypeInv'
<1>1. /\ round = "routine" /\ stage = "rewrite"
      /\ round' = "dispatch" /\ stage' = "main"
      /\ Routines \subseteq Names
  BY DEF TypeInv, StageOK, SplitRoutines, StartRound
<1>2. ProgOK
  BY DEF TypeInv
<1> DEFINE N == prog.funcs \cup Routines \cup RoutineCopies
<1>3. /\ DOMAIN prog' = DOMAIN prog
      /\ prog'.funcs = N
      /\ prog'.uses = {[u EXCEPT !.routine = RoutineFor(u.in, u.routine)] : u \in prog.uses}
      /\ prog'.low = prog.low /\ prog'.high = prog.high
      /\ prog'.calls = prog.calls /\ prog'.stores = prog.stores
      /\ prog'.sites = prog.sites
  BY <1>2, SplitProg
<1>4. RoutineCopies \subseteq Functions /\ Routines \subseteq Functions
  <2>1. \A p \in Prios : SharedRoutines(p) \subseteq Names
    BY <1>1 DEF SharedRoutines
  <2>2. \A p \in Prios : \A r \in SharedRoutines(p) : CopyOf(r, p) \in Functions
    BY <2>1, CopyIsFunction
  <2>3. Names \subseteq Functions
    BY DEF Functions
  <2> QED BY <1>1, <2>2, <2>3 DEF RoutineCopies
<1>5. N \subseteq Functions /\ prog.funcs \subseteq N
  BY <1>2, <1>4 DEF ProgOK
<1>6. IsFiniteSet(N)
  <2>1. IsFiniteSet(prog.funcs)
    BY <1>2 DEF ProgOK
  <2>2. IsFiniteSet(prog.funcs \cup Routines)
    BY <1>2, <2>1, FiniteRoutines, FS_Union
  <2> QED BY <1>2, <2>2, FiniteRoutines, FS_Union
<1>7. IsFiniteSet(prog'.uses)
  <2> DEFINE g == [u \in prog.uses |-> [u EXCEPT !.routine = RoutineFor(u.in, u.routine)]]
  <2>1. IsFiniteSet({g[u] : u \in prog.uses})
    <3>1. DOMAIN g = prog.uses /\ IsFiniteSet(prog.uses)
      BY <1>2 DEF ProgOK
    <3> HIDE DEF g
    <3> QED BY <3>1, ImageFinite
  <2>2. {g[u] : u \in prog.uses} = prog'.uses
    BY <1>3
  <2> QED BY <2>1, <2>2
<1>8. \A u \in prog'.uses : u \in [in : N, routine : Functions] /\ u.routine \in N
  <2> SUFFICES ASSUME NEW u \in prog.uses
               PROVE  /\ [u EXCEPT !.routine = RoutineFor(u.in, u.routine)]
                            \in [in : N, routine : Functions]
                      /\ [u EXCEPT !.routine = RoutineFor(u.in, u.routine)].routine \in N
    BY <1>3
  <2>1. u \in [in : prog.funcs, routine : Functions] /\ u.routine \in Routines
    BY <1>2 DEF ProgOK, Routines
  <2>2. RoutineFor(u.in, u.routine) \in {u.routine} \cup RoutineCopies
    BY RoutineForIs
  <2>3. RoutineFor(u.in, u.routine) \in N
    BY <2>1, <2>2
  <2> HIDE DEF N
  <2> QED BY <1>5, <2>1, <2>3
<1> HIDE DEF N
<1>9. ProgOK'
  <2>1. Handlers' = Handlers
    BY <1>3 DEF Handlers
  <2> QED BY <1>2, <1>3, <1>5, <1>6, <1>7, <1>8, <2>1 DEF ProgOK
<1>10. StageOK'
  BY <1>1, <1>3, <1>8 DEF StageOK, Contexts, Routines
<1>11. StateOK'
  <2>1. {Main} \subseteq Cells /\ prog.low \subseteq Cells /\ prog.high \subseteq Cells
    BY <1>2 DEF ProgOK, Handlers, Cells
  <2>2. ctx' \in [Contexts -> SUBSET Cells]
    BY <2>1 DEF SplitRoutines, StartRound, Contexts
  <2>3. mark' \in [Prios -> SUBSET Cells] /\ params' \in [Prios -> SUBSET prog'.stores]
    BY DEF SplitRoutines, StartRound, NoneYet
  <2>4. stored' \in [Prios -> SUBSET Names]
        /\ \A e \in spellings' : e.name \in prog'.funcs /\ e.prio \in {"main"} \cup Prios
    BY <1>3, <1>5 DEF TypeInv, StateOK, SplitRoutines
  <2> QED BY <2>2, <2>3, <2>4 DEF StateOK
<1>12. RunOK'
  <2>1. stack = <<>>
    BY <1>1 DEF TypeInv, RunOK
  <2>2. stack' = stack
    BY DEF SplitRoutines
  <2> QED BY <1>1, <2>1, <2>2 DEF RunOK
<1> QED BY <1>9, <1>10, <1>11, <1>12 DEF TypeInv

LEMMA CandidateNames ==
  ASSUME TypeInv, NEW d \in prog.sites, NEW g \in Candidates(d)
  PROVE  g \in prog.funcs /\ Respelled(g, OwnCopies(d, g)) \in prog.funcs
<1>1. g \in prog.funcs
  <2>1. Occupiable(d) \subseteq prog.funcs
    BY DEF Occupiable, Scoped, TypeInv, StateOK
  <2>2. OfItsContexts(d) \subseteq prog.funcs
    BY DEF OfItsContexts, TakenFunctions
  <2> QED BY <2>1, <2>2 DEF Candidates
<1>2. OwnCopies(d, g) \in SUBSET Prios /\ \A p \in OwnCopies(d, g) : CopyOf(g, p) \in prog.funcs
  BY DEF OwnCopies
<1> QED BY <1>1, <1>2, RespelledIs

LEMMA TypeAccept ==
  ASSUME TypeInv, FillCallees \/ AcceptCallGraph \/ Refuse
  PROVE  TypeInv'
<1>1. prog' = prog /\ round' = round /\ stack' = stack /\ stage' \in {"callgraph", "run", "refused"}
  BY DEF FillCallees, AcceptCallGraph, Refuse
<1>2. ProgOK'
  BY <1>1 DEF TypeInv, ProgOK, Handlers
<1>3. StageOK'
  <2>1. stage' # "refused" => round = "dispatch"
    BY DEF FillCallees, AcceptCallGraph, Refuse, TypeInv, StageOK
  <2>2. Routines' = Routines
    BY <1>1 DEF Routines
  <2> QED BY <1>1, <2>1, <2>2 DEF TypeInv, StageOK
<1>4. StateOK'
  BY DEF FillCallees, AcceptCallGraph, Refuse, TypeInv, StateOK
<1>5. stack = <<>>
  BY DEF FillCallees, AcceptCallGraph, Refuse, TypeInv, RunOK
<1>6. stage' \in {"callgraph", "run"} =>
        DOMAIN callees' = prog.sites /\ \A d \in prog.sites : callees'[d] \subseteq prog.funcs
  <2>1. CASE FillCallees
    <3>1. callees' = [d \in prog.sites |-> {Respelled(g, OwnCopies(d, g)) : g \in Candidates(d)}]
      BY <2>1 DEF FillCallees
    <3>2. \A d \in prog.sites : \A g \in Candidates(d) :
            Respelled(g, OwnCopies(d, g)) \in prog.funcs
      BY CandidateNames
    <3> QED BY <3>1, <3>2
  <2>2. CASE AcceptCallGraph
    BY <2>2 DEF AcceptCallGraph, TypeInv, RunOK
  <2>3. CASE Refuse
    BY <2>3 DEF Refuse
  <2> QED BY <2>1, <2>2, <2>3
<1>7. RunOK'
  BY <1>1, <1>5, <1>6 DEF TypeInv, RunOK
<1> QED BY <1>2, <1>3, <1>4, <1>7 DEF TypeInv

-----------------------------------------------------------------------------
(* Types: the program.                                                     *)

(* A step of the program leaves the module alone.                          *)
LEMMA RunKeeps ==
  ASSUME TypeInv, RunNext
  PROVE  /\ stage = "run" /\ stage' \in {"run", "trapped"}
         /\ UNCHANGED <<prog, round, ctx, mark, params, stored, spellings, callees>>
<1>1. CASE PowerOn
  BY <1>1 DEF PowerOn, compileVars
<1>2. ASSUME NEW c \in prog.calls, Call(c)
      PROVE  stage = "run" /\ UNCHANGED compileVars
  BY <1>2 DEF Call, RunsIn
<1>3. ASSUME NEW u \in prog.uses, CallRoutine(u)
      PROVE  stage = "run" /\ UNCHANGED compileVars
  BY <1>3 DEF CallRoutine, RunsIn
<1>4. ASSUME NEW s \in prog.stores, Store(s)
      PROVE  stage = "run" /\ UNCHANGED compileVars
  BY <1>4 DEF Store, RunsIn
<1>5. ASSUME NEW c \in prog.copies, CopyObject(c)
      PROVE  stage = "run" /\ UNCHANGED compileVars
  BY <1>5 DEF CopyObject, RunsIn
<1>6. ASSUME NEW d \in prog.sites, Dispatch(d)
      PROVE  /\ stage = "run" /\ stage' \in {"run", "trapped"}
             /\ UNCHANGED <<prog, round, ctx, mark, params, stored, spellings, callees>>
  BY <1>6 DEF Dispatch, RunsIn, compileVars
<1>7. CASE Return
  BY <1>7 DEF Return, compileVars
<1>8. ASSUME NEW h \in Handlers, Preempt(h)
      PROVE  stage = "run" /\ UNCHANGED compileVars
  BY <1>8 DEF Preempt
<1> QED BY <1>1, <1>2, <1>3, <1>4, <1>5, <1>6, <1>7, <1>8 DEF RunNext, compileVars

(* What a step of the program does to the stack.                           *)
Pushed(f, a) == stack' = Append(stack, Activation(f, a))

LEMMA StackMoves ==
  ASSUME TypeInv, RunNext
  PROVE  \/ stack = <<>> /\ stack' = <<Activation(Main, NoFn)>>
         \/ stack' = stack
         \/ stack # <<>> /\ \E a \in Functions \cup {NoFn} :
               \E f \in CanCall(Top.fn) \cap prog.funcs : Pushed(f, a)
         \/ Len(stack) > 1 /\ stack' = SubSeq(stack, 1, Len(stack) - 1)
         \/ \E h \in Handlers : Preempt(h) /\ Pushed(h, NoFn)
<1>0. stage = "run" /\ round = "dispatch"
  BY RunKeeps DEF TypeInv, StageOK
<1>1. CASE PowerOn
  BY <1>1 DEF PowerOn
<1>2. ASSUME NEW c \in prog.calls, Call(c)
      PROVE  stack # <<>> /\ \E a \in Functions \cup {NoFn} :
               \E f \in CanCall(Top.fn) \cap prog.funcs : Pushed(f, a)
  <2>1. c.to \in prog.funcs /\ c.arg \in Functions \cup {NoFn}
    BY DEF TypeInv, ProgOK
  <2>2. c.to \in CanCall(Top.fn)
    BY <1>2 DEF Call, RunsIn, CanCall, DirectCalls, Within
  <2> QED BY <1>2, <2>1, <2>2 DEF Call, RunsIn, Pushed
<1>3. ASSUME NEW u \in prog.uses, CallRoutine(u)
      PROVE  stack # <<>> /\ \E a \in Functions \cup {NoFn} :
               \E f \in CanCall(Top.fn) \cap prog.funcs : Pushed(f, a)
  <2>1. u.routine \in prog.funcs
    BY <1>0 DEF TypeInv, StageOK, Routines
  <2>2. u.routine \in CanCall(Top.fn)
    BY <1>3 DEF CallRoutine, RunsIn, CanCall, RoutineCalls, Within
  <2> QED BY <1>3, <2>1, <2>2 DEF CallRoutine, RunsIn, Pushed
<1>4. ASSUME NEW s \in prog.stores, Store(s)
      PROVE  stack' = stack
  BY <1>4 DEF Store
<1>5. ASSUME NEW c \in prog.copies, CopyObject(c)
      PROVE  stack' = stack
  BY <1>5 DEF CopyObject
<1>6. ASSUME NEW d \in prog.sites, Dispatch(d)
      PROVE  \/ stack' = stack
             \/ stack # <<>> /\ \E a \in Functions \cup {NoFn} :
                   \E f \in CanCall(Top.fn) \cap prog.funcs : Pushed(f, a)
  <2>1. CASE held[d.at] \in callees[d]
    <3>1. held[d.at] \in prog.funcs
      BY <1>0, <2>1 DEF TypeInv, RunOK
    <3>2. held[d.at] \in CanCall(Top.fn)
      BY <1>6, <2>1 DEF Dispatch, RunsIn, CanCall, Within
    <3> QED BY <1>6, <2>1, <3>1, <3>2 DEF Dispatch, RunsIn, Pushed
  <2>2. CASE held[d.at] \notin callees[d]
    BY <1>6, <2>2 DEF Dispatch
  <2> QED BY <2>1, <2>2
<1>7. CASE Return
  BY <1>7 DEF Return
<1>8. ASSUME NEW h \in Handlers, Preempt(h)
      PROVE  Preempt(h) /\ Pushed(h, NoFn)
  BY <1>8 DEF Preempt, Pushed
<1> QED BY <1>1, <1>2, <1>3, <1>4, <1>5, <1>6, <1>7, <1>8 DEF RunNext

LEMMA PushTyped ==
  ASSUME NEW S, NEW q \in Seq(S), NEW e \in S
  PROVE  Append(q, e) \in Seq(S)
OBVIOUS

LEMMA PopTyped ==
  ASSUME NEW S, NEW q \in Seq(S), Len(q) > 1
  PROVE  SubSeq(q, 1, Len(q) - 1) \in Seq(S)
<1>1. \A i \in 1..(Len(q) - 1) : q[i] \in S
  OBVIOUS
<1> QED BY <1>1, SubSeqProperties

LEMMA TypeRun ==
  ASSUME TypeInv, RunNext
  PROVE  TypeInv'
<1>1. /\ stage = "run" /\ stage' \in {"run", "trapped"}
      /\ UNCHANGED <<prog, round, ctx, mark, params, stored, spellings, callees>>
  BY RunKeeps
<1>2. ProgOK' /\ StateOK'
  BY <1>1 DEF TypeInv, ProgOK, StateOK, Handlers
<1>3. StageOK'
  BY <1>1 DEF TypeInv, StageOK, Routines
<1> DEFINE A == [fn : prog.funcs, arg : Functions \cup {NoFn}]
<1>4. stack' \in Seq(A)
  <2>1. stack \in Seq(A)
    BY DEF TypeInv, RunOK
  <2>2. \A f \in prog.funcs : \A a \in Functions \cup {NoFn} : Activation(f, a) \in A
    BY DEF Activation
  <2>3. Main \in prog.funcs /\ Handlers \subseteq prog.funcs
    BY DEF TypeInv, ProgOK
  <2> HIDE DEF A
  <2>4. Activation(Main, NoFn) \in A /\ \A h \in Handlers : Activation(h, NoFn) \in A
    BY <2>2, <2>3
  <2>5. CASE stack' = <<Activation(Main, NoFn)>>
    BY <2>4, <2>5
  <2>6. ASSUME NEW a \in Functions \cup {NoFn}, NEW f \in prog.funcs, Pushed(f, a)
        PROVE  stack' \in Seq(A)
    BY <2>1, <2>2, <2>6, PushTyped DEF Pushed
  <2>7. CASE Len(stack) > 1 /\ stack' = SubSeq(stack, 1, Len(stack) - 1)
    BY <2>1, <2>7, PopTyped
  <2> QED BY <2>1, <2>3, <2>5, <2>6, <2>7, StackMoves
<1>5. RunOK'
  BY <1>1, <1>4 DEF TypeInv, RunOK
<1> QED BY <1>2, <1>3, <1>5 DEF TypeInv

LEMMA TypeStutter ==
  ASSUME TypeInv, UNCHANGED vars
  PROVE  TypeInv'
<1>1. UNCHANGED <<prog, round, stage, ctx, mark, params, stored, spellings, callees, held, stack>>
  BY DEF vars, compileVars
<1>2. ProgOK'
  BY <1>1 DEF TypeInv, ProgOK, Handlers
<1>3. StageOK'
  BY <1>1 DEF TypeInv, StageOK, Routines
<1>4. StateOK' /\ RunOK'
  BY <1>1 DEF TypeInv, StateOK, RunOK
<1> QED BY <1>2, <1>3, <1>4 DEF TypeInv

LEMMA TypeStep ==
  ASSUME TypeInv, [Next]_vars
  PROVE  TypeInv'
<1>1. CASE CompileNext
  BY <1>1, TypeContexts, TypeDuplicate, TypeSplit, TypeAccept DEF CompileNext
<1>2. CASE RunNext
  BY <1>2, TypeRun
<1>3. CASE UNCHANGED vars
  BY <1>3, TypeStutter
<1> QED BY <1>1, <1>2, <1>3 DEF Next

LEMMA TypeInvHolds == Spec => []TypeInv
<1>1. Init => TypeInv
  BY TypeInit
<1>2. TypeInv /\ [Next]_vars => TypeInv'
  BY TypeStep
<1> QED BY <1>1, <1>2, PTL DEF Spec

LEMMA StackTyped ==
  ASSUME TypeInv, NEW i \in 1..Len(stack)
  PROVE  stack[i] \in [fn : prog.funcs, arg : Functions \cup {NoFn}]
         /\ stack[i].fn \in prog.funcs
<1> DEFINE A == [fn : prog.funcs, arg : Functions \cup {NoFn}]
<1>1. stack \in Seq(A)
  BY DEF TypeInv, RunOK
<1>2. \A e \in A : e.fn \in prog.funcs
  OBVIOUS
<1> HIDE DEF A
<1>3. stack[i] \in A
  BY <1>1
<1> QED BY <1>2, <1>3 DEF A

(***************************************************************************)
(* legalize and the program it makes keep their types: contexts hold       *)
(* functions and registers, every recorded spelling and every candidate of *)
(* a dispatch is a function of the module, and only functions of the       *)
(* module are ever active, so nothing was dropped that is still named.     *)
(***************************************************************************)
THEOREM TypeCorrect == Spec => []TypeOK
<1>1. TypeInv => TypeOK
  <2> SUFFICES ASSUME TypeInv PROVE TypeOK
    OBVIOUS
  <2>1. prog.funcs \subseteq Functions
    BY DEF TypeInv, ProgOK
  <2>2. /\ stage \in Contexts \cup {"rewrite", "callgraph", "run", "trapped", "refused"}
        /\ round \in {"user", "routine", "dispatch"}
    BY DEF TypeInv, StageOK
  <2>3. \A c \in Contexts : ctx[c] \subseteq Functions \cup Registers
    BY DEF TypeInv, StateOK, Cells
  <2>4. \A p \in Prios : stored[p] \subseteq Names /\ mark[p] \subseteq Functions \cup Registers
    BY DEF TypeInv, StateOK, Cells
  <2>5. \A p \in Prios : params[p] \subseteq prog.stores
    BY DEF TypeInv, StateOK
  <2>6. \A e \in spellings : e.name \in Functions /\ e.prio \in {"main"} \cup Prios
    BY <2>1 DEF TypeInv, StateOK
  <2>7. stage \in {"callgraph", "run", "trapped"} =>
          /\ DOMAIN callees = prog.sites
          /\ \A d \in prog.sites : callees[d] \subseteq prog.funcs
    BY DEF TypeInv, RunOK
  <2>8. \A i \in 1..Len(stack) : stack[i].fn \in prog.funcs
    BY StackTyped
  <2> QED BY <2>1, <2>2, <2>3, <2>4, <2>5, <2>6, <2>7, <2>8 DEF TypeOK
<1> QED BY <1>1, TypeInvHolds, PTL

-----------------------------------------------------------------------------
(***************************************************************************)
(* For every program: no function and no runtime routine can be reached by *)
(* calls from two contexts, whatever was stored and dispatched; and no     *)
(* function is active twice when dispatches keep to their contexts too.    *)
(*                                                                         *)
(* The argument: a context is closed under calls when it is done, so what  *)
(* the new module lets main call is in main's old context, and what it     *)
(* lets a handler call is a copy or was in no other context; the same once *)
(* more for the routines.  At run time every activation is in the context  *)
(* of the newest handler below it, and was called by the one below it, so  *)
(* a function active twice in one context would be recursive.              *)
(***************************************************************************)

-----------------------------------------------------------------------------
(* Contexts that calls cannot leave.                                       *)

RootsOf(c) == CASE c = "main" -> {Main} [] c = "low" -> prog.low [] OTHER -> prog.high

(* The calls that a separation accounts for: routines once they are split. *)
Followed(f) == DirectCalls(f) \cup (IF round = "dispatch" THEN RoutineCalls(f) ELSE {})

(* R gives each context functions of its own, and no call leaves them.     *)
Separates(R) ==
    /\ \A c \in Contexts : RootsOf(c) \subseteq R[c]
    /\ \A c \in Contexts : \A f \in R[c] : Followed(f) \subseteq R[c]
    /\ \A c, d \in Contexts : c # d => R[c] \cap R[d] = {}

(* The contexts whose computation is over.                                 *)
Finished(c) ==
    \/ stage = "rewrite"
    \/ c = "main" /\ stage \in Prios
    \/ c = "low" /\ stage = "high"

ContextsOK ==
    stage \in Contexts \cup {"rewrite"} =>
        \A c \in Contexts : RootsOf(c) \subseteq ctx[c] /\ (Finished(c) => Closed(ctx[c]))

(* Nothing calls a handler: a context is its roots, functions that may be  *)
(* called, and registers.                                                  *)
Callable == (prog.funcs \ Handlers) \cup {d.reg : d \in prog.sites}

HandlersAlone ==
    round = "user" => \A c \in Contexts : ctx[c] \subseteq RootsOf(c) \cup Callable

(* A routine has the name of no function, so neither has a copy of it.     *)
RoutineNames ==
    round # "dispatch" =>
        \A r \in Routines : r[2] = "orig" /\ \A f \in prog.funcs : f[1] # r[1]

Separated ==
    round # "user" =>
        \E R : /\ Separates(R)
               /\ round = "routine" => \A c \in Contexts : ctx[c] \subseteq R[c] \cup Routines

ApartInv == ContextsOK /\ HandlersAlone /\ RoutineNames /\ Separated

LEMMA InputCallable ==
  ASSUME prog \in Programs
  PROVE  /\ \A c \in prog.calls : c.arg \in (prog.funcs \ Handlers) \cup {NoFn}
         /\ \A s \in prog.stores : s.vals \subseteq prog.funcs \ Handlers
         /\ \A r \in Routines : r[2] = "orig" /\ \A f \in prog.funcs : f[1] # r[1]
<1>1. IsProgram(prog)
  BY ProgramsAssumption
<1> DEFINE fields == {s.at : s \in prog.stores} \cup {d.at : d \in prog.sites}
<1>2. prog.calls \subseteq
        [in : prog.funcs, to : prog.funcs \ Handlers, arg : (prog.funcs \ Handlers) \cup {NoFn}]
  BY <1>1 DEF IsProgram, Handlers
<1>3. prog.stores \subseteq
        [in : prog.funcs, at : fields, kind : {"named", "param", "reg"},
         vals : SUBSET (prog.funcs \ Handlers)]
  BY <1>1 DEF IsProgram, Handlers
<1> HIDE DEF fields
<1>4. \A c \in prog.calls : c.arg \in (prog.funcs \ Handlers) \cup {NoFn}
  BY <1>2
<1>5. \A s \in prog.stores : s.vals \subseteq prog.funcs \ Handlers
  BY <1>3
<1>6. ASSUME NEW r \in Routines
      PROVE  r[2] = "orig" /\ \A f \in prog.funcs : f[1] # r[1]
  <2>1. PICK u \in prog.uses : r = u.routine
    BY DEF Routines
  <2>2. r = <<r[1], "orig">> /\ r \notin prog.funcs
    BY <2>1, InputOK
  <2>3. \A f \in prog.funcs : f = <<f[1], "orig">>
    BY InputOK
  <2>4. \A f \in prog.funcs : f[1] # r[1]
    BY <2>2, <2>3
  <2>5. r[2] = "orig"
    BY <2>2
  <2> QED BY <2>4, <2>5
<1> QED BY <1>4, <1>5, <1>6

LEMMA ApartInit ==
  ASSUME Init
  PROVE  ApartInv
<1>1. prog \in Programs /\ round = "user" /\ stage = "main" /\ ctx = Roots
  BY DEF Init
<1>2. \A c \in Contexts : ctx[c] = RootsOf(c)
  BY <1>1 DEF Roots, RootsOf, Contexts
<1>3. \A c \in Contexts : ~Finished(c)
  BY <1>1 DEF Finished, Prios
<1> QED BY <1>1, <1>2, <1>3, InputCallable
        DEF ApartInv, ContextsOK, HandlersAlone, RoutineNames, Separated

(* In the input every target of a function, and all that is stored, may be *)
(* called; a register has the name of no function and of no copy.          *)
LEMMA CallableNames ==
  ASSUME TypeInv, round = "user"
  PROVE  /\ Callable \cap Handlers = {}
         /\ \A x \in Callable : x \in prog.funcs \/ x[2] = "reg"
<1>1. prog \in Programs /\ ProgOK
  BY DEF TypeInv, StageOK
<1>2. \A d \in prog.sites : d.reg = <<d.reg[1], "reg">>
  BY <1>1, InputOK
<1>3. \A h \in Handlers : h = <<h[1], "orig">>
  BY <1>1, InputOK DEF ProgOK
<1>4. \A d \in prog.sites : d.reg \notin Handlers /\ d.reg[2] = "reg"
  BY <1>2, <1>3
<1> QED BY <1>4 DEF Callable

LEMMA TargetsCallable ==
  ASSUME TypeInv, round = "user", NEW f
  PROVE  Targets(f) \subseteq Callable
<1>1. prog \in Programs /\ ProgOK
  BY DEF TypeInv, StageOK
<1>2. DirectCalls(f) \subseteq Callable
  BY <1>1, TargetCells DEF Callable
<1>3. AddressTaken(f) \subseteq Callable
  <2>1. \A s \in prog.stores : s.vals \subseteq Callable
    BY <1>1, InputCallable DEF Callable
  <2>2. \A c \in prog.calls : c.arg # NoFn => c.arg \in Callable
    BY <1>1, InputCallable DEF Callable
  <2> QED BY <2>1, <2>2 DEF AddressTaken, Within
<1>4. {d.reg : d \in Within(f, prog.sites)} \subseteq Callable
  BY DEF Within, Callable
<1> QED BY <1>2, <1>3, <1>4 DEF Targets

LEMMA StoredForCallable ==
  ASSUME TypeInv, round = "user", NEW R
  PROVE  StoredFor(R) \subseteq Callable
<1>1. prog \in Programs
  BY DEF TypeInv, StageOK
<1>2. \A s \in prog.stores : s.vals \subseteq Callable
  BY <1>1, InputCallable DEF Callable
<1>3. \A c \in prog.calls : c.arg # NoFn => c.arg \in Callable
  BY <1>1, InputCallable DEF Callable
<1> QED BY <1>2, <1>3 DEF StoredFor, ForwardsTo

(* A routine has no body to follow.                                        *)
LEMMA RoutineTargets ==
  ASSUME ProgOK, round = "routine", NEW r, r \notin prog.funcs
  PROVE  Targets(r) = {}
<1>1. DirectCalls(r) = {}
  BY DEF ProgOK, DirectCalls, Within
<1>2. RoutineCalls(r) = {}
  BY DEF ProgOK, RoutineCalls, Within
<1> QED BY <1>1, <1>2 DEF Targets

LEMMA SameModule ==
  ASSUME UNCHANGED <<prog, round>>
  PROVE  /\ Handlers' = Handlers /\ Callable' = Callable /\ Routines' = Routines
         /\ \A c : RootsOf(c)' = RootsOf(c)
         /\ \A f : Targets(f)' = Targets(f)
         /\ \A f : Followed(f)' = Followed(f)
<1>1. \A f : /\ DirectCalls(f)' = DirectCalls(f) /\ RoutineCalls(f)' = RoutineCalls(f)
             /\ AddressTaken(f)' = AddressTaken(f)
             /\ Within(f, prog.sites)' = Within(f, prog.sites)
  BY DEF DirectCalls, RoutineCalls, AddressTaken, Within
<1>2. \A f : Targets(f)' = Targets(f)
  BY <1>1 DEF Targets
<1>3. \A f : Followed(f)' = Followed(f)
  BY <1>1 DEF Followed
<1> QED BY <1>2, <1>3 DEF Handlers, Callable, Routines, RootsOf

LEMMA SameSeparation ==
  ASSUME UNCHANGED <<prog, round>>, NEW R, Separates(R)
  PROVE  Separates(R)'
BY SameModule DEF Separates

(* One context grows by what its functions name, or by what is stored for  *)
(* it; the others stay.                                                    *)
LEMMA GrowthIs ==
  ASSUME TypeInv, Expand \/ JoinStored
  PROVE  /\ UNCHANGED <<prog, round, stage>> /\ stage \in Contexts /\ ~Finished(stage)
         /\ \A c \in Contexts : c # stage => ctx'[c] = ctx[c]
         /\ ctx[stage] \subseteq ctx'[stage]
         /\ \A x \in ctx'[stage] \ ctx[stage] :
               \/ \E f \in ctx[stage] : x \in Targets(f)
               \/ round # "routine" /\ x \in StoredFor(Reads(ctx[stage]))
<1>1. ctx \in [Contexts -> SUBSET Cells]
  BY DEF TypeInv, StateOK
<1>2. stage \in Contexts /\ UNCHANGED <<prog, round, stage>>
  BY DEF Expand, JoinStored, Joins, Prios, Contexts
<1>3. ~Finished(stage)
  BY <1>2 DEF Finished, Contexts, Prios
<1>4. CASE Expand
  <2> DEFINE more == UNION {Targets(f) : f \in ctx[stage]}
  <2>1. ctx' = [ctx EXCEPT ![stage] = @ \cup more]
    BY <1>4 DEF Expand
  <2>2. \A x \in more : \E f \in ctx[stage] : x \in Targets(f)
    OBVIOUS
  <2> HIDE DEF more
  <2> QED BY <1>1, <1>2, <1>3, <2>1, <2>2
<1>5. CASE JoinStored
  <2> DEFINE more == StoredFor(Reads(ctx[stage]))
  <2>1. ctx' = [ctx EXCEPT ![stage] = @ \cup more]
    BY <1>5 DEF JoinStored
  <2>2. round # "routine"
    BY <1>5 DEF JoinStored, Joins
  <2> HIDE DEF more
  <2>3. /\ \A c \in Contexts : c # stage => ctx'[c] = ctx[c]
        /\ ctx'[stage] = ctx[stage] \cup more
    BY <1>1, <1>2, <2>1
  <2> QED BY <1>2, <1>3, <2>2, <2>3 DEF more
<1> QED BY <1>4, <1>5

LEMMA ApartGrowth ==
  ASSUME TypeInv, ApartInv, Expand \/ JoinStored
  PROVE  ApartInv'
<1>1. /\ UNCHANGED <<prog, round, stage>> /\ stage \in Contexts /\ ~Finished(stage)
      /\ \A c \in Contexts : c # stage => ctx'[c] = ctx[c]
      /\ ctx[stage] \subseteq ctx'[stage]
      /\ \A x \in ctx'[stage] \ ctx[stage] :
            \/ \E f \in ctx[stage] : x \in Targets(f)
            \/ round # "routine" /\ x \in StoredFor(Reads(ctx[stage]))
  BY GrowthIs
<1>2. /\ Callable' = Callable /\ Routines' = Routines
      /\ \A c : RootsOf(c)' = RootsOf(c)
      /\ \A f : Targets(f)' = Targets(f)
  BY <1>1, SameModule
<1>3. ContextsOK'
  <2> SUFFICES ASSUME NEW c \in Contexts
               PROVE  /\ RootsOf(c) \subseteq ctx'[c]
                      /\ Finished(c)' => \A f \in ctx'[c] : Targets(f) \subseteq ctx'[c]
    BY <1>2 DEF ContextsOK, Closed
  <2>1. RootsOf(c) \subseteq ctx[c] /\ (Finished(c) => Closed(ctx[c]))
    BY <1>1 DEF ApartInv, ContextsOK
  <2>2. Finished(c)' = Finished(c)
    BY <1>1 DEF Finished
  <2> QED BY <1>1, <2>1, <2>2 DEF Closed
<1>4. HandlersAlone'
  <2> SUFFICES ASSUME round = "user", NEW c \in Contexts
               PROVE  ctx'[c] \subseteq RootsOf(c) \cup Callable
    BY <1>1, <1>2 DEF HandlersAlone
  <2>1. ctx[c] \subseteq RootsOf(c) \cup Callable
    BY DEF ApartInv, HandlersAlone
  <2>2. \A x \in ctx'[stage] \ ctx[stage] : x \in Callable
    BY <1>1, TargetsCallable, StoredForCallable
  <2> QED BY <1>1, <2>1, <2>2
<1>5. RoutineNames'
  BY <1>1, <1>2 DEF ApartInv, RoutineNames
<1>6. Separated'
  <2>1. CASE round = "user"
    BY <1>1, <2>1 DEF Separated
  <2>2. CASE round # "user"
    <3>1. PICK R : /\ Separates(R)
                   /\ round = "routine" => \A c \in Contexts : ctx[c] \subseteq R[c] \cup Routines
      BY <2>2 DEF ApartInv, Separated
    <3>2. Separates(R)'
      BY <1>1, <3>1, SameSeparation
    <3>3. ASSUME round = "routine", NEW c \in Contexts
          PROVE  ctx'[c] \subseteq R[c] \cup Routines
      <4>1. ctx[c] \subseteq R[c] \cup Routines
        BY <3>1, <3>3
      <4>2. ASSUME NEW f \in ctx[c] PROVE Targets(f) \subseteq R[c] \cup Routines
        <5>1. RoutineCalls(f) \subseteq Routines
          BY DEF RoutineCalls, Within, Routines
        <5>2. CASE f \in R[c]
          <6>1. DirectCalls(f) \subseteq R[c]
            BY <3>1, <5>2 DEF Separates, Followed
          <6> QED BY <3>3, <5>1, <6>1 DEF Targets
        <5>3. CASE f \in Routines
          <6>1. f \notin prog.funcs
            BY <3>3, <5>3 DEF ApartInv, RoutineNames
          <6> QED BY <3>3, <6>1, RoutineTargets DEF TypeInv
        <5> QED BY <4>1, <5>2, <5>3
      <4> QED BY <1>1, <3>3, <4>1, <4>2
    <3> QED BY <1>1, <1>2, <3>2, <3>3 DEF Separated
  <2> QED BY <2>1, <2>2
<1> QED BY <1>3, <1>4, <1>5, <1>6 DEF ApartInv

LEMMA ApartDone ==
  ASSUME TypeInv, ApartInv, ContextDone
  PROVE  ApartInv'
<1>1. /\ UNCHANGED <<prog, round, ctx>> /\ stage \in Contexts
      /\ Closed(ctx[stage]) /\ stage' = NextStage(stage)
  BY DEF ContextDone
<1>2. /\ Callable' = Callable /\ Routines' = Routines
      /\ \A c : RootsOf(c)' = RootsOf(c)
      /\ \A f : Targets(f)' = Targets(f)
  BY <1>1, SameModule
<1>3. ContextsOK'
  <2> SUFFICES ASSUME NEW c \in Contexts
               PROVE  /\ RootsOf(c) \subseteq ctx[c]
                      /\ Finished(c)' => \A f \in ctx[c] : Targets(f) \subseteq ctx[c]
    BY <1>1, <1>2 DEF ContextsOK, Closed
  <2>1. RootsOf(c) \subseteq ctx[c] /\ (Finished(c) => Closed(ctx[c]))
    BY <1>1 DEF ApartInv, ContextsOK
  <2>2. Finished(c)' => Finished(c) \/ c = stage
    BY <1>1 DEF Finished, NextStage, Contexts, Prios
  <2> QED BY <1>1, <2>1, <2>2 DEF Closed
<1>4. HandlersAlone'
  BY <1>1, <1>2 DEF ApartInv, HandlersAlone
<1>5. RoutineNames'
  BY <1>1, <1>2 DEF ApartInv, RoutineNames
<1>6. Separated'
  BY <1>1, <1>2, SameSeparation DEF ApartInv, Separated
<1> QED BY <1>3, <1>4, <1>5, <1>6 DEF ApartInv

(* The steps that leave the contexts and the module alone.                 *)
LEMMA ApartKept ==
  ASSUME ApartInv, UNCHANGED <<prog, round, ctx>>,
         stage' = stage \/ stage' \notin Contexts \cup {"rewrite"}
  PROVE  ApartInv'
<1>2. /\ Callable' = Callable /\ Routines' = Routines
      /\ \A c : RootsOf(c)' = RootsOf(c)
      /\ \A f : Targets(f)' = Targets(f)
  BY SameModule
<1>3. ContextsOK'
  <2> SUFFICES ASSUME stage' = stage, stage \in Contexts \cup {"rewrite"}, NEW c \in Contexts
               PROVE  /\ RootsOf(c) \subseteq ctx[c]
                      /\ Finished(c)' => \A f \in ctx[c] : Targets(f) \subseteq ctx[c]
    BY <1>2 DEF ContextsOK, Closed
  <2>1. RootsOf(c) \subseteq ctx[c] /\ (Finished(c) => Closed(ctx[c]))
    BY DEF ApartInv, ContextsOK
  <2>2. Finished(c)' = Finished(c)
    BY DEF Finished
  <2> QED BY <2>1, <2>2 DEF Closed
<1>4. HandlersAlone'
  BY <1>2 DEF ApartInv, HandlersAlone
<1>5. RoutineNames'
  BY <1>2 DEF ApartInv, RoutineNames
<1>6. Separated'
  BY <1>2, SameSeparation DEF ApartInv, Separated
<1> QED BY <1>3, <1>4, <1>5, <1>6 DEF ApartInv

(* A finished context is closed.                                           *)
LEMMA AtRewrite ==
  ASSUME ApartInv, stage = "rewrite"
  PROVE  \A c \in Contexts :
            /\ RootsOf(c) \subseteq ctx[c]
            /\ \A f \in ctx[c] : Targets(f) \subseteq ctx[c]
BY DEF ApartInv, ContextsOK, Finished, Closed

(* The routines the functions of a context call once they are split.       *)
UsedIn(c) == {RoutineFor(u.in, u.routine) : u \in {v \in prog.uses : v.in \in ctx[c]}}
SplitParts == [c \in Contexts |-> (ctx[c] \cap prog.funcs) \cup UsedIn(c)]

(* In which contexts the routine of a context is.                          *)
LEMMA UsedFacts ==
  ASSUME TypeInv, ApartInv, round = "routine", stage = "rewrite",
         NEW c \in Contexts, NEW x \in UsedIn(c)
  PROVE  /\ x \notin prog.funcs
         /\ \/ x[2] = "orig" /\ x \in ctx[c] /\ \A d \in Contexts : d # c => x \notin ctx[d]
            \/ x[2] = c /\ c \in Prios
            \/ c = "main" /\ x[2] = "orig" /\ x \in ctx["main"]
<1>1. PICK u \in prog.uses : u.in \in ctx[c] /\ x = RoutineFor(u.in, u.routine)
  BY DEF UsedIn
<1>2. u.routine \in Routines /\ u.in \in prog.funcs
  BY DEF Routines, TypeInv, ProgOK
<1>3. \A r \in Routines : r[2] = "orig" /\ \A f \in prog.funcs : f[1] # r[1]
  BY DEF ApartInv, RoutineNames
<1>4. x[1] = u.routine[1]
  BY <1>1 DEF RoutineFor, CopyOf
<1>5. x \notin prog.funcs
  BY <1>2, <1>3, <1>4
<1>6. u.routine \in ctx[c]
  <2>1. u.routine \in RoutineCalls(u.in)
    BY DEF RoutineCalls, Within
  <2>2. u.routine \in Targets(u.in)
    BY <2>1 DEF Targets
  <2> QED BY <1>1, <2>2, AtRewrite
<1>7. \A d, e \in Contexts : d # e => ctx[d] \cap ctx[e] \cap prog.funcs = {}
  <2>1. PICK R : Separates(R) /\ \A d \in Contexts : ctx[d] \subseteq R[d] \cup Routines
    BY DEF ApartInv, Separated
  <2>2. prog.funcs \cap Routines = {}
    BY <1>3
  <2> SUFFICES ASSUME NEW d \in Contexts, NEW e \in Contexts, d # e,
                      NEW f \in ctx[d] \cap ctx[e] \cap prog.funcs
               PROVE  FALSE
    OBVIOUS
  <2>3. f \in R[d] /\ f \in R[e]
    BY <2>1, <2>2
  <2> QED BY <2>1, <2>3 DEF Separates
<1>8. \A d \in Contexts : d # c => u.in \notin ctx[d]
  BY <1>1, <1>2, <1>7
<1>9. CASE c = "main"
  <2>1. x = u.routine
    BY <1>1, <1>8, <1>9 DEF RoutineFor, Contexts
  <2> QED BY <1>2, <1>3, <1>5, <1>6, <1>9, <2>1
<1>10. CASE c = "low"
  <2>1. CASE u.routine \in SharedRoutines("low")
    <3>1. x = CopyOf(u.routine, "low")
      BY <1>1, <1>10, <2>1 DEF RoutineFor
    <3> QED BY <1>5, <1>10, <3>1, CopyFacts DEF Prios
  <2>2. CASE u.routine \notin SharedRoutines("low")
    <3>1. x = u.routine
      BY <1>1, <1>8, <1>10, <2>2 DEF RoutineFor, Contexts
    <3>2. u.routine \notin ctx["main"] /\ u.routine \notin ctx["high"]
      BY <1>2, <1>6, <1>10, <2>2 DEF SharedRoutines, Other
    <3> QED BY <1>2, <1>3, <1>5, <1>6, <1>10, <3>1, <3>2 DEF Contexts
  <2> QED BY <2>1, <2>2
<1>11. CASE c = "high"
  <2>1. CASE u.routine \in SharedRoutines("high")
    <3>1. x = CopyOf(u.routine, "high")
      BY <1>1, <1>8, <1>11, <2>1 DEF RoutineFor, Contexts
    <3> QED BY <1>5, <1>11, <3>1, CopyFacts DEF Prios
  <2>2. CASE u.routine \notin SharedRoutines("high")
    <3>1. x = u.routine
      BY <1>1, <1>8, <1>11, <2>2 DEF RoutineFor, Contexts
    <3>2. u.routine \notin ctx["main"] /\ u.routine \notin ctx["low"]
      BY <1>2, <1>6, <1>11, <2>2 DEF SharedRoutines, Other
    <3> QED BY <1>2, <1>3, <1>5, <1>6, <1>11, <3>1, <3>2 DEF Contexts
  <2> QED BY <2>1, <2>2
<1> QED BY <1>9, <1>10, <1>11 DEF Contexts

(* The parts of the split module, and that they separate it: stated for a  *)
(* value R, as the contexts are computed anew in the same step.            *)
LEMMA SplitSeparates ==
  ASSUME TypeInv, ApartInv, SplitRoutines, NEW R, R = SplitParts
  PROVE  Separates(R)'
<1>1. round = "routine" /\ stage = "rewrite" /\ round' = "dispatch" /\ ProgOK
  BY DEF SplitRoutines, StartRound, TypeInv
<1>2. /\ prog'.calls = prog.calls
      /\ prog'.low = prog.low /\ prog'.high = prog.high
      /\ prog'.uses = {[u EXCEPT !.routine = RoutineFor(u.in, u.routine)] : u \in prog.uses}
  BY <1>1, SplitProg
<1>3. \A c \in Contexts : R[c] = (ctx[c] \cap prog.funcs) \cup UsedIn(c)
  BY DEF SplitParts
<1>4. \A c \in Contexts :
        RootsOf(c) \subseteq ctx[c] /\ \A f \in ctx[c] : Targets(f) \subseteq ctx[c]
  BY <1>1, AtRewrite
<1>5. ASSUME NEW c \in Contexts PROVE RootsOf(c)' \subseteq R[c]
  <2>1. RootsOf(c)' = RootsOf(c)
    BY <1>2 DEF RootsOf
  <2>2. RootsOf(c) \subseteq prog.funcs
    BY <1>1 DEF RootsOf, ProgOK, Handlers
  <2> QED BY <1>3, <1>4, <2>1, <2>2
<1>6. ASSUME NEW c \in Contexts, NEW f \in R[c]
      PROVE  Followed(f)' \subseteq R[c]
  <2>1. DirectCalls(f)' = DirectCalls(f)
    BY <1>2 DEF DirectCalls, Within
  <2>2. DirectCalls(f) \subseteq R[c]
    <3>1. CASE f \in ctx[c]
      <4>1. DirectCalls(f) \subseteq ctx[c]
        BY <1>1, <1>4, <3>1 DEF Targets
      <4>2. DirectCalls(f) \subseteq prog.funcs
        BY <1>1, TargetCells
      <4> QED BY <1>3, <4>1, <4>2
    <3>2. CASE f \in UsedIn(c)
      <4>1. f \notin prog.funcs
        BY <1>1, <3>2, UsedFacts
      <4> QED BY <1>1, <4>1 DEF DirectCalls, Within, ProgOK
    <3> QED BY <1>3, <3>1, <3>2
  <2>3. ASSUME NEW u \in prog'.uses, u.in = f PROVE u.routine \in R[c]
    <3>1. PICK o \in prog.uses : u = [o EXCEPT !.routine = RoutineFor(o.in, o.routine)]
      BY <1>2
    <3>2. o \in [in : prog.funcs, routine : Functions]
      BY <1>1 DEF ProgOK
    <3>3. u.in = o.in /\ u.routine = RoutineFor(o.in, o.routine)
      BY <3>1, <3>2
    <3>4. f \in ctx[c]
      <4>1. f \in prog.funcs
        BY <2>3, <3>2, <3>3
      <4> QED BY <1>1, <1>3, <4>1, UsedFacts
    <3> QED BY <1>3, <2>3, <3>3, <3>4 DEF UsedIn
  <2> QED BY <2>1, <2>2, <2>3 DEF Followed, RoutineCalls, Within
<1>7. ASSUME NEW c \in Contexts, NEW d \in Contexts, c # d, NEW x \in R[c], x \in R[d]
      PROVE  FALSE
  <2>1. \A b \in Contexts : \A y \in UsedIn(b) :
          /\ y \notin prog.funcs
          /\ \/ y[2] = "orig" /\ y \in ctx[b] /\ \A e \in Contexts : e # b => y \notin ctx[e]
             \/ y[2] = b /\ b \in Prios
             \/ b = "main" /\ y[2] = "orig" /\ y \in ctx["main"]
    BY <1>1, UsedFacts
  <2>2. CASE x \in prog.funcs
    <3>1. x \in ctx[c] /\ x \in ctx[d]
      BY <1>3, <1>7, <2>1, <2>2
    <3>2. PICK Q : Separates(Q) /\ \A b \in Contexts : ctx[b] \subseteq Q[b] \cup Routines
      BY <1>1 DEF ApartInv, Separated
    <3>3. x \notin Routines
      BY <1>1, <2>2 DEF ApartInv, RoutineNames
    <3>4. x \in Q[c] /\ x \in Q[d]
      BY <3>1, <3>2, <3>3
    <3> QED BY <1>7, <3>2, <3>4 DEF Separates
  <2>3. CASE x \notin prog.funcs
    <3>1. x \in UsedIn(c) /\ x \in UsedIn(d)
      BY <1>3, <1>7, <2>3
    <3>2. "orig" \notin Prios
      BY DEF Prios
    <3> QED BY <1>7, <2>1, <3>1, <3>2
  <2> QED BY <2>2, <2>3
<1> QED BY <1>5, <1>6, <1>7 DEF Separates

LEMMA ApartSplit ==
  ASSUME TypeInv, ApartInv, SplitRoutines
  PROVE  ApartInv'
<1>1. /\ round' = "dispatch" /\ stage' = "main" /\ ProgOK
      /\ ctx' = [main |-> {Main}, low |-> prog.low, high |-> prog.high]
  BY DEF SplitRoutines, StartRound, TypeInv
<1>2. prog'.low = prog.low /\ prog'.high = prog.high
  BY <1>1, SplitProg
<1>3. ContextsOK'
  <2>1. \A c \in Contexts : RootsOf(c)' \subseteq ctx'[c]
    BY <1>1, <1>2 DEF RootsOf, Contexts
  <2>2. \A c \in Contexts : ~Finished(c)'
    BY <1>1 DEF Finished, Prios
  <2> QED BY <2>1, <2>2 DEF ContextsOK
<1>4. HandlersAlone' /\ RoutineNames'
  BY <1>1 DEF HandlersAlone, RoutineNames
<1>5. Separated'
  <2>1. PICK R : R = SplitParts
    OBVIOUS
  <2>2. Separates(R)'
    BY <2>1, SplitSeparates
  <2> QED BY <1>1, <2>2 DEF Separated
<1> QED BY <1>3, <1>4, <1>5 DEF ApartInv

(* The parts of the duplicated module: main's functions, and for each      *)
(* priority what it has to itself and its copies.                          *)
OwnOf(p) == {f \in ctx[p] \cap prog.funcs : f # Main /\ f \notin Shared(p)}
CopiedParts ==
    [c \in Contexts |-> IF c = "main" THEN ctx["main"] \cap prog.funcs
                        ELSE OwnOf(c) \cup Copies(c)]

(* A function of main's is not a priority's own, nor one priority's the    *)
(* other's; handlers are in their own context only.                        *)
LEMMA OwnFacts ==
  ASSUME TypeInv, ApartInv, round = "user", ~ReentersMain, NEW p \in Prios
  PROVE  /\ Main \notin ctx[p]
         /\ OwnOf(p) \cap ctx["main"] = {}
         /\ OwnOf(p) \cap OwnOf(Other(p)) = {}
         /\ \A f \in prog.funcs : f \in RewriteSet(p) <=> f \in OwnOf(p)
<1>0. prog \in Programs /\ ProgOK
  BY DEF TypeInv, StageOK
<1>1. Main \notin ctx[p] /\ Main \notin ctx[Other(p)]
  BY DEF ReentersMain, Other, Prios
<1>2. \A c \in Contexts : ctx[c] \cap Handlers \subseteq RootsOf(c)
  BY CallableNames DEF ApartInv, HandlersAlone
<1>3. Main \notin Handlers /\ prog.low \cap prog.high = {}
  BY <1>0 DEF ProgOK
<1>4. ctx["main"] \cap Handlers = {}
  BY <1>2, <1>3 DEF RootsOf, Contexts
<1>5. ctx[p] \cap ctx[Other(p)] \cap Handlers = {}
  BY <1>2, <1>3 DEF RootsOf, Contexts, Other, Prios
<1>6. OwnOf(p) \cap ctx["main"] = {}
  BY <1>4 DEF OwnOf, Shared
<1>7. OwnOf(p) \cap OwnOf(Other(p)) = {}
  BY <1>5 DEF OwnOf, Shared
<1>8. \A f \in prog.funcs : f \in RewriteSet(p) <=> f \in OwnOf(p)
  BY <1>0, SharedFacts DEF RewriteSet, OwnOf
<1> QED BY <1>1, <1>6, <1>7, <1>8

(* A call of the new module names the copy of the caller's priority where  *)
(* there is one.                                                           *)
LEMMA RenamedFor ==
  ASSUME TypeInv, ApartInv, round = "user", ~ReentersMain, NEW p \in Prios,
         NEW in, in \in OwnOf(p) \cup Copies(p), NEW f \in Shared(p)
  PROVE  Renamed(in, f) = CopyOf(f, p)
<1>0. prog \in Programs /\ ProgOK
  BY DEF TypeInv, StageOK
<1>1. in \in RewriteSet(p)
  BY <1>0, OwnFacts DEF RewriteSet, OwnOf
<1>2. Other(p) \in Prios /\ Other(Other(p)) = p /\ \A q \in Prios : q = p \/ q = Other(p)
  BY DEF Other, Prios
<1>3. in \notin RewriteSet(Other(p))
  <2>1. CASE in \in OwnOf(p)
    <3>1. in \in prog.funcs
      BY <2>1 DEF OwnOf
    <3> QED BY <1>2, <2>1, <3>1, OwnFacts
  <2>2. CASE in \in Copies(p)
    <3>1. in[2] = p /\ in \notin prog.funcs
      BY <1>0, <2>2, SharedFacts
    <3>2. in \notin Copies(Other(p))
      <4>1. p # Other(p)
        BY DEF Other, Prios
      <4> QED BY <1>0, <1>2, <3>1, <4>1, SharedFacts
    <3>3. in \notin ctx[Other(p)]
      <4>1. ctx[Other(p)] \subseteq RootsOf(Other(p)) \cup Callable
        BY <1>2 DEF ApartInv, HandlersAlone, Contexts, Prios
      <4>2. RootsOf(Other(p)) \subseteq prog.funcs
        BY <1>0 DEF RootsOf, ProgOK, Handlers
      <4>3. in[2] # "reg"
        BY <3>1 DEF Prios
      <4> QED BY <3>1, <4>1, <4>2, <4>3, CallableNames
    <3> QED BY <3>2, <3>3 DEF RewriteSet
  <2> QED BY <2>1, <2>2
<1>4. CopyFor(in, f) = {p}
  BY <1>1, <1>2, <1>3 DEF CopyFor
<1> QED BY <1>4 DEF Renamed, Respelled

(* An instruction of the new module is one of the old, or a clone of one   *)
(* that a shared function has; its caller tells which.                     *)
LEMMA ClonedCaller ==
  ASSUME ProgOK, prog \in Programs, NEW o \in Cloned(prog.calls)
  PROVE  /\ o.in \in prog.funcs => o \in prog.calls
         /\ \A p \in Prios : o.in \in Copies(p) =>
               \E j \in prog.calls : j.in \in Shared(p) /\ o.to = j.to
         /\ o.to \in prog.funcs \ Handlers
<1>1. o.to \in prog.funcs \ Handlers
  BY ClonedCalls
<1>2. CASE o \in prog.calls
  <2>1. o.in \in prog.funcs
    BY <1>2 DEF ProgOK
  <2>2. \A p \in Prios : o.in \notin Copies(p)
    BY <2>1, SharedFacts
  <2> QED BY <1>1, <1>2, <2>2
<1>3. ASSUME NEW q \in Prios, NEW j \in prog.calls, j.in \in Shared(q),
             o = [j EXCEPT !.in = CopyOf(j.in, q)]
      PROVE  /\ o.in \in prog.funcs => o \in prog.calls
             /\ \A p \in Prios : o.in \in Copies(p) =>
                   \E i \in prog.calls : i.in \in Shared(p) /\ o.to = i.to
  <2>1. j \in [in : prog.funcs, to : prog.funcs \ Handlers, arg : Functions \cup {NoFn}]
    BY DEF ProgOK
  <2>2. o.in = CopyOf(j.in, q) /\ o.to = j.to
    BY <1>3, <2>1
  <2>3. o.in \in Copies(q)
    BY <1>3, <2>2 DEF Copies
  <2>4. o.in \notin prog.funcs /\ \A p \in Prios : o.in \in Copies(p) => p = q
    BY <2>3, SharedFacts
  <2> QED BY <1>3, <2>2, <2>4
<1> QED BY <1>1, <1>2, <1>3, ClonedFrom

LEMMA DuplicateSeparates ==
  ASSUME TypeInv, ApartInv, Duplicate, NEW R, R = CopiedParts
  PROVE  Separates(R)'
<1>1. /\ round = "user" /\ stage = "rewrite" /\ round' = "routine" /\ ~ReentersMain
      /\ ProgOK /\ prog \in Programs
  BY DEF Duplicate, StartRound, CannotDuplicate, TypeInv, StageOK
<1>2. /\ prog'.calls = IF NothingShared THEN prog.calls ELSE Alive(FinalCalls)
      /\ prog'.low = prog.low /\ prog'.high = prog.high
  <2>1. CASE NothingShared
    BY <2>1 DEF Duplicate
  <2>2. CASE ~NothingShared
    BY <1>1, <2>2, DuplicatedProg
  <2> QED BY <2>1, <2>2
<1>3. /\ R["main"] = ctx["main"] \cap prog.funcs
      /\ \A p \in Prios : R[p] = OwnOf(p) \cup Copies(p)
  BY DEF CopiedParts, Contexts, Prios
<1>4. \A c \in Contexts :
        RootsOf(c) \subseteq ctx[c] /\ \A f \in ctx[c] : Targets(f) \subseteq ctx[c]
  BY <1>1, AtRewrite
<1>5. \A p \in Prios :
        /\ Main \notin ctx[p]
        /\ OwnOf(p) \cap ctx["main"] = {}
        /\ OwnOf(p) \cap OwnOf(Other(p)) = {}
        /\ \A f \in prog.funcs : f \in RewriteSet(p) <=> f \in OwnOf(p)
  BY <1>1, OwnFacts
<1>6. ASSUME NEW c \in Contexts PROVE RootsOf(c)' \subseteq R[c]
  <2>1. RootsOf(c)' = RootsOf(c) /\ RootsOf(c) \subseteq ctx[c]
    BY <1>2, <1>4 DEF RootsOf
  <2>2. CASE c = "main"
    BY <1>1, <1>3, <2>1, <2>2 DEF RootsOf, ProgOK
  <2>3. CASE c \in Prios
    <3>1. RootsOf(c) \subseteq Handlers /\ Handlers \subseteq prog.funcs /\ Main \notin Handlers
      BY <1>1, <2>3 DEF RootsOf, Handlers, Prios, ProgOK
    <3>2. Shared(c) \cap Handlers = {}
      BY DEF Shared
    <3> QED BY <1>3, <2>1, <2>3, <3>1, <3>2 DEF OwnOf
  <2> QED BY <2>2, <2>3 DEF Contexts, Prios
<1>7. ASSUME NEW o \in Cloned(prog.calls), NEW c \in Contexts, o.in \in R[c]
      PROVE  Renamed(o.in, o.to) \in R[c]
  <2>1. o.to \in prog.funcs \ Handlers
    BY <1>1, ClonedCaller
  <2>2. ASSUME NEW b \in Contexts, NEW j \in prog.calls, j.in \in ctx[b]
        PROVE  j.to \in ctx[b]
    <3>1. j.to \in Targets(j.in)
      BY <1>1 DEF Targets, DirectCalls, Within
    <3> QED BY <1>4, <2>2, <3>1
  <2>3. CASE c = "main"
    <3>1. o.in \in ctx["main"] /\ o.in \in prog.funcs
      BY <1>3, <1>7, <2>3
    <3>2. o \in prog.calls
      BY <1>1, <3>1, ClonedCaller
    <3>3. o.to \in ctx["main"]
      BY <2>2, <3>1, <3>2 DEF Contexts
    <3>4. CopyFor(o.in, o.to) = {}
      BY <1>5, <3>1 DEF CopyFor
    <3>5. Renamed(o.in, o.to) = o.to
      BY <3>4 DEF Renamed, Respelled
    <3> QED BY <1>3, <2>1, <2>3, <3>3, <3>5
  <2>4. CASE c \in Prios
    <3>1. o.in \in OwnOf(c) \cup Copies(c)
      BY <1>3, <1>7, <2>4
    <3>2. o.to \in ctx[c]
      <4>1. CASE o.in \in OwnOf(c)
        <5>1. o.in \in ctx[c] /\ o.in \in prog.funcs
          BY <4>1 DEF OwnOf
        <5>2. o \in prog.calls
          BY <1>1, <5>1, ClonedCaller
        <5> QED BY <2>2, <5>1, <5>2
      <4>2. CASE o.in \in Copies(c)
        <5>1. PICK j \in prog.calls : j.in \in Shared(c) /\ o.to = j.to
          BY <1>1, <2>4, <4>2, ClonedCaller
        <5>2. j.in \in ctx[c]
          BY <5>1 DEF Shared
        <5> QED BY <2>2, <5>1, <5>2
      <4> QED BY <3>1, <4>1, <4>2
    <3>3. CASE o.to \in Shared(c)
      <4>1. Renamed(o.in, o.to) = CopyOf(o.to, c)
        BY <1>1, <2>4, <3>1, <3>3, RenamedFor
      <4> QED BY <1>3, <2>4, <3>3, <4>1 DEF Copies
    <3>4. CASE o.to \notin Shared(c)
      <4>1. o.to \in OwnOf(c)
        BY <1>5, <2>1, <2>4, <3>2, <3>4 DEF OwnOf
      <4>2. CopyFor(o.in, o.to) = {}
        <5>1. Other(c) \in Prios /\ \A q \in Prios : q = c \/ q = Other(c)
          BY <2>4 DEF Other, Prios
        <5>2. o.to \notin Shared(Other(c))
          <6>1. o.to \notin {Main} \cup Handlers
            BY <2>1, <4>1 DEF OwnOf
          <6>2. Other(Other(c)) = c
            BY <2>4 DEF Other, Prios
          <6> QED BY <2>1, <3>2, <3>4, <6>1, <6>2 DEF Shared
        <5> QED BY <3>4, <5>1, <5>2 DEF CopyFor
      <4>3. Renamed(o.in, o.to) = o.to
        BY <4>2 DEF Renamed, Respelled
      <4> QED BY <1>3, <2>4, <4>1, <4>3
    <3> QED BY <3>3, <3>4
  <2> QED BY <2>3, <2>4 DEF Contexts, Prios
<1>8. ASSUME NEW c \in Contexts, NEW f \in R[c]
      PROVE  Followed(f)' \subseteq R[c]
  <2> SUFFICES ASSUME NEW k \in prog'.calls, k.in = f
               PROVE  k.to \in R[c]
    BY <1>1 DEF Followed, DirectCalls, Within
  <2>1. \E o \in Cloned(prog.calls) : k.in = o.in /\ k.to = Renamed(o.in, o.to)
    <3>1. CASE NothingShared
      <4>1. k \in Cloned(prog.calls)
        BY <1>2, <3>1 DEF Cloned
      <4>2. Renamed(k.in, k.to) = k.to
        BY <3>1 DEF NothingShared, Renamed, Respelled, CopyFor
      <4> QED BY <4>1, <4>2
    <3>2. CASE ~NothingShared
      BY <1>1, <1>2, <3>2, FinalCallFrom DEF Alive
    <3> QED BY <3>1, <3>2
  <2> QED BY <1>7, <1>8, <2>1
<1>9. ASSUME NEW c \in Contexts, NEW d \in Contexts, c # d PROVE R[c] \cap R[d] = {}
  <2>1. \A p \in Prios : Copies(p) \cap prog.funcs = {} /\ OwnOf(p) \subseteq prog.funcs
    BY <1>1, SharedFacts DEF OwnOf
  <2>2. \A p \in Prios : R["main"] \cap R[p] = {}
    BY <1>3, <1>5, <2>1
  <2>3. Copies("low") \cap Copies("high") = {}
    <3>1. \A x \in Copies("low") : x[2] = "low"
      BY <1>1, SharedFacts DEF Prios
    <3>2. \A x \in Copies("high") : x[2] = "high"
      BY <1>1, SharedFacts DEF Prios
    <3> QED BY <3>1, <3>2
  <2>4. OwnOf("low") \cap OwnOf("high") = {}
    BY <1>5 DEF Prios, Other
  <2>5. R["low"] \cap R["high"] = {}
    BY <1>3, <2>1, <2>3, <2>4 DEF Prios
  <2> QED BY <1>9, <2>2, <2>5 DEF Contexts, Prios
<1> QED BY <1>6, <1>8, <1>9 DEF Separates

LEMMA ApartDuplicate ==
  ASSUME TypeInv, ApartInv, Duplicate
  PROVE  ApartInv'
<1>1. /\ round = "user" /\ round' = "routine" /\ stage' = "main"
      /\ ProgOK /\ prog \in Programs
      /\ ctx' = [main |-> {Main}, low |-> prog.low, high |-> prog.high]
  BY DEF Duplicate, StartRound, TypeInv, StageOK
<1>2. /\ prog'.low = prog.low /\ prog'.high = prog.high
      /\ prog'.funcs \subseteq AllNames
      /\ \A u \in prog'.uses : u.routine \in Routines
  <2>1. CASE NothingShared
    BY <2>1 DEF Duplicate, AllNames, Routines
  <2>2. CASE ~NothingShared
    BY <1>1, <2>2, DuplicatedProg, ClonedUses DEF NewFuncs, AllNames, AllCopies, Alive
  <2> QED BY <2>1, <2>2
<1>3. ContextsOK'
  <2>1. \A c \in Contexts : RootsOf(c)' \subseteq ctx'[c]
    BY <1>1, <1>2 DEF RootsOf, Contexts
  <2>2. \A c \in Contexts : ~Finished(c)'
    BY <1>1 DEF Finished, Prios
  <2> QED BY <2>1, <2>2 DEF ContextsOK
<1>4. HandlersAlone'
  BY <1>1 DEF HandlersAlone
<1>5. RoutineNames'
  <2>1. \A r \in Routines : r[2] = "orig" /\ \A f \in prog.funcs : f[1] # r[1]
    BY <1>1 DEF ApartInv, RoutineNames
  <2>2. \A x \in AllNames : \E f \in prog.funcs : x[1] = f[1]
    <3>1. ASSUME NEW p \in Prios, NEW x \in Copies(p)
          PROVE  \E f \in prog.funcs : x[1] = f[1]
      <4>1. PICK f \in Shared(p) : x = CopyOf(f, p)
        BY DEF Copies
      <4> QED BY <4>1, CopyFacts DEF Shared
    <3> QED BY <3>1 DEF AllNames, AllCopies, Prios
  <2>3. Routines' \subseteq Routines
    BY <1>2 DEF Routines
  <2> QED BY <1>2, <2>1, <2>2, <2>3 DEF RoutineNames
<1>6. Separated'
  <2>1. PICK R : R = CopiedParts
    OBVIOUS
  <2>2. Separates(R)'
    BY <2>1, DuplicateSeparates
  <2>3. \A c \in Contexts : ctx'[c] \subseteq R[c] \cup Routines'
    BY <1>1, <1>2, <2>2 DEF Separates, RootsOf, Contexts
  <2> QED BY <1>1, <2>2, <2>3 DEF Separated
<1> QED BY <1>3, <1>4, <1>5, <1>6 DEF ApartInv

LEMMA ApartStep ==
  ASSUME TypeInv, ApartInv, [Next]_vars
  PROVE  ApartInv'
<1>1. CASE FillCallees \/ AcceptCallGraph \/ Refuse
  BY <1>1, ApartKept DEF FillCallees, AcceptCallGraph, Refuse, Contexts
<1>2. CASE RunNext
  <2>1. UNCHANGED <<prog, round, ctx>> /\ stage' \in {"run", "trapped"}
    BY <1>2, RunKeeps
  <2> QED BY <2>1, ApartKept DEF Contexts
<1>3. CASE UNCHANGED vars
  BY <1>3, ApartKept DEF vars, compileVars
<1> QED BY <1>1, <1>2, <1>3, ApartGrowth, ApartDone, ApartDuplicate, ApartSplit
        DEF Next, CompileNext

LEMMA ApartInvHolds == Spec => []ApartInv
<1>1. Init => ApartInv
  BY ApartInit
<1>2. TypeInv /\ ApartInv /\ [Next]_vars => ApartInv'
  BY ApartStep
<1> QED BY <1>1, <1>2, TypeInvHolds, PTL DEF Spec

-----------------------------------------------------------------------------
(* What the call graph reaches: the recursive functions of Recursive and   *)
(* Executes.                                                               *)

LEMMA LeastNat ==
  ASSUME NEW T, T \subseteq Nat, T # {}
  PROVE  \E x \in T : \A y \in T : x <= y
<1>1. IsWellFoundedOn(OpToRel(<, Nat), Nat)
  BY NatLessThanWellFounded
<1>2. \E x \in T : \A y \in T : ~ (<<y, x>> \in OpToRel(<, Nat))
  BY <1>1, WFMin
<1>3. \E x \in T : \A y \in T : ~(y < x)
  BY <1>2, Zenon DEF OpToRel
<1> QED BY <1>3

(* A set of numbers that holds 0 and, with each number, the next.          *)
LEMMA UpTo ==
  ASSUME NEW N \in Nat, NEW P, 0 \in P, \A k \in 1..N : k - 1 \in P => k \in P
  PROVE  \A k \in 0..N : k \in P
<1> DEFINE Bad == {k \in 0..N : k \notin P}
<1> SUFFICES ASSUME Bad # {} PROVE FALSE
  OBVIOUS
<1>1. PICK k \in Bad : \A j \in Bad : k <= j
  <2>1. Bad \subseteq Nat
    OBVIOUS
  <2> HIDE DEF Bad
  <2> QED BY <2>1, LeastNat
<1>2. k \in 1..N /\ k - 1 \in 0..N /\ ~(k <= k - 1)
  OBVIOUS
<1>3. k - 1 \in P
  BY <1>1, <1>2
<1> QED BY <1>2, <1>3

(* c applies op N times, from first.                                       *)
Iterates(c, N, T, first, op) ==
    c \in [0..N -> T] /\ c[0] = first /\ \A k \in 1..N : c[k] = op[c[k - 1]]

LEMMA IterationExists ==
  ASSUME NEW N \in Nat, NEW T, NEW first \in T, NEW op \in [T -> T]
  PROVE  \E c : Iterates(c, N, T, first, op)
<1> DEFINE Runs(c, n) == Iterates(c, n, T, first, op)
           P == {n \in 0..N : \E c : Runs(c, n)}
<1>1. 0 \in P
  <2>1. Runs([i \in 0..0 |-> first], 0)
    BY DEF Iterates
  <2> HIDE DEF Runs
  <2> QED BY <2>1
<1>2. ASSUME NEW n \in 1..N, n - 1 \in P PROVE n \in P
  <2>1. PICK c : Runs(c, n - 1)
    BY <1>2
  <2>a. /\ c \in [0..(n - 1) -> T] /\ c[0] = first
        /\ \A k \in 1..(n - 1) : c[k] = op[c[k - 1]]
    BY <2>1 DEF Iterates
  <2> DEFINE d == [i \in 0..n |-> IF i = n THEN op[c[n - 1]] ELSE c[i]]
  <2>2. c[n - 1] \in T
    BY <2>a
  <2>3. d \in [0..n -> T]
    <3>1. \A i \in 0..n : i # n => i \in 0..(n - 1)
      OBVIOUS
    <3>2. \A i \in 0..n : d[i] \in T
      BY <2>a, <2>2, <3>1
    <3> QED BY <3>2
  <2>4. d[0] = first
    BY <2>a
  <2>5. ASSUME NEW k \in 1..n PROVE d[k] = op[d[k - 1]]
    <3>1. d[k - 1] = c[k - 1]
      OBVIOUS
    <3>2. CASE k = n
      BY <3>1, <3>2
    <3>3. CASE k # n
      <4>1. k \in 1..(n - 1) /\ d[k] = c[k]
        BY <3>3
      <4> QED BY <2>a, <3>1, <4>1
    <3> QED BY <3>2, <3>3
  <2>6. Runs(d, n)
    BY <2>3, <2>4, <2>5 DEF Iterates
  <2>7. n \in 0..N
    OBVIOUS
  <2> HIDE DEF Runs
  <2> QED BY <2>6, <2>7
<1> HIDE DEF P
<1>3. N \in P
  BY <1>1, <1>2, UpTo
<1>4. PICK c : Runs(c, N)
  BY <1>3 DEF P
<1> QED BY <1>4

(* At run time the call graph stays in the module.                         *)
LEMMA CallsInModule ==
  ASSUME TypeInv, stage \in {"callgraph", "run", "trapped"}, NEW f
  PROVE  CanCall(f) \subseteq prog.funcs
<1>1. DirectCalls(f) \subseteq prog.funcs
  BY TargetCells DEF TypeInv
<1>2. RoutineCalls(f) \subseteq prog.funcs
  BY DEF RoutineCalls, Within, Routines, TypeInv, StageOK
<1>3. \A d \in prog.sites : callees[d] \subseteq prog.funcs
  BY DEF TypeInv, RunOK
<1> QED BY <1>1, <1>2, <1>3 DEF CanCall, Within

(* The equations of Executes.                                              *)
LEMMA ExecutesIs ==
  ASSUME \A f : CanCall(f) \subseteq prog.funcs, IsFiniteSet(prog.funcs),
         NEW roots \in SUBSET prog.funcs
  PROVE  \E c \in [0..Cardinality(prog.funcs) -> SUBSET prog.funcs] :
            /\ c[0] = roots
            /\ \A k \in 1..Cardinality(prog.funcs) :
                  c[k] = c[k - 1] \cup UNION {CanCall(f) : f \in c[k - 1]}
            /\ Executes(roots) = c[Cardinality(prog.funcs)]
<1> DEFINE N == Cardinality(prog.funcs)
           T == SUBSET prog.funcs
           Next1(S) == S \cup UNION {CanCall(f) : f \in S}
<1>1. N \in Nat
  BY FS_CardinalityType
<1>2. \A S \in T : Next1(S) \in T
  OBVIOUS
<1> DEFINE step == [S \in T |-> Next1(S)]
<1>3. step \in [T -> T]
  BY <1>2
<1>a. PICK c : Iterates(c, N, T, roots, step)
  <2>1. roots \in T
    OBVIOUS
  <2> HIDE DEF N, T, step
  <2> QED BY <1>1, <1>3, <2>1, IterationExists
<1>4. /\ c \in [0..N -> T] /\ c[0] = roots
      /\ \A k \in 1..N : c[k] = step[c[k - 1]]
  <2> HIDE DEF N, T, step
  <2> QED BY <1>a DEF Iterates
<1>5. \A k \in 1..N : c[k] = Next1(c[k - 1])
  <2> TAKE k \in 1..N
  <2>1. c[k - 1] \in T
    BY <1>1, <1>4
  <2> QED BY <1>4, <2>1
<1> DEFINE F(g) == [n \in 0..N |-> IF n = 0 THEN roots ELSE Next1(g[n - 1])]
<1>6. c = F(c)
  <2>1. \A n \in 0..N : c[n] = IF n = 0 THEN roots ELSE Next1(c[n - 1])
    <3> TAKE n \in 0..N
    <3>1. CASE n = 0
      BY <1>4, <3>1
    <3>2. CASE n # 0
      <4>1. n \in 1..N
        BY <1>1, <3>2
      <4> HIDE DEF Next1
      <4> QED BY <1>5, <3>2, <4>1
    <3> QED BY <3>1, <3>2
  <2> HIDE DEF Next1, N, T
  <2> QED BY <1>4, <2>1
<1> DEFINE up == CHOOSE g : g = F(g)
<1>7. Executes(roots) = up[N]
  BY DEF Executes
<1>8. up = F(up)
  <2> HIDE DEF F
  <2> QED BY <1>6
<1> HIDE DEF up
<1>9. /\ DOMAIN up = 0..N /\ up[0] = roots
      /\ \A k \in 1..N : up[k] = Next1(up[k - 1])
  <2> HIDE DEF Next1
  <2>1. up = [n \in 0..N |-> IF n = 0 THEN roots ELSE Next1(up[n - 1])]
    BY <1>8 DEF F
  <2>2. DOMAIN up = 0..N
    BY <2>1
  <2>3. \A n \in 0..N : up[n] = IF n = 0 THEN roots ELSE Next1(up[n - 1])
    BY <2>1
  <2>4. 0 \in 0..N /\ \A k \in 1..N : k \in 0..N /\ k # 0
    BY <1>1
  <2> QED BY <2>2, <2>3, <2>4
<1>10. N \in 0..N
  BY <1>1
<1>11. up[N] = c[N]
  <2> DEFINE P == {k \in 0..N : up[k] = c[k]}
  <2>1. 0 \in P
    BY <1>1, <1>4, <1>9
  <2>2. ASSUME NEW k \in 1..N, k - 1 \in P PROVE k \in P
    <3> HIDE DEF Next1
    <3> QED BY <1>5, <1>9, <2>2
  <2> HIDE DEF P
  <2>3. N \in P
    BY <1>1, <1>10, <2>1, <2>2, UpTo
  <2> QED BY <2>3 DEF P
<1> QED BY <1>4, <1>5, <1>7, <1>11

(* Executes contains its roots, is closed under the call graph, and is in  *)
(* every closed set that contains the roots.                               *)
LEMMA ExecutesClosed ==
  ASSUME \A f : CanCall(f) \subseteq prog.funcs, IsFiniteSet(prog.funcs),
         NEW roots \in SUBSET prog.funcs
  PROVE  /\ roots \subseteq Executes(roots)
         /\ \A f \in Executes(roots) : CanCall(f) \subseteq Executes(roots)
         /\ \A S : roots \subseteq S /\ (\A f \in S : CanCall(f) \subseteq S)
               => Executes(roots) \subseteq S
<1> DEFINE N == Cardinality(prog.funcs)
           Shut(S) == \A f \in S : CanCall(f) \subseteq S
<1>1. N \in Nat
  BY FS_CardinalityType
<1>2. PICK c \in [0..N -> SUBSET prog.funcs] :
        /\ c[0] = roots
        /\ \A k \in 1..N : c[k] = c[k - 1] \cup UNION {CanCall(f) : f \in c[k - 1]}
        /\ Executes(roots) = c[N]
  BY ExecutesIs
<1> HIDE DEF N
<1>3. 0 \in 0..N /\ N \in 0..N /\ \A k \in 1..N : k \in 0..N /\ k - 1 \in 0..N
  BY <1>1
<1>4. roots \subseteq c[N]
  <2> DEFINE P == {k \in 0..N : roots \subseteq c[k]}
  <2>1. 0 \in P
    BY <1>2, <1>3
  <2>2. \A k \in 1..N : k - 1 \in P => k \in P
    BY <1>2, <1>3
  <2> HIDE DEF P
  <2>3. N \in P
    BY <1>1, <1>3, <2>1, <2>2, UpTo
  <2> QED BY <2>3 DEF P
<1>5. ASSUME NEW S, roots \subseteq S, Shut(S) PROVE c[N] \subseteq S
  <2> DEFINE P == {k \in 0..N : c[k] \subseteq S}
  <2>1. 0 \in P
    BY <1>2, <1>3, <1>5
  <2>2. \A k \in 1..N : k - 1 \in P => k \in P
    BY <1>2, <1>3, <1>5
  <2> HIDE DEF P
  <2>3. N \in P
    BY <1>1, <1>3, <2>1, <2>2, UpTo
  <2> QED BY <2>3 DEF P
<1>6. Shut(c[N])
  <2> DEFINE P == {k \in 0..N : Shut(c[k]) \/ Cardinality(c[k]) >= k + 1}
  <2>0. \A k \in 0..N : IsFiniteSet(c[k]) /\ Cardinality(c[k]) \in Nat
                        /\ Cardinality(c[k]) <= N
    BY FS_Subset, FS_CardinalityType DEF N
  <2>1. 0 \in P
    <3>1. CASE c[0] = {}
      BY <1>3, <3>1
    <3>2. CASE c[0] # {}
      <4>1. Cardinality(c[0]) # 0
        BY <1>3, <2>0, <3>2, FS_EmptySet
      <4> QED BY <1>3, <2>0, <4>1
    <3> QED BY <3>1, <3>2
  <2>2. ASSUME NEW k \in 1..N, k - 1 \in P PROVE k \in P
    <3>1. c[k] = c[k - 1] \cup UNION {CanCall(f) : f \in c[k - 1]}
      BY <1>2
    <3>2. CASE Shut(c[k - 1])
      <4>1. c[k] = c[k - 1]
        BY <3>1, <3>2
      <4> QED BY <1>3, <3>2, <4>1
    <3>3. CASE ~Shut(c[k - 1])
      <4>1. PICK x : x \in c[k] /\ x \notin c[k - 1]
        BY <3>1, <3>3
      <4>2. c[k - 1] \cup {x} \subseteq c[k]
        BY <3>1, <4>1
      <4>3. Cardinality(c[k - 1]) >= k
        BY <1>1, <2>2, <3>3
      <4>4. IsFiniteSet(c[k - 1] \cup {x})
            /\ Cardinality(c[k - 1] \cup {x}) = Cardinality(c[k - 1]) + 1
        BY <1>3, <2>0, <4>1, FS_AddElement
      <4>5. Cardinality(c[k - 1] \cup {x}) <= Cardinality(c[k])
        BY <1>3, <2>0, <4>2, FS_Subset
      <4>6. Cardinality(c[k]) \in Nat /\ Cardinality(c[k - 1]) \in Nat
        BY <1>3, <2>0
      <4>7. Cardinality(c[k]) >= k + 1
        BY <1>1, <4>3, <4>4, <4>5, <4>6
      <4> QED BY <1>3, <4>7
    <3> QED BY <3>2, <3>3
  <2> HIDE DEF P
  <2>3. N \in P
    BY <1>1, <1>3, <2>1, <2>2, UpTo
  <2>4. ~(Cardinality(c[N]) >= N + 1)
    BY <1>1, <1>3, <2>0
  <2> QED BY <2>3, <2>4 DEF P
<1> QED BY <1>2, <1>4, <1>5, <1>6

(* A set in which every function calls one of the set is recursive.        *)
LEMMA CycleRecursive ==
  ASSUME IsFiniteSet(prog.funcs), NEW S \in SUBSET prog.funcs, S # {},
         \A f \in S : CanCall(f) \cap S # {}
  PROVE  Recursive
<1> DEFINE N == Cardinality(prog.funcs)
           T == SUBSET prog.funcs
           Next1(A) == {f \in A : CanCall(f) \cap A # {}}
           step == [A \in T |-> Next1(A)]
<1>1. N \in Nat
  BY FS_CardinalityType
<1>2. step \in [T -> T]
  OBVIOUS
<1>a. PICK c : Iterates(c, N, T, prog.funcs, step)
  <2>1. prog.funcs \in T
    OBVIOUS
  <2> HIDE DEF N, T, step
  <2> QED BY <1>1, <1>2, <2>1, IterationExists
<1>3. /\ c \in [0..N -> T] /\ c[0] = prog.funcs
      /\ \A k \in 1..N : c[k] = step[c[k - 1]]
  <2> HIDE DEF N, T, step
  <2> QED BY <1>a DEF Iterates
<1>4. \A k \in 1..N : c[k] = Next1(c[k - 1])
  <2> TAKE k \in 1..N
  <2>1. c[k - 1] \in T
    BY <1>1, <1>3
  <2> QED BY <1>3, <2>1
<1> DEFINE F(g) == [n \in 0..N |-> IF n = 0 THEN prog.funcs ELSE Next1(g[n - 1])]
<1>5. c = F(c)
  <2>1. \A n \in 0..N : c[n] = IF n = 0 THEN prog.funcs ELSE Next1(c[n - 1])
    <3> TAKE n \in 0..N
    <3>1. CASE n = 0
      BY <1>3, <3>1
    <3>2. CASE n # 0
      <4>1. n \in 1..N
        BY <1>1, <3>2
      <4> HIDE DEF Next1
      <4> QED BY <1>4, <3>2, <4>1
    <3> QED BY <3>1, <3>2
  <2> HIDE DEF Next1, N, T
  <2> QED BY <1>3, <2>1
<1> DEFINE chain == CHOOSE g : g = F(g)
<1>6. Recursive <=> chain[N] # {}
  BY DEF Recursive
<1>7. chain = F(chain)
  <2> HIDE DEF F
  <2> QED BY <1>5
<1> HIDE DEF chain
<1>8. /\ chain[0] = prog.funcs
      /\ \A k \in 1..N : chain[k] = Next1(chain[k - 1])
  <2> HIDE DEF Next1
  <2>1. chain = [n \in 0..N |-> IF n = 0 THEN prog.funcs ELSE Next1(chain[n - 1])]
    BY <1>7 DEF F
  <2>2. \A n \in 0..N : chain[n] = IF n = 0 THEN prog.funcs ELSE Next1(chain[n - 1])
    BY <2>1
  <2>3. 0 \in 0..N /\ \A k \in 1..N : k \in 0..N /\ k # 0
    BY <1>1
  <2> QED BY <2>2, <2>3
<1>9. S \subseteq chain[N]
  <2> DEFINE P == {k \in 0..N : S \subseteq chain[k]}
  <2>1. 0 \in P
    BY <1>1, <1>8
  <2>2. \A k \in 1..N : k - 1 \in P => k \in P
    BY <1>8
  <2> HIDE DEF P
  <2>3. N \in P
    BY <1>1, <2>1, <2>2, UpTo
  <2> QED BY <2>3 DEF P
<1> QED BY <1>6, <1>9

-----------------------------------------------------------------------------
(* Calls keep contexts apart.                                              *)

(***************************************************************************)
(* What the allocator's interrupt regions and every static frame rest on:  *)
(* in the module legalize makes, no function and no runtime routine can be *)
(* reached by calls from two of main, the low and the high handlers.       *)
(***************************************************************************)
CallsApart ==
    stage \in {"callgraph", "run", "trapped"} =>
        \E R : /\ Main \in R["main"] /\ prog.low \subseteq R["low"]
               /\ prog.high \subseteq R["high"]
               /\ \A c \in Contexts : \A f \in R[c] :
                     DirectCalls(f) \cup RoutineCalls(f) \subseteq R[c]
               /\ \A c, d \in Contexts : c # d => R[c] \cap R[d] = {}

THEOREM CallsKeepContextsApart == Spec => []CallsApart
<1>1. TypeInv /\ ApartInv => CallsApart
  <2> SUFFICES ASSUME TypeInv, ApartInv, stage \in {"callgraph", "run", "trapped"}
               PROVE  \E R : /\ Main \in R["main"] /\ prog.low \subseteq R["low"]
                             /\ prog.high \subseteq R["high"]
                             /\ \A c \in Contexts : \A f \in R[c] :
                                   DirectCalls(f) \cup RoutineCalls(f) \subseteq R[c]
                             /\ \A c, d \in Contexts : c # d => R[c] \cap R[d] = {}
    BY DEF CallsApart
  <2>1. round = "dispatch"
    BY DEF TypeInv, StageOK
  <2>2. PICK R : Separates(R)
    BY <2>1 DEF ApartInv, Separated
  <2>3. Main \in R["main"] /\ prog.low \subseteq R["low"] /\ prog.high \subseteq R["high"]
    BY <2>2 DEF Separates, RootsOf, Contexts
  <2> QED BY <2>1, <2>2, <2>3 DEF Separates, Followed
<1> QED BY <1>1, TypeInvHolds, ApartInvHolds, PTL

(* In the module the callgraph pass accepted, no function can be executed,  *)
(* by calls or through pointers, in two of main, the low and the high       *)
(* context: what legalize duplicates and retargets functions for.           *)
ContextsApart ==
    stage \in {"run", "trapped"} =>
        /\ Executes({Main}) \cap Executes(prog.low) = {}
        /\ Executes({Main}) \cap Executes(prog.high) = {}
        /\ Executes(prog.low) \cap Executes(prog.high) = {}

LEMMA DirectApart ==
  ASSUME TypeInv, ApartInv, prog.sites = {}, stage \in {"run", "trapped"}
  PROVE  /\ Executes({Main}) \cap Executes(prog.low) = {}
         /\ Executes({Main}) \cap Executes(prog.high) = {}
         /\ Executes(prog.low) \cap Executes(prog.high) = {}
<1>1. round = "dispatch" /\ IsFiniteSet(prog.funcs)
      /\ {Main} \subseteq prog.funcs /\ prog.low \subseteq prog.funcs
      /\ prog.high \subseteq prog.funcs
  BY DEF TypeInv, StageOK, ProgOK, Handlers
<1>2. PICK R : Separates(R)
  BY <1>1 DEF ApartInv, Separated
<1>3. \A f : CanCall(f) \subseteq prog.funcs /\ CanCall(f) = Followed(f)
  <2>1. \A f : Within(f, prog.sites) = {}
    BY DEF Within
  <2> QED BY <1>1, <2>1, CallsInModule DEF CanCall, Followed
<1>4. /\ Executes({Main}) \subseteq R["main"]
      /\ Executes(prog.low) \subseteq R["low"]
      /\ Executes(prog.high) \subseteq R["high"]
  <2>1. \A c \in Contexts : RootsOf(c) \subseteq R[c] /\ \A f \in R[c] : CanCall(f) \subseteq R[c]
    BY <1>2, <1>3 DEF Separates
  <2>2. /\ {Main} \subseteq R["main"] /\ prog.low \subseteq R["low"]
        /\ prog.high \subseteq R["high"]
    BY <2>1 DEF RootsOf, Contexts
  <2>3. /\ \A f \in R["main"] : CanCall(f) \subseteq R["main"]
        /\ \A f \in R["low"] : CanCall(f) \subseteq R["low"]
        /\ \A f \in R["high"] : CanCall(f) \subseteq R["high"]
    BY <2>1 DEF Contexts
  <2> QED BY <1>1, <1>3, <2>2, <2>3, ExecutesClosed
<1>5. /\ R["main"] \cap R["low"] = {} /\ R["main"] \cap R["high"] = {}
      /\ R["low"] \cap R["high"] = {}
  BY <1>2 DEF Separates, Contexts
<1> QED BY <1>4, <1>5

(***************************************************************************)
(* What the allocator's regions take for granted holds of every program    *)
(* that calls through no pointer, whatever it calls and uses.              *)
(***************************************************************************)
THEOREM ApartWithoutDispatch == Spec => [](prog.sites = {} => Apart)
<1>1. TypeInv /\ ApartInv => (prog.sites = {} => Apart)
  BY DirectApart DEF Apart
<1> QED BY <1>1, TypeInvHolds, ApartInvHolds, PTL

-----------------------------------------------------------------------------
(* One activation.                                                         *)

(* No set of functions keeps calling itself.                               *)
NoCycle ==
    stage \in {"run", "trapped"} =>
        \A S \in SUBSET prog.funcs : S # {} => \E f \in S : CanCall(f) \cap S = {}

(* In every set that contains roots and what it can call.                  *)
ReachedFrom(roots, f) ==
    \A S : roots \subseteq S /\ (\A g \in S : CanCall(g) \subseteq S) => f \in S

RootsAt(l) == CASE l = 2 -> prog.high [] l = 1 -> prog.low [] OTHER -> {Main}

(* lev gives each activation the level of the newest handler below it.     *)
Levelled(lev) ==
    /\ lev \in [1..Len(stack) -> 0..2]
    /\ \A i \in 1..Len(stack) : ReachedFrom(RootsAt(lev[i]), stack[i].fn)
    /\ \A i \in 1..Len(stack) : lev[i] # 0 => \E j \in 1..i : Level(stack[j].fn) = lev[i]
    /\ \A i, j \in 1..Len(stack) : i <= j => lev[i] <= lev[j]
    /\ \A i \in 2..Len(stack) : lev[i - 1] = lev[i] => stack[i].fn \in CanCall(stack[i - 1].fn)

StackInv == NoCycle /\ \E lev : Levelled(lev)

LEMMA SameCalls ==
  ASSUME UNCHANGED <<prog, callees>>
  PROVE  /\ \A f : CanCall(f)' = CanCall(f) /\ Level(f)' = Level(f)
         /\ \A l : RootsAt(l)' = RootsAt(l)
         /\ \A roots, f : ReachedFrom(roots, f)' <=> ReachedFrom(roots, f)
<1>1. \A f : CanCall(f)' = CanCall(f)
  BY DEF CanCall, DirectCalls, RoutineCalls, Within
<1>2. \A roots, f : ReachedFrom(roots, f)' <=> ReachedFrom(roots, f)
  BY <1>1 DEF ReachedFrom
<1> QED BY <1>1, <1>2 DEF Level, RootsAt

(* An activation more, called by the newest one or a handler above it.     *)
LEMMA LevelPush ==
  ASSUME UNCHANGED <<prog, callees>>, NEW A, stack \in Seq(A), NEW e \in A,
         stack' = Append(stack, e),
         NEW lev, Levelled(lev), NEW l \in 0..2,
         ReachedFrom(RootsAt(l), e.fn),
         \A i \in 1..Len(stack) : lev[i] <= l,
         l # 0 => Level(e.fn) = l \/ (stack # <<>> /\ lev[Len(stack)] = l),
         stack # <<>> /\ lev[Len(stack)] = l => e.fn \in CanCall(Top.fn)
  PROVE  \E m : Levelled(m)'
<1> DEFINE n == Len(stack)
           m == [i \in 1..(n + 1) |-> IF i <= n THEN lev[i] ELSE l]
<1>1. /\ n \in Nat /\ Len(stack') = n + 1 /\ stack'[n + 1] = e
      /\ \A i \in 1..n : stack'[i] = stack[i]
  OBVIOUS
<1>2. /\ lev \in [1..n -> 0..2]
      /\ \A i \in 1..n : ReachedFrom(RootsAt(lev[i]), stack[i].fn)
      /\ \A i \in 1..n : lev[i] # 0 => \E j \in 1..i : Level(stack[j].fn) = lev[i]
      /\ \A i, j \in 1..n : i <= j => lev[i] <= lev[j]
      /\ \A i \in 2..n : lev[i - 1] = lev[i] => stack[i].fn \in CanCall(stack[i - 1].fn)
  BY DEF Levelled
<1>a. stack # <<>> <=> n # 0
  OBVIOUS
<1>b. stack # <<>> => Top = stack[n]
  BY DEF Top
<1> DEFINE q == stack'
<1>c. UNCHANGED <<prog, callees>>
  OBVIOUS
<1>3. \A i \in 1..n : m[i] = lev[i] /\ i \in 1..(n + 1)
  BY <1>1
<1>4. m[n + 1] = l /\ n + 1 \in 1..(n + 1)
  BY <1>1
<1>5. m \in [1..(n + 1) -> 0..2]
  BY <1>1, <1>2
<1>6. \A i \in 1..(n + 1) : i = n + 1 \/ i \in 1..n
  BY <1>1
<1> HIDE DEF n, m
<1>7. \A i \in 1..(n + 1) : ReachedFrom(RootsAt(m[i]), stack'[i].fn)
  BY <1>1, <1>2, <1>3, <1>4, <1>6
<1>8. ASSUME NEW i \in 1..(n + 1), m[i] # 0
      PROVE  \E j \in 1..i : Level(stack'[j].fn) = m[i]
  <2>1. ASSUME NEW k \in 1..n, lev[k] # 0, k <= i, lev[k] = m[i]
        PROVE  \E j \in 1..i : Level(stack'[j].fn) = m[i]
    <3>1. PICK j \in 1..k : Level(stack[j].fn) = lev[k]
      BY <1>2, <2>1
    <3>2. j \in 1..n /\ j \in 1..i
      BY <1>1, <2>1
    <3> QED BY <1>1, <2>1, <3>1, <3>2
  <2>2. CASE i \in 1..n
    BY <1>1, <1>3, <1>8, <2>1, <2>2
  <2>3. CASE i = n + 1
    <3>1. CASE Level(e.fn) = l
      BY <1>1, <1>4, <2>3, <3>1
    <3>2. CASE stack # <<>> /\ lev[n] = l
      <4>1. n \in 1..n /\ n <= i
        BY <1>1, <1>a, <2>3, <3>2
      <4> QED BY <1>4, <1>8, <2>1, <2>3, <3>2, <4>1
    <3> QED BY <1>4, <1>8, <2>3, <3>1, <3>2 DEF n
  <2> QED BY <1>6, <2>2, <2>3
<1>9. ASSUME NEW i \in 1..(n + 1), NEW j \in 1..(n + 1), i <= j PROVE m[i] <= m[j]
  <2>1. CASE j \in 1..n
    <3>1. i \in 1..n
      BY <1>1, <1>9, <2>1
    <3> QED BY <1>2, <1>3, <1>9, <2>1, <3>1
  <2>2. CASE j = n + 1 /\ i \in 1..n
    BY <1>3, <1>4, <2>2 DEF n
  <2>3. CASE j = n + 1 /\ i = n + 1
    BY <1>4, <2>3
  <2> QED BY <1>6, <2>1, <2>2, <2>3
<1>10. ASSUME NEW i \in 2..(n + 1), m[i - 1] = m[i]
       PROVE  stack'[i].fn \in CanCall(stack'[i - 1].fn)
  <2>1. CASE i \in 1..n
    <3>1. i \in 2..n /\ i - 1 \in 1..n
      BY <1>1, <2>1
    <3> QED BY <1>1, <1>2, <1>3, <1>10, <2>1, <3>1
  <2>2. CASE i = n + 1
    <3>1. n \in 1..n /\ i - 1 = n
      BY <1>1, <2>2
    <3>2. n # 0
      BY <3>1, <1>1
    <3>3. lev[n] = l
      BY <1>3, <1>4, <1>10, <2>2, <3>1
    <3> QED BY <1>1, <1>a, <1>b, <2>2, <3>1, <3>2, <3>3 DEF n
  <2> QED BY <1>1, <1>6, <2>1, <2>2
<1>11. /\ \A f : CanCall(f)' = CanCall(f) /\ Level(f)' = Level(f)
       /\ \A k : RootsAt(k)' = RootsAt(k)
       /\ \A roots, f : ReachedFrom(roots, f)' <=> ReachedFrom(roots, f)
  BY SameCalls
<1>12. PICK g : g = m
  OBVIOUS
<1>13. Levelled(g)'
  BY <1>1, <1>5, <1>7, <1>8, <1>9, <1>10, <1>11, <1>12 DEF Levelled
<1> QED BY <1>13

LEMMA LevelPop ==
  ASSUME UNCHANGED <<prog, callees>>, NEW A, stack \in Seq(A), Len(stack) > 1,
         stack' = SubSeq(stack, 1, Len(stack) - 1),
         NEW lev, Levelled(lev)
  PROVE  \E m : Levelled(m)'
<1> DEFINE n == Len(stack) - 1
           m == [i \in 1..n |-> lev[i]]
<1>1. /\ n \in Nat /\ Len(stack') = n
      /\ \A i \in 1..n : stack'[i] = stack[i] /\ i \in 1..Len(stack)
  BY SubSeqProperties
<1>2. /\ lev \in [1..Len(stack) -> 0..2]
      /\ \A i \in 1..Len(stack) : ReachedFrom(RootsAt(lev[i]), stack[i].fn)
      /\ \A i \in 1..Len(stack) : lev[i] # 0 => \E j \in 1..i : Level(stack[j].fn) = lev[i]
      /\ \A i, j \in 1..Len(stack) : i <= j => lev[i] <= lev[j]
      /\ \A i \in 2..Len(stack) : lev[i - 1] = lev[i] =>
            stack[i].fn \in CanCall(stack[i - 1].fn)
  BY DEF Levelled
<1>3. m \in [1..n -> 0..2] /\ \A i \in 1..n : m[i] = lev[i]
  BY <1>1, <1>2
<1>4. \A i \in 2..n : i \in 1..n /\ i - 1 \in 1..n /\ i \in 2..Len(stack)
  BY <1>1
<1>5. \A i \in 1..n : \A j \in 1..i : j \in 1..n
  BY <1>1
<1> HIDE DEF n, m
<1>6. /\ \A f : CanCall(f)' = CanCall(f) /\ Level(f)' = Level(f)
      /\ \A k : RootsAt(k)' = RootsAt(k)
      /\ \A roots, f : ReachedFrom(roots, f)' <=> ReachedFrom(roots, f)
  BY SameCalls
<1>7. PICK g : g = m
  OBVIOUS
<1>8. /\ \A i \in 1..n : ReachedFrom(RootsAt(g[i]), stack'[i].fn)
      /\ \A i \in 1..n : g[i] # 0 => \E j \in 1..i : Level(stack'[j].fn) = g[i]
      /\ \A i, j \in 1..n : i <= j => g[i] <= g[j]
      /\ \A i \in 2..n : g[i - 1] = g[i] => stack'[i].fn \in CanCall(stack'[i - 1].fn)
  BY <1>1, <1>2, <1>3, <1>4, <1>5, <1>7
<1>9. Levelled(g)'
  BY <1>1, <1>3, <1>6, <1>7, <1>8 DEF Levelled
<1> QED BY <1>9

LEMMA StackInit ==
  ASSUME Init
  PROVE  StackInv
<1>1. stage = "main" /\ stack = <<>>
  BY DEF Init
<1> DEFINE m == [i \in 1..0 |-> 0]
<1>2. Levelled(m)
  BY <1>1 DEF Levelled
<1> QED BY <1>1, <1>2 DEF StackInv, NoCycle

(* Compiling: nothing runs; the call graph it accepts has no cycle.        *)
LEMMA StackCompile ==
  ASSUME TypeInv, StackInv, CompileNext
  PROVE  StackInv'
<1>1. stack' = stack /\ stage \notin {"run", "trapped"}
  BY DEF CompileNext, Expand, JoinStored, Joins, Prios, Contexts, ContextDone, Duplicate,
         SplitRoutines, FillCallees, AcceptCallGraph, Refuse
<1>2. stack' = <<>>
  BY <1>1 DEF TypeInv, RunOK
<1> DEFINE m == [i \in 1..0 |-> 0]
<1>3. Levelled(m)'
  BY <1>2 DEF Levelled
<1>4. NoCycle'
  <2>1. CASE AcceptCallGraph
    <3>1. UNCHANGED <<prog, callees>> /\ ~Recursive /\ IsFiniteSet(prog.funcs)
      BY <2>1 DEF AcceptCallGraph, TypeInv, ProgOK
    <3>2. \A S \in SUBSET prog.funcs : S # {} => \E f \in S : CanCall(f) \cap S = {}
      BY <3>1, CycleRecursive
    <3> QED BY <3>1, <3>2, SameCalls DEF NoCycle
  <2>2. CASE ~AcceptCallGraph
    <3>1. stage' \notin {"run", "trapped"}
      BY <1>1, <2>2 DEF CompileNext, Expand, JoinStored, ContextDone, NextStage, Duplicate,
             StartRound, SplitRoutines, FillCallees, Refuse
    <3> QED BY <3>1 DEF NoCycle
  <2> QED BY <2>1, <2>2
<1> QED BY <1>3, <1>4 DEF StackInv

LEMMA StackRun ==
  ASSUME TypeInv, StackInv, RunNext
  PROVE  StackInv'
<1>1. /\ stage = "run" /\ stage' \in {"run", "trapped"}
      /\ UNCHANGED <<prog, callees>>
  BY RunKeeps
<1>2. NoCycle'
  BY <1>1, SameCalls DEF StackInv, NoCycle
<1> DEFINE A == [fn : prog.funcs, arg : Functions \cup {NoFn}]
<1>3. stack \in Seq(A)
  BY DEF TypeInv, RunOK
<1>4. \A f \in prog.funcs : \A a \in Functions \cup {NoFn} :
        Activation(f, a) \in A /\ Activation(f, a).fn = f
  BY DEF Activation
<1>5. Main \in prog.funcs /\ Handlers \subseteq prog.funcs
  BY DEF TypeInv, ProgOK
<1> HIDE DEF A
<1>6. PICK lev : Levelled(lev)
  BY DEF StackInv
<1>7. /\ lev \in [1..Len(stack) -> 0..2] /\ Len(stack) \in Nat
      /\ \A i \in 1..Len(stack) : ReachedFrom(RootsAt(lev[i]), stack[i].fn)
      /\ \A i \in 1..Len(stack) : lev[i] # 0 => \E j \in 1..i : Level(stack[j].fn) = lev[i]
      /\ \A i, j \in 1..Len(stack) : i <= j => lev[i] <= lev[j]
  BY <1>3, <1>6 DEF Levelled
<1>8. ASSUME stack = <<>>, stack' = <<Activation(Main, NoFn)>>
      PROVE  \E m : Levelled(m)'
  <2> DEFINE e == Activation(Main, NoFn)
  <2>1. e \in A /\ e.fn = Main
    BY <1>4, <1>5
  <2> HIDE DEF e
  <2>2. stack' = Append(stack, e)
    BY <1>8 DEF e
  <2>3. ReachedFrom(RootsAt(0), Main)
    BY DEF ReachedFrom, RootsAt
  <2> QED BY <1>1, <1>3, <1>6, <1>8, <2>1, <2>2, <2>3, LevelPush
<1>9. ASSUME stack' = stack PROVE \E m : Levelled(m)'
  <2>1. Levelled(lev)'
    BY <1>1, <1>6, <1>9, SameCalls DEF Levelled
  <2> QED BY <2>1
<1>10. ASSUME stack # <<>>, NEW a \in Functions \cup {NoFn},
              NEW f \in CanCall(Top.fn) \cap prog.funcs, Pushed(f, a)
       PROVE  \E m : Levelled(m)'
  <2> DEFINE e == Activation(f, a)
             n == Len(stack)
  <2>1. e \in A /\ e.fn = f
    BY <1>4
  <2> HIDE DEF e
  <2>2. stack' = Append(stack, e)
    BY <1>10 DEF e, Pushed
  <2>3. n \in 1..n /\ Top = stack[n]
    BY <1>3, <1>10 DEF Top
  <2>4. lev[n] \in 0..2 /\ \A i \in 1..n : lev[i] <= lev[n]
    BY <1>7, <2>3
  <2>5. ReachedFrom(RootsAt(lev[n]), f)
    <3>1. ReachedFrom(RootsAt(lev[n]), Top.fn)
      BY <1>7, <2>3
    <3> QED BY <3>1 DEF ReachedFrom
  <2> QED BY <1>1, <1>3, <1>6, <1>10, <2>1, <2>2, <2>4, <2>5, LevelPush
<1>11. ASSUME Len(stack) > 1, stack' = SubSeq(stack, 1, Len(stack) - 1)
       PROVE  \E m : Levelled(m)'
  BY <1>1, <1>3, <1>6, <1>11, LevelPop
<1>12. ASSUME NEW h \in Handlers, Preempt(h), Pushed(h, NoFn)
       PROVE  \E m : Levelled(m)'
  <2> DEFINE e == Activation(h, NoFn)
             n == Len(stack)
             l == Level(h)
  <2>1. e \in A /\ e.fn = h
    BY <1>4, <1>5
  <2> HIDE DEF e
  <2>2. stack' = Append(stack, e)
    BY <1>12 DEF e, Pushed
  <2>3. l \in 1..2 /\ ReachedFrom(RootsAt(l), h)
    BY DEF Level, Handlers, RootsAt, ReachedFrom
  <2>4. \A i \in 1..n : Level(stack[i].fn) < l
    BY <1>12 DEF Preempt
  <2> HIDE DEF l
  <2>5. ASSUME NEW i \in 1..n PROVE lev[i] < l
    <3>1. CASE lev[i] = 0
      BY <2>3, <3>1
    <3>2. CASE lev[i] # 0
      <4>1. PICK j \in 1..i : Level(stack[j].fn) = lev[i]
        BY <1>7, <3>2
      <4>2. j \in 1..n
        BY <1>7
      <4> QED BY <2>4, <4>1, <4>2
    <3> QED BY <3>1, <3>2
  <2>6. stack # <<>> => n \in 1..n
    BY <1>3
  <2>7. l \in 0..2 /\ \A i \in 1..n : lev[i] <= l /\ lev[i] # l
    BY <1>7, <2>3, <2>5
  <2>8. Level(e.fn) = l /\ ReachedFrom(RootsAt(l), e.fn)
    BY <2>1, <2>3 DEF l
  <2>9. \A i \in 1..Len(stack) : lev[i] <= l
    BY <2>7
  <2>10. ~(stack # <<>> /\ lev[Len(stack)] = l)
    BY <2>6, <2>7
  <2> QED BY <1>1, <1>3, <1>6, <2>1, <2>2, <2>7, <2>8, <2>9, <2>10, LevelPush
<1>13. \E m : Levelled(m)'
  BY <1>8, <1>9, <1>10, <1>11, <1>12, StackMoves
<1> QED BY <1>2, <1>13 DEF StackInv

LEMMA StackInvHolds == Spec => []StackInv
<1>1. Init => StackInv
  BY StackInit
<1>2. TypeInv /\ StackInv /\ [Next]_vars => StackInv'
  <2> SUFFICES ASSUME TypeInv, StackInv, [Next]_vars PROVE StackInv'
    OBVIOUS
  <2>1. CASE UNCHANGED vars
    <3>1. UNCHANGED <<prog, callees, stack, stage>>
      BY <2>1 DEF vars, compileVars
    <3>2. NoCycle'
      BY <3>1, SameCalls DEF StackInv, NoCycle
    <3>3. PICK lev : Levelled(lev)
      BY DEF StackInv
    <3>4. Levelled(lev)'
      BY <3>1, <3>3, SameCalls DEF Levelled
    <3> QED BY <3>2, <3>4 DEF StackInv
  <2> QED BY <2>1, StackCompile, StackRun DEF Next
<1> QED BY <1>1, <1>2, TypeInvHolds, PTL DEF Spec

(* Two activations of one function: at two levels it would be in two       *)
(* contexts, at one level it would call itself.                            *)
LEMMA NoTwoActivations ==
  ASSUME TypeInv, StackInv, ContextsApart, stage \in {"run", "trapped"},
         NEW i \in 1..Len(stack), NEW j \in 1..Len(stack), i < j,
         stack[i].fn = stack[j].fn
  PROVE  FALSE
<1> DEFINE n == Len(stack)
<1>1. PICK lev : Levelled(lev)
  BY DEF StackInv
<1>a. stack \in Seq([fn : prog.funcs, arg : Functions \cup {NoFn}])
  BY DEF TypeInv, RunOK
<1>2. /\ lev \in [1..n -> 0..2] /\ n \in Nat
      /\ \A k \in 1..n : ReachedFrom(RootsAt(lev[k]), stack[k].fn)
      /\ \A k, l \in 1..n : k <= l => lev[k] <= lev[l]
      /\ \A k \in 2..n : lev[k - 1] = lev[k] => stack[k].fn \in CanCall(stack[k - 1].fn)
  BY <1>1, <1>a DEF Levelled
<1>3. \A k \in 1..n : stack[k].fn \in prog.funcs
  BY StackTyped
<1> HIDE DEF n
<1>4. i \in 1..n /\ j \in 1..n
  BY DEF n
<1>5. CASE lev[i] # lev[j]
  <2>1. IsFiniteSet(prog.funcs) /\ {Main} \subseteq prog.funcs
        /\ prog.low \subseteq prog.funcs /\ prog.high \subseteq prog.funcs
    BY DEF TypeInv, ProgOK, Handlers
  <2>2. \A f : CanCall(f) \subseteq prog.funcs
    BY CallsInModule
  <2>3. ASSUME NEW l \in 0..2, NEW f, ReachedFrom(RootsAt(l), f)
        PROVE  f \in Executes(RootsAt(l))
    <3>1. RootsAt(l) \subseteq prog.funcs
      BY <2>1 DEF RootsAt
    <3>2. /\ RootsAt(l) \subseteq Executes(RootsAt(l))
          /\ \A g \in Executes(RootsAt(l)) : CanCall(g) \subseteq Executes(RootsAt(l))
      BY <2>1, <2>2, <3>1, ExecutesClosed
    <3> QED BY <2>3, <3>2 DEF ReachedFrom
  <2>4. \A k \in 1..n : stack[k].fn \in Executes(RootsAt(lev[k]))
    BY <1>2, <2>3
  <2>5. \A l, m \in 0..2 : l # m => Executes(RootsAt(l)) \cap Executes(RootsAt(m)) = {}
    <3>1. RootsAt(0) = {Main} /\ RootsAt(1) = prog.low /\ RootsAt(2) = prog.high
      BY DEF RootsAt
    <3>2. /\ Executes(RootsAt(0)) \cap Executes(RootsAt(1)) = {}
          /\ Executes(RootsAt(0)) \cap Executes(RootsAt(2)) = {}
          /\ Executes(RootsAt(1)) \cap Executes(RootsAt(2)) = {}
      BY <3>1 DEF ContextsApart
    <3>3. \A l \in 0..2 : l = 0 \/ l = 1 \/ l = 2
      OBVIOUS
    <3> QED BY <3>2, <3>3
  <2>6. lev[i] \in 0..2 /\ lev[j] \in 0..2
    BY <1>2, <1>4
  <2> QED BY <1>4, <1>5, <2>4, <2>5, <2>6
<1>6. CASE lev[i] = lev[j]
  <2> DEFINE S == {stack[k].fn : k \in i..(j - 1)}
  <2>1. \A k \in i..j : k \in 1..n /\ lev[k] = lev[i]
    <3> TAKE k \in i..j
    <3>1. k \in 1..n /\ i <= k /\ k <= j
      BY <1>2, <1>4
    <3>2. lev[i] <= lev[k] /\ lev[k] <= lev[j]
      BY <1>2, <1>4, <3>1
    <3>3. lev[i] \in 0..2 /\ lev[k] \in 0..2
      BY <1>2, <1>4, <3>1
    <3> QED BY <1>6, <3>1, <3>2, <3>3
  <2>2. S \subseteq prog.funcs /\ stack[i].fn \in S
    <3>1. i \in i..(j - 1) /\ \A k \in i..(j - 1) : k \in i..j
      BY <1>2, <1>4
    <3> QED BY <1>3, <2>1, <3>1
  <2>3. ASSUME NEW f \in S PROVE CanCall(f) \cap S # {}
    <3>1. PICK k \in i..(j - 1) : f = stack[k].fn
      OBVIOUS
    <3>2. k \in i..j /\ k + 1 \in i..j /\ k + 1 \in 2..n /\ (k + 1) - 1 = k
      BY <1>2, <1>4
    <3>3. stack[k + 1].fn \in CanCall(f)
      <4>1. lev[k] = lev[k + 1]
        BY <2>1, <3>2
      <4> QED BY <1>2, <3>1, <3>2, <4>1
    <3>4. stack[k + 1].fn \in S
      <4>1. CASE k + 1 = j
        BY <2>2, <4>1
      <4>2. CASE k + 1 # j
        <5>1. k + 1 \in i..(j - 1)
          BY <1>2, <1>4, <3>2, <4>2
        <5> QED BY <5>1
      <4> QED BY <4>1, <4>2
    <3> QED BY <3>3, <3>4
  <2> HIDE DEF S
  <2>4. S \in SUBSET prog.funcs /\ S # {}
    BY <2>2
  <2> QED BY <2>3, <2>4 DEF StackInv, NoCycle
<1> QED BY <1>5, <1>6

LEMMA ApartActivations ==
  ASSUME TypeInv, StackInv, ContextsApart
  PROVE  OneActivation
<1>1. CASE stage \in {"run", "trapped"}
  <2> SUFFICES ASSUME NEW i \in 1..Len(stack), NEW j \in 1..Len(stack), i # j
               PROVE  stack[i].fn # stack[j].fn
    BY DEF OneActivation
  <2>1. i < j \/ j < i
    OBVIOUS
  <2> QED BY <1>1, <2>1, NoTwoActivations
<1>2. CASE stage \notin {"run", "trapped"}
  <2>1. stack = <<>>
    BY <1>2 DEF TypeInv, RunOK
  <2> QED BY <2>1 DEF OneActivation
<1> QED BY <1>1, <1>2

(***************************************************************************)
(* Where the call graph keeps the contexts apart no function is ever       *)
(* active twice, whatever is called, dispatched or interrupted: recursion  *)
(* was refused, and a handler only interrupts lower levels.                *)
(***************************************************************************)
THEOREM OneActivationWhenApart == Spec => [](ContextsApart => OneActivation)
<1>1. TypeInv /\ StackInv => (ContextsApart => OneActivation)
  BY ApartActivations
<1> QED BY <1>1, TypeInvHolds, StackInvHolds, PTL

(***************************************************************************)
(* Every program that calls through no pointer runs with one activation of *)
(* each function, in main and in both handlers.                            *)
(***************************************************************************)
THEOREM OneActivationWithoutDispatch == Spec => [](prog.sites = {} => OneActivation)
<1>1. TypeInv /\ ApartInv /\ StackInv => (prog.sites = {} => OneActivation)
  <2> SUFFICES ASSUME TypeInv, ApartInv, StackInv, prog.sites = {} PROVE OneActivation
    OBVIOUS
  <2>1. ContextsApart
    BY DirectApart DEF ContextsApart
  <2> QED BY <2>1, ApartActivations
<1> QED BY <1>1, TypeInvHolds, ApartInvHolds, StackInvHolds, PTL
=============================================================================
