----------------------------- MODULE MCIsrSplit -----------------------------
(***************************************************************************)
(* Small programs for model checking IsrSplit: main, two handlers, two     *)
(* callbacks a and b, a helper u, a runtime routine, and the fields x      *)
(* (read by the low handler), y (by the high one) and z (by main).         *)
(***************************************************************************)
EXTENDS IsrSplit

F(n) == <<n, "orig">>
At(o) == [obj |-> o, fld |-> 0]
CallOf(f, g) == [in |-> F(f), to |-> F(g), arg |-> NoFn]
Passing(f, g, a) == [in |-> F(f), to |-> F(g), arg |-> F(a)]
StoreOf(f, o, g) == [in |-> F(f), at |-> At(o), kind |-> "named", vals |-> {F(g)}]
StoreArg(f, o) == [in |-> F(f), at |-> At(o), kind |-> "param", vals |-> {}]
StoreOneOf(f, o, gs) == [in |-> F(f), at |-> At(o), kind |-> "reg", vals |-> {F(g) : g \in gs}]
Site(f, o, r) == [in |-> F(f), at |-> At(o), reg |-> <<r, "reg">>]
Use(f) == [in |-> F(f), routine |-> F("mul")]

Prog(low, high, calls, uses, stores, copies, sites) ==
    [funcs |-> {Main} \cup low \cup high
               \cup UNION {{c.in, c.to} \cup ({c.arg} \ {NoFn}) : c \in calls}
               \cup UNION {s.vals \cup {s.in} : s \in stores} \cup {d.in : d \in sites},
     low |-> low, high |-> high, compat |-> {},
     calls |-> calls, uses |-> uses, stores |-> stores, copies |-> copies, sites |-> sites]

Lo == {F("lo")}
Hi == {F("hi")}

Sites(high) ==
    {Site("lo", "x", "1")} \cup (IF high = {} THEN {} ELSE {Site("hi", "y", "2")})

(* Callbacks registered by main for one handler or both, and a helper and  *)
(* a routine shared every which way: the routine is used where a handler   *)
(* comes by direct calls only.                                             *)
Direct ==
    {Prog(Lo, high, calls \cup {CallOf("lo", "u")}, uses,
          stores \cup {StoreOf("main", "x", "a")}, {}, Sites(high)) :
        high \in {{}, Hi},
        calls \in SUBSET {CallOf("main", "u"), CallOf("a", "u"), CallOf("b", "u"),
                          CallOf("hi", "u")},
        uses \in {{}, {Use("main"), Use("u")}},
        stores \in {{}, {StoreOf("main", "y", "b")}, {StoreOf("main", "x", "b")}}}

DirectRoutines ==
    {p \in Direct :
        /\ p.uses # {} => CallOf("a", "u") \notin p.calls /\ CallOf("b", "u") \notin p.calls
        /\ p.high = {} => CallOf("hi", "u") \notin p.calls
                           /\ StoreOf("main", "y", "b") \notin p.stores}

(* Registration through a setter, or through a handle that is copied into  *)
(* what a handler reads; a field only main dispatches.                     *)
Indirect ==
    {Prog(Lo, {}, {CallOf("lo", "u"), CallOf("main", "u"), CallOf("a", "u")} \cup calls, {},
          stores \cup local, {[in |-> F("main"), to |-> "x", from |-> "h"]},
          {Site("lo", "x", "1"), Site("main", "z", "3")}) :
        calls \in {{}, {Passing("main", "set", "b")}, {CallOf("main", "a")}},
        stores \in {{StoreOf("main", "x", "a"), StoreArg("set", "x")},
                    {StoreOf("main", "h", "a"), StoreArg("set", "x")},
                    {StoreOf("main", "x", "a"), StoreOf("main", "h", "b")},
                    {StoreOf("main", "x", "a"), StoreOf("set", "x", "b")}},
        local \in {{}, {StoreOf("main", "z", "u")}, {StoreOneOf("main", "z", {"u", "w"})}}}

(* An object with a field main dispatches and a field the handler does, as *)
(* in a scheduler's table; a single-vector handler, and callbacks that     *)
(* both contexts register and call.                                        *)
Table(k) == [obj |-> "t", fld |-> k]
FieldWise ==
    {[Prog(Lo, {}, calls, {},
           {[StoreOf("main", "t", "a") EXCEPT !.at = Table(0)],
            [StoreOf("main", "t", "b") EXCEPT !.at = Table(1)]} \cup stores, {},
           {[Site("lo", "t", "1") EXCEPT !.at = Table(0)],
            [Site("main", "t", "2") EXCEPT !.at = Table(1)]})
        EXCEPT !.compat = compat] :
        calls \in SUBSET {CallOf("a", "u"), CallOf("b", "u"), CallOf("main", "a")},
        stores \in {{}, {[StoreOf("main", "t", "w") EXCEPT !.at = Table(0)]}},
        compat \in {{}, Lo}}

(* Programs legalize refuses: a store for both priorities, a handler that  *)
(* reaches main, single-vector and priority handlers together, recursion,  *)
(* and a high site whose object has only the low priority's spelling.      *)
Refusals ==
    {Prog(Lo, Hi, {Passing("main", "set", "a")}, {},
          {[StoreArg("set", "t") EXCEPT !.at = Table(0)]}, {},
          {[Site("lo", "t", "1") EXCEPT !.at = Table(0)],
           [Site("hi", "t", "2") EXCEPT !.at = Table(1)]})} \cup
    {Prog(Lo, Hi, {}, {}, {StoreOf("main", "x", "a")}, {},
          {Site("lo", "x", "1"), Site("hi", "x", "2")}),
     Prog(Lo, {}, {CallOf("lo", "main")}, {}, {}, {}, {}),
     [Prog(Lo, Hi, {}, {}, {}, {}, {}) EXCEPT !.compat = Lo],
     Prog(Lo, {}, {CallOf("main", "u"), CallOf("u", "main")}, {}, {}, {}, {})}

(* lo dispatches x, where main stored a; a dispatches y, where main stored *)
(* b; both load the pointer into a register of the same name.              *)
ProgramChain ==
    {Prog(Lo, {}, {CallOf("main", "b")}, {},
          {StoreOf("main", "x", "a"), StoreOf("main", "y", "b")}, {},
          {Site("lo", "x", "1"), Site("a", "y", "1")})}

(* A callback multiplies, and so does main.                                *)
ProgramCallbackRoutine ==
    {Prog(Lo, {}, {}, {Use("main"), Use("a")}, {StoreOf("main", "x", "a")}, {},
          {Site("lo", "x", "1")})}

(* A field of main's own: one store by name, one of a selected function.   *)
ProgramSelected ==
    {Prog(Lo, {}, {CallOf("main", "u"), CallOf("lo", "u")}, {},
          {StoreOf("main", "z", "a"), StoreOneOf("main", "z", {"a", "b"})}, {},
          {Site("main", "z", "1")})}

(* main polls the field the low handler dispatches.                        *)
ProgramPolled ==
    {Prog(Lo, {}, {}, {}, {StoreOf("main", "x", "a")}, {},
          {Site("lo", "x", "1"), Site("main", "x", "2")})}

Family == DirectRoutines \cup Indirect \cup FieldWise \cup Refusals
=============================================================================
