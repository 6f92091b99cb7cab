------------------------------ MODULE MCOverlay ------------------------------
(***************************************************************************)
(* Small devices and program families for model checking Overlay.          *)
(*                                                                         *)
(* The shape is one a test would hardly build by hand: main calls a, and   *)
(* dispatches a callback to a or b; a calls the runtime routine r; a       *)
(* handler calls its copy c of a helper; a second handler preempts both.   *)
(* The families vary what is live at each site, slot order, homed callees, *)
(* handlers and globals.                                                   *)
(***************************************************************************)
EXTENDS Overlay

Site(f, cs, live) == [caller |-> f, callees |-> cs, live |-> live]

Widths == [main |-> <<2, 1>>, a |-> <<1, 2>>, b |-> <<1, 1, 1>>, r |-> <<2, 1>>,
           lo |-> <<1, 1>>, c |-> <<1, 1>>, hi |-> <<1>>]

InOrder(ws) == [i \in 1..Len(ws) |-> i]
Backwards(ws) == [i \in 1..Len(ws) |-> Len(ws) + 1 - i]

(* l1, l2: live in main at the call and at the dispatch; l3: live in a at  *)
(* the routine call; l4: live in lo at its call.                           *)
Prog(l1, l2, l3, l4, hot, homed, lows, highs, pinned, float) ==
    LET funcs == {"main", "a", "b", "r"} \cup lows \cup highs
                 \cup (IF lows = {} THEN {} ELSE {"c"})
    IN  [funcs |-> funcs,
         width |-> [f \in funcs |-> Widths[f]],
         heat  |-> [f \in funcs |-> IF f \in hot THEN Backwards(Widths[f])
                                                 ELSE InOrder(Widths[f])],
         sites |-> {Site("main", {"a"}, l1), Site("main", {"a", "b"}, l2),
                    Site("a", {"r"}, l3)}
                   \cup (IF lows = {} THEN {} ELSE {Site("lo", {"c"}, l4)}),
         low |-> lows, high |-> highs,
         routines |-> {"r"}, homed |-> homed \cap funcs,
         pinned |-> pinned, float |-> float]

(* PIC18-like: a window that ends inside the first BSR bank, two regions   *)
(* with a gap between them, a region end inside a BSR bank.                *)
Banks18 == <<[lo |-> 2, hi |-> 15], [lo |-> 32, hi |-> 44]>>
(* Banked mid-range: small banks with the SFR gap of each bank.            *)
Banks14 == <<[lo |-> 2, hi |-> 6], [lo |-> 10, hi |-> 14], [lo |-> 18, hi |-> 22]>>

Programs18 ==
    {Prog(l1, l2, l3, {1}, hot, homed, {"lo"}, highs, pinned, 3) :
        l1 \in {{}, {1, 2}}, l2 \in {{1}, {2}}, l3 \in {{}, {2}},
        hot \in {{}, {"main", "a"}}, homed \in {{}, {"a"}},
        highs \in {{}, {"hi"}}, pinned \in {{}, {12}, {38}}}

Programs14 ==
    {Prog(l1, {1}, l3, l4, {}, homed, lows, {}, pinned, float) :
        l1 \in {{}, {1}, {1, 2}}, l3 \in {{}, {1}, {2}}, l4 \in {{}, {1}, {2}},
        homed \in {{}, {"r", "c"}}, lows \in {{}, {"lo"}},
        pinned \in {{}, {4}}, float \in {0, 2}}

(* Programs the compiler refuses: a cycle, a chain of five calls, globals  *)
(* larger than RAM, and frames larger than RAM in the main context and in  *)
(* a handler's.                                                            *)
Blank(funcs, width, sites, lows, float) ==
    [funcs |-> funcs, width |-> [f \in funcs |-> width],
     heat |-> [f \in funcs |-> InOrder(width)], sites |-> sites,
     low |-> lows, high |-> {}, routines |-> {}, homed |-> {}, pinned |-> {},
     float |-> float]

Refusals ==
    {Blank({"main", "a"}, <<1>>, {Site("main", {"a"}, {}), Site("a", {"main"}, {})}, {}, 0),
     Blank({"main", "a", "b", "r", "c", "lo"}, <<1>>,
           {Site("main", {"a"}, {}), Site("a", {"b"}, {}), Site("b", {"r"}, {}),
            Site("r", {"c"}, {})}, {"lo"}, 0),
     Blank({"main"}, <<1>>, {}, {}, 40),
     Blank({"main", "a"}, <<8, 8>>, {Site("main", {"a"}, {1, 2})}, {}, 0),
     Blank({"main", "lo"}, <<8, 7>>, {}, {"lo"}, 0)}

(* Programs that end up above, below and away from a pinned global.        *)
ProgramsEnding ==
    Refusals
    \cup {[Blank({"main", "a", "lo"}, <<1>>, {Site("main", {"a"}, {1})}, lows, 2)
             EXCEPT !.pinned = pins] :
             lows \in {{}, {"lo"}}, pins \in {{}, {3}, {38}}}

(* A program whose only handler has irq_priority 1.                        *)
ProgramLoneHigh == {Prog({1}, {1}, {}, {}, {}, {}, {}, {"hi"}, {}, 3)}

(* main calls a, a calls r: three levels; lo calls c: two more.            *)
ProgramNested == {Prog({1}, {1}, {}, {1}, {}, {}, {"lo"}, {}, {}, 3)}
=============================================================================
