---------------------------- MODULE MCPic14Passes ----------------------------
(***************************************************************************)
(* Programs for model checking Pic14Passes: main, two functions, a table   *)
(* reader, and a handler, over one or two pages and three or four banks.   *)
(***************************************************************************)
EXTENDS Pic14Passes

U(b) == Banked("use", b)
S(b) == Banked("skip", b)
Lab(f, n) == Line("label", <<f, n>>)
Go(f, n) == Line("goto", <<f, n>>)
ICall(g, b) == [op |-> "icall", at |-> <<g>>, bank |-> b]
Read(t, b) == [op |-> "read", at |-> <<t>>, bank |-> b]
SRead(t, b) == [op |-> "sread", at |-> <<t>>, bank |-> b]
Dispatch(gs, b) == [op |-> "dispatch", at |-> gs, bank |-> b]
Ret == Line("ret", <<>>)
Op(op) == Line(op, <<>>)

Start == <<SetPage("main"), Line("call", <<"main">>), Op("sleep")>>

Program(core, order, bodies, page, base, isr) ==
    [core |-> core, order |-> order, body |-> bodies @@ ("start" :> Start),
     page |-> page @@ ("start" :> 0), base |-> base, isr |-> isr]

None == [f \in {} |-> 0]
AllIn(fs, n) == [f \in fs |-> n]

-----------------------------------------------------------------------------
(* Bank predictions, everything in page 0.                                 *)

FBodies ==
    {<<Ret>>, <<U(1), Ret>>,
     <<S(NoBank), Go("f", "1"), U(1), Lab("f", "1"), Ret>>,
     <<S(1), Go("f", "1"), U(2), Lab("f", "1"), Ret>>,
     <<S(1), Go("f", "1"), U(2), U(1), Lab("f", "1"), U(NoBank), Ret>>,
     <<U(2), Lab("f", "1"), U(2), S(2), Go("f", "1"), Ret>>,
     <<S(NoBank), Go("f", "1"), Ret, Lab("f", "1"), U(1), Ret>>,
     <<U(1), Op("asm"), Ret>>, <<U(1), Op("asm"), U(2), Ret>>,
     <<ICall("g", NoBank), Ret>>, <<U(1), ICall("g", 0), Ret>>,
     <<ICall("g", NoBank), U(2), Ret>>, <<Read("tb", 1), Ret>>}

GBodies == {<<Ret>>, <<U(2), Ret>>, <<S(NoBank), Go("g", "1"), U(0), Lab("g", "1"), Ret>>}

MBodies ==
    {<<U(0), ICall("f", NoBank), U(0), Lab("main", "1"), U(1), Ret>>,
     <<U(1), ICall("f", NoBank), U(1), Lab("main", "1"), U(1), Ret>>,
     <<U(2), ICall("f", 2), Lab("main", "1"), U(1), ICall("f", NoBank), U(2), Ret>>,
     <<Lab("main", "1"), ICall("f", 1), S(1), Go("main", "1"), U(1), Ret>>,
     <<U(1), Lab("main", "1"), ICall("f", NoBank), S(NoBank), Go("main", "1"), U(0), Ret>>,
     <<S(NoBank), Go("main", "1"), U(2), Lab("main", "1"), ICall("f", NoBank), U(2), Ret>>,
     <<U(1), Dispatch(<<"f", "g">>, 1), U(1), Lab("main", "1"), U(0), Ret>>}

\* g's copy for the handler has its own name.
Flat(core, m, f, g) ==
    Program(core, <<"start", "main", "f", "g", "tb">>,
            ("main" :> m) @@ ("f" :> f) @@ ("g" :> g),
            AllIn({"main", "f", "g", "tb"}, 0), "tb" :> 0, "")

BankPrograms ==
    {Flat(core, m, f, g) : core \in {"pic14", "pic14e"},
        m \in MBodies, f \in FBodies, g \in GBodies}

WithHandler(core, m, f, i) ==
    Program(core, <<"isr", "start", "main", "f", "g">>,
            ("main" :> m) @@ ("f" :> f) @@ ("g" :> <<U(0), Ret>>) @@ ("isr" :> i),
            AllIn({"isr", "main", "f", "g"}, 0), None, "isr")

HandlerBodies ==
    {<<U(1), Ret>>, <<S(1), Go("isr", "1"), U(1), Lab("isr", "1"), Ret>>,
     <<U(2), ICall("g", NoBank), U(0), Ret>>}

HandlerPrograms ==
    {WithHandler(core, m, f, i) : core \in {"pic14", "pic14e"},
        m \in {<<U(0), Lab("main", "1"), ICall("f", NoBank), U(1), S(1), Go("main", "1"), Ret>>,
               <<U(1), ICall("f", 1), U(1), Lab("main", "1"), Ret>>},
        f \in {<<Ret>>, <<U(2), Ret>>}, i \in HandlerBodies}

-----------------------------------------------------------------------------
(* Pages.  The tables come after the functions, so a function is never in  *)
(* a later page than a reader, nor a reader of a small table than it.      *)

Loop == <<Lab("main", "1")>>
Again == <<S(NoBank), Go("main", "1"), Ret>>

PPairs ==
    LET f == ICall("f", NoBank)
        g == ICall("g", NoBank)
        r == Read("tb", NoBank)
    IN  {<<f, g>>, <<g, g>>, <<r, r>>, <<g, r>>, <<r, f>>, <<Dispatch(<<"f", "g">>, NoBank), f>>}

Paged(m, f, i, pages, b) ==
    Program("pic14", <<"isr", "start", "main", "f", "g", "tb">>,
            ("main" :> m) @@ ("f" :> f) @@ ("g" :> <<Ret>>) @@ ("isr" :> i),
            pages @@ ("isr" :> 0), "tb" :> b, "isr")

PagePrograms ==
    {Paged(Loop \o xy \o Again, f, <<Read("tb", NoBank), Ret>>, pages, b) :
        xy \in PPairs,
        f \in {<<ICall("g", NoBank), ICall("g", NoBank), Ret>>, <<Read("tb", NoBank), Ret>>},
        pages \in [{"main", "f", "g", "tb"} -> 0..1], b \in 0..1}

LaidOut(p) ==
    /\ \A f \in DOMAIN p.page : p.page[f] <= p.page["tb"]
    /\ p.page["tb"] <= p.base["tb"]

\* Two reads in a row of a table that lies in another page than its reader:
\* what the staged_reader run is about.
Straddles(p) == p.page["tb"] < p.base["tb"]
RepeatedRead(p) ==
    Straddles(p) /\ \E k \in 2..Len(p.body["main"]) :
        p.body["main"][k].op = "read" /\ p.body["main"][k - 1].op = "read"

Family ==
    BankPrograms \cup HandlerPrograms
    \cup {p \in PagePrograms : LaidOut(p) /\ ~RepeatedRead(p)}

-----------------------------------------------------------------------------
\* Two reads in a row, by a staging routine or by any function, of a table
\* in page 1 whose reader is in the last words of page 0.
Repeated(op) ==
    Program("pic14", <<"start", "main", "stage", "tb">>,
            ("main" :> <<ICall("stage", NoBank), Ret>>)
            @@ ("stage" :> <<op, op, Ret>>),
            [main |-> 0, stage |-> 0, tb |-> 0], "tb" :> 1, "")

Staged == {Repeated(SRead("tb", NoBank)), Repeated(Read("tb", NoBank))}
=============================================================================
