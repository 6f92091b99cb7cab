---------------------------- MODULE MCPic18Banks ----------------------------
(***************************************************************************)
(* Programs for model checking Pic18Banks: main with joins, a loop, a      *)
(* dispatch and switches over two functions and a recipe; handlers of      *)
(* every register class, alone and nested.                                 *)
(***************************************************************************)
EXTENDS Pic18Banks

U(b) == Ins("movwf", b, "")
Z(b) == Ins("clrf", b, "")
Op(m) == Ins(m, NoBank, "")
CallOf(g) == To("call", <<g>>)
DispatchOf(gs, b) == [To("dispatch", gs) EXCEPT !.bank = b]
BoolOf(bs, d, c) == [op |-> "bool", at |-> <<>>, banks |-> bs, bank |-> d, cleared |-> c]
AsmOf(ls) == [op |-> "asm", at |-> <<>>, lines |-> ls]

T(b, copies) == [to |-> b, copies |-> copies]
Br(t) == [op |-> "br", t |-> t]
Cond(how, b, bs, t, f) ==
    [op |-> "cond", how |-> how, bank |-> b, banks |-> bs, t |-> t, f |-> f]
Switch(how, b, cases, d) == [op |-> "switch", how |-> how, bank |-> b, cases |-> cases, f |-> d]
RetOf(bs) == [op |-> "ret", banks |-> bs]

B(n, items, x) == [name |-> n, items |-> items, term |-> x]
Straight(items) == <<B("a", items, RetOf(<<>>))>>

Program(order, bodies, recipes, naked, high, low, area) ==
    [order |-> order, body |-> bodies,
     kind |-> [f \in Range(order) |-> IF f \in recipes THEN "recipe"
                                      ELSE IF f \in naked THEN "naked" ELSE "plain"],
     high |-> high, low |-> low, area |-> area]

Shift(c, v, s) == [count |-> c, value |-> v, scratch |-> s]

-----------------------------------------------------------------------------
(* Joins.  Two arms, a loop, or a switch between the first operand and the *)
(* last; g and the recipe r are called on the way.                         *)

ArmItems == {<<>>, <<Z(1)>>, <<Z(2)>>, <<CallOf("g")>>}

Diamond(x, l, r, m) ==
    <<B("a", <<U(1)>>, x), B("l", l, Br(T("j", <<>>))), B("r", r, Br(T("j", <<Z(1)>>))),
      B("j", m, RetOf(<<1>>))>>

Conds ==
    {Cond(how, b, <<b, 1>>, T("l", tc), T("r", fc)) :
        how \in {"plain", "bit", "fused"}, b \in {1, 2},
        tc \in {<<>>, <<Z(1)>>}, fc \in {<<>>, <<Z(2)>>}}

Switches ==
    {Switch(how, b, <<T("l", <<>>), T("r", tc)>>, T("j", fc)) :
        how \in {"chain", "table"}, b \in {1, 2},
        tc \in {<<>>, <<Z(2)>>}, fc \in {<<>>, <<Z(1)>>}}

Looping(how, b, back, i) ==
    <<B("a", <<U(1)>>, Br(T("h", <<>>))),
      B("h", <<U(b)>>, Cond(how, 2, <<2>>, T("b", <<>>), T("x", <<Z(1)>>))),
      B("b", i, Br(T("h", back))), B("x", <<U(1)>>, RetOf(<<>>))>>

Calling(g, m) ==
    Program(<<"main", "g", "r", "n">>,
            ("main" :> m) @@ ("g" :> g) @@ ("r" :> Shift(1, 1, 2))
            @@ ("n" :> <<Select(3), Line("return")>>), {"r"}, {"n"}, "", "", 0)

GBodies == {Straight(<<>>), Straight(<<Z(2)>>), <<B("a", <<Z(1)>>, RetOf(<<2>>))>>}

JoinPrograms ==
    {Calling(g, Diamond(x, l, r, <<>>)) :
        x \in Conds \cup Switches, l \in ArmItems, r \in {<<>>, <<Z(2)>>},
        g \in {Straight(<<Z(2)>>)}}
    \cup {Calling(g, Looping(how, b, back, i)) :
        how \in {"plain", "bit", "fused"}, b \in {1, 2}, back \in {<<>>, <<Z(1)>>},
        i \in {<<>>, <<CallOf("g")>>, <<CallOf("r"), U(2)>>}, g \in GBodies}

\* g leaves a bank that both, one or no return agrees on.
TwoReturns(l, r) ==
    <<B("a", <<>>, Cond("bit", NoBank, <<>>, T("l", <<>>), T("r", <<>>))),
      B("l", l, RetOf(<<>>)), B("r", r, RetOf(<<>>))>>

Sequences ==
    {<<U(1), CallOf("g"), U(2), U(1)>>, <<U(2), CallOf("n"), U(2)>>,
     <<U(1), CallOf("r"), U(2)>>, <<U(1), DispatchOf(<<"g", "h">>, 1), U(2), U(1)>>,
     <<U(2), DispatchOf(<<"g", "n">>, 1), U(2)>>,
     <<U(1), BoolOf(<<1, 2>>, 1, TRUE), U(1)>>, <<U(1), BoolOf(<<1, 2>>, 1, FALSE), U(2)>>,
     <<BoolOf(<<1>>, 2, TRUE), U(1)>>, <<BoolOf(<<1, 2>>, 2, TRUE), U(2)>>, <<U(1), AsmOf(<<Op("swapf")>>), U(1)>>}

SequencePrograms ==
    {Program(<<"main", "g", "h", "r", "n">>,
             ("main" :> Straight(i)) @@ ("g" :> g)
             @@ ("h" :> Straight(<<CallOf("r"), Z(2)>>)) @@ ("r" :> Shift(1, 3, 2))
             @@ ("n" :> <<Select(3), Line("return")>>), {"r"}, {"n"}, "", "", 0) :
        i \in Sequences, g \in {TwoReturns(l, r) : l \in ArmItems \ {<<CallOf("g")>>},
                                                   r \in {<<Z(1)>>, <<Z(2)>>}}}

-----------------------------------------------------------------------------
(* Handlers.  f is only reached from the low handler, or the lone one.     *)

Work ==
    {<<Op("tblrd_inc")>>, <<Ins("movf_w", NoBank, "FSR0")>>, <<Op("decfsz_w")>>,
     <<Ins("movwf", NoBank, "PCLAT")>>, <<Op("mulwf")>>, <<Z(2)>>,
     <<Op("lfsr1"), Ins("movff", NoBank, "RETVAL")>>, <<Op("movlw"), U(3)>>,
     <<AsmOf(<<Op("rlncf")>>)>>, <<CallOf("f"), U(3)>>}

FWork == {<<>>, <<Ins("bsf", 2, "")>>, <<Op("tblrd")>>, <<CallOf("r")>>}

MainBody == <<B("a", <<U(1), Op("addlw")>>, Br(T("h", <<>>))),
              B("h", <<U(2)>>, Cond("fused", 2, <<1, 2>>, T("b", <<>>), T("h", <<>>))),
              B("b", <<>>, RetOf(<<2>>))>>

Handled(high, low, hw, lw, fw, area) ==
    Program(<<"hi", "lo", "main", "f", "r">>,
            ("main" :> MainBody) @@ ("hi" :> Straight(hw)) @@ ("lo" :> Straight(lw))
            @@ ("f" :> Straight(fw)) @@ ("r" :> Shift(NoBank, 3, NoBank)),
            {"r"}, {}, high, low, area)

Lone == {Handled("hi", "", w, <<>>, fw, 0) : w \in Work, fw \in FWork}

Nested ==
    {Handled("hi", "lo", hw, lw, fw, area) :
        hw \in {<<Op("mulwf"), Z(2)>>}, lw \in Work,
        fw \in {<<Op("tblrd")>>, <<CallOf("r")>>}, area \in {1, 3}}

\* The low body needs a select of its area's bank while W is not kept, as in
\* FlagOnly below.
SelectLost(p) ==
    p.area = 3 /\ p.body["lo"][1].items = <<CallOf("f"), U(3)>>
    /\ p.body["f"][1].items = <<Op("tblrd")>>

Family ==
    JoinPrograms \cup SequencePrograms \cup Lone \cup {p \in Nested : ~SelectLost(p)}

-----------------------------------------------------------------------------
\* Families of one program on which the code goes wrong.  The low handler
\* only clears a flag in the bank of its save area.
FlagOnly == {Handled("hi", "lo", <<Z(2)>>, <<Z(3)>>, <<>>, 3)}

\* Inline assembly selects a bank; a handler rotates a file register.
AsmSelects == {Calling(Straight(<<>>), Straight(<<U(1), AsmOf(<<Select(2)>>), U(1)>>))}
AsmRotates == {Handled("hi", "", <<AsmOf(<<Op("rrncf")>>)>>, <<>>, <<>>, 0)}
=============================================================================
