---------------------------- MODULE MCRecipes14 ----------------------------
(***************************************************************************)
(* Programs for model checking Recipes14: each a few IR instructions that  *)
(* end in a branch or a return, over operand shapes, widths, destinations  *)
(* that are an operand's own slot or lie in another bank, and values at    *)
(* the edges of a byte.                                                    *)
(***************************************************************************)
EXTENDS Recipes14

R(x) == <<"r", x>>
K(bytes) == <<"k", bytes>>
No == <<>>
I(op, ty, a, b, dst) ==
    [op |-> op, ty |-> ty, from |-> ty, a |-> a, b |-> b, c |-> No, dst |-> dst, pred |-> ""]
Icmp_(pred, ty, a, b, dst) == [I("icmp", ty, a, b, dst) EXCEPT !.pred = pred]
Br(x) == [I("br", 0, No, No, "a") EXCEPT !.c = x]
RetOf(ty, x) == I("ret", ty, x, No, "a")
Convert(op, from, ty, a, dst) == [I(op, ty, a, No, dst) EXCEPT !.from = from]
CallOf(r, ty, a, b, dst) == [I("call", ty, a, b, dst) EXCEPT !.pred = r, !.from = r.n]
Choose(c, ty, a, b, dst) == [I("select", ty, a, b, dst) EXCEPT !.c = c]

\* A's slot, b's, one of their own, and one in the second bank.
Slots == [a |-> 32, b |-> 36, d |-> 40, far |-> 160, q |-> 48, s |-> 49, x |-> 50,
          g |-> 44, rem |-> REM]
MCCells == (32..51) \union (64..92) \union (112..116) \union {PCLATH} \union (160..163)
MCJunk == 165

Bytes1 == {<<x>> : x \in {0, 1, 2, 15, 85, 127, 128, 254, 255}}
Edge2 == {<<0, 0>>, <<255, 0>>, <<0, 1>>, <<255, 127>>, <<0, 128>>, <<1, 1>>,
          <<254, 255>>, <<255, 255>>}
Edge4 == {<<0, 0, 0, 0>>, <<255, 255, 0, 0>>, <<0, 0, 1, 255>>, <<255, 0, 255, 127>>,
          <<0, 255, 0, 128>>, <<1, 0, 0, 128>>, <<255, 255, 255, 255>>}
Edges == (1 :> Bytes1) @@ (2 :> Edge2) @@ (4 :> Edge4)
Few == (1 :> {<<0>>, <<128>>, <<255>>}) @@ (2 :> {<<0, 1>>, <<255, 127>>, <<255, 255>>})
       @@ (4 :> {<<0, 255, 0, 128>>, <<255, 0, 255, 127>>, <<255, 255, 255, 255>>})

Prog(code, slot, input) ==
    [code |-> code, slot |-> slot, globals |-> <<>>, input |-> input]
AB(ty) == ("a" :> Edges[ty]) @@ ("b" :> Edges[ty])
A(ty) == "a" :> Edges[ty]

\* t is the result's name; its slot is another name's.
SlotOf(x) == Slots @@ ("t" :> Slots[x])

-----------------------------------------------------------------------------
(* Arithmetic and logic, then a test of the result against zero.           *)

TestOf(ty) == <<Icmp_("eq", ty, R("t"), K(Zeros(ty)), "q"), Br(R("q"))>>
Binary == {"add", "sub", "and", "or", "xor"}

Arithmetic ==
    {Prog(<<I(op, ty, R("a"), R("b"), "t")>> \o TestOf(ty), SlotOf(at), AB(ty)) :
        op \in Binary, ty \in {1, 2, 4}, at \in {"a", "b", "d", "far"}}
    \union UNION {{Prog(<<I(op, ty, R("a"), K(v), "t"), RetOf(ty, R("t"))>>, SlotOf(at), A(ty)) :
        op \in Binary, at \in {"a", "d"}, v \in Edges[ty]} : ty \in {1, 2, 4}}
    \union UNION {{Prog(<<I("sub", ty, K(v), R("b"), "t"), RetOf(ty, R("t"))>>, SlotOf(at),
                        "b" :> Edges[ty]) :
        at \in {"b", "d"}, v \in Edges[ty]} : ty \in {1, 2, 4}}
    \union {Prog(<<I("add", ty, R("a"), R("a"), "t"), RetOf(ty, R("t"))>>, SlotOf(at), A(ty)) :
        ty \in {1, 2, 4}, at \in {"a", "d"}}

\* A value read once or twice more, by code that may find it in W.
Chains ==
    {Prog(<<I(op, ty, R("a"), R("b"), "t"), I(then, ty, R("t"), other, "g"),
            RetOf(ty, R("g"))>>, SlotOf("d"), AB(ty)) :
        op \in {"and", "xor"}, then \in {"or", "xor", "add"}, ty \in {1, 2},
        other \in {R("a"), R("t"), K(<<0, 0>>), K(<<128, 1>>)}}

-----------------------------------------------------------------------------
(* Comparisons of two registers, or of a register and a constant.          *)

Preds == {"eq", "ne", "ult", "uge", "ugt", "ule", "slt", "sge", "sgt", "sle"}

Comparisons ==
    {Prog(<<Icmp_(pred, ty, R("a"), R("b"), "q"), Br(R("q"))>>, Slots, AB(ty)) :
        pred \in Preds, ty \in {1, 2, 4}}
    \union UNION {UNION {
        {Prog(<<Icmp_(pred, ty, R("a"), K(v), "q"), Br(R("q"))>>, Slots, A(ty)),
         Prog(<<Icmp_(pred, ty, K(v), R("a"), "q"), Br(R("q"))>>, Slots, A(ty))} :
            pred \in Preds, v \in Few[ty]} : ty \in {1, 2, 4}}

\* The boolean kept, read as a byte, and branched on after other code.
Booleans ==
    UNION {{
        Prog(<<Icmp_(pred, 1, R("a"), R("b"), "q"), Choose(R("q"), ty, R("b"), R("a"), "t"),
               RetOf(ty, R("t"))>>, SlotOf("d"), AB(1)),
        Prog(<<Icmp_(pred, 1, R("a"), R("b"), "q"), I("xor", 1, R("a"), R("b"), "d"),
               Icmp_("eq", 1, R("d"), K(<<0>>), "s"), Br(R("q"))>>, Slots, AB(1)),
        Prog(<<Icmp_(pred, 1, R("a"), R("b"), "q"), Icmp_("ne", 1, R("a"), K(<<1>>), "s"),
               I("and", 0, R("q"), R("s"), "x"), Br(R("x"))>>, Slots, AB(1)),
        Prog(<<Icmp_(pred, 1, R("a"), R("b"), "q"), Convert("zext", 0, 2, R("q"), "t"),
               RetOf(2, R("t"))>>, SlotOf("d"), AB(1)),
        Prog(<<Convert("trunc", 1, 0, R("a"), "q"), Icmp_(pred, 1, R("a"), R("b"), "s"),
               Br(R("q"))>>, Slots, AB(1))} : pred \in Preds, ty \in {1}}

-----------------------------------------------------------------------------
(* Constant shifts and width changes.                                      *)

ShiftsBy == (1 :> {0, 1, 7}) @@ (2 :> {1, 8, 9, 15}) @@ (4 :> {1, 8, 16, 17, 31})
Shifts ==
    UNION {{Prog(<<I(op, ty, R("a"), K(<<n, 0, 0, 0>>), "t"), RetOf(ty, R("t"))>>, SlotOf(at),
                 A(ty)) :
        op \in {"shl", "lshr", "ashr"}, at \in {"a", "d"}, n \in ShiftsBy[ty]} : ty \in {1, 2, 4}}

Widths ==
    {Prog(<<Convert(op, w[1], w[2], R("a"), "t"), RetOf(w[2], R("t"))>>, SlotOf("d"), A(w[1])) :
        op \in {"zext", "sext"}, w \in {<<1, 2>>, <<1, 4>>, <<2, 4>>}}
    \union {Prog(<<Convert("trunc", 4, w, R("a"), "t"), RetOf(w, R("t"))>>, SlotOf("d"), A(4)) :
        w \in {0, 1, 2}}

-----------------------------------------------------------------------------
(* A branch on one bit, and the same shape with an operand read once.      *)

BitBranches ==
    UNION {{Prog(<<I("and", 2, R("a"), K(v), "t"), Icmp_(pred, 2, R("t"), K(<<0, 0>>), "q"),
                   Br(R("q"))>>, SlotOf("d"), A(2)),
            Prog(<<I("xor", 2, R("a"), K(<<1, 1>>), "d"), I("and", 2, K(v), R("a"), "t"),
                   Icmp_(pred, 2, K(<<0, 0>>), R("t"), "q"), Br(R("q"))>>,
                 Slots @@ ("t" :> 50), A(2))} :
        pred \in {"eq", "ne"}, v \in {<<1, 0>>, <<0, 64>>, <<0, 128>>, <<3, 0>>}}

-----------------------------------------------------------------------------
(* Globals, which a handler may rewrite between two instructions.          *)

Globals(ty) ==
    {<<I("load", ty, R("g"), No, "a"), I("add", ty, R("a"), K(<<1, 0, 0, 0>>), "t"),
       I("store", ty, R("t"), No, "g"), I("load", ty, R("g"), No, "b"),
       Icmp_("ult", ty, R("b"), R("a"), "q"), Br(R("q"))>>,
     <<I("load", ty, R("g"), No, "a"), I("load", ty, R("g"), No, "b"),
       I("xor", ty, R("a"), R("b"), "t"), Icmp_("ne", ty, R("t"), K(Zeros(ty)), "q"), Br(R("q"))>>,
     <<Convert("bitload", 3, 1, R("g"), "a"), Convert("bitstore", 0, 1, R("a"), "g"),
       Convert("bitstore", 1, 1, K(<<0>>), "g"), Convert("bitload", 1, 1, R("g"), "q"),
       Br(R("q"))>>,
     <<I("store", ty, K(<<7, 7, 7, 7>>), No, "g"), I("load", ty, R("g"), No, "t"),
       RetOf(ty, R("t"))>>}

GlobalPrograms ==
    UNION {{[Prog(code, SlotOf("d"), "g" :> Few[ty]) EXCEPT !.globals = "g" :> ty] :
        code \in Globals(ty)} : ty \in {1, 2}}

-----------------------------------------------------------------------------
(* Runtime calls, with a test of the result that W still holds part of.    *)

Of1(op, n, core) == [op |-> op, n |-> n, core |-> core]
MCRoutines ==
    {Of1("mul", n, core) : n \in {1, 2}, core \in {"loop", "fast"}}
    \union {Of1("mul", 4, "loop"), Of1("smul", 2, "loop"), Of1("udiv", 1, "compact")}
    \union {Of1(op, n, core) : op \in {"urem", "udivmod"}, n \in {2, 4},
                core \in {"compact", "exact", "coarse"}}
    \union {Of1(op, n, "compact") : op \in {"srem", "sdivmod"}, n \in {1, 2, 4}}
    \union {Of1("sdiv", 2, "compact")}
    \union {Of1(op, n, core) : op \in {"shl", "lshr", "ashr"}, n \in {1, 2, 4},
                core \in {"loop", "fast"}}

Dividends == (1 :> {<<0>>, <<7>>, <<100>>, <<128>>, <<129>>, <<255>>})
    @@ (2 :> {<<0, 0>>, <<232, 3>>, <<255, 0>>, <<0, 128>>, <<57, 181>>, <<255, 255>>})
    @@ (4 :> {<<64, 66, 15, 0>>, <<0, 0, 0, 128>>, <<255, 255, 255, 255>>})
Divisors == (1 :> {<<0>>, <<1>>, <<3>>, <<10>>, <<128>>, <<255>>})
    @@ (2 :> {<<0, 0>>, <<7, 0>>, <<9, 0>>, <<65, 0>>, <<0, 1>>, <<255, 255>>})
    @@ (4 :> {<<0, 0, 0, 0>>, <<10, 0, 0, 0>>, <<0, 2, 0, 0>>, <<1, 0, 1, 0>>,
              <<253, 255, 255, 255>>})
Counts == {0, 1, 7, 8, 9, 16, 24, 31, 33}

Second(r) ==
    IF r.op \in {"shl", "lshr", "ashr"} THEN {<<c>> \o Zeros(r.n - 1) : c \in Counts}
    ELSE Divisors[r.n]

Result(r) == IF r.op = "smul" THEN 4 ELSE r.n

Calls ==
    {Prog(<<CallOf(r, Result(r), R("a"), R("b"), "t"),
            Icmp_("eq", Result(r), R("t"), K(Zeros(Result(r))), "q"), Br(R("q"))>>,
          SlotOf("d"), ("a" :> Dividends[r.n]) @@ ("b" :> Second(r))) : r \in MCRoutines}

Family ==
    Arithmetic \union Chains \union Comparisons \union Booleans \union Shifts \union Widths
    \union BitBranches \union GlobalPrograms \union Calls
=============================================================================
