----------------------------- MODULE MCSchedule -----------------------------
(***************************************************************************)
(* Texts for model checking Schedule: what the selector emits for three IR *)
(* instructions over values in two banks, and bit tests around an          *)
(* excursion.                                                              *)
(***************************************************************************)
EXTENDS Schedule, TLC

R(x) == <<"r", x>>
K(b) == <<"k", <<b, b>>>>
I(op, a, b, dst) ==
    [op |-> op, ty |-> 1, from |-> 0, a |-> a, b |-> b, c |-> <<>>, dst |-> dst, pred |-> ""]

Slots == [a |-> 32, m |-> 33, n |-> 34, y |-> 160, z |-> 161, r |-> 112]
MCCells == {32, 33, 34, 160, 161, 112}
MCMachines ==
    {[w |-> w, c |-> 1, z |-> 0,
      mem |-> (32 :> 3) @@ (33 :> v) @@ (34 :> 255) @@ (160 :> 64) @@ (161 :> 90) @@ (112 :> 1)] :
        w \in {165}, v \in {0, 129}}

Insts ==
    {I("store", K(5), <<>>, x) : x \in {"a", "m", "y", "z"}}
    \union {I("add", R(x), R(y), d) : x \in {"a", "y"}, y \in {"m", "z"}, d \in {"n", "z"}}
    \union {I("xor", R("a"), K(1), d) : d \in {"m", "z"}}
    \union {I("freeze", R(x), <<>>, d) : x \in {"a", "y"}, d \in {"n", "z"}}
    \union {I("bitstore", K(b), <<>>, x) : b \in {0}, x \in {"a", "m", "y", "z"}}
    \union {I("bitload", R(x), <<>>, d) : x \in {"m", "y"}, d \in {"a", "z"}}
    \union {I("shl", R(x), K(1), x) : x \in {"a", "y"}}

Emitted(code) ==
    LET p == [code |-> code, slot |-> Slots, globals |-> [x \in {"a", "m", "y", "z"} |-> 1]]
    IN  FoldLeft(LAMBDA g, k : Inst(p, g, code[k]), NewGen, [k \in DOMAIN code |-> k]).out

\* An excursion between two tests of a bit of the first bank.
BitTest(op) == <<op, 33, 0>>
Paired ==
    {before \o <<<<"bcf", 160, 6>>, BitTest(op), <<"incf", 34, "f">>, <<"movwf", 161>>>> :
        op \in {"btfsc", "btfss"},
        before \in {<<<<"movf", 32, "w">>>>, <<<<"incf", 32, "f">>>>,
                    <<BitTest("btfsc"), <<"incf", 32, "f">>>>,
                    <<BitTest("btfss"), <<"decf", 32, "f">>>>}}

\* A constant store behind a skip and what it skips.
Parted == {<<BitTest(op), next, <<"movwf", 160>>, <<"movlw", 5>>, <<"movwf", 32>>>> :
             op \in {"btfsc", "btfss"}, next \in {<<"movf", 34, "w">>, <<"incf", 34, "f">>}}

\* A constant read from W behind the line after its store.
Later == {<<<<"movf", 33, "w">>, <<"movf", 34, "w">>, <<"movwf", 160>>, <<"movlw", 5>>, <<"movwf", 32>>,
            next, <<"movwf", 161>>>> : next \in {<<"clrf", 34>>, <<"incf", 33, "f">>}}

MCTexts == {Emitted(code) : code \in [1..3 -> Insts]} \union Paired \union Parted \union Later
=============================================================================
