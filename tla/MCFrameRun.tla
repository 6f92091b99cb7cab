----------------------------- MODULE MCFrameRun -----------------------------
(***************************************************************************)
(* Families of small programs for FrameRun, written with block labels and  *)
(* put in a textual order: merges of two phis whose arms take every mix of *)
(* constants and values, the same inside a loop, loops that swap, calls    *)
(* whose results and arguments may be homed, and memory objects.           *)
(***************************************************************************)
EXTENDS FrameRun

MCBanks == <<[lo |-> 4, hi |-> 40]>>

I(op, dst, reads) == [op |-> op, dst |-> dst, reads |-> reads, arms |-> <<>>, to |-> <<>>,
                      fn |-> Nil, kept |-> {}]
Phi(dst, arms) == [I("phi", dst, <<>>) EXCEPT !.arms = arms]
Br(cond, to) == [I("br", Nil, IF cond = Nil THEN <<>> ELSE <<cond>>) EXCEPT !.to = to]
CallTo(dst, fn, reads) == [I("call", dst, reads) EXCEPT !.fn = fn]
Keep(dst, fn, reads, kept) == [CallTo(dst, fn, reads) EXCEPT !.kept = kept]
Ret(v) == I("ret", Nil, IF v = Nil THEN <<>> ELSE <<v>>)

PositionOf(order, label) == CHOOSE i \in DOMAIN order : order[i] = label

(* A function from labelled blocks in a textual order; every value is one  *)
(* byte wide but those of wide.                                            *)
Fun(params, order, body, wide) ==
    LET place(inst) == [inst EXCEPT
            !.to = [n \in DOMAIN @ |-> PositionOf(order, @[n])],
            !.arms = [n \in DOMAIN @ |-> <<@[n][1], PositionOf(order, @[n][2])>>]]
        blocks == [i \in DOMAIN order |-> [n \in DOMAIN body[order[i]] |-> place(body[order[i]][n])]]
        names == Range(params) \union UNION {{blocks[i][n].dst : n \in DOMAIN blocks[i]} : i \in DOMAIN blocks}
    IN  [params |-> params, blocks |-> blocks,
         width |-> [v \in names |-> IF v \in DOMAIN wide THEN wide[v] ELSE 1]]

Program(order, funcs, pic18) == [order |-> order, funcs |-> funcs, pic18 |-> pic18]
One(f, pic18) == Program(<<"main">>, "main" :> f, pic18)

Same == <<>>      \* no wide values
Wide == [v \in {"c2", "f2", "i2"} |-> 4]

-----------------------------------------------------------------------------
(* Diamonds: two phis over the arms of a branch.                           *)

Diamond(a1, a2, b1, b2, order) ==
    Fun(<<>>, order,
        [e |-> <<I("load", "a", <<>>), I("load", "b", <<>>), Br("a", <<"p", "q">>)>>,
         p |-> <<I("bin", "x", <<"a">>), Br(Nil, <<"m">>)>>,
         q |-> <<I("bin", "y", <<"b">>), Br(Nil, <<"m">>)>>,
         m |-> <<Phi("d", <<<<a1, "p">>, <<a2, "q">>>>), Phi("g", <<<<b1, "p">>, <<b2, "q">>>>),
                 I("bin", "r", <<"d", "g">>), I("bin", "z", <<"g", "b">>), Ret("r")>>],
        Same)

DiamondOrders == [text |-> <<"e", "p", "q", "m">>, early |-> <<"e", "m", "q", "p">>]

ArmsP == {Nil, "a", "b", "x"}
ArmsQ == {Nil, "a", "b", "y"}

(* One register is an arm of two phis of a merge, on different edges.      *)
Crossed(t) == (t[1] # Nil /\ t[1] = t[4]) \/ (t[2] # Nil /\ t[2] = t[3])

DiamondArms == ArmsP \X ArmsQ \X ArmsP \X ArmsQ \X (DOMAIN DiamondOrders)

DiamondOf(t) == One(Diamond(t[1], t[2], t[3], t[4], DiamondOrders[t[5]]), TRUE)

-----------------------------------------------------------------------------
(* A loop with two carried values; the latch may swap them.                *)

Loop(x2, y1, y2, order, pic18) ==
    One(Fun(<<>>, order,
        [e |-> <<I("load", "a", <<>>), I("load", "b", <<>>), Br(Nil, <<"h">>)>>,
         h |-> <<Phi("i", <<<<"a", "e">>, <<x2, "l">>>>), Phi("j", <<<<y1, "e">>, <<y2, "l">>>>),
                 I("bin", "n", <<"i">>), Br("n", <<"l", "x">>)>>,
         l |-> <<I("freeze", "k", <<"j">>), I("bin", "o", <<"k", "n">>), Br(Nil, <<"h">>)>>,
         x |-> <<I("bin", "r", <<"i", "j">>), Ret("r")>>],
        Same), pic18)

LoopOrders == [text |-> <<"e", "h", "l", "x">>, late |-> <<"e", "x", "l", "h">>]

LoopArms == {"j", "n", "b"} \X {Nil, "b"} \X {"i", "j", "n", "k", Nil} \X (DOMAIN LoopOrders) \X BOOLEAN

LoopOf(t) == Loop(t[1], t[2], t[3], LoopOrders[t[4]], t[5])

(* Two swaps in one loop: one temporary cannot break both.                 *)
TwoSwaps ==
    One(Fun(<<>>, <<"e", "h", "x">>,
        [e |-> <<I("load", "a", <<>>), I("load", "b", <<>>), Br(Nil, <<"h">>)>>,
         h |-> <<Phi("i", <<<<"a", "e">>, <<"j", "h">>>>), Phi("j", <<<<"b", "e">>, <<"i", "h">>>>),
                 Phi("k", <<<<"a", "e">>, <<"n", "h">>>>), Phi("n", <<<<"b", "e">>, <<"k", "h">>>>),
                 Br("i", <<"h", "x">>)>>,
         x |-> <<I("bin", "r", <<"j", "n">>), Ret("r")>>],
        Same), TRUE)

(* A diamond inside a loop: its merge runs many times.                     *)
LoopDiamond(a1, a2, c, order) ==
    One(Fun(<<>>, order,
        [e |-> <<I("load", "a", <<>>), Br(Nil, <<"h">>)>>,
         h |-> <<Phi("i", <<<<"a", "e">>, <<c, "m">>>>), Br("i", <<"p", "q">>)>>,
         p |-> <<I("bin", "x", <<"i">>), Br(Nil, <<"m">>)>>,
         q |-> <<I("bin", "y", <<"i">>), Br(Nil, <<"m">>)>>,
         m |-> <<Phi("d", <<<<a1, "p">>, <<a2, "q">>>>), I("bin", "w", <<"d", "i">>),
                 Br("w", <<"h", "z">>)>>,
         z |-> <<I("bin", "r", <<"d">>), Ret("r")>>],
        Same), TRUE)

LoopDiamondOrders == [mixed |-> <<"e", "h", "q", "z", "m", "p">>]

LoopDiamondArms == {Nil, "x"} \X {"a", "i", "y"} \X {"d", "w"} \X (DOMAIN LoopDiamondOrders)

LoopDiamondOf(t) == LoopDiamond(t[1], t[2], t[3], LoopDiamondOrders[t[4]])

-----------------------------------------------------------------------------
(* Calls: what may come between a call and its result's use, or between an *)
(* argument and its call.                                                  *)

Mid(kind, dst) ==
    CASE kind = "none" -> <<>>
      [] kind = "asm"  -> <<I("asm", Nil, <<>>)>>
      [] kind = "leaf" -> <<CallTo(Nil, "h", <<"b">>)>>
      [] kind = "work" -> <<I("bin", dst, <<"b">>), I("bin", dst \o "2", <<dst>>)>>

(* h is a leaf; g hands its first parameter on to h, or works on it first. *)
H == Fun(<<"y">>, <<"e">>, [e |-> <<I("bin", "z", <<"y">>), Ret("z")>>], Same)
G(passes) ==
    Fun(<<"u", "w">>, <<"e">>,
        [e |-> (IF passes THEN <<CallTo("t", "h", <<"u">>)>>
                ELSE <<I("bin", "t", <<"u">>), CallTo(Nil, "h", <<"w">>)>>)
               \o <<I("bin", "k", <<"t", "w">>), Ret("k")>>],
        Same)

ResultFun(t) ==
    Fun(<<>>, <<"e", "c", "p", "q", "m">>,
        [e |-> <<I("load", "a", <<>>), I("load", "b", <<>>), Br(Nil, <<"c">>)>>,
         c |-> <<CallTo("r", "g", <<"a", "b">>)>> \o Mid(t[1], "c") \o <<Br("b", <<"p", "q">>)>>,
         p |-> Mid(t[2], "f") \o <<Br(Nil, <<"m">>)>>,
         q |-> <<Br(Nil, IF t[4] = "loop" THEN <<"m", "c">> ELSE <<"m">>)>>,
         m |-> Mid(t[3], "i") \o
               (IF t[4] = "call" THEN <<CallTo("s", "h", <<"r">>)>> ELSE <<I("bin", "s", <<"r", "b">>)>>)
               \o <<I("bin", "v", <<"s", "a">>), Ret("v")>>],
        Wide)

ResultArms == {"none", "asm"} \X {"none", "leaf"} \X {"none", "asm", "leaf", "work"}
              \X {"line", "loop", "call"} \X BOOLEAN \X BOOLEAN
ResultOf(t) == Program(<<"main", "g", "h">>, [main |-> ResultFun(t), g |-> G(t[5]), h |-> H], t[6])

ArgFun(t) ==
    Fun(<<>>, <<"e", "c", "p", "q", "m">>,
        [e |-> <<I("load", "a", <<>>), I("load", "b", <<>>), Br(Nil, <<"c">>)>>,
         c |-> (IF t[4] = "bin" THEN <<I("bin", "v", <<"a">>)>> ELSE <<>>)
               \o Mid(t[1], "c") \o <<Br("b", <<"p", "q">>)>>,
         p |-> <<I("bin", "x", <<"a">>)>> \o Mid(t[2], "f") \o <<Br(Nil, <<"m">>)>>,
         q |-> <<Br(Nil, IF t[6] = "loop" THEN <<"m", "c">> ELSE <<"m">>)>>,
         m |-> (IF t[4] = "phi" THEN <<Phi("v", <<<<"x", "p">>, <<"a", "q">>>>)>> ELSE <<>>)
               \o Mid(t[3], "i") \o <<CallTo("r", "g", <<"v", "b">>)>>
               \o (IF t[6] = "twice" THEN <<I("bin", "j", <<"r">>), CallTo("n", "g", <<"j", "b">>)>> ELSE <<>>)
               \o <<I("bin", "s", <<"r", "b">>), Ret("s")>>],
        Wide)

ArgArms == {"none", "leaf", "work"} \X {"none", "leaf", "work"} \X {"none", "leaf", "work"}
           \X {"bin", "phi"} \X BOOLEAN \X {"line", "loop", "twice"}
ArgOf(t) == Program(<<"main", "g", "h">>, [main |-> ArgFun(t), g |-> G(t[5]), h |-> H], TRUE)

(* A parameter handed on to a third function, while the caller has dead    *)
(* slots above the call's live ones.                                       *)
Chained(t) == t[5] /\ \E n \in 1..3 : t[n] = "work"

-----------------------------------------------------------------------------
(* A memory object: indexed, lent to a callee, kept by it, stored away;    *)
(* and casts and a lane that may take their source's slot.                 *)

K == Fun(<<"ptr">>, <<"e">>,
         [e |-> <<I("load", "kv", <<"ptr">>), I("bin", "ku", <<"kv">>), I("load", "kw", <<"ptr">>), Ret("ku")>>],
         Same)

Pass(kind, v) ==
    CASE kind = "no"   -> <<>>
      [] kind = "lend" -> <<CallTo(Nil, "k", <<v>>)>>
      [] kind = "keep" -> <<Keep("kr", "k", <<v>>, {1})>>
      [] kind = "park" -> <<I("store", Nil, <<v, Nil>>)>>

MemoryFun(t) ==
    Fun(<<>>, <<"e", "c", "x">>,
        [e |-> <<I("alloca", "o", <<>>), I("load", "i", <<>>), I("load", "a", <<>>), Br(Nil, <<"c">>)>>,
         c |-> <<I("gep", "p", <<"o", "i">>), I("store", Nil, <<"a", "p">>),
                 I("zext", "n", <<"a">>), I("trunc", "l", <<"n">>)>>
               \o Pass(t[1], t[2])
               \o <<I("load", "q", <<"p">>), I("freeze", "f", <<"q">>), I("lane", "g", <<"f">>),
                    I("bin", "s", <<"g", t[4]>>), Br("s", IF t[3] THEN <<"c", "x">> ELSE <<"x">>)>>,
         x |-> <<I("bin", "v", <<"s">>), I("bin", "w", <<"v", "s">>), CallTo(Nil, "h", <<"w">>),
                 I("load", "r", <<Nil>>), Ret("r")>>],
        [v \in {"o", "n"} |-> 2])

MemoryArms == {"no", "lend", "keep", "park"} \X {"o", "p"} \X BOOLEAN \X {"l", "f"}

MemoryOf(t) == Program(<<"main", "k", "h">>, [main |-> MemoryFun(t), k |-> K, h |-> H], TRUE)

-----------------------------------------------------------------------------
(* Every family but the crossed diamonds and the chained arguments, which  *)
(* the compilation gets wrong.                                             *)
MCPrograms ==
    [t \in ({"diamond"} \X {x \in DiamondArms : ~Crossed(x)})
            \union ({"loop"} \X LoopArms) \union {<<"swaps", <<>>>>}
            \union ({"nested"} \X LoopDiamondArms)
            \union ({"result"} \X ResultArms)
            \union ({"arg"} \X {x \in ArgArms : ~Chained(x)})
            \union ({"memory"} \X MemoryArms) |->
        CASE t[1] = "diamond" -> DiamondOf(t[2])
          [] t[1] = "loop"    -> LoopOf(t[2])
          [] t[1] = "swaps"   -> TwoSwaps
          [] t[1] = "nested"  -> LoopDiamondOf(t[2])
          [] t[1] = "result"  -> ResultOf(t[2])
          [] t[1] = "arg"     -> ArgOf(t[2])
          [] t[1] = "memory"  -> MemoryOf(t[2])]

MCCrossed == [t \in {x \in DiamondArms : Crossed(x)} |-> DiamondOf(t)]
MCChained == [t \in {x \in ArgArms : Chained(x)} |-> ArgOf(t)]
=============================================================================
