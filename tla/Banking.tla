------------------------------- MODULE Banking -------------------------------
(***************************************************************************)
(* What the bank-select pass predicts.  A bank set is the set of banks the *)
(* selection bits may hold; a walk follows one function from its label     *)
(* with an entry set and joins what reaches every label and every exit.    *)
(* The predictions are used by Pic14Passes, where the pass rewrites the    *)
(* text and the machine then runs it.                                      *)
(***************************************************************************)
EXTENDS Pic14Text

Unknown == Banks

IsSingle(s) == \E b \in s : s = {b}
TheBank(s) == CHOOSE b \in s : TRUE

\* The bank a select leaves.  Only one of the two bits is written: the
\* other is taken to be clear.
SelectEffect(l) ==
    CASE l.op = "bsf5" -> {1}
      [] l.op = "bsf6" -> {2}
      [] l.op \in {"bcf5", "bcf6"} -> {0}
      [] l.op = "movlb" -> {l.bank}
      [] l.op = "status" -> Unknown

OperandBank(l) == IF l.op \in {"use", "skip"} THEN l.bank ELSE NoBank

-----------------------------------------------------------------------------
(* Regions: the text from a function's label to the next function's.       *)

IsInternal(name) == Len(name) > 1

LabelLines(t) == {i \in DOMAIN t : t[i].op = "label"}
LineOf(t, name) == CHOOSE i \in LabelLines(t) : t[i].at = name
CallTargets(t) == {t[i].at : i \in {j \in DOMAIN t : t[j].op = "call"}}

\* Labels that open a region: call targets, and before the first of those
\* the entries nobody jumps to.
Openers(t) ==
    LET targets == {i \in LabelLines(t) : t[i].at \in CallTargets(t)}
        jumped == {t[i].at : i \in {j \in DOMAIN t :
                       t[j].op = "goto" /\ \E l \in LabelLines(t) : l <= j}}
        first == IF targets = {} THEN 0 ELSE Min(targets)
    IN  targets \cup {i \in LabelLines(t) :
                         i < first /\ ~IsInternal(t[i].at) /\ t[i].at \notin jumped}

RegionFrom(t, s) ==
    LET later == {o \in Openers(t) : o > s}
    IN  s..(IF later = {} THEN Len(t) ELSE Min(later) - 1)

HasComputedJump(t, r) == \E i \in r : t[i].op = "jump"

-----------------------------------------------------------------------------
(* The walk.  A point is <<line, bank set>>.                               *)

\* The first line at or after i that is not a label.
RECURSIVE PastLabels(_, _)
PastLabels(t, i) == IF i \in LabelLines(t) THEN PastLabels(t, i + 1) ELSE i

\* Banks known to be possible when the point leaves the function.
ExitOf(t, r, x) ==
    LET i == x[1]
    IN  IF i \notin r THEN Unknown
        ELSE IF t[i].op \in {"return", "retfie"} THEN x[2]
        ELSE IF t[i].op = "goto" /\ ~\E j \in r : j \in LabelLines(t) /\ t[j].at = t[i].at
             THEN Unknown
        ELSE {}

\* The points visited, those of work still to be left, and the join of the
\* exits of one function.
RECURSIVE Walk(_, _, _, _), ExitBank(_, _, _)

PointsAfter(t, r, x) ==
    LET i == x[1]
        b == x[2]
        l == t[i]
    IN  IF i \notin r \/ l.op \in {"return", "retfie"} THEN {}
        ELSE IF l.op = "goto"
             THEN {<<j, b>> : j \in {k \in r : k \in LabelLines(t) /\ t[k].at = l.at}}
        ELSE IF l.op = "call" THEN {<<i + 1, ExitBank(t, l.at, b)>>}
        ELSE IF l.op = "asm" THEN {<<i + 1, Unknown>>}
        ELSE IF l.op = "skip"
             THEN LET tested == IF l.bank = NoBank THEN b ELSE {l.bank}
                  IN  {<<i + 1, tested>>, <<PastLabels(t, i + 1) + 1, tested>>}
        ELSE IF l.op \in Selects THEN {<<i + 1, SelectEffect(l)>>}
        ELSE {<<i + 1, IF OperandBank(l) = NoBank THEN b ELSE {l.bank}>>}

Walk(t, r, seen, work) ==
    LET visited == seen \cup work
    IN  IF work = {} THEN seen
        ELSE Walk(t, r, visited, UNION {PointsAfter(t, r, x) : x \in work} \ visited)

WalkFrom(t, s, entry) == Walk(t, RegionFrom(t, s), {}, {<<s, entry>>})

ExitBank(t, name, entry) ==
    IF ~\E s \in Openers(t) : t[s].at = name THEN Unknown
    ELSE LET s == LineOf(t, name)
         IN  UNION {ExitOf(t, RegionFrom(t, s), x) : x \in WalkFrom(t, s, entry)}

-----------------------------------------------------------------------------
(* Labels: the join of what every walk brings to them.  Walks start from   *)
(* every region without a computed jump, with nothing known, and go on     *)
(* into the functions they call.                                           *)

Seeds(t) == {<<s, Unknown>> : s \in {o \in Openers(t) : ~HasComputedJump(t, RegionFrom(t, o))}}

CallsOf(t, w) ==
    {<<LineOf(t, t[x[1]].at), x[2]>> :
        x \in {y \in WalkFrom(t, w[1], w[2]) :
                  y[1] \in RegionFrom(t, w[1]) /\ t[y[1]].op = "call"
                  /\ LineOf(t, t[y[1]].at) \in Openers(t)}}

RECURSIVE AllWalks(_, _)
AllWalks(t, ws) ==
    LET more == ws \cup UNION {CallsOf(t, w) : w \in ws}
    IN  IF more = ws THEN ws ELSE AllWalks(t, more)

LabelBanks(t) ==
    LET points == UNION {WalkFrom(t, w[1], w[2]) : w \in AllWalks(t, Seeds(t))}
    IN  [i \in LabelLines(t) |-> UNION {x[2] : x \in {y \in points : y[1] = i}}]

-----------------------------------------------------------------------------
\* A text that cannot leave bank 0 keeps the known bank everywhere.
IsBank0Only(t) ==
    \A i \in DOMAIN t :
        /\ t[i].op \notin Selects \cup {"asm"}
        /\ OperandBank(t[i]) \in {0, NoBank}

\* Only the bits that differ from a bank that is no longer trusted.
BankSelectFromStale(core, known, cur, b) ==
    IF core = "pic14e" THEN <<Banked("movlb", b)>>
    ELSE (IF cur % 2 = b % 2 THEN <<>>
          ELSE <<Line(IF b % 2 = 1 THEN "bsf5" ELSE "bcf5", <<>>)>>)
         \o (IF cur \div 2 = b \div 2 THEN <<>>
             ELSE <<Line(IF b \div 2 = 1 THEN "bsf6" ELSE "bcf6", <<>>)>>)

\* The selects that take the bits from cur, or from anything when nothing
\* is known, to bank b.
BankSelect(core, known, cur, b) ==
    IF core = "pic14e" THEN <<Banked("movlb", b)>>
    ELSE (IF known /\ cur % 2 = b % 2 THEN <<>>
          ELSE <<Line(IF b % 2 = 1 THEN "bsf5" ELSE "bcf5", <<>>)>>)
         \o (IF known /\ cur \div 2 = b \div 2 THEN <<>>
             ELSE <<Line(IF b \div 2 = 1 THEN "bsf6" ELSE "bcf6", <<>>)>>)
=============================================================================
