------------------------ MODULE Pic18InterruptsProof ------------------------
(***************************************************************************)
(* For every program that keeps the compiler's rules, every set of timers  *)
(* and every depth of the hardware stack: the simulated core keeps its     *)
(* types, masks a level while it runs, reports the true stack depth in the *)
(* main program, keeps a Timer0 event until it is served, and nests its    *)
(* contexts as InterruptNesting says.                                      *)
(*                                                                         *)
(* The argument: entries are taken in ascending stack positions            *)
(* (Ascending), so the newest is the floor of the running handler and the  *)
(* older ones are below it, out of reach of its calls and returns; and the *)
(* live levels strictly outrank one another (Outranking), because a level  *)
(* that is live has its enable bit off (MaskedWhileRunning).               *)
(***************************************************************************)
EXTENDS Pic18Interrupts, SequenceTheorems, TLAPS

Stacked == {"low", "high"}

CoreOK ==
    /\ pc \in Places
    /\ stack \in Seq(Places)
    /\ stkptr \in Nat
    /\ isr_stack \in Seq(Stacked)
    /\ entries \in Seq(1..Len(stack))
    /\ Len(entries) <= Len(isr_stack)

LatchOK ==
    /\ gieh \in BOOLEAN /\ giel \in BOOLEAN /\ halted \in BOOLEAN
    /\ enabled \subseteq Sources /\ flags \subseteq {"INT0", "TMR0"}
    /\ pending \in BOOLEAN /\ pending_lo \in BOOLEAN /\ timer0_pending \in BOOLEAN
    /\ owed \subseteq Timers

Ascending ==
    \A i, j \in 1..Len(entries) : i < j => entries[i] < entries[j]

Outranking ==
    \A i, j \in 1..Len(Live) : i < j => Live[i] = "low" /\ Live[j] = "high"

IInv ==
    /\ CoreOK /\ LatchOK
    /\ Ascending
    /\ Outranking
    /\ MaskedWhileRunning
    /\ StkptrExact
    /\ Timer0Kept

-----------------------------------------------------------------------------
(* Sequences.                                                              *)

(* The last n elements of a sequence.                                      *)
LEMMA Suffix ==
  ASSUME NEW S, NEW s \in Seq(S), NEW n \in 0..Len(s)
  PROVE  LET t == SubSeq(s, Len(s) - n + 1, Len(s))
         IN  /\ t \in Seq(S)
             /\ Len(t) = n
             /\ \A i \in 1..n : t[i] = s[Len(s) - n + i]
<1> DEFINE m == Len(s) - n + 1
           t == SubSeq(s, m, Len(s))
<1>1. Len(s) \in Nat /\ m \in Int /\ m >= 1
  BY LenProperties
<1>2. \A i \in m..Len(s) : s[i] \in S
  BY <1>1, ElementOfSeq
<1>3. /\ t \in Seq(S)
      /\ Len(t) = IF m <= Len(s) THEN Len(s) - m + 1 ELSE 0
      /\ \A i \in 1..(Len(s) - m + 1) : t[i] = s[m + i - 1]
  <2> HIDE DEF m
  <2> QED BY <1>1, <1>2, SubSeqProperties
<1> QED BY <1>1, <1>3

(* What remains when the last element is dropped.                          *)
LEMMA FrontLast ==
  ASSUME NEW S, NEW s \in Seq(S), s # <<>>
  PROVE  /\ Len(s) \in Nat \ {0}
         /\ Last(s) = s[Len(s)] /\ Last(s) \in S
         /\ Front(s) \in Seq(S)
         /\ Len(Front(s)) = Len(s) - 1
         /\ \A i \in 1..(Len(s) - 1) : Front(s)[i] = s[i]
<1>1. Len(s) \in Nat \ {0}
  BY EmptySeq
<1> DEFINE m == Len(s) - 1
           t == SubSeq(s, 1, m)
<1>2. m \in Nat /\ \A i \in 1..m : s[i] \in S
  BY <1>1, ElementOfSeq
<1>3. /\ t \in Seq(S)
      /\ Len(t) = m
      /\ \A i \in 1..m : t[i] = s[i]
  <2> HIDE DEF m
  <2>1. /\ t \in Seq(S)
        /\ Len(t) = IF 1 <= m THEN m - 1 + 1 ELSE 0
        /\ \A i \in 1..(m - 1 + 1) : t[i] = s[1 + i - 1]
    BY <1>2, SubSeqProperties
  <2> HIDE DEF t
  <2> QED BY <1>2, <2>1
<1>4. s[Len(s)] \in S
  BY <1>1, ElementOfSeq
<1> QED BY <1>1, <1>3, <1>4 DEF Front, Last

-----------------------------------------------------------------------------
(* The latches.                                                            *)

(* A tick only ever adds flags, latches and debts, and a debt of Timer0    *)
(* comes with its latch.                                                   *)
LEMMA TickAdds ==
  ASSUME NEW fl \in SUBSET {"INT0", "TMR0"}, NEW pend \in BOOLEAN,
         NEW t0 \in BOOLEAN, NEW ow \in SUBSET Timers,
         "TMR0" \in ow => t0,
         Ticked(fl, pend, t0, ow)
  PROVE  /\ flags' \subseteq {"INT0", "TMR0"}
         /\ pending' \in BOOLEAN /\ timer0_pending' \in BOOLEAN
         /\ owed' \subseteq Timers
         /\ Timer0Kept'
<1>1. PICK over0 \in {FALSE, "TMR0" \in Timers}, over2 \in {FALSE, "TMR2" \in Timers} :
        /\ timer0_pending' = (t0 \/ over0)
        /\ pending' = (pend \/ over2)
        /\ flags' = fl \cup (IF over0 THEN {"TMR0"} ELSE {})
        /\ owed' = ow \cup (IF over0 THEN {"TMR0"} ELSE {})
                      \cup (IF over2 THEN {"TMR2"} ELSE {})
  BY DEF Ticked
<1>2. over0 \in BOOLEAN /\ over2 \in BOOLEAN
  <2>1. ("TMR0" \in Timers) \in BOOLEAN /\ ("TMR2" \in Timers) \in BOOLEAN
    OBVIOUS
  <2> QED BY <2>1, Zenon
<1>3. (over0 => "TMR0" \in Timers) /\ (over2 => "TMR2" \in Timers)
  BY Zenon
<1>4. flags' \subseteq {"INT0", "TMR0"}
  BY <1>1
<1>5. pending' \in BOOLEAN /\ timer0_pending' \in BOOLEAN
  BY <1>1, <1>2
<1>6. owed' \subseteq Timers
  BY <1>1, <1>3
<1>7. Timer0Kept'
  BY <1>1 DEF Timer0Kept
<1> QED BY <1>4, <1>5, <1>6, <1>7

(* The latches, flags and enables keep their types, whichever step runs.   *)
LEMMA LatchStep ==
  ASSUME LatchOK, Timer0Kept, [Next]_vars
  PROVE  LatchOK' /\ Timer0Kept'
<1> USE DEF LatchOK, masks, latches, core
<1>0. flags \in SUBSET {"INT0", "TMR0"} /\ owed \in SUBSET Timers
      /\ ("TMR0" \in owed => timer0_pending)
  BY DEF Timer0Kept
<1>t. ASSUME Tick PROVE /\ flags' \subseteq {"INT0", "TMR0"} /\ owed' \subseteq Timers
                        /\ pending' \in BOOLEAN /\ timer0_pending' \in BOOLEAN
                        /\ pending_lo' = pending_lo
                        /\ Timer0Kept'
  BY <1>0, <1>t, TickAdds DEF Tick
<1>1. CASE EnterIsr
  <2>1. /\ (pending /\ ~PendingSourceEnabled) \in BOOLEAN
        /\ (timer0_pending /\ "TMR0" \notin enabled) \in BOOLEAN
        /\ owed \ enabled \in SUBSET Timers
        /\ "TMR0" \in owed \ enabled => (timer0_pending /\ "TMR0" \notin enabled)
    BY <1>0
  <2>2. Ticked(flags, pending /\ ~PendingSourceEnabled,
               timer0_pending /\ "TMR0" \notin enabled, owed \ enabled)
    BY <1>1 DEF EnterIsr
  <2>3. /\ flags' \subseteq {"INT0", "TMR0"} /\ owed' \subseteq Timers
        /\ pending' \in BOOLEAN /\ timer0_pending' \in BOOLEAN
        /\ Timer0Kept'
    BY <1>0, <2>1, <2>2, TickAdds
  <2> QED BY <1>1, <2>3 DEF EnterIsr, PushEntry
<1>2. CASE EnterIsrLow
  <2>1. Ticked(flags, pending, timer0_pending, owed)
    BY <1>2 DEF EnterIsrLow
  <2>2. /\ flags' \subseteq {"INT0", "TMR0"} /\ owed' \subseteq Timers
        /\ pending' \in BOOLEAN /\ timer0_pending' \in BOOLEAN
        /\ Timer0Kept'
    BY <1>0, <2>1, TickAdds
  <2> QED BY <1>2, <2>2 DEF EnterIsrLow, PushEntry
<1>3. CASE Execute
  BY <1>3, <1>t DEF Execute
<1>4. CASE CallOrPush
  BY <1>4, <1>t DEF CallOrPush
<1>5. CASE ReturnOrPop
  BY <1>5, <1>t DEF ReturnOrPop
<1>6. CASE Retfie
  <2>1. (gieh \/ Last(isr_stack) = "high") \in BOOLEAN
        /\ (giel \/ Last(isr_stack) = "low") \in BOOLEAN
    OBVIOUS
  <2> QED BY <1>6, <1>t, <2>1 DEF Retfie
<1>7. CASE WriteMasks
  <2>1. PICK keep \in {{}, flags} : Ticked(keep, pending, timer0_pending, owed)
    BY <1>7 DEF WriteMasks
  <2>2. keep \in SUBSET {"INT0", "TMR0"}
    BY <1>0
  <2>3. /\ flags' \subseteq {"INT0", "TMR0"} /\ owed' \subseteq Timers
        /\ pending' \in BOOLEAN /\ timer0_pending' \in BOOLEAN
        /\ Timer0Kept'
    BY <1>0, <2>1, <2>2, TickAdds
  <2> QED BY <1>7, <2>3, CodeAssumption DEF WriteMasks
<1>8. CASE ResetInstruction
  BY <1>8, <1>t DEF ResetInstruction
<1>9. CASE Sleep
  BY <1>9, <1>t DEF Sleep
<1>10. CASE RequestInterrupt
  BY <1>10 DEF RequestInterrupt, Timer0Kept
<1>11. CASE RequestLowInterrupt
  BY <1>11 DEF RequestLowInterrupt, Timer0Kept
<1>12. CASE UNCHANGED vars
  BY <1>12 DEF vars, Timer0Kept
<1> QED BY <1>1, <1>2, <1>3, <1>4, <1>5, <1>6, <1>7, <1>8, <1>9, <1>10, <1>11, <1>12
        DEF Next, Step, Instruction

-----------------------------------------------------------------------------
(* The live levels.                                                        *)

(* What Live is: one level per open entry, the tail of isr_stack.          *)
LiveShape ==
    /\ Live \in Seq(Stacked)
    /\ Len(entries) \in Nat /\ Len(isr_stack) \in Nat
    /\ Len(Live) = Len(entries)
    /\ \A i \in 1..Len(entries) :
          Live[i] = isr_stack[Len(isr_stack) - Len(entries) + i]

LEMMA LiveNow ==
  ASSUME CoreOK
  PROVE  LiveShape
<1>1. Len(isr_stack) \in Nat /\ Len(entries) \in 0..Len(isr_stack)
  BY LenProperties DEF CoreOK
<1> QED BY <1>1, Suffix DEF CoreOK, LiveShape, Live

LEMMA LiveNext ==
  ASSUME CoreOK'
  PROVE  LiveShape'
<1>1. isr_stack' \in Seq(Stacked) /\ entries' \in Seq(1..Len(stack'))
      /\ Len(entries') <= Len(isr_stack')
  BY DEF CoreOK
<1>2. Len(isr_stack') \in Nat /\ Len(entries') \in 0..Len(isr_stack')
  BY <1>1, LenProperties
<1> QED BY <1>1, <1>2, Suffix DEF LiveShape, Live

(* The running context stays in code that exists.                          *)
LEMMA CodeOfLevel ==
  ASSUME CoreOK
  PROVE  Code[Level] \subseteq Places /\ 0 \in Places
         /\ \A l \in Stacked : Vector[l] \in Places
<1>1. Level \in {"main", "low", "high"}
  <2>1. CASE entries = <<>>
    BY <2>1 DEF Level
  <2>2. CASE entries # <<>>
    <3>1. Len(entries) \in Nat \ {0}
      BY <2>2, EmptySeq DEF CoreOK
    <3>2. Live[Len(Live)] \in Stacked
      BY <3>1, LiveNow, ElementOfSeq DEF LiveShape
    <3> QED BY <2>2, <3>2 DEF Level, Last, Stacked
  <2> QED BY <2>1, <2>2
<1> QED BY <1>1, CodeAssumption DEF Places, Vector, Stacked

-----------------------------------------------------------------------------
(* The stack and its entries, by what a step does to them.                 *)

CoreInv == CoreOK /\ Ascending /\ Outranking /\ StkptrExact

(* A sequence is over any set its elements are in.                         *)
LEMMA Retype ==
  ASSUME NEW S, NEW s \in Seq(S), NEW T, \A i \in 1..Len(s) : s[i] \in T
  PROVE  s \in Seq(T)
<1>1. Len(s) \in Nat /\ s \in [1..Len(s) -> S]
  BY LenProperties
<1>2. s \in [1..Len(s) -> T]
  BY <1>1
<1> QED BY <1>1, <1>2, SeqDef

(* Every entry is at or below the floor, the newest one at it.             *)
LEMMA EntriesBelowFloor ==
  ASSUME CoreOK, Ascending
  PROVE  /\ Floor \in 0..Len(stack)
         /\ \A i \in 1..Len(entries) : entries[i] \in 1..Floor
         /\ \A i \in 1..(Len(entries) - 1) : entries[i] \in 1..(Floor - 1)
<1>0. Len(stack) \in Nat /\ entries \in Seq(1..Len(stack)) /\ Len(entries) \in Nat
  BY LenProperties DEF CoreOK
<1>1. CASE entries = <<>>
  BY <1>0, <1>1 DEF Floor
<1>2. CASE entries # <<>>
  <2>1. Len(entries) \in Nat \ {0}
    BY <1>0, <1>2, EmptySeq
  <2>2. \A i \in 1..Len(entries) : entries[i] \in 1..Len(stack)
    BY <1>0, ElementOfSeq
  <2>3. Floor = entries[Len(entries)]
    BY <1>2 DEF Floor, Last
  <2>4. \A i \in 1..(Len(entries) - 1) : entries[i] < entries[Len(entries)]
    BY <2>1 DEF Ascending
  <2>5. entries[Len(entries)] \in 1..Len(stack)
    BY <2>1, <2>2
  <2>6. ASSUME NEW i \in 1..(Len(entries) - 1)
        PROVE  entries[i] \in 1..(Floor - 1)
    <3>1. entries[i] \in 1..Len(stack) /\ entries[i] < Floor
      BY <2>1, <2>2, <2>3, <2>4
    <3> QED BY <2>3, <2>5, <3>1
  <2>7. ASSUME NEW i \in 1..Len(entries)
        PROVE  entries[i] \in 1..Floor
    <3>1. i = Len(entries) \/ i \in 1..(Len(entries) - 1)
      BY <2>1
    <3> QED BY <2>3, <2>5, <2>6, <3>1
  <2> QED BY <1>0, <2>3, <2>5, <2>6, <2>7
<1> QED BY <1>1, <1>2

(* Steps that leave the return stack alone.                                *)
LEMMA WorkKeeps ==
  ASSUME CoreInv, pc' \in Places, UNCHANGED <<stack, stkptr, isr_stack, entries>>
  PROVE  CoreInv' /\ Live' = Live
BY DEF CoreInv, CoreOK, Ascending, Outranking, StkptrExact, Live

(* A push in the running context.                                          *)
LEMMA PushKeeps ==
  ASSUME CoreInv, NEW a \in Places, Push(a), pc' \in Places,
         UNCHANGED <<isr_stack, entries>>
  PROVE  /\ CoreInv' /\ Live' = Live
         /\ Len(stack) \in Nat /\ Len(stack') = Len(stack) + 1
         /\ \A i \in 1..Len(stack) : stack'[i] = stack[i]
<1> USE DEF CoreInv
<1>1. /\ stack' \in Seq(Places) /\ Len(stack) \in Nat
      /\ Len(stack') = Len(stack) + 1
      /\ \A i \in 1..Len(stack) : stack'[i] = stack[i]
  BY AppendProperties, LenProperties DEF CoreOK, Push
<1>2. entries' \in Seq(1..Len(stack'))
  BY <1>1, SeqMonotonic DEF CoreOK
<1>3. stkptr' = Len(stack')
  BY <1>1 DEF Push
<1> QED BY <1>1, <1>2, <1>3 DEF CoreOK, Ascending, Outranking, StkptrExact, Live

(* A return or pop above the running context's entry.                      *)
LEMMA PopKeeps ==
  ASSUME CoreInv, Len(stack) > Floor, Pop, pc' \in Places,
         UNCHANGED <<isr_stack, entries>>
  PROVE  /\ CoreInv' /\ Live' = Live
         /\ Len(stack) \in Nat \ {0} /\ Len(stack') = Len(stack) - 1
         /\ \A i \in 1..(Len(stack) - 1) : stack'[i] = stack[i]
<1> USE DEF CoreInv
<1>0. Len(stack) \in Nat /\ Floor \in Nat /\ stack # <<>>
  BY EntriesBelowFloor, LenProperties, EmptySeq DEF CoreOK
<1>1. /\ stack' \in Seq(Places) /\ Len(stack) \in Nat \ {0}
      /\ Len(stack') = Len(stack) - 1
      /\ \A i \in 1..(Len(stack) - 1) : stack'[i] = stack[i]
  BY <1>0, FrontLast DEF CoreOK, Pop
<1>2. entries' \in Seq(1..Len(stack'))
  <2>1. \A i \in 1..Len(entries) : entries[i] \in 1..Len(stack')
    BY <1>0, <1>1, EntriesBelowFloor
  <2> QED BY <2>1, Retype DEF CoreOK
<1>3. stkptr' = Len(stack')
  BY <1>1 DEF Pop
<1>4. stkptr' \in Nat
  BY <1>1, <1>3
<1> QED BY <1>1, <1>2, <1>3, <1>4 DEF CoreOK, Ascending, Outranking, StkptrExact, Live

(* An entry pushes above every older entry, and adds one live level.       *)
LEMMA EntryKeeps ==
  ASSUME CoreInv, NEW l \in Stacked, PushEntry(l),
         \A i \in 1..Len(Live) : Live[i] = "low" /\ l = "high"
  PROVE  /\ CoreInv'
         /\ Len(entries') = Len(entries) + 1 /\ Len(Live') = Len(Live) + 1
         /\ \A i \in 1..Len(Live) : Live'[i] = Live[i]
         /\ Live'[Len(Live) + 1] = l
         /\ \A i \in 1..Len(entries) : entries'[i] = entries[i]
         /\ entries'[Len(entries) + 1] = Len(stack) + 1
         /\ Len(stack) \in Nat
         /\ \A i \in 1..Len(stack) : stack'[i] = stack[i]
         /\ stack'[Len(stack) + 1] = pc
<1> USE DEF CoreInv
<1>0. /\ Len(stack) \in Nat /\ Len(entries) \in Nat /\ Len(isr_stack) \in Nat
      /\ entries \in Seq(1..Len(stack)) /\ Len(entries) <= Len(isr_stack)
  BY LenProperties DEF CoreOK
<1>1. /\ stack' \in Seq(Places)
      /\ Len(stack') = Len(stack) + 1
      /\ \A i \in 1..Len(stack) : stack'[i] = stack[i]
      /\ stack'[Len(stack) + 1] = pc
  BY AppendProperties DEF CoreOK, PushEntry
<1>2. /\ isr_stack' \in Seq(Stacked)
      /\ Len(isr_stack') = Len(isr_stack) + 1
      /\ \A i \in 1..Len(isr_stack) : isr_stack'[i] = isr_stack[i]
      /\ isr_stack'[Len(isr_stack) + 1] = l
  BY AppendProperties DEF CoreOK, PushEntry
<1>3. /\ entries' \in Seq(1..Len(stack'))
      /\ Len(entries') = Len(entries) + 1
      /\ \A i \in 1..Len(entries) : entries'[i] = entries[i]
      /\ entries'[Len(entries) + 1] = Len(stack) + 1
  <2>1. entries \in Seq(1..Len(stack'))
    BY <1>0, <1>1, SeqMonotonic
  <2>2. Len(stack) + 1 \in 1..Len(stack')
    BY <1>0, <1>1
  <2> QED BY <2>1, <2>2, AppendProperties DEF PushEntry
<1>4. CoreOK'
  <2>1. pc' \in Places
    BY CodeOfLevel DEF PushEntry
  <2> QED BY <1>0, <1>1, <1>2, <1>3, <2>1 DEF CoreOK, PushEntry
<1>5. LiveShape /\ LiveShape'
  BY <1>4, LiveNow, LiveNext
<1>6. /\ Len(Live') = Len(Live) + 1
      /\ \A i \in 1..Len(Live) : Live'[i] = Live[i]
      /\ Live'[Len(Live) + 1] = l
  <2>1. /\ Len(Live) = Len(entries) /\ Len(Live') = Len(entries')
        /\ \A i \in 1..Len(entries) :
              Live[i] = isr_stack[Len(isr_stack) - Len(entries) + i]
        /\ \A i \in 1..Len(entries') :
              Live'[i] = isr_stack'[Len(isr_stack') - Len(entries') + i]
    BY <1>5 DEF LiveShape
  <2>2. Live'[Len(entries) + 1] = l
    <3>1. Len(isr_stack') - Len(entries') + (Len(entries) + 1) = Len(isr_stack) + 1
      BY <1>0, <1>2, <1>3
    <3>2. Len(entries) + 1 \in 1..Len(entries')
      BY <1>0, <1>3
    <3> QED BY <1>2, <2>1, <3>1, <3>2
  <2>3. ASSUME NEW i \in 1..Len(entries) PROVE Live'[i] = Live[i]
    <3>1. /\ Len(isr_stack') - Len(entries') + i = Len(isr_stack) - Len(entries) + i
          /\ Len(isr_stack) - Len(entries) + i \in 1..Len(isr_stack)
          /\ i \in 1..Len(entries')
      BY <1>0, <1>2, <1>3
    <3>2. /\ Live[i] = isr_stack[Len(isr_stack) - Len(entries) + i]
          /\ Live'[i] = isr_stack'[Len(isr_stack') - Len(entries') + i]
      BY <2>1, <3>1
    <3>3. isr_stack'[Len(isr_stack) - Len(entries) + i]
          = isr_stack[Len(isr_stack) - Len(entries) + i]
      BY <1>2, <3>1
    <3> QED BY <3>1, <3>2, <3>3
  <2> QED BY <1>3, <2>1, <2>2, <2>3
<1>7. Ascending'
  <2> SUFFICES ASSUME NEW i \in 1..Len(entries'), NEW j \in 1..Len(entries'), i < j
               PROVE  entries'[i] < entries'[j]
    BY DEF Ascending
  <2>1. i \in 1..Len(entries) /\ entries[i] \in 1..Len(stack)
    <3>1. i \in 1..Len(entries)
      BY <1>0, <1>3
    <3> QED BY <1>0, <3>1, ElementOfSeq
  <2>2. CASE j = Len(entries) + 1
    <3>1. entries'[i] = entries[i]
      BY <1>3, <2>1
    <3>2. entries'[j] = Len(stack) + 1
      BY <1>3, <2>2
    <3>3. entries[i] < Len(stack) + 1
      BY <1>0, <2>1
    <3> QED BY <3>1, <3>2, <3>3, Zenon
  <2>3. CASE j # Len(entries) + 1
    <3>1. j \in 1..Len(entries)
      <4> DEFINE n == Len(entries)
      <4>1. n \in Nat /\ j \in 1..(n + 1) /\ j # n + 1
        BY <1>0, <1>3, <2>3
      <4> HIDE DEF n
      <4>2. j \in 1..n
        BY <4>1
      <4> QED BY <4>2 DEF n
    <3>2. entries[i] < entries[j]
      BY <2>1, <3>1 DEF Ascending
    <3> QED BY <1>3, <2>1, <3>1, <3>2
  <2> QED BY <2>2, <2>3
<1>8. Outranking'
  <2> SUFFICES ASSUME NEW i \in 1..Len(Live'), NEW j \in 1..Len(Live'), i < j
               PROVE  Live'[i] = "low" /\ Live'[j] = "high"
    BY DEF Outranking
  <2>1. i \in 1..Len(Live) /\ Len(Live) \in Nat
    BY <1>5, <1>6 DEF LiveShape
  <2>2. CASE j = Len(Live) + 1
    BY <1>6, <2>1, <2>2
  <2>3. CASE j # Len(Live) + 1
    BY <1>6, <2>1, <2>3 DEF Outranking
  <2> QED BY <2>2, <2>3
<1>9. StkptrExact'
  <2>1. entries' # <<>>
    BY <1>0, <1>3, EmptySeq
  <2> QED BY <2>1 DEF StkptrExact
<1> QED BY <1>0, <1>1, <1>3, <1>4, <1>6, <1>7, <1>8, <1>9

(* A RETFIE pops what the newest entry pushed and drops one live level.    *)
LEMMA LeaveKeeps ==
  ASSUME CoreInv, entries # <<>>, Len(stack) = Floor, Pop, pc' = Last(stack),
         isr_stack' = Front(isr_stack), entries' = Front(entries)
  PROVE  /\ CoreInv'
         /\ Len(entries) \in Nat \ {0} /\ Len(entries') = Len(entries) - 1
         /\ Len(Live) = Len(entries) /\ Len(Live') = Len(entries')
         /\ \A i \in 1..Len(entries') : Live'[i] = Live[i]
         /\ Live[Len(entries)] = Last(isr_stack)
         /\ \A i \in 1..Len(entries') : entries'[i] = entries[i]
         /\ entries[Len(entries)] = Len(stack)
         /\ Len(stack) \in Nat \ {0} /\ Len(stack') = Len(stack) - 1
         /\ \A i \in 1..Len(stack') : stack'[i] = stack[i]
         /\ pc' = stack[Len(stack)]
<1> USE DEF CoreInv
<1>0. /\ Len(stack) \in Nat /\ Len(entries) \in Nat \ {0} /\ Len(isr_stack) \in Nat
      /\ entries \in Seq(1..Len(stack)) /\ Len(entries) <= Len(isr_stack)
      /\ stack \in Seq(Places) /\ isr_stack \in Seq(Stacked)
  BY LenProperties, EmptySeq DEF CoreOK
<1>1. entries[Len(entries)] = Len(stack) /\ Len(stack) \in Nat \ {0}
  <2>1. entries[Len(entries)] \in 1..Len(stack)
    BY <1>0, ElementOfSeq
  <2> QED BY <1>0, <2>1 DEF Floor, Last
<1>2. /\ stack' \in Seq(Places)
      /\ Len(stack') = Len(stack) - 1
      /\ \A i \in 1..Len(stack') : stack'[i] = stack[i]
      /\ pc' = stack[Len(stack)] /\ pc' \in Places
  <2>1. stack # <<>>
    BY <1>1, EmptySeq
  <2> QED BY <1>0, <2>1, FrontLast DEF Pop
<1>3. /\ isr_stack' \in Seq(Stacked)
      /\ Len(isr_stack') = Len(isr_stack) - 1
      /\ \A i \in 1..(Len(isr_stack) - 1) : isr_stack'[i] = isr_stack[i]
      /\ Last(isr_stack) = isr_stack[Len(isr_stack)]
  <2>1. isr_stack # <<>>
    <3>1. Len(isr_stack) # 0
      BY <1>0
    <3> QED BY <3>1, EmptySeq
  <2> QED BY <1>0, <2>1, FrontLast
<1>4. /\ entries' \in Seq(1..Len(stack'))
      /\ Len(entries') = Len(entries) - 1
      /\ \A i \in 1..Len(entries') : entries'[i] = entries[i]
  <2>1. /\ entries' \in Seq(1..Len(stack))
        /\ Len(entries') = Len(entries) - 1
        /\ \A i \in 1..(Len(entries) - 1) : entries'[i] = entries[i]
    BY <1>0, FrontLast
  <2>2. \A i \in 1..(Len(entries) - 1) : entries[i] \in 1..(Len(stack) - 1)
    BY EntriesBelowFloor
  <2>3. \A i \in 1..Len(entries') : entries'[i] \in 1..Len(stack')
    BY <1>2, <2>1, <2>2
  <2>4. entries' \in Seq(1..Len(stack'))
    BY <2>1, <2>3, Retype
  <2> QED BY <2>1, <2>4
<1>5. CoreOK' /\ stkptr' = Len(stack')
  <2>1. stkptr' = Len(stack') /\ stkptr' \in Nat
    BY <1>1, <1>2 DEF Pop
  <2>2. Len(entries') <= Len(isr_stack')
    BY <1>0, <1>3, <1>4
  <2> QED BY <1>2, <1>3, <1>4, <2>1, <2>2 DEF CoreOK
<1>6. LiveShape /\ LiveShape'
  BY <1>5, LiveNow, LiveNext
<1>7. /\ Len(Live) = Len(entries) /\ Len(Live') = Len(entries')
      /\ \A i \in 1..Len(entries) :
            Live[i] = isr_stack[Len(isr_stack) - Len(entries) + i]
      /\ \A i \in 1..Len(entries') :
            Live'[i] = isr_stack'[Len(isr_stack') - Len(entries') + i]
  BY <1>6 DEF LiveShape
<1>8. Live[Len(entries)] = Last(isr_stack)
  <2>1. Len(isr_stack) - Len(entries) + Len(entries) = Len(isr_stack)
        /\ Len(entries) \in 1..Len(entries)
    BY <1>0
  <2> QED BY <1>3, <1>7, <2>1
<1>9. ASSUME NEW i \in 1..Len(entries') PROVE Live'[i] = Live[i]
  <2>1. /\ Len(isr_stack') - Len(entries') + i = Len(isr_stack) - Len(entries) + i
        /\ Len(isr_stack) - Len(entries) + i \in 1..(Len(isr_stack) - 1)
        /\ i \in 1..Len(entries)
    <3>1. /\ Len(isr_stack') = Len(isr_stack) - 1 /\ Len(entries') = Len(entries) - 1
          /\ Len(isr_stack) \in Nat /\ Len(entries) \in Nat /\ Len(entries) <= Len(isr_stack)
      BY <1>0, <1>3, <1>4
    <3>2. i \in 1..(Len(entries) - 1)
      BY <3>1
    <3> QED BY <3>1, <3>2
  <2>2. /\ Live[i] = isr_stack[Len(isr_stack) - Len(entries) + i]
        /\ Live'[i] = isr_stack'[Len(isr_stack') - Len(entries') + i]
    BY <1>7, <2>1
  <2>3. isr_stack'[Len(isr_stack) - Len(entries) + i]
        = isr_stack[Len(isr_stack) - Len(entries) + i]
    BY <1>3, <2>1
  <2> QED BY <2>1, <2>2, <2>3
<1>10. \A i \in 1..Len(entries') : i \in 1..Len(entries)
  BY <1>0, <1>4
<1>11. Ascending'
  BY <1>4, <1>10 DEF Ascending
<1>12. Outranking'
  BY <1>7, <1>9, <1>10 DEF Outranking
<1> QED BY <1>0, <1>1, <1>2, <1>4, <1>5, <1>7, <1>8, <1>9, <1>11, <1>12
        DEF StkptrExact

(* RESET forgets every entry.                                              *)
LEMMA ResetKeeps ==
  ASSUME CoreInv, stack' = <<>>, stkptr' = 0, entries' = <<>>, pc' = 0,
         UNCHANGED isr_stack
  PROVE  CoreInv' /\ Len(Live') = 0
<1> USE DEF CoreInv
<1>1. Len(stack') = 0 /\ Len(entries') = 0
      /\ stack' \in Seq(Places) /\ entries' \in Seq(1..Len(stack'))
  BY EmptySeq
<1>2. CoreOK'
  BY <1>1, CodeOfLevel, LenProperties DEF CoreOK
<1>3. Len(Live') = 0
  BY <1>1, <1>2, LiveNext DEF LiveShape
<1> QED BY <1>1, <1>2, <1>3 DEF Ascending, Outranking, StkptrExact

-----------------------------------------------------------------------------
(* The contexts, as InterruptNesting sees them.                            *)

Contexts == [level : {"main"} \cup Stacked, at : Places]

NestedShape ==
    /\ Nested \in Seq(Contexts)
    /\ Len(entries) \in Nat
    /\ Len(Nested) = Len(entries) + 1
    /\ \A i \in 1..(Len(entries) + 1) :
          /\ Nested[i].level = IF i = 1 THEN "main" ELSE Live[i - 1]
          /\ Nested[i].at = IF i <= Len(entries) THEN stack[entries[i]] ELSE pc

(* The function Nested, read off any core of the right types.              *)
LEMMA ContextSequence ==
  ASSUME NEW n \in Nat, NEW lv, \A i \in 1..n : lv[i] \in Stacked,
         NEW st, NEW en, NEW p \in Places, \A i \in 1..n : st[en[i]] \in Places
  PROVE  LET c == [i \in 1..(n + 1) |->
                     [level |-> IF i = 1 THEN "main" ELSE lv[i - 1],
                      at    |-> IF i <= n THEN st[en[i]] ELSE p]]
         IN  c \in Seq(Contexts) /\ Len(c) = n + 1
<1> DEFINE c == [i \in 1..(n + 1) |->
                   [level |-> IF i = 1 THEN "main" ELSE lv[i - 1],
                    at    |-> IF i <= n THEN st[en[i]] ELSE p]]
<1>1. ASSUME NEW i \in 1..(n + 1) PROVE c[i] \in Contexts
  <2>1. (IF i = 1 THEN "main" ELSE lv[i - 1]) \in {"main"} \cup Stacked
    OBVIOUS
  <2>2. (IF i <= n THEN st[en[i]] ELSE p) \in Places
    OBVIOUS
  <2> QED BY <2>1, <2>2 DEF Contexts
<1>2. DOMAIN c = 1..(n + 1)
  OBVIOUS
<1>3. c = [i \in 1..(n + 1) |-> c[i]]
  OBVIOUS
<1> HIDE DEF c
<1>4. c \in [1..(n + 1) -> Contexts]
  BY <1>1, <1>3
<1>5. c \in Seq(Contexts)
  BY <1>4, SeqDef
<1>6. Len(c) = n + 1
  BY <1>2, <1>5, LenProperties
<1> QED BY <1>5, <1>6 DEF c

LEMMA NestedNow ==
  ASSUME CoreOK
  PROVE  NestedShape
<1>1. /\ Len(entries) \in Nat
      /\ \A i \in 1..Len(entries) : Live[i] \in Stacked
      /\ \A i \in 1..Len(entries) : stack[entries[i]] \in Places
      /\ pc \in Places
  BY LiveNow, ElementOfSeq DEF CoreOK, LiveShape
<1>2. Nested \in Seq(Contexts) /\ Len(Nested) = Len(entries) + 1
  BY <1>1, ContextSequence DEF Nested
<1> QED BY <1>1, <1>2 DEF NestedShape, Nested

LEMMA NestedNext ==
  ASSUME CoreOK'
  PROVE  NestedShape'
<1>1. /\ Len(entries') \in Nat
      /\ \A i \in 1..Len(entries') : Live'[i] \in Stacked
      /\ \A i \in 1..Len(entries') : stack'[entries'[i]] \in Places
      /\ pc' \in Places
  BY LiveNext, ElementOfSeq DEF CoreOK, LiveShape
<1>2. Nested' \in Seq(Contexts) /\ Len(Nested') = Len(entries') + 1
  BY <1>1, ContextSequence DEF Nested
<1> QED BY <1>1, <1>2 DEF NestedShape, Nested

(* Contexts are equal when their parts are.                                *)
LEMMA ContextEqual ==
  ASSUME NEW x \in Contexts, NEW y \in Contexts, x.level = y.level, x.at = y.at
  PROVE  x = y
BY DEF Contexts

(* Only the newest context moved.                                          *)
LEMMA WorkNests ==
  ASSUME CoreOK, CoreOK', entries' = entries, Live' = Live,
         \A i \in 1..Len(entries) : stack'[entries[i]] = stack[entries[i]]
  PROVE  Nesting!Work
<1> DEFINE n == Len(entries) + 1
           moved == [Nested EXCEPT ![Len(Nested)].at = pc']
<1>1. NestedShape /\ NestedShape' /\ pc' \in Places
  BY NestedNow, NestedNext DEF CoreOK
<1>2. /\ Nested \in Seq(Contexts) /\ Nested' \in Seq(Contexts)
      /\ n \in Nat \ {0} /\ Len(Nested) = n /\ Len(Nested') = n
  BY <1>1 DEF NestedShape
<1>3. [Nested[n] EXCEPT !.at = pc'] \in Contexts
  <2>1. Nested[n] \in Contexts
    BY <1>2, ElementOfSeq
  <2> QED BY <1>1, <2>1 DEF Contexts
<1>4. /\ moved \in Seq(Contexts) /\ Len(moved) = n
      /\ \A i \in 1..n : moved[i] = IF i = n THEN [Nested[n] EXCEPT !.at = pc']
                                            ELSE Nested[i]
  BY <1>2, <1>3, ExceptSeq
<1> HIDE DEF moved
<1>5. ASSUME NEW i \in 1..n PROVE Nested'[i] = moved[i]
  <2>1. Nested'[i] \in Contexts /\ moved[i] \in Contexts /\ Nested[i] \in Contexts
    BY <1>2, <1>4, ElementOfSeq
  <2>2. Nested'[i].level = Nested[i].level
    BY <1>1 DEF NestedShape
  <2>3. CASE i = n
    <3>1. Nested'[i].at = pc'
      BY <1>1, <1>2, <2>3 DEF NestedShape
    <3>2. moved[i].level = Nested[i].level /\ moved[i].at = pc'
      BY <1>4, <2>1, <2>3 DEF Contexts
    <3> QED BY <2>1, <2>2, <3>1, <3>2, ContextEqual
  <2>4. CASE i # n
    <3>1. i \in 1..Len(entries)
      BY <1>1, <2>4 DEF NestedShape
    <3>2. Nested'[i].at = Nested[i].at
      BY <1>1, <3>1 DEF NestedShape
    <3>3. moved[i] = Nested[i]
      BY <1>4, <2>4
    <3> QED BY <2>1, <2>2, <3>2, <3>3, ContextEqual
  <2> QED BY <2>3, <2>4
<1>6. Nested' = moved
  BY <1>2, <1>4, <1>5, SeqEqual
<1> QED BY <1>1, <1>6 DEF Nesting!Work, moved

(* A context was added above.                                              *)
LEMMA EntryNests ==
  ASSUME CoreInv, NEW l \in Stacked, PushEntry(l),
         \A i \in 1..Len(Live) : Live[i] = "low" /\ l = "high"
  PROVE  Nesting!Enter(l)
<1> DEFINE n == Len(entries) + 1
           c == [level |-> l, at |-> Vector[l]]
<1>0. CoreInv' /\ CoreOK /\ CoreOK'
  BY EntryKeeps DEF CoreInv
<1>1. NestedShape /\ NestedShape' /\ LiveShape
  BY <1>0, NestedNow, NestedNext, LiveNow
<1>2. /\ Nested \in Seq(Contexts) /\ Nested' \in Seq(Contexts)
      /\ n \in Nat \ {0} /\ Len(Nested) = n /\ Len(Nested') = n + 1
      /\ Len(entries') = n /\ Len(Live) = Len(entries)
  BY <1>1, EntryKeeps DEF NestedShape, LiveShape
<1>3. c \in Contexts
  BY <1>0, CodeOfLevel DEF Contexts
<1>4. /\ Append(Nested, c) \in Seq(Contexts) /\ Len(Append(Nested, c)) = n + 1
      /\ \A i \in 1..n : Append(Nested, c)[i] = Nested[i]
      /\ Append(Nested, c)[n + 1] = c
  BY <1>2, <1>3, AppendProperties
<1>5. ASSUME NEW i \in 1..(n + 1) PROVE Nested'[i] = Append(Nested, c)[i]
  <2>1. Nested'[i] \in Contexts
    BY <1>2, ElementOfSeq
  <2>2. /\ Nested'[i].level = IF i = 1 THEN "main" ELSE Live'[i - 1]
        /\ Nested'[i].at = IF i <= n THEN stack'[entries'[i]] ELSE pc'
    BY <1>1, <1>2 DEF NestedShape
  <2>3. CASE i = n + 1
    <3>1. i # 1 /\ i - 1 = Len(Live) + 1 /\ ~(i <= n)
      BY <1>2, <2>3
    <3>2. Nested'[i].level = l /\ Nested'[i].at = Vector[l]
      BY <2>2, <3>1, EntryKeeps DEF PushEntry
    <3> QED BY <1>3, <1>4, <2>1, <2>3, <3>2, ContextEqual
  <2>4. CASE i # n + 1
    <3>1. i \in 1..n /\ (i # 1 => i - 1 \in 1..Len(Live))
      BY <1>2, <2>4
    <3>2. Nested[i] \in Contexts
      BY <1>2, <3>1, ElementOfSeq
    <3>3. /\ Nested[i].level = IF i = 1 THEN "main" ELSE Live[i - 1]
          /\ Nested[i].at = IF i <= Len(entries) THEN stack[entries[i]] ELSE pc
      BY <1>1, <3>1 DEF NestedShape
    <3>4. Nested'[i].level = Nested[i].level
      BY <2>2, <3>1, <3>3, EntryKeeps
    <3>5. Nested'[i].at = Nested[i].at
      <4>1. CASE i = n
        <5>1. entries'[i] = Len(stack) + 1 /\ stack'[Len(stack) + 1] = pc
          BY <4>1, EntryKeeps
        <5> QED BY <1>2, <2>2, <3>1, <3>3, <4>1, <5>1
      <4>2. CASE i # n
        <5>1. i \in 1..Len(entries)
          BY <1>2, <3>1, <4>2
        <5>2. entries[i] \in 1..Len(stack)
          BY <1>0, <5>1, ElementOfSeq DEF CoreOK
        <5>3. entries'[i] = entries[i] /\ stack'[entries[i]] = stack[entries[i]]
          BY <5>1, <5>2, EntryKeeps
        <5> QED BY <2>2, <3>1, <3>3, <5>1, <5>3
      <4> QED BY <4>1, <4>2
    <3> QED BY <1>4, <2>1, <3>1, <3>2, <3>4, <3>5, ContextEqual
  <2> QED BY <2>3, <2>4
<1>6. Nested' = Append(Nested, c)
  BY <1>2, <1>4, <1>5, SeqEqual
<1>7. ASSUME NEW i \in 1..Len(Nested) PROVE Nesting!Outranks(l, Nested[i].level)
  <2>1. Nested[i].level = IF i = 1 THEN "main" ELSE Live[i - 1]
    BY <1>1, <1>2 DEF NestedShape
  <2>2. i # 1 => i - 1 \in 1..Len(Live)
    BY <1>2
  <2> QED BY <2>1, <2>2 DEF Nesting!Outranks
<1> QED BY <1>6, <1>7 DEF Nesting!Enter, Nesting!Context

(* The newest context is gone, and the one below is where it was.          *)
LEMMA LeaveNests ==
  ASSUME CoreInv, entries # <<>>, Len(stack) = Floor, Pop, pc' = Last(stack),
         isr_stack' = Front(isr_stack), entries' = Front(entries)
  PROVE  Nesting!Leave
<1> DEFINE n == Len(entries)
           left == SubSeq(Nested, 1, n)
<1>0. CoreInv' /\ CoreOK /\ CoreOK'
  BY LeaveKeeps DEF CoreInv
<1>1. NestedShape /\ NestedShape'
  BY <1>0, NestedNow, NestedNext
<1>2. /\ Nested \in Seq(Contexts) /\ Nested' \in Seq(Contexts)
      /\ n \in Nat \ {0} /\ Len(Nested) = n + 1 /\ Len(Nested') = n
      /\ Len(entries') = n - 1
  BY <1>1, LeaveKeeps DEF NestedShape
<1>3. left \in Seq(Contexts) /\ Len(left) = n /\ \A i \in 1..n : left[i] = Nested[i]
  <2>1. \A i \in 1..n : Nested[i] \in Contexts
    BY <1>2, ElementOfSeq
  <2> HIDE DEF n
  <2>2. /\ left \in Seq(Contexts)
        /\ Len(left) = IF 1 <= n THEN n - 1 + 1 ELSE 0
        /\ \A i \in 1..(n - 1 + 1) : left[i] = Nested[1 + i - 1]
    BY <1>2, <2>1, SubSeqProperties
  <2> HIDE DEF left
  <2> QED BY <1>2, <2>2
<1> HIDE DEF left
<1>4. ASSUME NEW i \in 1..n PROVE Nested'[i] = left[i]
  <2>1. Nested'[i] \in Contexts /\ Nested[i] \in Contexts /\ left[i] = Nested[i]
    BY <1>2, <1>3, ElementOfSeq
  <2>2. /\ Nested'[i].level = IF i = 1 THEN "main" ELSE Live'[i - 1]
        /\ Nested'[i].at = IF i <= n - 1 THEN stack'[entries'[i]] ELSE pc'
        /\ Nested[i].level = IF i = 1 THEN "main" ELSE Live[i - 1]
        /\ Nested[i].at = stack[entries[i]]
    BY <1>1, <1>2 DEF NestedShape
  <2>3. Nested'[i].level = Nested[i].level
    <3>1. i # 1 => i - 1 \in 1..Len(entries')
      BY <1>2
    <3> QED BY <2>2, <3>1, LeaveKeeps
  <2>4. Nested'[i].at = Nested[i].at
    <3>1. CASE i = n
      <4>1. ~(i <= n - 1) /\ entries[i] = Len(stack) /\ pc' = stack[Len(stack)]
        BY <1>2, <3>1, LeaveKeeps
      <4> QED BY <2>2, <4>1
    <3>2. CASE i # n
      <4>1. i \in 1..(n - 1) /\ i \in 1..Len(entries')
        BY <1>2, <3>2
      <4>2. entries'[i] = entries[i]
        BY <4>1, LeaveKeeps
      <4>3. entries'[i] \in 1..Len(stack')
        BY <1>0, <4>1, ElementOfSeq DEF CoreOK
      <4>4. stack'[entries[i]] = stack[entries[i]]
        BY <4>2, <4>3, LeaveKeeps
      <4> QED BY <2>2, <4>1, <4>2, <4>4
    <3> QED BY <3>1, <3>2
  <2> QED BY <2>1, <2>3, <2>4, ContextEqual
<1>5. Nested' = left
  BY <1>2, <1>3, <1>4, SeqEqual
<1>6. Len(Nested) - 1 = n /\ Len(Nested) > 1
  BY <1>2
<1> QED BY <1>5, <1>6 DEF Nesting!Leave, left

(* Only the main context is left, at its start.                            *)
LEMMA ResetNests ==
  ASSUME CoreInv, stack' = <<>>, stkptr' = 0, entries' = <<>>, pc' = 0,
         UNCHANGED isr_stack
  PROVE  Nesting!Restart
<1> DEFINE c == [level |-> "main", at |-> 0]
<1>1. NestedShape'
  BY ResetKeeps, NestedNext DEF CoreInv
<1>2. Len(entries') = 0
  BY EmptySeq
<1>3. /\ Nested' \in Seq(Contexts) /\ Len(Nested') = 1
      /\ Nested'[1].level = "main" /\ Nested'[1].at = 0
  BY <1>1, <1>2 DEF NestedShape
<1>4. c \in Contexts
  BY CodeOfLevel DEF Contexts, CoreInv
<1>5. Nested'[1] = c
  BY <1>3, <1>4, ElementOfSeq, ContextEqual
<1>6. <<c>> \in Seq(Contexts) /\ Len(<<c>>) = 1 /\ <<c>>[1] = c
  BY <1>4
<1>7. Nested' = <<c>>
  BY <1>3, <1>5, <1>6, SeqEqual
<1> QED BY <1>7 DEF Nesting!Restart, Nesting!Reset, Nesting!Context

-----------------------------------------------------------------------------
(* The inductive invariant.                                                *)

LEMMA IInvInit ==
  ASSUME Init
  PROVE  IInv
<1> USE DEF Init
<1>1. CoreOK /\ Len(entries) = 0
  BY EmptySeq, CodeOfLevel, CodeAssumption DEF CoreOK, Places
<1>2. Len(Live) = 0
  BY <1>1, LiveNow DEF LiveShape
<1>3. LatchOK /\ Timer0Kept
  BY DEF LatchOK, Timer0Kept
<1>4. Ascending /\ Outranking /\ MaskedWhileRunning
  BY <1>1, <1>2 DEF Ascending, Outranking, MaskedWhileRunning, IsLive
<1>5. StkptrExact
  BY EmptySeq DEF StkptrExact
<1> QED BY <1>1, <1>3, <1>4, <1>5 DEF IInv

(* Masks survive a step that leaves the live levels and raises no bit of   *)
(* a live one.                                                             *)
LEMMA SameMasked ==
  ASSUME MaskedWhileRunning, Live' = Live,
         gieh' => gieh \/ ~IsLive("high"), giel' => giel \/ ~IsLive("low")
  PROVE  MaskedWhileRunning'
BY DEF MaskedWhileRunning, IsLive

(* A high entry finds no high level live, a low entry none at all.         *)
LEMMA EntryOutranks ==
  ASSUME CoreInv, MaskedWhileRunning
  PROVE  /\ gieh => \A i \in 1..Len(Live) : Live[i] = "low"
         /\ gieh /\ giel => Len(Live) = 0
<1>1. /\ Len(Live) \in Nat
      /\ \A i \in 1..Len(Live) : Live[i] \in {"low", "high"}
  BY LiveNow, ElementOfSeq DEF CoreInv, LiveShape, Stacked
<1>2. gieh => \A i \in 1..Len(Live) : Live[i] # "high"
  BY DEF MaskedWhileRunning, IsLive
<1>3. giel => \A i \in 1..Len(Live) : Live[i] # "low"
  BY DEF MaskedWhileRunning, IsLive
<1>4. ASSUME gieh, giel, Len(Live) # 0 PROVE FALSE
  <2>1. 1 \in 1..Len(Live)
    BY <1>1, <1>4
  <2> QED BY <1>1, <1>2, <1>3, <1>4, <2>1
<1> QED BY <1>1, <1>2, <1>4

(* Every step keeps the invariant, and is a step of InterruptNesting.      *)
LEMMA CoreStep ==
  ASSUME CoreInv, MaskedWhileRunning, Next
  PROVE  CoreInv' /\ MaskedWhileRunning' /\ Nesting!Next
<1>c. CoreOK
  BY DEF CoreInv
<1>w. ASSUME pc' \in Places, UNCHANGED <<stack, stkptr, isr_stack, entries>>,
             gieh' => gieh \/ ~IsLive("high"), giel' => giel \/ ~IsLive("low")
      PROVE  CoreInv' /\ MaskedWhileRunning' /\ Nesting!Next
  <2>1. CoreInv' /\ Live' = Live
    BY <1>w, WorkKeeps
  <2>2. Nesting!Work
    BY <1>w, <2>1, WorkNests DEF CoreInv
  <2> QED BY <1>w, <2>1, <2>2, SameMasked DEF Nesting!Next
<1>1. CASE EnterIsr
  <2>1. gieh /\ ~gieh' /\ giel' = giel /\ PushEntry("high") /\ "high" \in Stacked
    BY <1>1 DEF EnterIsr, InterruptReady, Stacked
  <2>2. \A i \in 1..Len(Live) : Live[i] = "low"
    BY <2>1, EntryOutranks
  <2>3. CoreInv' /\ Nesting!Enter("high")
    BY <2>1, <2>2, EntryKeeps, EntryNests
  <2>4. /\ Len(Live) \in Nat /\ Len(Live') = Len(Live) + 1
        /\ \A i \in 1..Len(Live) : Live'[i] = Live[i]
        /\ Live'[Len(Live) + 1] = "high"
    BY <2>1, <2>2, <1>c, LiveNow, EntryKeeps DEF LiveShape
  <2>5. ASSUME IsLive("low")' PROVE ~giel'
    <3>1. PICK i \in 1..Len(Live') : Live'[i] = "low"
      BY <2>5 DEF IsLive
    <3>2. i \in 1..Len(Live) /\ Live[i] = "low"
      BY <2>4, <3>1
    <3> QED BY <2>1, <3>2 DEF MaskedWhileRunning, IsLive
  <2> QED BY <2>1, <2>3, <2>5 DEF MaskedWhileRunning, Nesting!Next, Nesting!Levels
<1>2. CASE EnterIsrLow
  <2>1. gieh /\ giel /\ ~giel' /\ PushEntry("low") /\ "low" \in Stacked
    BY <1>2 DEF EnterIsrLow, InterruptReadyLo, Stacked
  <2>2. Len(Live) = 0
    BY <2>1, EntryOutranks
  <2>3. CoreInv' /\ Nesting!Enter("low")
    BY <2>1, <2>2, EntryKeeps, EntryNests
  <2>4. Len(Live') = 1 /\ Live'[1] = "low"
    BY <2>1, <2>2, EntryKeeps
  <2>5. ~IsLive("high")'
    BY <2>4 DEF IsLive
  <2> QED BY <2>1, <2>3, <2>5 DEF MaskedWhileRunning, Nesting!Next, Nesting!Levels
<1>3. CASE Execute
  BY <1>3, <1>c, <1>w, CodeOfLevel DEF Execute, masks
<1>4. CASE CallOrPush
  <2>1. PICK a \in Code[Level] : Push(a)
    BY <1>4 DEF CallOrPush
  <2>2. /\ a \in Places /\ pc' \in Places /\ UNCHANGED <<isr_stack, entries>>
        /\ gieh' = gieh /\ giel' = giel
    BY <1>4, <1>c, CodeOfLevel DEF CallOrPush, masks
  <2>3. /\ CoreInv' /\ Live' = Live
        /\ \A i \in 1..Len(stack) : stack'[i] = stack[i]
    BY <2>1, <2>2, PushKeeps
  <2>4. \A i \in 1..Len(entries) : stack'[entries[i]] = stack[entries[i]]
    BY <1>c, <2>3, ElementOfSeq DEF CoreOK
  <2>5. Nesting!Work
    BY <1>c, <2>2, <2>3, <2>4, WorkNests DEF CoreInv
  <2> QED BY <2>2, <2>3, <2>5, SameMasked DEF Nesting!Next
<1>5. CASE ReturnOrPop
  <2>1. /\ Len(stack) > Floor /\ Pop /\ UNCHANGED <<isr_stack, entries>>
        /\ gieh' = gieh /\ giel' = giel
    BY <1>5 DEF ReturnOrPop, masks
  <2>2. stack # <<>>
    BY <1>c, <2>1, EntriesBelowFloor, EmptySeq DEF CoreInv
  <2>3. pc' \in Places
    BY <1>5, <1>c, <2>2, CodeOfLevel, FrontLast DEF ReturnOrPop, CoreOK
  <2>4. /\ CoreInv' /\ Live' = Live
        /\ Len(stack) \in Nat \ {0}
        /\ \A i \in 1..(Len(stack) - 1) : stack'[i] = stack[i]
    BY <2>1, <2>3, PopKeeps
  <2>5. ASSUME NEW i \in 1..Len(entries) PROVE stack'[entries[i]] = stack[entries[i]]
    <3>1. entries[i] \in 1..Floor /\ Floor \in Nat
      BY EntriesBelowFloor DEF CoreInv
    <3>2. entries[i] \in 1..(Len(stack) - 1)
      BY <2>1, <2>4, <3>1
    <3> QED BY <2>4, <3>2
  <2>6. Nesting!Work
    BY <1>c, <2>1, <2>4, <2>5, WorkNests DEF CoreInv
  <2> QED BY <2>1, <2>4, <2>6, SameMasked DEF Nesting!Next
<1>6. CASE Retfie
  <2>1. /\ entries # <<>> /\ Len(stack) = Floor /\ Pop /\ pc' = Last(stack)
        /\ isr_stack' = Front(isr_stack) /\ entries' = Front(entries)
        /\ gieh' = (gieh \/ Last(isr_stack) = "high")
        /\ giel' = (giel \/ Last(isr_stack) = "low")
    BY <1>6 DEF Retfie
  <2>2. CoreInv' /\ Nesting!Leave
    BY <2>1, LeaveKeeps, LeaveNests
  <2>3. /\ Len(Live) \in Nat \ {0} /\ Len(Live') = Len(Live) - 1
        /\ \A i \in 1..Len(Live') : Live'[i] = Live[i]
        /\ Live[Len(Live)] = Last(isr_stack)
    BY <2>1, LeaveKeeps
  <2>4. ASSUME NEW i \in 1..Len(Live')
        PROVE  Live'[i] = "low" /\ Live[i] = "low" /\ Last(isr_stack) = "high"
    <3>1. i \in 1..Len(Live) /\ Len(Live) \in 1..Len(Live) /\ i < Len(Live)
      BY <2>3
    <3> QED BY <2>3, <3>1 DEF CoreInv, Outranking
  <2>5. ~IsLive("high")'
    BY <2>4 DEF IsLive
  <2>6. ASSUME IsLive("low")' PROVE ~giel'
    <3>1. PICK i \in 1..Len(Live') : Live'[i] = "low"
      BY <2>6 DEF IsLive
    <3>2. i \in 1..Len(Live) /\ Live[i] = "low" /\ Last(isr_stack) = "high"
      BY <2>3, <2>4
    <3> QED BY <2>1, <3>2 DEF MaskedWhileRunning, IsLive
  <2> QED BY <2>2, <2>5, <2>6 DEF MaskedWhileRunning, Nesting!Next
<1>7. CASE WriteMasks
  <2>1. /\ gieh' => gieh \/ ~IsLive("high")
        /\ giel' => giel \/ ~IsLive("low")
    BY <1>7 DEF WriteMasks
  <2> QED BY <1>7, <1>c, <1>w, <2>1, CodeOfLevel DEF WriteMasks
<1>8. CASE ResetInstruction
  <2>1. /\ stack' = <<>> /\ stkptr' = 0 /\ entries' = <<>> /\ pc' = 0
        /\ UNCHANGED isr_stack
    BY <1>8 DEF ResetInstruction
  <2>2. CoreInv' /\ Len(Live') = 0 /\ Nesting!Restart
    BY <2>1, ResetKeeps, ResetNests
  <2> QED BY <2>2 DEF MaskedWhileRunning, IsLive, Nesting!Next
<1>9. CASE Sleep
  BY <1>9, <1>c, <1>w DEF Sleep, masks, CoreOK
<1>10. CASE RequestInterrupt
  BY <1>10, <1>c, <1>w DEF RequestInterrupt, core, masks, CoreOK
<1>11. CASE RequestLowInterrupt
  BY <1>11, <1>c, <1>w DEF RequestLowInterrupt, core, masks, CoreOK
<1> QED BY <1>1, <1>2, <1>3, <1>4, <1>5, <1>6, <1>7, <1>8, <1>9, <1>10, <1>11
        DEF Next, Step, Instruction

LEMMA IInvStep ==
  ASSUME IInv, [Next]_vars
  PROVE  IInv' /\ [Nesting!Next]_Nested
<1>1. CASE Next
  BY <1>1, CoreStep, LatchStep DEF IInv, CoreInv
<1>2. CASE UNCHANGED vars
  <2>1. LatchOK' /\ Timer0Kept'
    BY LatchStep DEF IInv
  <2>2. CoreInv' /\ Live' = Live /\ gieh' = gieh /\ giel' = giel /\ pc' = pc
        /\ stack' = stack /\ entries' = entries
    BY <1>2, WorkKeeps DEF vars, core, masks, IInv, CoreInv, CoreOK
  <2>3. MaskedWhileRunning'
    BY <2>2, SameMasked DEF IInv
  <2> QED BY <2>1, <2>2, <2>3 DEF IInv, CoreInv, Nested
<1> QED BY <1>1, <1>2

LEMMA IInvHolds == Spec => []IInv
<1>1. Init => IInv
  BY IInvInit
<1>2. IInv /\ [Next]_vars => IInv'
  BY IInvStep
<1> QED BY <1>1, <1>2, PTL DEF Spec

(* Every variable of the core keeps its type, for any firmware that keeps  *)
(* the rules of Code and Enables.                                          *)
THEOREM TypeCorrect == Spec => []TypeOK
<1>1. IInv => TypeOK
  BY DEF IInv, CoreOK, LatchOK, TypeOK, Stacked
<1> QED BY <1>1, IInvHolds, PTL

(* While a handler is live its own enable bit is off, through higher       *)
(* entries, returns, mask writes and resets: enter_isr and its low twin    *)
(* never start a level a second time.                                      *)
THEOREM NoSecondEntry == Spec => []MaskedWhileRunning
<1>1. IInv => MaskedWhileRunning
  BY DEF IInv
<1> QED BY <1>1, IInvHolds, PTL

(* In the main program STKPTR reads the depth of the return stack, though  *)
(* enter_isr pushes without refreshing it.                                 *)
THEOREM StkptrTrue == Spec => []StkptrExact
<1>1. IInv => StkptrExact
  BY DEF IInv
<1> QED BY <1>1, IInvHolds, PTL

(* A Timer0 overflow that no entry with TMR0IE set has served is latched.  *)
THEOREM Timer0Latched == Spec => []Timer0Kept
<1>1. IInv => Timer0Kept
  BY DEF IInv
<1> QED BY <1>1, IInvHolds, PTL

(* The simulated core implements InterruptNesting: each live level at most *)
(* once, entered only over levels it outranks, and RETFIE resumes the      *)
(* interrupted context where it stopped.                                   *)
THEOREM ImplementsNesting == Spec => NestsProperly
<1>1. Init => Nesting!Init
  <2> SUFFICES ASSUME Init PROVE Nesting!Init
    OBVIOUS
  <2> DEFINE c == [level |-> "main", at |-> 0]
  <2>1. CoreOK /\ Len(entries) = 0
    BY IInvInit, EmptySeq DEF IInv, Init
  <2>2. /\ Nested \in Seq(Contexts) /\ Len(Nested) = 1
        /\ Nested[1].level = "main" /\ Nested[1].at = 0
    BY <2>1, NestedNow DEF NestedShape, Init
  <2>3. c \in Contexts
    BY <2>1, CodeOfLevel DEF Contexts
  <2>4. Nested[1] = c
    BY <2>2, <2>3, ElementOfSeq, ContextEqual
  <2>5. <<c>> \in Seq(Contexts) /\ Len(<<c>>) = 1 /\ <<c>>[1] = c
    BY <2>3
  <2>6. Nested = <<c>>
    BY <2>2, <2>4, <2>5, SeqEqual
  <2> QED BY <2>6 DEF Nesting!Init, Nesting!Reset, Nesting!Context
<1>2. IInv /\ [Next]_vars => [Nesting!Next]_Nested
  BY IInvStep
<1> QED BY <1>1, <1>2, IInvHolds, PTL DEF Spec, NestsProperly, Nesting!Spec
=============================================================================
