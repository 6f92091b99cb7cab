---------------------------- MODULE OverlayProof ----------------------------
(***************************************************************************)
(* For every device, every program and every choice of dip: the layout     *)
(* never lets a call, a dispatch or an interrupt overwrite a byte an older *)
(* activation still needs (FrameSafety), provided the program is split the *)
(* way legalize promises (WellSplit).                                      *)
(*                                                                         *)
(* The argument: a settled callee is above what each of its callers holds  *)
(* (CallBases); the interrupt regions are above every context they preempt *)
(* (RegionOrder); step 7 keeps slots inside frames and held slots below    *)
(* callees (SlotsInFrame, HeldBelowCallee); so on the stack all that is    *)
(* held ends below every newer base (HeldBelow), where newer frames start. *)
(*                                                                         *)
(* Then, each with an argument of its own: SaveSafety and GlobalsSafe,     *)
(* about the handlers' save areas; FramesMapped and RoutineInOneBank,      *)
(* about banks.                                                            *)
(***************************************************************************)
EXTENDS OverlayTypeProof

-----------------------------------------------------------------------------
(* The allocator's loops.                                                  *)

(* Settling one more function keeps CallBases when its base is above what  *)
(* its callers hold; its own callees are not settled yet.                  *)
LEMMA AssignKeepsCallBases ==
  ASSUME TypeOK, CallBases, NEW f \in prog.funcs, NEW b \in Nat,
         f \notin done, Callers(f) \subseteq done,
         base' = [base EXCEPT ![f] = b], done' = done \cup {f},
         UNCHANGED <<prog, dip>>,
         \A s \in SitesOf(f) :
            /\ LiveHigh(base[s.caller], prog.width[s.caller], s.live) <= b
            /\ dip = "Off" => End(s.caller) <= b
  PROVE  CallBases'
<1>1. base \in [prog.funcs -> Nat] /\ ProgOK
  BY TypeInvFacts DEF TypeOK
<1>2. base'[f] = b /\ \A g \in prog.funcs \ {f} : base'[g] = base[g]
  BY <1>1
<1>3. SUFFICES ASSUME NEW s \in prog.sites, NEW c \in s.callees, c \in done \cup {f}
               PROVE  /\ s.caller \in done \cup {f}
                      /\ LiveHigh(base'[s.caller], prog.width[s.caller], s.live) <= base'[c]
                      /\ dip = "Off" => End(s.caller)' <= base'[c]
  BY DEF CallBases
<1>4. s.caller \in done /\ s.caller # f /\ s.caller \in prog.funcs /\ c \in prog.funcs
  BY <1>1, <1>3 DEF CallBases, Callers, SitesOf, ProgOK, IsProgram
<1>5. base'[s.caller] = base[s.caller] /\ End(s.caller)' = End(s.caller)
  BY <1>2, <1>4 DEF End
<1>6. CASE c = f
  BY <1>2, <1>4, <1>5, <1>6 DEF SitesOf
<1>7. CASE c # f
  <2>1. c \in done /\ base'[c] = base[c]
    BY <1>2, <1>3, <1>4, <1>7
  <2>2. /\ LiveHigh(base[s.caller], prog.width[s.caller], s.live) <= base[c]
        /\ dip = "Off" => End(s.caller) <= base[c]
    BY <2>1 DEF CallBases
  <2> QED BY <1>4, <1>5, <2>1, <2>2
<1> QED BY <1>6, <1>7

(* Reopening a context for an interrupt region keeps CallBases: no call    *)
(* leaves the context, so what stays settled has settled callers.          *)
LEMMA ReopenKeepsCallBases ==
  ASSUME TypeOK, CallBases, NEW C, Closed(C), done = prog.funcs,
         done' = prog.funcs \ C, UNCHANGED <<prog, dip, base>>
  PROVE  CallBases'
<1>1. ProgOK
  BY TypeInvFacts
<1>2. ASSUME NEW s \in prog.sites, NEW c \in s.callees, c \in prog.funcs \ C
      PROVE  s.caller \in prog.funcs \ C
  BY <1>1, <1>2 DEF Closed, ProgOK, IsProgram
<1> QED BY <1>2 DEF CallBases, End

(* The base step 5b gives a function of the open region.                   *)
LEMMA RegionBase ==
  ASSUME TypeInv, NEW f \in prog.funcs, AssignRegion(f)
  PROVE  LET b == IsrBase(f, RegionRoots)
         IN  /\ b \in Nat
             /\ f \in RegionRoots => region <= b
             /\ \A s \in SitesOf(f) :
                   /\ LiveHigh(base[s.caller], prog.width[s.caller], s.live) <= b
                   /\ dip = "Off" => End(s.caller) <= b
<1>1. ProgOK /\ BasesOK /\ region \in Nat
  BY TypeInvFacts DEF TypeInv, TypeOK
<1>2. f \notin RegionRoots => Callers(f) # {}
  BY <1>1, Contexts DEF TypeInv, AssignRegion, RegionRoots, Settled
<1>3. f \in RegionRoots => SitesOf(f) = {}
  BY <1>1 DEF RegionRoots, SitesOf, ProgOK, IsProgram
<1> DEFINE b == IsrBase(f, RegionRoots)
           mayDip == dip # "Off"
<1>4. b = BaseIn(f, RegionRoots, region, mayDip) /\ mayDip \in BOOLEAN
  BY DEF IsrBase
<1> HIDE DEF b, mayDip
<1>5. /\ b \in Nat
      /\ f \in RegionRoots => region <= b
      /\ f \notin RegionRoots => \A s \in SitesOf(f) :
            /\ LiveHigh(base[s.caller], prog.width[s.caller], s.live) <= b
            /\ ~mayDip => End(s.caller) <= b
  BY <1>1, <1>2, <1>4, BaseInAbove
<1> QED BY <1>3, <1>5 DEF b, mayDip

(* Every step of the allocator keeps settled callees above what their      *)
(* callers hold.                                                           *)
LEMMA CallBasesAlloc ==
  ASSUME TypeInv, CallBases, AllocNext
  PROVE  CallBases'
<1>1. ProgOK /\ BasesOK /\ TypeOK
  BY TypeInvFacts DEF TypeInv
<1>2. ASSUME NEW f \in prog.funcs, AssignMain(f)
      PROVE  CallBases'
  <2> DEFINE roots == {g \in prog.funcs : Callers(g) = {}}
             mayDip == dip = "All"
             b == MainBase(f)
  <2>1. start \in Nat /\ mayDip \in BOOLEAN /\ (f \notin roots => Callers(f) # {})
    BY <1>1 DEF TypeOK
  <2>2. f \in roots => SitesOf(f) = {}
    BY DEF Callers
  <2>3. b = BaseIn(f, roots, start, mayDip)
    BY DEF MainBase
  <2>4. dip = "Off" => ~mayDip
    OBVIOUS
  <2> HIDE DEF b, roots, mayDip
  <2>5. /\ b \in Nat
        /\ f \notin roots => \A s \in SitesOf(f) :
              /\ LiveHigh(base[s.caller], prog.width[s.caller], s.live) <= b
              /\ ~mayDip => End(s.caller) <= b
    BY <1>1, <2>1, <2>3, BaseInAbove
  <2>6. /\ f \notin done /\ Callers(f) \subseteq done /\ done' = done \cup {f}
        /\ base' = [base EXCEPT ![f] = b] /\ UNCHANGED <<prog, dip>>
    BY <1>2 DEF AssignMain, b
  <2>7. \A s \in SitesOf(f) :
           /\ LiveHigh(base[s.caller], prog.width[s.caller], s.live) <= b
           /\ dip = "Off" => End(s.caller) <= b
    BY <2>2, <2>4, <2>5
  <2> QED BY <1>1, <2>5, <2>6, <2>7, AssignKeepsCallBases
<1>3. ASSUME NEW f \in prog.funcs, AssignRegion(f)
      PROVE  CallBases'
  <2> DEFINE b == IsrBase(f, RegionRoots)
  <2>1. /\ b \in Nat
        /\ \A s \in SitesOf(f) :
              /\ LiveHigh(base[s.caller], prog.width[s.caller], s.live) <= b
              /\ dip = "Off" => End(s.caller) <= b
    BY <1>3, RegionBase
  <2>2. /\ f \notin done /\ Callers(f) \subseteq done /\ done' = done \cup {f}
        /\ base' = [base EXCEPT ![f] = b] /\ UNCHANGED <<prog, dip>>
    BY <1>3 DEF AssignRegion
  <2> HIDE DEF b
  <2> QED BY <1>1, <2>1, <2>2, AssignKeepsCallBases
<1>4. CASE OpenLowRegion
  BY <1>1, <1>4, ReopenKeepsCallBases, Contexts DEF OpenLowRegion
<1>5. CASE OpenHighRegion
  BY <1>1, <1>5, ReopenKeepsCallBases, Contexts DEF OpenHighRegion
<1>6. CASE FallBackToGlobalsFirst
  BY <1>6 DEF FallBackToGlobalsFirst, CallBases
<1>7. CASE \/ AcceptCallGraph \/ GlobalsAboveFrames \/ PlaceGlobals
           \/ BasesAboveGlobals \/ PlaceLocals \/ Refuse
  <2>1. UNCHANGED <<prog, dip, base, done>>
    BY <1>7 DEF AcceptCallGraph, GlobalsAboveFrames, PlaceGlobals, BasesAboveGlobals,
                PlaceLocals, Refuse
  <2> QED BY <2>1 DEF CallBases, End
<1> QED BY <1>2, <1>3, <1>4, <1>5, <1>6, <1>7 DEF AllocNext

(* Each interrupt region opens above every frame of the contexts below it  *)
(* and is filled upwards from there.                                       *)
LEMMA RegionOrderAlloc ==
  ASSUME TypeInv, WellSplit, CallBases, RegionOrder, AllocNext
  PROVE  RegionOrder'
<1>1. ProgOK /\ BasesOK /\ TypeOK
  BY TypeInvFacts DEF TypeInv
<1>2. prog' = prog
  BY DEF AllocNext, AcceptCallGraph, AssignMain, AssignRegion, OpenLowRegion,
         OpenHighRegion, GlobalsAboveFrames, FallBackToGlobalsFirst, PlaceGlobals,
         BasesAboveGlobals, PlaceLocals, Refuse
<1>3. MainCtx' = MainCtx /\ LowCtx' = LowCtx /\ HighCtx' = HighCtx
  BY <1>2, RigidContexts
<1>4. MainCtx \subseteq prog.funcs /\ LowCtx \subseteq prog.funcs /\ HighCtx \subseteq prog.funcs
  BY <1>1, Contexts
<1>5. \A f \in prog.funcs : End(f) \in Nat /\ base[f] \in Nat /\ base[f] <= End(f)
  BY <1>1, EndAbove
<1>6. ASSUME NEW f \in prog.funcs, AssignMain(f)
      PROVE  RegionOrder'
  BY <1>6 DEF AssignMain, RegionOrder
<1>7. ASSUME NEW f \in prog.funcs, AssignRegion(f)
      PROVE  RegionOrder'
  <2> DEFINE b == IsrBase(f, RegionRoots)
             ctx == IF stage = "low" THEN LowCtx ELSE HighCtx
  <2>1. /\ b \in Nat
        /\ f \in RegionRoots => region <= b
        /\ \A s \in SitesOf(f) :
              LiveHigh(base[s.caller], prog.width[s.caller], s.live) <= b
    BY <1>7, RegionBase
  <2>2. /\ f \notin done /\ Callers(f) \subseteq done /\ done' = done \cup {f}
        /\ base' = [base EXCEPT ![f] = b] /\ stage \in {"low", "high"}
        /\ UNCHANGED <<stage, region>>
    BY <1>7 DEF AssignRegion
  <2>3. f \in ctx
    BY <2>2 DEF TypeInv, Settled
  <2> HIDE DEF b
  <2>4. base'[f] = b /\ \A g \in prog.funcs \ {f} : base'[g] = base[g] /\ End(g)' = End(g)
    BY <1>1, <1>2, <2>2 DEF BasesOK, End
  <2>5. \A g \in ctx \cap done : region <= base[g]
    BY <2>2 DEF RegionOrder
  <2>6. region <= b
    <3>1. CASE f \in RegionRoots
      BY <2>1, <3>1
    <3>2. CASE f \notin RegionRoots
      <4>1. RegionRoots \subseteq prog.funcs /\ ctx = Reach(RegionRoots)
        BY <1>1, <2>2 DEF RegionRoots, LowCtx, HighCtx, ProgOK, IsProgram
      <4>2. PICK s \in prog.sites : f \in s.callees /\ s.caller \in ctx
        BY <1>1, <2>3, <3>2, <4>1, ReachCaller
      <4>3. s \in SitesOf(f) /\ s.caller \in done /\ s.caller \in prog.funcs
        BY <1>1, <2>2, <4>2 DEF SitesOf, Callers, ProgOK, IsProgram
      <4>4. region <= base[s.caller]
        BY <2>5, <4>2, <4>3
      <4> DEFINE h == LiveHigh(base[s.caller], prog.width[s.caller], s.live)
      <4>5. h \in Nat /\ base[s.caller] <= h
        BY <1>1, HeldPrefix
      <4>6. h <= b
        BY <2>1, <4>3
      <4> HIDE DEF h
      <4>7. base[s.caller] \in Nat /\ region \in Nat
        BY <1>1, <1>5, <4>3 DEF TypeOK
      <4> QED BY <2>1, <4>4, <4>5, <4>6, <4>7
    <3> QED BY <3>1, <3>2
  <2>7. CASE stage = "low"
    <3>1. f \in LowCtx /\ f \notin MainCtx
      BY <2>3, <2>7 DEF WellSplit
    <3>2. \A g \in MainCtx : End(g)' <= region
      BY <1>4, <2>4, <2>7, <3>1 DEF RegionOrder
    <3>3. \A g \in LowCtx \cap (done \cup {f}) : region <= base'[g]
      BY <1>4, <2>4, <2>5, <2>6, <2>7
    <3> QED BY <1>3, <2>2, <2>7, <3>2, <3>3 DEF RegionOrder
  <2>8. CASE stage = "high"
    <3>1. f \in HighCtx /\ f \notin MainCtx /\ f \notin LowCtx
      BY <2>3, <2>8 DEF WellSplit
    <3>2. \A g \in MainCtx \cup LowCtx : End(g)' = End(g) /\ base'[g] = base[g]
      BY <1>4, <2>4, <3>1
    <3>3. \A g \in MainCtx \cup LowCtx : End(g)' <= region
      BY <2>8, <3>2 DEF RegionOrder
    <3>4. \A g \in HighCtx \cap (done \cup {f}) : region <= base'[g]
      BY <1>4, <2>4, <2>5, <2>6, <2>8
    <3>5. \A g \in MainCtx, k \in LowCtx : End(g)' <= base'[k]
      BY <2>8, <3>2 DEF RegionOrder
    <3> QED BY <1>3, <2>2, <2>8, <3>3, <3>4, <3>5 DEF RegionOrder
  <2> QED BY <2>2, <2>7, <2>8
<1>8. CASE OpenLowRegion
  <2> DEFINE isrBase == Max({start} \cup {End(f) : f \in MainCtx})
  <2>1. isrBase \in Nat /\ \A f \in MainCtx : End(f) <= isrBase
    BY <1>1, <1>4, EndsBound DEF TypeOK
  <2> HIDE DEF isrBase
  <2>2. isrBase <= region'
    <3>1. region' \in {isrBase + LowSaveBytes, isrBase + IsrSaveBytes, isrBase}
      BY <1>8 DEF OpenLowRegion, isrBase
    <3> QED BY <2>1, <3>1, SaveAssumption
  <2>3. region' \in Nat /\ \A f \in MainCtx : End(f) <= region'
    <3>1. region' \in Nat
      BY <1>8, TypeAlloc, <2>1, SaveAssumption DEF OpenLowRegion, isrBase
    <3> QED BY <1>4, <1>5, <2>1, <2>2, <3>1
  <2>4. \A f \in MainCtx : End(f)' = End(f)
    BY <1>8 DEF OpenLowRegion, End
  <2>5. stage' = "low" /\ LowCtx \cap done' = {}
    BY <1>8 DEF OpenLowRegion
  <2> QED BY <1>3, <2>3, <2>4, <2>5 DEF RegionOrder
<1>9. CASE OpenHighRegion
  <2> DEFINE hiBase == Max({End(f) : f \in prog.funcs})
  <2>1. hiBase \in Nat /\ \A f \in prog.funcs : End(f) <= hiBase
    <3>1. "main" \in prog.funcs
      BY <1>1 DEF ProgOK, IsProgram
    <3>2. {End("main")} \cup {End(f) : f \in prog.funcs} = {End(f) : f \in prog.funcs}
      BY <3>1
    <3> QED BY <1>1, <1>5, <3>1, <3>2, EndsBound
  <2> HIDE DEF hiBase
  <2>2. region' \in Nat /\ hiBase <= region'
    <3>1. region' \in {hiBase + IsrSaveBytes, hiBase}
      BY <1>9 DEF OpenHighRegion, hiBase
    <3> QED BY <2>1, <3>1, SaveAssumption
  <2>3. \A f \in MainCtx \cup LowCtx : End(f)' <= region'
    <3>1. \A f \in MainCtx \cup LowCtx : End(f)' = End(f)
      BY <1>9 DEF OpenHighRegion, End
    <3> QED BY <1>4, <1>5, <2>1, <2>2, <3>1
  <2>4. \A f \in MainCtx, g \in LowCtx : End(f)' <= base'[g]
    <3>1. stage = "low" /\ done = prog.funcs /\ base' = base
      BY <1>9 DEF OpenHighRegion
    <3>2. \A f \in MainCtx : End(f)' = End(f) /\ End(f) <= region
      BY <1>9, <3>1 DEF OpenHighRegion, End, RegionOrder
    <3>3. \A g \in LowCtx : region <= base[g]
      BY <1>4, <3>1 DEF RegionOrder
    <3>4. region \in Nat
      BY <1>1 DEF TypeOK
    <3> QED BY <1>4, <1>5, <3>1, <3>2, <3>3, <3>4
  <2>5. stage' = "high" /\ HighCtx \cap done' = {}
    BY <1>9 DEF OpenHighRegion
  <2> QED BY <1>3, <2>3, <2>4, <2>5 DEF RegionOrder
<1>10. CASE GlobalsAboveFrames \/ BasesAboveGlobals \/ PlaceLocals
  <2>1. stage' \in {"slots", "run"} /\ UNCHANGED <<base, done, region>>
    BY <1>10 DEF GlobalsAboveFrames, BasesAboveGlobals, PlaceLocals
  <2>2. \A f \in prog.funcs : End(f)' = End(f)
    BY <1>2, <2>1 DEF End
  <2>3. /\ \A f \in MainCtx, g \in LowCtx : End(f) <= base[g]
        /\ \A f \in MainCtx \cup LowCtx, g \in HighCtx : End(f) <= base[g]
    <3>1. CASE stage = "slots"
      BY <3>1 DEF RegionOrder
    <3>2. CASE stage = "high" /\ done = prog.funcs
      <4>1. \A f \in MainCtx \cup LowCtx, g \in HighCtx :
               End(f) <= region /\ region <= base[g]
        BY <1>4, <3>2 DEF RegionOrder
      <4>2. region \in Nat
        BY <1>1 DEF TypeOK
      <4> QED BY <1>4, <1>5, <3>2, <4>1, <4>2 DEF RegionOrder
    <3>3. CASE Handlers = {}
      BY <1>1, <3>3, Contexts
    <3> QED BY <1>10, <3>1, <3>2, <3>3
            DEF GlobalsAboveFrames, BasesAboveGlobals, PlaceLocals, BasesDone
  <2> QED BY <1>3, <1>4, <2>1, <2>2, <2>3 DEF RegionOrder
<1>11. CASE AcceptCallGraph \/ FallBackToGlobalsFirst \/ PlaceGlobals \/ Refuse
  BY <1>11 DEF AcceptCallGraph, FallBackToGlobalsFirst, PlaceGlobals, Refuse, RegionOrder
<1> QED BY <1>6, <1>7, <1>8, <1>9, <1>10, <1>11 DEF AllocNext

(* Step 7 puts every slot inside its frame and every slot held across a    *)
(* call below each frame the call can enter, reordered or not.             *)
LEMMA SlotsAlloc ==
  ASSUME TypeInv, CallBases, AllocNext
  PROVE  SlotsInFrame' /\ HeldBelowCallee'
<1>1. ProgOK /\ BasesOK /\ TypeOK
  BY TypeInvFacts DEF TypeInv
<1>2. CASE PlaceLocals
  <2>1. /\ prog' = prog /\ base' = base /\ dip' = dip /\ done = prog.funcs
        /\ \A f \in prog.funcs : slots'[f] = SlotAddr(f)
    BY <1>2 DEF PlaceLocals, TypeInv, Settled
  <2>2. \A f \in prog.funcs : \A k \in AllSlots(f) :
           SlotEnd(f, k)' = SlotAddr(f)[k] + prog.width[f][k] /\ End(f)' = End(f)
    BY <2>1 DEF SlotEnd, End
  <2>3. \A f : AllSlots(f)' = AllSlots(f)
    BY <2>1 DEF AllSlots
  <2>4. ASSUME NEW s \in prog.sites, NEW c \in s.callees, NEW k \in s.live
        PROVE  SlotEnd(s.caller, k)' <= base[c]
    <3> DEFINE f == s.caller
               e == SlotAddr(f)[k] + prog.width[f][k]
    <3>1. f \in prog.funcs /\ c \in prog.funcs /\ k \in AllSlots(f) /\ s.live # {}
      BY <1>1, <2>4 DEF ProgOK, IsProgram, AllSlots
    <3>2. SlotEnd(f, k)' = e
      BY <2>2, <3>1
    <3>3. SlotAddr(f)[k] \in Nat /\ prog.width[f][k] \in Nat
      <4>1. SlotAddr(f) \in [AllSlots(f) -> Nat]
        BY <1>1, <3>1, SlotAddrInFrame
      <4>2. prog.width[f] \in Seq(Nat \ {0}) /\ k \in 1..Len(prog.width[f])
        BY <1>1, <3>1 DEF ProgOK, IsProgram, AllSlots
      <4>3. prog.width[f][k] \in Nat \ {0}
        BY <4>2
      <4> QED BY <3>1, <4>1, <4>3
    <3>4. e <= End(f) /\ (~Reordered(f) => e = Cursor(base[f], prog.width[f])[k])
      BY <1>1, <3>1, SlotAddrInFrame
    <3>5. End(f) \in Nat /\ base[c] \in Nat
      BY <1>1, <3>1, EndAbove
    <3>6. LiveHigh(base[f], prog.width[f], s.live) <= base[c] /\ (dip = "Off" => End(f) <= base[c])
      BY <2>1, <3>1 DEF CallBases
    <3>7. CASE Reordered(f)
      <4>1. dip = "Off" \/ ~(base[c] < End(f))
        BY <3>7 DEF Reordered, DippedInto
      <4> HIDE DEF e
      <4>2. e \in Nat
        BY <3>3 DEF e
      <4> QED BY <3>2, <3>4, <3>5, <3>6, <4>1, <4>2
    <3>8. CASE ~Reordered(f)
      <4>1. /\ prog.width[f] \in WidthSeq /\ base[f] \in Nat
            /\ s.live \in SUBSET (1..Len(prog.width[f]))
        BY <1>1, <3>1 DEF BasesOK, ProgOK, IsProgram, WidthSeq
      <4>2. Cursor(base[f], prog.width[f])[k] <= LiveHigh(base[f], prog.width[f], s.live)
        BY <4>1, LiveHighCovers
      <4>3. LiveHigh(base[f], prog.width[f], s.live) \in Nat
        BY <1>1, HeldPrefix
      <4> DEFINE h == LiveHigh(base[f], prog.width[f], s.live)
      <4> HIDE DEF e, h
      <4>4. e <= h /\ h <= base[c] /\ h \in Nat /\ e \in Nat
        BY <3>3, <3>4, <3>6, <3>8, <4>2, <4>3 DEF e, h
      <4> QED BY <3>2, <3>5, <4>4
    <3> QED BY <3>7, <3>8
  <2>5. \A f \in prog.funcs : \A k \in AllSlots(f) :
           base[f] <= SlotAddr(f)[k] /\ SlotAddr(f)[k] + prog.width[f][k] <= End(f)
    BY <1>1, SlotAddrInFrame
  <2> QED BY <2>1, <2>2, <2>3, <2>4, <2>5 DEF SlotsInFrame, HeldBelowCallee
<1>3. CASE ~PlaceLocals
  <2>1. stage' # "run"
    BY <1>3 DEF AllocNext, AcceptCallGraph, AssignMain, AssignRegion, OpenLowRegion,
         OpenHighRegion, GlobalsAboveFrames, FallBackToGlobalsFirst, PlaceGlobals,
         BasesAboveGlobals, Refuse
  <2> QED BY <2>1 DEF SlotsInFrame, HeldBelowCallee
<1> QED BY <1>2, <1>3

-----------------------------------------------------------------------------
(* The running program.                                                    *)

(* While the layout is being computed nothing runs.                        *)
LEMMA AllocBeforeRun ==
  ASSUME TypeInv, AllocNext
  PROVE  stack = <<>>
BY DEF AllocNext, AcceptCallGraph, AssignMain, AssignRegion, OpenLowRegion,
       OpenHighRegion, GlobalsAboveFrames, FallBackToGlobalsFirst, PlaceGlobals,
       BasesAboveGlobals, PlaceLocals, Refuse, BasesDone, TypeInv, TypeOK

LEMMA RunAfterAlloc ==
  ASSUME TypeInv, RunNext
  PROVE  stage = "run" /\ done = prog.funcs /\ UNCHANGED allocVars
<1>1. UNCHANGED allocVars
  BY DEF RunNext, PowerOn, Call, Return, Preempt, ReturnFromInterrupt
<1>2. stage = "run" \/ stack # <<>>
  <2>1. Len(stack) > 1 => stack # <<>>
    OBVIOUS
  <2> QED BY <2>1 DEF RunNext, PowerOn, Call, Return, Preempt, ReturnFromInterrupt
<1> QED BY <1>1, <1>2 DEF TypeInv, TypeOK, Settled

(* An activation is in a context only above the handler that entered it.   *)
LEMMA StackContextsRun ==
  ASSUME TypeInv, WellSplit, StackContexts, RunNext
  PROVE  StackContexts'
<1>1. TypeOK /\ ProgOK /\ prog' = prog
  BY TypeInvFacts, RunAfterAlloc DEF TypeInv, allocVars
<1>2. MainCtx' = MainCtx /\ LowCtx' = LowCtx /\ HighCtx' = HighCtx
  BY <1>1, RigidContexts
<1>3. /\ Closed(MainCtx) /\ Closed(LowCtx) /\ Closed(HighCtx)
      /\ prog.low \subseteq LowCtx /\ prog.high \subseteq HighCtx
  BY <1>1, Contexts
<1> DEFINE In(q, i) == \/ q[i].fn \in MainCtx
                       \/ q[i].fn \in LowCtx /\ \E j \in 1..i : q[j].fn \in prog.low
                       \/ q[i].fn \in HighCtx /\ \E j \in 1..i : q[j].fn \in prog.high
<1>4. SUFFICES \A i \in 1..Len(stack') : In(stack', i)
  BY <1>1, <1>2 DEF StackContexts
<1>5. \A i \in 1..Len(stack) : In(stack, i)
  BY DEF StackContexts
<1>6. \A i \in Nat : \A j \in 1..i : j \in 1..(i + 1)
  OBVIOUS
(* A stack that agrees with the old one on the functions up to i.          *)
<1>7. ASSUME NEW i \in 1..Len(stack), \A j \in 1..i : stack'[j].fn = stack[j].fn
      PROVE  In(stack', i)
  <2>1. In(stack, i) /\ i \in 1..i
    BY <1>5
  <2> QED BY <1>7, <2>1
<1>8. CASE PowerOn
  <2>1. stack' = <<Entered("main")>>
    BY <1>8 DEF PowerOn
  <2>2. Len(stack') = 1 /\ stack'[1].fn = "main"
    BY <2>1 DEF Entered
  <2> QED BY <2>2 DEF WellSplit
<1>9. ASSUME NEW s \in prog.sites, NEW c \in s.callees, Call(s, c), NEW i \in 1..Len(stack')
      PROVE  In(stack', i)
  <2> DEFINE n == Len(stack)
  <2>1. /\ Len(stack') = n + 1 /\ n \in Nat \ {0} /\ stack[n].fn = s.caller
        /\ \A j \in 1..(n - 1) : stack'[j] = stack[j]
        /\ stack'[n].fn = s.caller /\ stack'[n + 1].fn = c
    BY <1>1, <1>9, CallStack, EnteredTyped
  <2> HIDE DEF n
  <2>2. \A j \in 1..n : stack'[j].fn = stack[j].fn
    BY <2>1
  <2>3. CASE i \in 1..n
    <3>1. \A j \in 1..i : j \in 1..n
      BY <2>1, <2>3
    <3> QED BY <1>7, <2>2, <2>3, <3>1 DEF n
  <2>4. CASE i = n + 1
    <3>1. n \in 1..n /\ n \in 1..Len(stack)
      BY <2>1 DEF n
    <3>2. In(stack', n)
      BY <1>7, <2>2, <3>1
    <3>3. /\ s.caller \in MainCtx => c \in MainCtx
          /\ s.caller \in LowCtx => c \in LowCtx
          /\ s.caller \in HighCtx => c \in HighCtx
      BY <1>3, <1>9 DEF Closed
    <3>4. \A j \in 1..n : j \in 1..i
      BY <1>6, <2>1, <2>4
    <3> QED BY <2>1, <2>4, <3>2, <3>3, <3>4
  <2> QED BY <1>9, <2>1, <2>3, <2>4
<1>10. ASSUME Return, NEW i \in 1..Len(stack')
       PROVE  In(stack', i)
  <2> DEFINE n == Len(stack)
  <2>1. /\ Len(stack') = n - 1 /\ n \in Nat \ {0, 1}
        /\ \A j \in 1..(n - 2) : stack'[j] = stack[j]
        /\ stack'[n - 1].fn = stack[n - 1].fn
    BY <1>1, <1>10, ReturnStack, EnteredTyped
  <2> HIDE DEF n
  <2>2. \A j \in 1..(n - 1) : stack'[j].fn = stack[j].fn
    BY <2>1
  <2>3. i \in 1..n /\ \A j \in 1..i : j \in 1..(n - 1)
    BY <1>10, <2>1
  <2> QED BY <1>7, <2>2, <2>3 DEF n
<1>11. ASSUME NEW h \in Handlers, Preempt(h), NEW i \in 1..Len(stack')
       PROVE  In(stack', i)
  <2> DEFINE n == Len(stack)
  <2>1. /\ Len(stack') = n + 1 /\ n \in Nat \ {0}
        /\ \A j \in 1..n : stack'[j] = stack[j]
        /\ stack'[n + 1].fn = h
    BY <1>1, <1>11, PreemptStack, EnteredTyped
  <2> HIDE DEF n
  <2>2. CASE i \in 1..n
    <3>1. \A j \in 1..i : j \in 1..n
      BY <2>1, <2>2
    <3> QED BY <1>7, <2>1, <2>2, <3>1 DEF n
  <2>3. CASE i = n + 1
    <3>1. i \in 1..i
      BY <2>1, <2>3
    <3> QED BY <1>3, <2>1, <2>3, <3>1 DEF Handlers
  <2> QED BY <1>11, <2>1, <2>2, <2>3
<1>12. ASSUME ReturnFromInterrupt, NEW i \in 1..Len(stack')
       PROVE  In(stack', i)
  <2>1. i \in 1..Len(stack) /\ \A j \in 1..i : j \in 1..(Len(stack) - 1)
    BY <1>1, <1>12, RetfieStack
  <2> QED BY <1>1, <1>7, <1>12, <2>1, RetfieStack
<1> HIDE DEF In
<1> QED BY <1>8, <1>9, <1>10, <1>11, <1>12 DEF RunNext

(* A handler is taken only where every function of its context and of any  *)
(* context that preempts it is off the stack, so its frame is above all    *)
(* that is held.                                                           *)
LEMMA PreemptAbove ==
  ASSUME TypeInv, RegionOrder, StackContexts, SlotsInFrame, stage = "run",
         NEW h \in Handlers, Preempt(h),
         NEW i \in 1..Len(stack), NEW k \in stack[i].held
  PROVE  SlotEnd(stack[i].fn, k) <= base[h]
<1> DEFINE f == stack[i].fn
<1>1. ProgOK /\ BasesOK
  BY TypeInvFacts DEF TypeInv
<1>2. MainCtx \subseteq prog.funcs /\ LowCtx \subseteq prog.funcs /\ HighCtx \subseteq prog.funcs
      /\ prog.low \subseteq LowCtx /\ prog.high \subseteq HighCtx
  BY <1>1, Contexts
<1>3. Len(stack) \in Nat /\ i \in Nat /\ \A j \in 1..i : j \in 1..Len(stack)
  BY DEF TypeInv, TypeOK
<1>4. ~ \E j \in 1..i : stack[j].fn \in prog.high
  BY <1>3 DEF Preempt, Running
<1>5. h \in prog.low => ~ \E j \in 1..i : stack[j].fn \in prog.low
  BY <1>3 DEF Preempt, Running
<1>6. f \in MainCtx \/ (f \in LowCtx /\ h \notin prog.low)
  BY <1>4, <1>5 DEF StackContexts
<1>7. End(f) <= base[h]
  BY <1>2, <1>6 DEF RegionOrder, Handlers
<1>8. f \in prog.funcs /\ h \in prog.funcs /\ k \in AllSlots(f)
  BY <1>2, <1>6 DEF TypeInv, TypeOK, Handlers
<1>9. SlotEnd(f, k) <= End(f)
  BY <1>8 DEF SlotsInFrame
<1>10. End(f) \in Nat /\ base[h] \in Nat
  BY <1>1, <1>8, EndAbove
<1>11. SlotEnd(f, k) \in Nat
  <2>1. slots[f] \in [AllSlots(f) -> Nat]
    BY <1>8 DEF TypeInv, TypeOK
  <2>2. prog.width[f] \in Seq(Nat \ {0}) /\ k \in 1..Len(prog.width[f])
    BY <1>1, <1>8 DEF ProgOK, IsProgram, AllSlots
  <2>3. prog.width[f][k] \in Nat \ {0}
    BY <2>2
  <2> QED BY <1>8, <2>1, <2>3 DEF SlotEnd
<1> HIDE DEF f
<1> DEFINE e == SlotEnd(f, k)
           t == End(f)
           b == base[h]
<1>12. e <= t /\ t <= b /\ e \in Nat /\ t \in Nat /\ b \in Nat
  BY <1>7, <1>9, <1>10, <1>11
<1> HIDE DEF e, t, b
<1>13. e <= b
  BY <1>12
<1> QED BY <1>13 DEF e, b, f

LEMMA ActivationTyped ==
  ASSUME TypeInv, NEW i \in 1..Len(stack)
  PROVE  /\ stack[i].fn \in prog.funcs /\ stack[i].held \subseteq AllSlots(stack[i].fn)
         /\ stage = "run"
<1>1. stack \in Seq(Activation)
  BY DEF TypeInv, TypeOK, Activation
<1>2. stack[i] \in Activation /\ stack # <<>>
  BY <1>1
<1> QED BY <1>2 DEF TypeInv, TypeOK, Activation

LEMMA SlotEndNat ==
  ASSUME TypeInv, stage = "run", NEW f \in prog.funcs, NEW k \in AllSlots(f)
  PROVE  SlotEnd(f, k) \in Nat /\ slots[f][k] \in Nat /\ prog.width[f][k] \in Nat
<1>1. slots[f] \in [AllSlots(f) -> Nat]
  BY DEF TypeInv, TypeOK
<1>2. prog.width[f] \in Seq(Nat \ {0}) /\ k \in 1..Len(prog.width[f])
  BY TypeInvFacts DEF TypeInv, ProgOK, IsProgram, AllSlots
<1>3. prog.width[f][k] \in Nat \ {0}
  BY <1>2
<1> QED BY <1>1, <1>3 DEF SlotEnd

(* A frame's bytes lie between its base and its end.                       *)
LEMMA FrameSpan ==
  ASSUME TypeInv, SlotsInFrame, stage = "run", NEW f \in prog.funcs,
         NEW S \in SUBSET AllSlots(f), NEW a \in BytesOf(f, S)
  PROVE  a \in Nat /\ base[f] <= a /\ a < End(f)
<1>1. PICK k \in S : a \in SlotBytes(f, k)
  BY DEF BytesOf
<1> DEFINE x == slots[f][k]
           w == prog.width[f][k]
           b == base[f]
           e == End(f)
<1>2. k \in AllSlots(f)
  BY <1>1
<1>3. x \in Nat /\ w \in Nat
  BY <1>2, SlotEndNat
<1>4. b <= x /\ x + w <= e
  BY <1>2 DEF SlotsInFrame, SlotEnd
<1>5. b \in Nat /\ e \in Nat
  BY TypeInvFacts, EndAbove DEF TypeInv
<1>6. a \in x..(x + w - 1)
  BY <1>1 DEF SlotBytes
<1> HIDE DEF x, w, b, e
<1>7. a \in Nat /\ b <= a /\ a < e
  BY <1>3, <1>4, <1>5, <1>6
<1> QED BY <1>7 DEF b, e

(* A call keeps its caller's live slots below the callee, and with them    *)
(* everything older: an older activation's held slots end below the        *)
(* caller's base already.                                                  *)
LEMMA CallAbove ==
  ASSUME TypeInv, CallBases, HeldBelowCallee, HeldBelow, stage = "run", done = prog.funcs,
         NEW s \in prog.sites, NEW c \in s.callees, Call(s, c),
         NEW i \in 1..(Len(stack) - 1), NEW k \in stack[i].held
  PROVE  SlotEnd(stack[i].fn, k) <= base[c]
<1>1. TypeOK /\ ProgOK /\ BasesOK
  BY TypeInvFacts DEF TypeInv
<1>2. Len(stack) \in Nat \ {0} /\ stack[Len(stack)].fn = s.caller /\ c \in prog.funcs
  BY <1>1, CallStack
<1>3. i \in 1..Len(stack) /\ Len(stack) \in 1..Len(stack) /\ i < Len(stack)
  BY <1>2
<1>4. SlotEnd(stack[i].fn, k) <= base[s.caller]
  BY <1>2, <1>3 DEF HeldBelow
<1>5. stack[i].fn \in prog.funcs /\ k \in AllSlots(stack[i].fn)
  BY <1>3, ActivationTyped
<1> DEFINE e == SlotEnd(stack[i].fn, k)
           h == LiveHigh(base[s.caller], prog.width[s.caller], s.live)
<1>6. e \in Nat
  BY <1>5, SlotEndNat
<1>7. h \in Nat /\ base[s.caller] <= h
  BY <1>1, HeldPrefix
<1>8. h <= base[c]
  BY <1>2 DEF CallBases
<1>9. base[s.caller] \in Nat /\ base[c] \in Nat
  BY <1>1, <1>2 DEF BasesOK, ProgOK, IsProgram
<1> HIDE DEF e, h
<1>10. e <= base[s.caller]
  BY <1>4 DEF e
<1>11. e <= base[c]
  BY <1>6, <1>7, <1>8, <1>9, <1>10
<1> QED BY <1>11 DEF e

LEMMA HeldBelowRun ==
  ASSUME TypeInv, WellSplit, FrameInv, RunNext
  PROVE  HeldBelow'
<1> USE DEF FrameInv
<1>1. /\ TypeOK /\ ProgOK /\ prog' = prog /\ base' = base /\ slots' = slots
      /\ stage = "run" /\ done = prog.funcs
  BY TypeInvFacts, RunAfterAlloc DEF TypeInv, allocVars
<1>2. \A f, k : SlotEnd(f, k)' = SlotEnd(f, k)
  BY <1>1 DEF SlotEnd
<1> DEFINE Below(a, f) == \A k \in a.held : SlotEnd(a.fn, k) <= base[f]
<1>3. SUFFICES \A i, j \in 1..Len(stack') : i < j => Below(stack'[i], stack'[j].fn)
  BY <1>1, <1>2 DEF HeldBelow
<1>4. \A i, j \in 1..Len(stack) : i < j => Below(stack[i], stack[j].fn)
  BY DEF HeldBelow
<1> HIDE DEF Below
<1>5. CASE PowerOn
  <2>1. Len(stack') = 1
    BY <1>5 DEF PowerOn
  <2> QED BY <2>1
<1>6. ASSUME NEW s \in prog.sites, NEW c \in s.callees, Call(s, c),
             NEW i \in 1..Len(stack'), NEW j \in 1..Len(stack'), i < j
      PROVE  Below(stack'[i], stack'[j].fn)
  <2> DEFINE n == Len(stack)
  <2>1. /\ Len(stack') = n + 1 /\ n \in Nat \ {0} /\ stack[n].fn = s.caller
        /\ \A m \in 1..(n - 1) : stack'[m] = stack[m]
        /\ stack'[n].fn = s.caller /\ stack'[n].held = s.live /\ stack'[n + 1].fn = c
    BY <1>1, <1>6, CallStack, EnteredTyped
  <2>2. \A m \in 1..(n - 1) : Below(stack[m], c)
    BY <1>1, <1>6, CallAbove DEF Below
  <2>3. Below(stack'[n], c)
    BY <1>1, <1>6, <2>1 DEF Below, HeldBelowCallee
  <2> HIDE DEF n
  <2>4. CASE j \in 1..n
    <3>1. /\ i \in 1..(n - 1) /\ i \in 1..Len(stack) /\ j \in 1..Len(stack)
          /\ stack'[i] = stack[i] /\ stack'[j].fn = stack[j].fn
      BY <1>6, <2>1, <2>4 DEF n
    <3> QED BY <1>4, <1>6, <3>1
  <2>5. CASE j = n + 1
    <3>1. i \in 1..(n - 1) \/ i = n
      BY <1>6, <2>1, <2>5
    <3> QED BY <2>1, <2>2, <2>3, <2>5, <3>1
  <2> QED BY <1>6, <2>1, <2>4, <2>5
<1>7. ASSUME Return, NEW i \in 1..Len(stack'), NEW j \in 1..Len(stack'), i < j
      PROVE  Below(stack'[i], stack'[j].fn)
  <2> DEFINE n == Len(stack)
  <2>1. /\ Len(stack') = n - 1 /\ n \in Nat \ {0, 1}
        /\ \A m \in 1..(n - 2) : stack'[m] = stack[m]
        /\ stack'[n - 1].fn = stack[n - 1].fn
    BY <1>1, <1>7, ReturnStack, EnteredTyped
  <2>2. i \in 1..(n - 1) /\ j \in 1..(n - 1)
    BY <1>7, <2>1
  <2> HIDE DEF n
  <2>5. i \in 1..(n - 2) /\ (j \in 1..(n - 2) \/ j = n - 1) /\ i \in 1..n /\ j \in 1..n
    BY <1>7, <2>1, <2>2
  <2>3. stack'[i] = stack[i] /\ stack'[j].fn = stack[j].fn
    BY <2>1, <2>5
  <2> QED BY <1>4, <1>7, <2>5, <2>3 DEF n
<1>8. ASSUME NEW h \in Handlers, Preempt(h),
             NEW i \in 1..Len(stack'), NEW j \in 1..Len(stack'), i < j
      PROVE  Below(stack'[i], stack'[j].fn)
  <2> DEFINE n == Len(stack)
  <2>1. /\ Len(stack') = n + 1 /\ n \in Nat \ {0}
        /\ \A m \in 1..n : stack'[m] = stack[m]
        /\ stack'[n + 1].fn = h
    BY <1>1, <1>8, PreemptStack, EnteredTyped
  <2>2. \A m \in 1..n : Below(stack[m], h)
    BY <1>1, <1>8, PreemptAbove DEF Below
  <2>3. i \in 1..n /\ (j \in 1..n \/ j = n + 1)
    BY <1>8, <2>1
  <2> QED BY <1>4, <1>8, <2>1, <2>2, <2>3
<1>9. ASSUME ReturnFromInterrupt, NEW i \in 1..Len(stack'), NEW j \in 1..Len(stack'), i < j
      PROVE  Below(stack'[i], stack'[j].fn)
  <2>1. /\ i \in 1..Len(stack) /\ j \in 1..Len(stack)
        /\ stack'[i] = stack[i] /\ stack'[j] = stack[j]
    BY <1>1, <1>9, RetfieStack
  <2> QED BY <1>4, <1>9, <2>1
<1> QED BY <1>5, <1>6, <1>7, <1>8, <1>9 DEF RunNext

-----------------------------------------------------------------------------
(* The invariant, and what it gives.                                       *)

LEMMA FrameInit ==
  ASSUME AllocInit, stack = <<>>
  PROVE  FrameInv
<1>1. stage = "callgraph" /\ done = {} /\ Len(stack) = 0
  BY DEF AllocInit
<1> QED BY <1>1 DEF FrameInv, Settled, CallBases, RegionOrder, SlotsInFrame,
                    HeldBelowCallee, StackContexts, HeldBelow

LEMMA FrameStep ==
  ASSUME TypeInv, WellSplit, FrameInv, [Next]_vars
  PROVE  FrameInv'
<1>1. Settled'
  BY TypeStep DEF TypeInv
<1>2. CASE AllocNext /\ UNCHANGED stack
  <2>1. CallBases' /\ RegionOrder' /\ SlotsInFrame' /\ HeldBelowCallee'
    BY <1>2, CallBasesAlloc, RegionOrderAlloc, SlotsAlloc DEF FrameInv
  <2>2. stack' = <<>>
    BY <1>2, AllocBeforeRun
  <2>3. Len(stack') = 0
    BY <2>2
  <2>4. StackContexts' /\ HeldBelow'
    BY <2>3 DEF StackContexts, HeldBelow
  <2> QED BY <1>1, <2>1, <2>4 DEF FrameInv
<1>3. CASE RunNext
  <2>1. UNCHANGED allocVars
    BY <1>3, RunAfterAlloc
  <2>2. MainCtx' = MainCtx /\ LowCtx' = LowCtx /\ HighCtx' = HighCtx
    BY <2>1, RigidContexts DEF allocVars
  <2>3. CallBases' /\ RegionOrder' /\ SlotsInFrame' /\ HeldBelowCallee'
    BY <2>1, <2>2 DEF FrameInv, allocVars, CallBases, RegionOrder, SlotsInFrame,
                      HeldBelowCallee, SlotEnd, End, AllSlots
  <2> QED BY <1>1, <1>3, <2>3, StackContextsRun, HeldBelowRun DEF FrameInv
<1>4. CASE UNCHANGED vars
  <2>1. MainCtx' = MainCtx /\ LowCtx' = LowCtx /\ HighCtx' = HighCtx
    BY <1>4, RigidContexts DEF vars, allocVars
  <2> QED BY <1>1, <1>4, <2>1
          DEF FrameInv, vars, allocVars, CallBases, RegionOrder, SlotsInFrame,
              HeldBelowCallee, SlotEnd, End, AllSlots, StackContexts, HeldBelow
<1> QED BY <1>2, <1>3, <1>4 DEF Next

LEMMA FrameInvSafe ==
  ASSUME TypeInv, FrameInv
  PROVE  FrameSafety
<1>1. ASSUME NEW i \in 1..Len(stack), NEW j \in 1..Len(stack), i < j,
             NEW k \in stack[i].held, NEW m \in AllSlots(stack[j].fn)
      PROVE  SlotBytes(stack[i].fn, k) \cap SlotBytes(stack[j].fn, m) = {}
  <2> DEFINE f == stack[i].fn
             g == stack[j].fn
             e == SlotEnd(f, k)
             b == base[g]
             lo == slots[g][m]
  <2>1. stage = "run" /\ f \in prog.funcs /\ g \in prog.funcs /\ k \in AllSlots(f)
    BY <1>1, ActivationTyped
  <2>2. e <= b
    BY <1>1 DEF FrameInv, HeldBelow
  <2>3. b <= lo
    BY <1>1, <2>1 DEF FrameInv, SlotsInFrame
  <2>4. slots[g] \in [AllSlots(g) -> Nat] /\ b \in Nat
    BY <2>1 DEF TypeInv, TypeOK
  <2>5. e \in Nat /\ lo \in Nat
    BY <1>1, <2>1, <2>4, SlotEndNat
  <2>6. \A a \in SlotBytes(f, k) : a \in Int /\ a <= e - 1
    <3> DEFINE x == slots[f][k]
               w == prog.width[f][k]
    <3>1. x \in Nat /\ w \in Nat
      BY <2>1, SlotEndNat
    <3>2. e = x + w /\ SlotBytes(f, k) = x..(x + w - 1)
      BY DEF SlotBytes, SlotEnd
    <3> HIDE DEF x, w, e, f
    <3> QED BY <3>1, <3>2
  <2>7. \A a \in SlotBytes(g, m) : lo <= a
    BY DEF SlotBytes
  <2> HIDE DEF e, b, lo
  <2> QED BY <2>2, <2>3, <2>4, <2>5, <2>6, <2>7
<1>2. SUFFICES ASSUME NEW i \in 1..Len(stack), NEW j \in 1..Len(stack), i < j,
                      NEW a \in BytesOf(stack[i].fn, stack[i].held),
                      a \in FrameBytes(stack[j].fn)
               PROVE  FALSE
  BY DEF FrameSafety
<1>3. PICK k \in stack[i].held : a \in SlotBytes(stack[i].fn, k)
  BY DEF BytesOf
<1>4. PICK m \in AllSlots(stack[j].fn) : a \in SlotBytes(stack[j].fn, m)
  BY <1>2 DEF BytesOf, FrameBytes
<1> QED BY <1>1, <1>2, <1>3, <1>4

(* The program is fixed once the compiler runs, and with it its split.      *)
LEMMA ProgRigid ==
  ASSUME TypeInv, [Next]_vars
  PROVE  prog' = prog /\ WellSplit' = WellSplit
<1>1. CASE AllocNext /\ UNCHANGED stack
  <2>1. prog' = prog
    BY <1>1 DEF AllocNext, AcceptCallGraph, AssignMain, AssignRegion,
         OpenLowRegion, OpenHighRegion, GlobalsAboveFrames,
         FallBackToGlobalsFirst, PlaceGlobals, BasesAboveGlobals, PlaceLocals,
         Refuse
  <2> QED BY <2>1, RigidContexts
<1>2. CASE RunNext
  BY <1>2, RunAfterAlloc, RigidContexts DEF allocVars
<1>3. CASE UNCHANGED vars
  BY <1>3, RigidContexts DEF vars, allocVars
<1> QED BY <1>1, <1>2, <1>3 DEF Next

LEMMA LayoutInv == Spec => [](TypeInv /\ (WellSplit => FrameInv))
<1> DEFINE Inv == TypeInv /\ (WellSplit => FrameInv)
<1>1. Init => Inv
  BY TypeInit, FrameInit DEF Init
<1>2. Inv /\ [Next]_vars => Inv'
  BY TypeStep, FrameStep, ProgRigid
<1> QED BY <1>1, <1>2, PTL DEF Spec

(* What the allocator computes step by step, in every program split as     *)
(* promised: settled callees above what their callers hold (steps 5, 5b),  *)
(* the interrupt regions above the contexts they preempt, slots inside     *)
(* frames and held slots below callees (step 7); and, on the return stack  *)
(* of the program it emits, all that is held below every newer frame.      *)
THEOREM FrameInvHolds == Spec => [](WellSplit => FrameInv)
<1>1. TypeInv /\ (WellSplit => FrameInv) => (WellSplit => FrameInv)
  OBVIOUS
<1> QED BY <1>1, LayoutInv, PTL

(* The compiled stack is sound: in every program the interrupt-context     *)
(* passes split as promised, no call, dispatch or interrupt ever enters a  *)
(* frame holding a byte that an older activation still needs, wherever the *)
(* allocator dips, rounds, reorders or falls back.                         *)
THEOREM FrameSafetyHolds == Spec => [](WellSplit => FrameSafety)
<1>1. TypeInv /\ (WellSplit => FrameInv) => (WellSplit => FrameSafety)
  BY FrameInvSafe
<1> QED BY <1>1, LayoutInv, PTL

-----------------------------------------------------------------------------
(***************************************************************************)
(* For every device, program and choice of dip: a handler's save area is   *)
(* never under a frame in use or another handler's area (SaveSafety), and  *)
(* no frame or area ever covers a global (GlobalsSafe), provided the       *)
(* program is split as legalize promises and a lone handler of a PIC18     *)
(* program is on the low list.                                             *)
(*                                                                         *)
(* The argument: an area is carved where its region opens, so it is above  *)
(* every frame the handler can interrupt and below every frame of its own  *)
(* context and of the contexts above it (LowAreaPlaced, HighAreaPlaced);   *)
(* a level has at most one handler on the stack (OneOfEach).  Globals are  *)
(* placed on one side of everything: below the start of the overlay        *)
(* (GlobalsBelow), or above all of its frames (GlobalsAbove).              *)
(***************************************************************************)

(* The area step 5b carves first, and its size.                            *)
LowSave == IF PriorityMode THEN save.low ELSE save.isr
LowSize == IF PriorityMode THEN LowSaveBytes ELSE IsrSaveBytes

(* Areas exist only from the opening of their region on.                   *)
SavesCarved ==
    /\ stage \in {"callgraph", "globals", "main"} => save = NoSaves
    /\ stage = "low" => save.high = None
    /\ stage \in {"low", "high"} => Handlers # {}

LowAreaPlaced ==
    stage \in {"low", "high", "slots", "run"} /\ LowSave # None =>
        /\ \A f \in MainCtx : End(f) <= LowSave
        /\ stage \in {"low", "high"} => LowSave + LowSize <= region
        /\ stage # "low" => \A g \in LowCtx : LowSave + LowSize <= base[g]
        /\ stage \in {"slots", "run"} =>
              \A g \in HighCtx : LowSave + LowSize <= base[g]

HighAreaPlaced ==
    stage \in {"high", "slots", "run"} /\ save.high # None =>
        /\ \A f \in MainCtx \cup LowCtx : End(f) <= save.high
        /\ LowSave # None => LowSave + LowSize <= save.high
        /\ stage = "high" => save.high + IsrSaveBytes <= region
        /\ stage # "high" =>
              \A g \in HighCtx : save.high + IsrSaveBytes <= base[g]

(* At most one activation of a handler of each level.                      *)
OneOfEach ==
    \A i, j \in 1..Len(stack) :
        \/ i = j
        \/ ~(stack[i].fn \in prog.low /\ stack[j].fn \in prog.low)
           /\ ~(stack[i].fn \in prog.high /\ stack[j].fn \in prog.high)

(* Globals first: they end at or below the start of the overlay, and every *)
(* base and save area of the current loop is at or above it.               *)
GlobalsBelow ==
    /\ stage \in {"callgraph", "globals"} => done = {}
    /\ stage = "main" => \A f \in done : start <= base[f]
    /\ stage \in {"low", "high"} => start <= region
    /\ stage \in {"low", "high", "slots", "run"} =>
          /\ \A f \in prog.funcs : start <= base[f]
          /\ LowSave # None => start <= LowSave
          /\ save.high # None => start <= save.high
    /\ ~framesFirst /\ stage \in {"main", "low", "high", "slots", "run"} =>
          /\ floatAt + prog.float <= start
          /\ \A p \in prog.pinned : p < start

(* Frames first: every frame ends at or below every global.                *)
GlobalsAbove ==
    framesFirst /\ stage \in {"slots", "run"} =>
        \A f \in prog.funcs :
            End(f) <= floatAt /\ \A p \in prog.pinned : End(f) <= p

SaveInv ==
    /\ SavesCarved
    /\ LowAreaPlaced
    /\ HighAreaPlaced
    /\ OneOfEach

-----------------------------------------------------------------------------
(* The allocator.                                                          *)

(* What the cases below use of the state.                                  *)
LEMMA AllocFacts ==
  ASSUME TypeInv, AllocNext
  PROVE  /\ ProgOK /\ BasesOK /\ TypeOK /\ prog' = prog
         /\ MainCtx' = MainCtx /\ LowCtx' = LowCtx /\ HighCtx' = HighCtx
         /\ Handlers' = Handlers /\ PriorityMode' = PriorityMode /\ LowSize' = LowSize
         /\ MainCtx \subseteq prog.funcs /\ LowCtx \subseteq prog.funcs
         /\ HighCtx \subseteq prog.funcs
         /\ \A f \in prog.funcs : End(f) \in Nat /\ base[f] \in Nat /\ base[f] <= End(f)
         /\ LowSave \in Nat \cup {None} /\ save.high \in Nat \cup {None}
         /\ LowSize \in Nat /\ IsrSaveBytes \in Nat /\ LowSaveBytes \in Nat
         /\ region \in Nat /\ start \in Nat
<1>1. ProgOK /\ BasesOK /\ TypeOK
  BY TypeInvFacts DEF TypeInv
<1>2. prog' = prog
  BY DEF AllocNext, AcceptCallGraph, AssignMain, AssignRegion, OpenLowRegion,
         OpenHighRegion, GlobalsAboveFrames, FallBackToGlobalsFirst, PlaceGlobals,
         BasesAboveGlobals, PlaceLocals, Refuse
<1>3. /\ MainCtx' = MainCtx /\ LowCtx' = LowCtx /\ HighCtx' = HighCtx
      /\ Handlers' = Handlers
  BY <1>2, RigidContexts
<1>4. PriorityMode' = PriorityMode /\ LowSize' = LowSize
  BY <1>2 DEF PriorityMode, LowSize
<1>5. /\ MainCtx \subseteq prog.funcs /\ LowCtx \subseteq prog.funcs
      /\ HighCtx \subseteq prog.funcs
  BY <1>1, Contexts
<1>6. \A f \in prog.funcs : End(f) \in Nat /\ base[f] \in Nat /\ base[f] <= End(f)
  BY <1>1, EndAbove
<1>7. LowSize \in Nat /\ IsrSaveBytes \in Nat /\ LowSaveBytes \in Nat
  BY SaveAssumption DEF LowSize
<1>8. /\ LowSave \in Nat \cup {None} /\ save.high \in Nat \cup {None}
      /\ region \in Nat /\ start \in Nat
  BY <1>1 DEF TypeOK, LowSave
<1> QED BY <1>1, <1>2, <1>3, <1>4, <1>5, <1>6, <1>7, <1>8

(* The base of a function of the open region is the only one that moves,   *)
(* and it is in the region's own context.                                  *)
LEMMA RegionMoves ==
  ASSUME TypeInv, NEW f \in prog.funcs, AssignRegion(f)
  PROVE  /\ stage \in {"low", "high"}
         /\ UNCHANGED <<prog, stage, region, save, start, framesFirst, floatAt>>
         /\ f \in (IF stage = "low" THEN LowCtx ELSE HighCtx)
         /\ base'[f] = IsrBase(f, RegionRoots) /\ done' = done \cup {f}
         /\ \A g \in prog.funcs \ {f} : base'[g] = base[g] /\ End(g)' = End(g)
<1>1. base \in [prog.funcs -> Nat]
  BY DEF TypeInv, TypeOK
<1>2. /\ stage \in {"low", "high"} /\ f \notin done
      /\ base' = [base EXCEPT ![f] = IsrBase(f, RegionRoots)]
      /\ UNCHANGED <<prog, stage, region, save, start, framesFirst, floatAt>>
      /\ done' = done \cup {f}
    BY DEF AssignRegion
<1> DEFINE b == IsrBase(f, RegionRoots)
<1> HIDE DEF b
<1>3. /\ base'[f] = b
      /\ \A g \in prog.funcs \ {f} : base'[g] = base[g] /\ End(g)' = End(g)
  BY <1>1, <1>2 DEF b, End
<1>4. f \in (IF stage = "low" THEN LowCtx ELSE HighCtx)
  BY <1>2 DEF TypeInv, Settled
<1> QED BY <1>2, <1>3, <1>4 DEF b

LEMMA OpenLowBounds ==
  ASSUME TypeInv
  PROVE  LET isrBase == Max({start} \cup {End(f) : f \in MainCtx})
         IN  isrBase \in Nat /\ start <= isrBase /\ \A f \in MainCtx : End(f) <= isrBase
BY TypeInvFacts, Contexts, EndsBound DEF TypeInv, TypeOK

LEMMA OpenHighBounds ==
  ASSUME TypeInv
  PROVE  LET hiBase == Max({End(f) : f \in prog.funcs})
         IN  hiBase \in Nat /\ \A f \in prog.funcs : End(f) <= hiBase
<1>1. "main" \in prog.funcs /\ BasesOK
  BY TypeInvFacts DEF TypeInv, ProgOK, IsProgram
<1>2. {End("main")} \cup {End(f) : f \in prog.funcs} = {End(f) : f \in prog.funcs}
  BY <1>1
<1>3. End("main") \in Nat
  BY <1>1, EndAbove
<1> QED BY <1>1, <1>2, <1>3, EndsBound

(* Under the split, a program with handlers has one on the low list, and   *)
(* its frame is in the low region.                                         *)
LEMMA LowHandler ==
  ASSUME ProgOK, NoLoneHigh, Handlers # {}
  PROVE  \E h \in prog.low : h \in LowCtx
<1>1. prog.low # {}
  BY DEF NoLoneHigh, PriorityMode, Handlers
<1> QED BY <1>1, Contexts

LEMMA LowAreaAlloc ==
  ASSUME TypeInv, WellSplit, NoLoneHigh, CallBases, RegionOrder,
         SavesCarved, LowAreaPlaced, AllocNext
  PROVE  SavesCarved' /\ LowAreaPlaced'
<1> DEFINE L == LowSave + LowSize
<1>1. /\ ProgOK /\ prog' = prog
      /\ MainCtx' = MainCtx /\ LowCtx' = LowCtx /\ HighCtx' = HighCtx
      /\ Handlers' = Handlers /\ PriorityMode' = PriorityMode /\ LowSize' = LowSize
      /\ MainCtx \subseteq prog.funcs /\ LowCtx \subseteq prog.funcs
      /\ HighCtx \subseteq prog.funcs
  BY AllocFacts
<1>2. \A f \in prog.funcs : End(f) \in Nat /\ base[f] \in Nat /\ base[f] <= End(f)
  BY AllocFacts
<1>3. /\ LowSave \in Nat \cup {None} /\ LowSize \in Nat /\ region \in Nat
      /\ IsrSaveBytes \in Nat /\ LowSaveBytes \in Nat
  BY AllocFacts
<1>4. LowSave # None => L \in Nat
  BY <1>3
<1> HIDE DEF L
<1>5. ASSUME NEW f \in prog.funcs, AssignMain(f)
      PROVE  SavesCarved' /\ LowAreaPlaced'
  BY <1>1, <1>5 DEF AssignMain, SavesCarved, LowAreaPlaced
<1>6. ASSUME NEW f \in prog.funcs, AssignRegion(f)
      PROVE  SavesCarved' /\ LowAreaPlaced'
  <2>1. /\ stage \in {"low", "high"} /\ UNCHANGED <<stage, region, save>>
        /\ f \in (IF stage = "low" THEN LowCtx ELSE HighCtx)
        /\ \A g \in prog.funcs \ {f} : base'[g] = base[g] /\ End(g)' = End(g)
    BY <1>6, RegionMoves
  <2>2. LowSave' = LowSave
    BY <1>1, <2>1 DEF LowSave
  <2>3. \A g \in MainCtx : End(g)' = End(g)
    BY <1>1, <2>1 DEF WellSplit
  <2>4. stage = "high" => \A g \in LowCtx : base'[g] = base[g]
    BY <1>1, <2>1 DEF WellSplit
  <2>5. LowAreaPlaced'
    BY <1>1, <2>1, <2>2, <2>3, <2>4 DEF LowAreaPlaced
  <2> QED BY <1>1, <2>1, <2>5 DEF SavesCarved
<1>7. CASE OpenLowRegion
  <2> DEFINE isrBase == Max({start} \cup {End(f) : f \in MainCtx})
  <2>1. isrBase \in Nat /\ \A f \in MainCtx : End(f) <= isrBase
    BY OpenLowBounds
  <2>2. /\ stage' = "low" /\ Handlers # {} /\ base' = base /\ save = NoSaves
        /\ IF PriorityMode
           THEN save' = [save EXCEPT !.low = isrBase] /\ region' = isrBase + LowSaveBytes
           ELSE IF Core = "pic18"
                THEN save' = [save EXCEPT !.isr = isrBase] /\ region' = isrBase + IsrSaveBytes
                ELSE save' = save
    BY <1>7 DEF OpenLowRegion, SavesCarved
  <2> HIDE DEF isrBase
  <2>3. SavesCarved'
    BY <1>1, <2>2 DEF SavesCarved, NoSaves
  <2>4. LowSave' # None => LowSave' = isrBase /\ region' = isrBase + LowSize'
    BY <1>1, <2>2 DEF LowSave, LowSize, NoSaves
  <2>5. \A f \in MainCtx : End(f)' = End(f)
    BY <1>1, <2>2 DEF End
  <2>6. LowSave' # None => LowSave' + LowSize' <= region'
    BY <1>1, <1>3, <2>1, <2>4
  <2>7. LowAreaPlaced'
    BY <1>1, <2>1, <2>2, <2>4, <2>5, <2>6 DEF LowAreaPlaced
  <2> QED BY <2>3, <2>7
<1>8. CASE OpenHighRegion
  <2> DEFINE hiBase == Max({End(f) : f \in prog.funcs})
  <2>1. hiBase \in Nat /\ \A f \in prog.funcs : End(f) <= hiBase
    BY OpenHighBounds
  <2>2. /\ stage = "low" /\ stage' = "high" /\ base' = base /\ done = prog.funcs
        /\ \/ save' = [save EXCEPT !.high = hiBase] /\ region' = hiBase + IsrSaveBytes
           \/ save' = save /\ region' = hiBase
    BY <1>8 DEF OpenHighRegion
  <2> HIDE DEF hiBase
  <2>3. LowSave' = LowSave
    BY <1>1, <2>2 DEF LowSave, TypeInv, TypeOK
  <2>4. \A f \in prog.funcs : End(f)' = End(f)
    BY <1>1, <2>2 DEF End
  <2>5. region' \in Nat /\ hiBase <= region'
    BY <1>3, <2>1, <2>2
  <2>6. ASSUME LowSave # None
        PROVE  /\ \A g \in LowCtx : L <= base[g]
               /\ L <= region'
    <3>1. L <= region
      BY <2>2, <2>6 DEF LowAreaPlaced, L
    <3>2. ASSUME NEW g \in LowCtx PROVE L <= base[g]
      <4>1. region <= base[g]
        BY <1>1, <2>2 DEF RegionOrder
      <4> QED BY <1>1, <1>2, <1>3, <1>4, <2>6, <3>1, <4>1
    <3>3. PICK h \in prog.low : h \in LowCtx
      BY <1>1, <2>2, LowHandler DEF SavesCarved
    <3>4. L <= base[h] /\ base[h] <= End(h) /\ End(h) <= hiBase
      BY <1>1, <1>2, <2>1, <3>2, <3>3
    <3>5. L \in Nat /\ base[h] \in Nat /\ End(h) \in Nat
      BY <1>1, <1>2, <1>4, <2>6, <3>3
    <3> QED BY <2>1, <2>5, <3>2, <3>4, <3>5
  <2>7. LowAreaPlaced'
    <3>1. SUFFICES ASSUME LowSave # None
                   PROVE  /\ \A f \in MainCtx : End(f)' <= LowSave
                          /\ L <= region'
                          /\ \A g \in LowCtx : L <= base'[g]
      BY <1>1, <2>2, <2>3 DEF LowAreaPlaced, L
    <3> QED BY <1>1, <2>2, <2>4, <2>6, <3>1 DEF LowAreaPlaced
  <2> QED BY <1>1, <2>2, <2>7 DEF SavesCarved
<1>9. CASE GlobalsAboveFrames \/ BasesAboveGlobals \/ PlaceLocals
  <2>1. /\ stage' \in {"slots", "run"} /\ UNCHANGED <<base, save>>
        /\ \/ stage = "slots"
           \/ stage = "high" /\ done = prog.funcs
           \/ stage = "main" /\ Handlers = {}
    BY <1>9 DEF GlobalsAboveFrames, BasesAboveGlobals, PlaceLocals, BasesDone
  <2>2. LowSave' = LowSave /\ \A f \in prog.funcs : End(f)' = End(f)
    BY <1>1, <2>1 DEF LowSave, End
  <2>3. ASSUME LowSave # None
        PROVE  /\ \A f \in MainCtx : End(f) <= LowSave
               /\ \A g \in LowCtx \cup HighCtx : L <= base[g]
    <3>1. CASE stage = "slots"
      BY <2>3, <3>1 DEF LowAreaPlaced, L
    <3>2. CASE stage = "high" /\ done = prog.funcs
      <4>1. ASSUME NEW g \in HighCtx PROVE L <= base[g]
        <5>1. L <= region /\ region <= base[g]
          BY <1>1, <2>3, <3>2 DEF LowAreaPlaced, RegionOrder, L
        <5> QED BY <1>1, <1>2, <1>3, <1>4, <2>3, <5>1
      <4> QED BY <2>3, <3>2, <4>1 DEF LowAreaPlaced, L
    <3>3. CASE stage = "main"
      BY <2>3, <3>3 DEF SavesCarved, LowSave, NoSaves
    <3> QED BY <2>1, <3>1, <3>2, <3>3
  <2>4. LowAreaPlaced'
    <3>1. SUFFICES ASSUME LowSave # None
                   PROVE  /\ \A f \in MainCtx : End(f)' <= LowSave
                          /\ \A g \in LowCtx \cup HighCtx : L <= base'[g]
      BY <1>1, <2>1, <2>2 DEF LowAreaPlaced, L
    <3> QED BY <1>1, <2>1, <2>2, <2>3, <3>1
  <2> QED BY <2>1, <2>4 DEF SavesCarved
<1>10. CASE AcceptCallGraph \/ FallBackToGlobalsFirst \/ PlaceGlobals \/ Refuse
  BY <1>10 DEF AcceptCallGraph, FallBackToGlobalsFirst, PlaceGlobals, Refuse,
               SavesCarved, LowAreaPlaced
<1> QED BY <1>5, <1>6, <1>7, <1>8, <1>9, <1>10 DEF AllocNext

LEMMA HighAreaAlloc ==
  ASSUME TypeInv, WellSplit, NoLoneHigh, CallBases, RegionOrder,
         SavesCarved, LowAreaPlaced, HighAreaPlaced, AllocNext
  PROVE  HighAreaPlaced'
<1> DEFINE L == LowSave + LowSize
           H == save.high + IsrSaveBytes
<1>1. /\ ProgOK /\ prog' = prog
      /\ MainCtx' = MainCtx /\ LowCtx' = LowCtx /\ HighCtx' = HighCtx
      /\ Handlers' = Handlers /\ PriorityMode' = PriorityMode /\ LowSize' = LowSize
      /\ MainCtx \subseteq prog.funcs /\ LowCtx \subseteq prog.funcs
      /\ HighCtx \subseteq prog.funcs
  BY AllocFacts
<1>2. \A f \in prog.funcs : End(f) \in Nat /\ base[f] \in Nat /\ base[f] <= End(f)
  BY AllocFacts
<1>3. /\ LowSave \in Nat \cup {None} /\ LowSize \in Nat /\ region \in Nat
      /\ IsrSaveBytes \in Nat /\ save.high \in Nat \cup {None}
  BY AllocFacts
<1>4. /\ LowSave # None => L \in Nat
      /\ save.high # None => H \in Nat
  BY <1>3
<1> HIDE DEF L, H
<1>5. ASSUME NEW f \in prog.funcs, AssignRegion(f)
      PROVE  HighAreaPlaced'
  <2>1. /\ stage \in {"low", "high"} /\ UNCHANGED <<stage, region, save>>
        /\ f \in (IF stage = "low" THEN LowCtx ELSE HighCtx)
        /\ \A g \in prog.funcs \ {f} : base'[g] = base[g] /\ End(g)' = End(g)
    BY <1>5, RegionMoves
  <2>2. LowSave' = LowSave
    BY <1>1, <2>1 DEF LowSave
  <2>3. stage = "high" => \A g \in MainCtx \cup LowCtx : End(g)' = End(g)
    BY <1>1, <2>1 DEF WellSplit
  <2> QED BY <1>1, <2>1, <2>2, <2>3 DEF HighAreaPlaced
<1>6. CASE OpenHighRegion
  <2> DEFINE hiBase == Max({End(f) : f \in prog.funcs})
  <2>1. hiBase \in Nat /\ \A f \in prog.funcs : End(f) <= hiBase
    BY OpenHighBounds
  <2>2. /\ stage = "low" /\ stage' = "high" /\ base' = base /\ done = prog.funcs
        /\ \/ save' = [save EXCEPT !.high = hiBase] /\ region' = hiBase + IsrSaveBytes
           \/ save' = save /\ region' = hiBase
        /\ save.high = None /\ Handlers # {}
    BY <1>6 DEF OpenHighRegion, SavesCarved
  <2> HIDE DEF hiBase
  <2>3. LowSave' = LowSave
    BY <1>1, <2>2 DEF LowSave, TypeInv, TypeOK
  <2>4. \A f \in prog.funcs : End(f)' = End(f)
    BY <1>1, <2>2 DEF End
  <2>5. save'.high # None => save'.high = hiBase /\ region' = hiBase + IsrSaveBytes
    BY <2>2 DEF TypeInv, TypeOK
  <2>6. LowSave # None => L <= hiBase
    <3>1. SUFFICES ASSUME LowSave # None PROVE L <= hiBase
      OBVIOUS
    <3>2. PICK h \in prog.low : h \in LowCtx
      BY <1>1, <2>2, LowHandler
    <3>3. L <= region /\ region <= base[h]
      BY <1>1, <2>2, <3>1, <3>2 DEF LowAreaPlaced, RegionOrder, L
    <3>4. base[h] <= End(h) /\ End(h) <= hiBase /\ base[h] \in Nat /\ End(h) \in Nat
      BY <1>1, <1>2, <2>1, <3>2
    <3> QED BY <1>3, <1>4, <2>1, <3>1, <3>3, <3>4
  <2>7. hiBase + IsrSaveBytes <= hiBase + IsrSaveBytes
    BY <1>3, <2>1
  <2> QED BY <1>1, <2>1, <2>2, <2>3, <2>4, <2>5, <2>6, <2>7 DEF HighAreaPlaced, L
<1>7. CASE GlobalsAboveFrames \/ BasesAboveGlobals \/ PlaceLocals
  <2>1. /\ stage' \in {"slots", "run"} /\ UNCHANGED <<base, save>>
        /\ \/ stage = "slots"
           \/ stage = "high" /\ done = prog.funcs
           \/ stage = "main"
    BY <1>7 DEF GlobalsAboveFrames, BasesAboveGlobals, PlaceLocals, BasesDone
  <2>2. LowSave' = LowSave /\ \A f \in prog.funcs : End(f)' = End(f)
    BY <1>1, <2>1 DEF LowSave, End
  <2>3. ASSUME save.high # None
        PROVE  /\ \A f \in MainCtx \cup LowCtx : End(f) <= save.high
               /\ LowSave # None => L <= save.high
               /\ \A g \in HighCtx : H <= base[g]
    <3>1. CASE stage = "slots"
      BY <2>3, <3>1 DEF HighAreaPlaced, L, H
    <3>2. CASE stage = "high" /\ done = prog.funcs
      <4>1. ASSUME NEW g \in HighCtx PROVE H <= base[g]
        <5>1. H <= region /\ region <= base[g]
          BY <1>1, <2>3, <3>2 DEF HighAreaPlaced, RegionOrder, H
        <5> QED BY <1>1, <1>2, <1>3, <1>4, <2>3, <5>1
      <4> QED BY <2>3, <3>2, <4>1 DEF HighAreaPlaced, L, H
    <3>3. CASE stage = "main"
      BY <2>3, <3>3 DEF SavesCarved, NoSaves
    <3> QED BY <2>1, <3>1, <3>2, <3>3
  <2> QED BY <1>1, <2>1, <2>2, <2>3 DEF HighAreaPlaced, L, H
<1>8. ASSUME NEW f \in prog.funcs, AssignMain(f)
      PROVE  HighAreaPlaced'
  BY <1>8 DEF AssignMain, HighAreaPlaced
<1>9. CASE OpenLowRegion
  BY <1>9 DEF OpenLowRegion, HighAreaPlaced
<1>10. CASE AcceptCallGraph \/ FallBackToGlobalsFirst \/ PlaceGlobals \/ Refuse
  BY <1>10 DEF AcceptCallGraph, FallBackToGlobalsFirst, PlaceGlobals, Refuse, HighAreaPlaced
<1> QED BY <1>5, <1>6, <1>7, <1>8, <1>9, <1>10 DEF AllocNext

-----------------------------------------------------------------------------
(* The running program.                                                    *)

(* A handler is entered only by an interrupt, and only while no handler of *)
(* its own level is on the stack.                                          *)
LEMMA OneOfEachRun ==
  ASSUME TypeInv, OneOfEach, RunNext
  PROVE  OneOfEach'
<1>1. /\ TypeOK /\ ProgOK /\ prog' = prog
  BY TypeInvFacts, RunAfterAlloc DEF TypeInv, allocVars
<1>2. /\ "main" \notin Handlers /\ prog.low \cap prog.high = {}
      /\ \A s \in prog.sites : s.callees \cap Handlers = {}
  BY <1>1 DEF ProgOK, IsProgram, Handlers
<1> DEFINE Clash(a, b) == \/ a.fn \in prog.low /\ b.fn \in prog.low
                          \/ a.fn \in prog.high /\ b.fn \in prog.high
<1>3. SUFFICES \A i, j \in 1..Len(stack') : i = j \/ ~Clash(stack'[i], stack'[j])
  BY <1>1 DEF OneOfEach
<1>4. \A i, j \in 1..Len(stack) : i = j \/ ~Clash(stack[i], stack[j])
  BY DEF OneOfEach
<1>5. Len(stack) \in Nat
  BY <1>1 DEF TypeOK
<1>6. CASE PowerOn
  <2>1. Len(stack') = 1
    BY <1>6 DEF PowerOn
  <2> QED BY <2>1
<1>7. ASSUME NEW s \in prog.sites, NEW c \in s.callees, Call(s, c),
             NEW i \in 1..Len(stack'), NEW j \in 1..Len(stack'), i # j
      PROVE  ~Clash(stack'[i], stack'[j])
  <2> DEFINE n == Len(stack)
  <2>1. /\ Len(stack') = n + 1 /\ n \in Nat \ {0}
        /\ \A m \in 1..n : stack'[m].fn = stack[m].fn
        /\ stack'[n + 1].fn = c
    <3>1. /\ Len(stack') = n + 1 /\ n \in Nat \ {0} /\ stack[n].fn = s.caller
          /\ \A m \in 1..(n - 1) : stack'[m] = stack[m]
          /\ stack'[n].fn = s.caller /\ stack'[n + 1] = Entered(c) /\ c \in prog.funcs
      BY <1>1, <1>7, CallStack
    <3> HIDE DEF n
    <3>2. Entered(c).fn = c
      BY <1>1, <3>1, EnteredTyped
    <3>3. ASSUME NEW m \in 1..n PROVE stack'[m].fn = stack[m].fn
      <4>1. CASE m = n
        BY <3>1, <4>1
      <4>2. CASE m # n
        <5>1. m \in 1..(n - 1)
          BY <3>1, <4>2
        <5> QED BY <3>1, <5>1
      <4> QED BY <4>1, <4>2
    <3> QED BY <3>1, <3>2, <3>3
  <2> HIDE DEF n
  <2>2. c \notin Handlers
    BY <1>2, <1>7
  <2>3. (i \in 1..n /\ j \in 1..n) \/ i = n + 1 \/ j = n + 1
    BY <1>7, <2>1
  <2> QED BY <1>4, <1>7, <2>1, <2>2, <2>3 DEF n, Handlers
<1>8. ASSUME Return, NEW i \in 1..Len(stack'), NEW j \in 1..Len(stack'), i # j
      PROVE  ~Clash(stack'[i], stack'[j])
  <2> DEFINE n == Len(stack)
  <2>1. /\ Len(stack') = n - 1 /\ n \in Nat \ {0, 1}
        /\ \A m \in 1..(n - 2) : stack'[m] = stack[m]
        /\ stack'[n - 1].fn = stack[n - 1].fn
    BY <1>1, <1>8, ReturnStack, EnteredTyped
  <2> HIDE DEF n
  <2>2. /\ i \in 1..n /\ j \in 1..n
        /\ stack'[i].fn = stack[i].fn /\ stack'[j].fn = stack[j].fn
    BY <1>8, <2>1
  <2> QED BY <1>4, <1>8, <2>2 DEF n
<1>9. ASSUME NEW h \in Handlers, Preempt(h),
             NEW i \in 1..Len(stack'), NEW j \in 1..Len(stack'), i # j
      PROVE  ~Clash(stack'[i], stack'[j])
  <2> DEFINE n == Len(stack)
  <2>1. /\ Len(stack') = n + 1 /\ n \in Nat \ {0}
        /\ \A m \in 1..n : stack'[m] = stack[m]
        /\ stack'[n + 1].fn = h
    BY <1>1, <1>9, PreemptStack, EnteredTyped
  <2>2. \A m \in 1..n : stack[m].fn \notin prog.high
    BY <1>9 DEF Preempt, Running
  <2>3. h \in prog.low => \A m \in 1..n : stack[m].fn \notin prog.low
    BY <1>9 DEF Preempt, Running
  <2> HIDE DEF n
  <2>4. (i \in 1..n /\ j \in 1..n) \/ (i = n + 1 /\ j \in 1..n) \/ (i \in 1..n /\ j = n + 1)
    BY <1>9, <2>1
  <2>5. h \in prog.high => h \notin prog.low
    BY <1>2
  <2> QED BY <1>4, <1>9, <2>1, <2>2, <2>3, <2>4, <2>5 DEF n
<1>10. ASSUME ReturnFromInterrupt, NEW i \in 1..Len(stack'), NEW j \in 1..Len(stack'), i # j
       PROVE  ~Clash(stack'[i], stack'[j])
  <2>1. /\ i \in 1..Len(stack) /\ j \in 1..Len(stack)
        /\ stack'[i] = stack[i] /\ stack'[j] = stack[j]
    BY <1>1, <1>10, RetfieStack
  <2> QED BY <1>4, <1>10, <2>1
<1> HIDE DEF Clash
<1> QED BY <1>6, <1>7, <1>8, <1>9, <1>10 DEF RunNext

-----------------------------------------------------------------------------
(* The invariant, and what it gives.                                       *)

LEMMA SaveStep ==
  ASSUME TypeInv, WellSplit, NoLoneHigh, FrameInv, SaveInv, [Next]_vars
  PROVE  SaveInv'
<1>1. CASE AllocNext /\ UNCHANGED stack
  <2>1. SavesCarved' /\ LowAreaPlaced' /\ HighAreaPlaced'
    BY <1>1, LowAreaAlloc, HighAreaAlloc DEF FrameInv, SaveInv
  <2>2. stack' = <<>>
    BY <1>1, AllocBeforeRun
  <2>3. Len(stack') = 0
    BY <2>2
  <2>4. OneOfEach'
    BY <2>3 DEF OneOfEach
  <2> QED BY <2>1, <2>4 DEF SaveInv
<1>2. CASE RunNext \/ UNCHANGED vars
  <2>1. UNCHANGED allocVars /\ prog' = prog
    BY <1>2, RunAfterAlloc DEF vars, allocVars
  <2>2. /\ MainCtx' = MainCtx /\ LowCtx' = LowCtx /\ HighCtx' = HighCtx
        /\ Handlers' = Handlers
    BY <2>1, RigidContexts
  <2>3. PriorityMode' = PriorityMode /\ LowSave' = LowSave /\ LowSize' = LowSize
    BY <2>1 DEF PriorityMode, LowSave, LowSize, allocVars
  <2>4. \A f : End(f)' = End(f)
    BY <2>1 DEF End, allocVars
  <2>5. SavesCarved'
    BY <2>1, <2>2 DEF SaveInv, SavesCarved, allocVars
  <2>6. LowAreaPlaced'
    BY <2>1, <2>2, <2>3, <2>4 DEF SaveInv, LowAreaPlaced, allocVars
  <2>7. HighAreaPlaced'
    BY <2>1, <2>2, <2>3, <2>4 DEF SaveInv, HighAreaPlaced, allocVars
  <2>8. OneOfEach'
    <3>1. CASE RunNext
      BY <3>1, OneOfEachRun DEF SaveInv
    <3>2. CASE UNCHANGED vars
      BY <3>2 DEF SaveInv, OneOfEach, vars, allocVars
    <3> QED BY <1>2, <3>1, <3>2
  <2> QED BY <2>5, <2>6, <2>7, <2>8 DEF SaveInv
<1> QED BY <1>1, <1>2 DEF Next

LEMMA SaveInit ==
  ASSUME AllocInit, stack = <<>>
  PROVE  SaveInv
<1>1. stage = "callgraph" /\ save = NoSaves /\ Len(stack) = 0
  BY DEF AllocInit
<1> QED BY <1>1 DEF SaveInv, SavesCarved, LowAreaPlaced, HighAreaPlaced, OneOfEach

LEMMA NoLoneHighRigid ==
  ASSUME prog' = prog
  PROVE  NoLoneHigh' = NoLoneHigh
BY DEF NoLoneHigh, PriorityMode

LEMMA AreasInv ==
  Spec => [](/\ TypeInv
             /\ WellSplit => FrameInv
             /\ WellSplit /\ NoLoneHigh => SaveInv)
<1> DEFINE Inv == /\ TypeInv
                  /\ WellSplit => FrameInv
                  /\ WellSplit /\ NoLoneHigh => SaveInv
<1>1. Init => Inv
  BY TypeInit, FrameInit, SaveInit DEF Init
<1>2. Inv /\ [Next]_vars => Inv'
  BY TypeStep, FrameStep, SaveStep, ProgRigid, NoLoneHighRigid
<1> QED BY <1>1, <1>2, PTL DEF Spec

(* Which area a handler's prologue spills into.                            *)
LEMMA SaveAreas ==
  ASSUME ProgOK, NoLoneHigh, NEW h
  PROVE  /\ h \in prog.low => SaveBytesOf(h) = AreaBytes(LowSave, LowSize)
         /\ h \in prog.high => SaveBytesOf(h) = AreaBytes(save.high, IsrSaveBytes)
         /\ h \notin Handlers => SaveBytesOf(h) = {}
<1>1. prog.low \cap prog.high = {}
  BY DEF ProgOK, IsProgram
<1>2. h \in prog.high => PriorityMode
  BY DEF NoLoneHigh
<1> QED BY <1>1, <1>2 DEF SaveBytesOf, Handlers, LowSave, LowSize

(* What a context saved when it entered is out of reach of every frame and *)
(* of the other level's handler, whatever runs until RETFIE restores it.   *)
LEMMA SaveInvSafe ==
  ASSUME TypeInv, NoLoneHigh, FrameInv, SaveInv
  PROVE  SaveSafety
<1>1. /\ ProgOK
      /\ MainCtx \subseteq prog.funcs /\ LowCtx \subseteq prog.funcs
      /\ HighCtx \subseteq prog.funcs
  BY TypeInvFacts, Contexts DEF TypeInv
<1>2. \A f \in prog.funcs : End(f) \in Nat /\ base[f] \in Nat /\ base[f] <= End(f)
  BY TypeInvFacts, EndAbove DEF TypeInv
<1>3. /\ LowSave \in Nat \cup {None} /\ LowSize \in Nat
      /\ IsrSaveBytes \in Nat /\ save.high \in Nat \cup {None}
  BY SaveAssumption DEF TypeInv, TypeOK, LowSave, LowSize
<1> DEFINE LowArea == AreaBytes(LowSave, LowSize)
           HighArea == AreaBytes(save.high, IsrSaveBytes)
<1>4. LowSave # None => LowArea = LowSave..(LowSave + LowSize - 1)
  BY DEF AreaBytes
<1>5. save.high # None => HighArea = save.high..(save.high + IsrSaveBytes - 1)
  BY DEF AreaBytes
<1>6. (LowSave = None => LowArea = {}) /\ (save.high = None => HighArea = {})
  BY DEF AreaBytes
<1> HIDE DEF LowArea, HighArea
<1>7. ASSUME NEW j \in 1..Len(stack), NEW a \in BytesOf(stack[j].fn, stack[j].held)
      PROVE  a \notin LowArea /\ a \notin HighArea
  <2> DEFINE f == stack[j].fn
             b == base[f]
             e == End(f)
             lo == LowSave
             hi == save.high
  <2>1. f \in prog.funcs /\ stack[j].held \in SUBSET AllSlots(f) /\ stage = "run"
    BY <1>7, ActivationTyped
  <2>2. a \in Nat /\ b <= a /\ a < e
    BY <1>7, <2>1, FrameSpan DEF FrameInv
  <2>3. f \in MainCtx \/ f \in LowCtx \/ f \in HighCtx
    BY <1>7 DEF FrameInv, StackContexts
  <2>4. lo # None => e <= lo \/ lo + LowSize <= b
    BY <2>1, <2>3 DEF SaveInv, LowAreaPlaced
  <2>5. hi # None => e <= hi \/ hi + IsrSaveBytes <= b
    BY <2>1, <2>3 DEF SaveInv, HighAreaPlaced
  <2>6. b \in Nat /\ e \in Nat
    BY <1>2, <2>1
  <2> HIDE DEF f, b, e
  <2>7. lo # None => a \notin LowArea
    BY <1>3, <1>4, <2>2, <2>4, <2>6
  <2>8. hi # None => a \notin HighArea
    BY <1>3, <1>5, <2>2, <2>5, <2>6
  <2> QED BY <1>6, <2>7, <2>8
<1>8. stage = "run" => LowArea \cap HighArea = {}
  <2>1. SUFFICES ASSUME stage = "run", LowSave # None, save.high # None
                 PROVE  LowArea \cap HighArea = {}
    BY <1>6
  <2>2. LowSave + LowSize <= save.high
    BY <2>1 DEF SaveInv, HighAreaPlaced
  <2> QED BY <1>3, <1>4, <1>5, <2>1, <2>2
<1>9. ASSUME NEW i \in 1..Len(stack), NEW j \in 1..Len(stack)
      PROVE  SaveBytesOf(stack[i].fn) \cap BytesOf(stack[j].fn, stack[j].held) = {}
  BY <1>1, <1>7, SaveAreas DEF Handlers, LowArea, HighArea
<1>10. ASSUME NEW i \in 1..Len(stack), NEW j \in 1..Len(stack), i # j
       PROVE  SaveBytesOf(stack[i].fn) \cap SaveBytesOf(stack[j].fn) = {}
  <2>1. stage = "run"
    BY <1>10, ActivationTyped
  <2>2. /\ ~(stack[i].fn \in prog.low /\ stack[j].fn \in prog.low)
        /\ ~(stack[i].fn \in prog.high /\ stack[j].fn \in prog.high)
    BY <1>10 DEF SaveInv, OneOfEach
  <2> QED BY <1>1, <1>8, <2>1, <2>2, SaveAreas DEF Handlers, LowArea, HighArea
<1> QED BY <1>9, <1>10 DEF SaveSafety

(* The interrupt prologues' save areas (isr_low_save, isr_save and         *)
(* isr_hi_save of alloc) hold what they saved: in every split program no   *)
(* frame in use and no other handler's area shares a byte with them,       *)
(* however the handlers interrupt main's calls and each other.             *)
THEOREM SaveSafetyHolds == Spec => [](WellSplit /\ NoLoneHigh => SaveSafety)
<1> DEFINE Inv == /\ TypeInv
                  /\ WellSplit => FrameInv
                  /\ WellSplit /\ NoLoneHigh => SaveInv
<1>1. Inv => (WellSplit /\ NoLoneHigh => SaveSafety)
  BY SaveInvSafe
<1> QED BY <1>1, AreasInv, PTL

-----------------------------------------------------------------------------
(* The globals.                                                            *)

(* A base derived from callers that are at or above some address is too.   *)
LEMMA BaseAboveStart ==
  ASSUME BasesOK, NEW f \in prog.funcs, NEW roots, NEW at \in Nat,
         NEW mayDip \in BOOLEAN, f \notin roots => Callers(f) # {},
         NEW from \in Nat, from <= at, \A g \in Callers(f) : from <= base[g]
  PROVE  from <= BaseIn(f, roots, at, mayDip) /\ BaseIn(f, roots, at, mayDip) \in Nat
<1> DEFINE b == BaseIn(f, roots, at, mayDip)
<1>1. /\ b \in Nat
      /\ f \in roots => at <= b
      /\ f \notin roots => \A s \in SitesOf(f) :
            LiveHigh(base[s.caller], prog.width[s.caller], s.live) <= b
  BY BaseInAbove
<1> HIDE DEF b
<1>2. CASE f \in roots
  BY <1>1, <1>2 DEF b
<1>3. CASE f \notin roots
  <2>1. PICK s \in SitesOf(f) : s.caller \in Callers(f)
    BY <1>3 DEF Callers
  <2> DEFINE h == LiveHigh(base[s.caller], prog.width[s.caller], s.live)
             c == base[s.caller]
  <2>2. h \in Nat /\ c <= h
    BY <2>1, HeldPrefix DEF SitesOf
  <2>3. from <= c /\ h <= b
    BY <1>1, <1>3, <2>1
  <2>4. c \in Nat
    BY <2>1 DEF BasesOK, ProgOK, IsProgram, SitesOf
  <2> HIDE DEF h, c
  <2> QED BY <1>1, <2>2, <2>3, <2>4 DEF b
<1> QED BY <1>2, <1>3

LEMMA BelowAlloc ==
  ASSUME TypeInv, SavesCarved, GlobalsBelow, AllocNext
  PROVE  GlobalsBelow'
<1>1. /\ TypeOK /\ ProgOK /\ BasesOK /\ prog' = prog /\ start \in Nat /\ region \in Nat
      /\ PriorityMode' = PriorityMode
  BY AllocFacts
<1>2. \A f \in prog.funcs : End(f) \in Nat /\ base[f] \in Nat /\ base[f] <= End(f)
  BY AllocFacts
<1>3. ASSUME NEW f \in prog.funcs, AssignMain(f)
      PROVE  GlobalsBelow'
  <2> DEFINE roots == {g \in prog.funcs : Callers(g) = {}}
             mayDip == dip = "All"
             b == MainBase(f)
  <2>1. b = BaseIn(f, roots, start, mayDip) /\ mayDip \in BOOLEAN
        /\ (f \notin roots => Callers(f) # {})
    BY DEF MainBase
  <2>2. /\ stage = "main" /\ done' = done \cup {f} /\ base' = [base EXCEPT ![f] = b]
        /\ Callers(f) \subseteq done
        /\ UNCHANGED <<stage, framesFirst, start, floatAt, save, region>>
    BY <1>3 DEF AssignMain
  <2> HIDE DEF b, roots, mayDip
  <2>3. \A g \in Callers(f) : start <= base[g]
    BY <2>2 DEF GlobalsBelow
  <2>4. start <= start
    BY <1>1
  <2>5. start <= b /\ b \in Nat
    BY <1>1, <2>1, <2>3, <2>4, BaseAboveStart
  <2>6. \A g \in done \cup {f} : start <= base'[g]
    BY <1>1, <2>2, <2>5 DEF GlobalsBelow, BasesOK, TypeOK
  <2> QED BY <1>1, <2>2, <2>6 DEF GlobalsBelow
<1>4. ASSUME NEW f \in prog.funcs, AssignRegion(f)
      PROVE  GlobalsBelow'
  <2> DEFINE mayDip == dip # "Off"
             b == IsrBase(f, RegionRoots)
  <2>1. b = BaseIn(f, RegionRoots, region, mayDip) /\ mayDip \in BOOLEAN
    BY DEF IsrBase
  <2>2. f \notin RegionRoots => Callers(f) # {}
    BY <1>1, <1>4, Contexts DEF TypeInv, AssignRegion, RegionRoots, Settled
  <2>3. /\ stage \in {"low", "high"} /\ base' = [base EXCEPT ![f] = b]
        /\ UNCHANGED <<stage, framesFirst, start, floatAt, save, region>>
    BY <1>4 DEF AssignRegion
  <2> HIDE DEF b, mayDip
  <2>4. start <= region /\ \A g \in Callers(f) : start <= base[g]
    BY <1>1, <2>3 DEF GlobalsBelow, Callers, SitesOf, ProgOK, IsProgram
  <2>5. start <= b
    BY <1>1, <2>1, <2>2, <2>4, BaseAboveStart
  <2>6. \A g \in prog.funcs : start <= base'[g]
    BY <1>1, <2>3, <2>5 DEF GlobalsBelow, BasesOK
  <2>7. LowSave' = LowSave
    BY <1>1, <2>3 DEF LowSave
  <2> QED BY <1>1, <2>3, <2>6, <2>7 DEF GlobalsBelow
<1>5. CASE OpenLowRegion
  <2> DEFINE isrBase == Max({start} \cup {End(f) : f \in MainCtx})
  <2>1. isrBase \in Nat /\ start <= isrBase
    BY OpenLowBounds
  <2>2. /\ stage = "main" /\ stage' = "low" /\ base' = base /\ save = NoSaves
        /\ done = prog.funcs /\ UNCHANGED <<framesFirst, start, floatAt>>
        /\ save'.high = None
        /\ LowSave' # None => LowSave' = isrBase
        /\ region' \in {isrBase + LowSaveBytes, isrBase + IsrSaveBytes, isrBase}
    BY <1>1, <1>5 DEF OpenLowRegion, SavesCarved, NoSaves, LowSave
  <2> HIDE DEF isrBase
  <2>3. start <= region'
    BY <1>1, <2>1, <2>2, SaveAssumption
  <2> QED BY <1>1, <2>1, <2>2, <2>3 DEF GlobalsBelow
<1>6. CASE OpenHighRegion
  <2> DEFINE hiBase == Max({End(f) : f \in prog.funcs})
  <2>1. hiBase \in Nat /\ \A f \in prog.funcs : End(f) <= hiBase
    BY OpenHighBounds
  <2>2. /\ stage = "low" /\ stage' = "high" /\ base' = base /\ save.high = None
        /\ UNCHANGED <<framesFirst, start, floatAt>>
        /\ save'.high # None => save'.high = hiBase
        /\ LowSave' = LowSave
        /\ region' \in {hiBase + IsrSaveBytes, hiBase}
    BY <1>1, <1>6 DEF OpenHighRegion, SavesCarved, LowSave, TypeOK
  <2> HIDE DEF hiBase
  <2>3. start <= hiBase
    <3>1. "main" \in prog.funcs
      BY <1>1 DEF ProgOK, IsProgram
    <3>2. start <= base["main"] /\ base["main"] <= End("main") /\ End("main") <= hiBase
      BY <1>2, <2>1, <2>2, <3>1 DEF GlobalsBelow
    <3> QED BY <1>1, <1>2, <2>1, <3>1, <3>2
  <2>4. start <= region'
    BY <1>1, <2>1, <2>2, <2>3, SaveAssumption
  <2> QED BY <1>1, <2>2, <2>3, <2>4 DEF GlobalsBelow
<1>7. CASE PlaceGlobals
  <2> DEFINE a == FloatStart(GprStart)
  <2>1. GprStart \in Nat
    BY BanksAssumption DEF GprStart
  <2>2. /\ stage = "globals" /\ stage' = "main" /\ floatAt' = a
        /\ start' = GlobalsEnd(a) /\ done' = done /\ GlobalsFit(GprStart)
    BY <1>7 DEF PlaceGlobals
  <2>3. a \in Nat
    BY <1>1, <2>1, <2>2, GlobalsBounds
  <2> HIDE DEF a
  <2>4. a + prog.float <= GlobalsEnd(a) /\ \A p \in prog.pinned : p < GlobalsEnd(a)
    BY <1>1, <2>1, <2>3, GlobalsBounds
  <2> QED BY <1>1, <2>2, <2>4 DEF GlobalsBelow
<1>8. CASE GlobalsAboveFrames \/ BasesAboveGlobals \/ PlaceLocals
  <2>1. /\ stage' \in {"slots", "run"} /\ UNCHANGED <<base, save, start, framesFirst>>
        /\ ~framesFirst => floatAt' = floatAt
        /\ \/ stage \in {"high", "slots"}
           \/ stage = "main" /\ done = prog.funcs
    BY <1>8 DEF GlobalsAboveFrames, BasesAboveGlobals, PlaceLocals, BasesDone
  <2>2. LowSave' = LowSave
    BY <1>1, <2>1 DEF LowSave
  <2>3. /\ \A f \in prog.funcs : start <= base[f]
        /\ LowSave # None => start <= LowSave
        /\ save.high # None => start <= save.high
    BY <2>1 DEF GlobalsBelow, SavesCarved, NoSaves, LowSave
  <2> QED BY <1>1, <2>1, <2>2, <2>3 DEF GlobalsBelow
<1>9. CASE AcceptCallGraph
  BY <1>9 DEF AcceptCallGraph, GlobalsBelow
<1>10. CASE FallBackToGlobalsFirst \/ Refuse
  BY <1>10 DEF FallBackToGlobalsFirst, Refuse, GlobalsBelow
<1> QED BY <1>3, <1>4, <1>5, <1>6, <1>7, <1>8, <1>9, <1>10 DEF AllocNext

LEMMA AboveAlloc ==
  ASSUME TypeInv, GlobalsAbove, AllocNext
  PROVE  GlobalsAbove'
<1>1. /\ TypeOK /\ ProgOK /\ BasesOK /\ prog' = prog /\ start \in Nat
      /\ \A f \in prog.funcs : End(f) \in Nat
  BY AllocFacts
<1>2. CASE GlobalsAboveFrames
  <2> DEFINE top == OverlayEnd
  <2>1. /\ base' = base /\ GlobalsFit(top) /\ floatAt' = FloatStart(top)
        /\ \A p \in prog.pinned : top <= p
    BY <1>2 DEF GlobalsAboveFrames, FramesFirstFits
  <2>2. top \in Nat /\ \A f \in prog.funcs : End(f) <= top
    BY <1>1, EndsBound DEF OverlayEnd
  <2>3. floatAt' \in Nat /\ top <= floatAt'
    <3> HIDE DEF top
    <3> QED BY <1>1, <2>1, <2>2, GlobalsBounds
  <2>4. prog.pinned \subseteq Nat
    BY <1>1 DEF ProgOK, IsProgram
  <2> HIDE DEF top
  <2>5. \A f \in prog.funcs : End(f) <= floatAt' /\ \A p \in prog.pinned : End(f) <= p
    BY <1>1, <2>1, <2>2, <2>3, <2>4
  <2>6. \A f \in prog.funcs : End(f)' = End(f)
    BY <1>1, <2>1 DEF End
  <2> QED BY <1>1, <2>5, <2>6 DEF GlobalsAbove
<1>3. CASE PlaceLocals
  BY <1>1, <1>3 DEF PlaceLocals, GlobalsAbove, End
<1>4. CASE ~(GlobalsAboveFrames \/ PlaceLocals)
  <2>1. stage' \notin {"slots", "run"} \/ ~framesFirst'
    BY <1>4 DEF AllocNext, AcceptCallGraph, AssignMain, AssignRegion, OpenLowRegion,
           OpenHighRegion, FallBackToGlobalsFirst, PlaceGlobals, BasesAboveGlobals,
           Refuse
  <2> QED BY <2>1 DEF GlobalsAbove
<1> QED BY <1>2, <1>3, <1>4

GlobalsInv == GlobalsBelow /\ GlobalsAbove

LEMMA GlobalsStep ==
  ASSUME TypeInv, SavesCarved, GlobalsInv, [Next]_vars
  PROVE  GlobalsInv'
<1>1. CASE AllocNext /\ UNCHANGED stack
  BY <1>1, BelowAlloc, AboveAlloc DEF GlobalsInv
<1>2. CASE RunNext \/ UNCHANGED vars
  <2>1. UNCHANGED allocVars
    BY <1>2, RunAfterAlloc DEF vars, allocVars
  <2>2. LowSave' = LowSave /\ \A f : End(f)' = End(f)
    BY <2>1 DEF LowSave, PriorityMode, End, allocVars
  <2> QED BY <2>1, <2>2 DEF GlobalsInv, GlobalsBelow, GlobalsAbove, allocVars
<1> QED BY <1>1, <1>2 DEF Next

LEMMA GlobalsInit ==
  ASSUME AllocInit, stack = <<>>
  PROVE  GlobalsInv
<1>1. stage = "callgraph" /\ done = {}
  BY DEF AllocInit
<1> QED BY <1>1 DEF GlobalsInv, GlobalsBelow, GlobalsAbove

(* An area a handler spills into is between the start of the overlay and   *)
(* the end of that handler's own frame.                                    *)
LEMMA AreaSpan ==
  ASSUME TypeInv, NoLoneHigh, SaveInv, GlobalsBelow, stage = "run",
         NEW h \in prog.funcs, NEW a \in SaveBytesOf(h)
  PROVE  a \in Nat /\ start <= a /\ a < End(h)
<1>1. ProgOK /\ prog.low \subseteq LowCtx /\ prog.high \subseteq HighCtx
  BY TypeInvFacts, Contexts DEF TypeInv
<1>2. End(h) \in Nat /\ base[h] \in Nat /\ base[h] <= End(h) /\ start \in Nat
  BY TypeInvFacts, EndAbove DEF TypeInv, TypeOK
<1>3. /\ LowSave \in Nat \cup {None} /\ LowSize \in Nat
      /\ IsrSaveBytes \in Nat /\ save.high \in Nat \cup {None}
  BY SaveAssumption DEF TypeInv, TypeOK, LowSave, LowSize
<1>4. PICK at \in Nat, n \in Nat : a \in at..(at + n - 1) /\ start <= at /\ at + n <= base[h]
  <2>1. CASE h \in prog.low
    <3>1. a \in AreaBytes(LowSave, LowSize)
      BY <1>1, <2>1, SaveAreas
    <3>2. LowSave # None /\ a \in LowSave..(LowSave + LowSize - 1)
      BY <3>1 DEF AreaBytes
    <3>3. start <= LowSave
      BY <3>2 DEF GlobalsBelow
    <3>4. LowSave + LowSize <= base[h]
      BY <1>1, <2>1, <3>2 DEF SaveInv, LowAreaPlaced
    <3> QED BY <1>3, <3>2, <3>3, <3>4
  <2>2. CASE h \in prog.high
    <3>1. a \in AreaBytes(save.high, IsrSaveBytes)
      BY <1>1, <2>2, SaveAreas
    <3>2. save.high # None /\ a \in save.high..(save.high + IsrSaveBytes - 1)
      BY <3>1 DEF AreaBytes
    <3>3. start <= save.high
      BY <3>2 DEF GlobalsBelow
    <3>4. save.high + IsrSaveBytes <= base[h]
      BY <1>1, <2>2, <3>2 DEF SaveInv, HighAreaPlaced
    <3> QED BY <1>3, <3>2, <3>3, <3>4
  <2>3. CASE h \notin Handlers
    BY <1>1, <2>3, SaveAreas
  <2> QED BY <2>1, <2>2, <2>3 DEF Handlers
<1> DEFINE b == base[h]
           e == End(h)
<1> HIDE DEF b, e
<1>5. a \in Nat /\ start <= a /\ a < e
  BY <1>2, <1>4 DEF b, e
<1> QED BY <1>5 DEF e

LEMMA GlobalsInvSafe ==
  ASSUME TypeInv, NoLoneHigh, FrameInv, SaveInv, GlobalsInv
  PROVE  GlobalsSafe
<1>1. SUFFICES ASSUME stage = "run", NEW f \in prog.funcs,
                      NEW a \in FrameBytes(f) \cup SaveBytesOf(f)
               PROVE  a \notin FloatBytes \cup prog.pinned
  BY DEF GlobalsSafe
<1> DEFINE b == base[f]
           e == End(f)
<1>2. /\ prog.float \in Nat /\ prog.pinned \subseteq Nat /\ floatAt \in Nat /\ start \in Nat
      /\ b \in Nat /\ e \in Nat
  BY TypeInvFacts, EndAbove DEF TypeInv, TypeOK, ProgOK, IsProgram
<1>3. start <= b
  BY <1>1 DEF GlobalsInv, GlobalsBelow
<1>4. a \in Nat /\ start <= a /\ a < e
  <2>1. CASE a \in FrameBytes(f)
    <3>1. a \in BytesOf(f, AllSlots(f)) /\ AllSlots(f) \in SUBSET AllSlots(f)
      BY <2>1 DEF FrameBytes
    <3>2. a \in Nat /\ b <= a /\ a < e
      BY <1>1, <3>1, FrameSpan DEF FrameInv
    <3> HIDE DEF b, e
    <3> QED BY <1>2, <1>3, <3>2
  <2>2. CASE a \in SaveBytesOf(f)
    BY <1>1, <2>2, AreaSpan DEF GlobalsInv
  <2> QED BY <1>1, <2>1, <2>2
<1> HIDE DEF b
<1>5. CASE framesFirst
  <2>1. e <= floatAt /\ \A p \in prog.pinned : e <= p
    BY <1>1, <1>5 DEF GlobalsInv, GlobalsAbove
  <2> HIDE DEF e
  <2> QED BY <1>2, <1>4, <2>1 DEF FloatBytes
<1>6. CASE ~framesFirst
  <2>1. floatAt + prog.float <= start /\ \A p \in prog.pinned : p < start
    BY <1>1, <1>6 DEF GlobalsInv, GlobalsBelow
  <2> HIDE DEF e
  <2> QED BY <1>2, <1>4, <2>1 DEF FloatBytes
<1> QED BY <1>5, <1>6

(* Globals keep their values for the whole run: in whichever order alloc   *)
(* places the overlay and the globals, and when it falls back from one     *)
(* order to the other, no frame and no save area shares a byte with a      *)
(* pinned or a floating global.                                            *)
THEOREM GlobalsSafeHolds == Spec => [](WellSplit /\ NoLoneHigh => GlobalsSafe)
<1> DEFINE Areas == /\ TypeInv
                    /\ WellSplit => FrameInv
                    /\ WellSplit /\ NoLoneHigh => SaveInv
           Inv == Areas /\ (WellSplit /\ NoLoneHigh => GlobalsInv)
<1>1. Init => (WellSplit /\ NoLoneHigh => GlobalsInv)
  BY GlobalsInit DEF Init
<1>2. Areas /\ (WellSplit /\ NoLoneHigh => GlobalsInv) /\ [Next]_vars
         => (WellSplit /\ NoLoneHigh => GlobalsInv)'
  BY GlobalsStep, ProgRigid, NoLoneHighRigid DEF SaveInv
<1>3. Areas /\ (WellSplit /\ NoLoneHigh => GlobalsInv)
         => (WellSplit /\ NoLoneHigh => GlobalsSafe)
  BY GlobalsInvSafe
<1> QED BY <1>1, <1>2, <1>3, AreasInv, PTL DEF Spec

-----------------------------------------------------------------------------
(***************************************************************************)
(* For every device, program and choice of dip: every byte of every frame  *)
(* is implemented RAM (FramesMapped), and every runtime routine's frame is *)
(* inside one bank (RoutineInOneBank), provided the device has banks for   *)
(* its routines: "a routine frame is at most 22 bytes, so one step past    *)
(* the current bank always fits" (alloc/src/lib.rs:410).                   *)
(*                                                                         *)
(* The argument: a function is settled only where its frame ends on the    *)
(* device (RoomLeft), so the placement walk never left the last bank and   *)
(* put every slot inside a bank, reordered or not; and a routine is        *)
(* settled only where round_if_routine put it (RoutinesPlaced).            *)
(***************************************************************************)

(* A frame at b stays inside the bank b is in.                             *)
InOneBank(b, ws) ==
    /\ BanksFrom(b) # {}
    /\ FrameEnd(b, ws) - 1 <= Banks[Min(BanksFrom(b))].hi
    /\ Core = "pic18" => FrameEnd(b, ws) - 1 <= BankTop(b)

(* Where a routine may be moved to: the first byte of a region, or of a    *)
(* BSR bank inside one.                                                    *)
BankStarts ==
    {Banks[i].lo : i \in 1..Len(Banks)}
    \cup {a \in Nat : Core = "pic18" /\ Mapped(a) /\ \E b \in Nat : a = BankTop(b) + 1}

RoutinesFit ==
    \A f \in prog.routines : \A a \in BankStarts : InOneBank(a, prog.width[f])

(* A settled frame ends on the device; so does every slot of step 7.       *)
RoomLeft == \A f \in done : End(f) < NoRoom

SlotsInBank ==
    stage = "run" =>
        \A f \in prog.funcs : \A k \in AllSlots(f) :
            InBank(slots[f][k], prog.width[f][k])

(* A settled routine is where round_if_routine put it.                     *)
RoutinesPlaced ==
    Core # "baseline" =>
        \A f \in done \cap prog.routines : InOneBank(base[f], prog.width[f])

BankInv ==
    /\ RoomLeft
    /\ SlotsInFrame
    /\ SlotsInBank
    /\ RoutinesFit => RoutinesPlaced

-----------------------------------------------------------------------------
(* The device.                                                             *)

LEMMA FirstBank ==
  ASSUME NEW a \in Nat, BanksFrom(a) # {}
  PROVE  LET m == Min(BanksFrom(a))
         IN  /\ m \in 1..Len(Banks) /\ a <= Banks[m].hi
             /\ \A i \in 1..Len(Banks) : a <= Banks[i].hi => m <= i
<1> DEFINE T == BanksFrom(a)
<1>1. T \subseteq Nat
  BY BanksAssumption DEF BanksFrom
<1> HIDE DEF T
<1>2. Min(T) \in T /\ \A i \in T : Min(T) <= i
  BY <1>1, MinOfLeast DEF T
<1> QED BY <1>2 DEF T, BanksFrom

(* NextGpr answers the first byte of a region or the byte it is given.     *)
LEMMA NextGprStart ==
  ASSUME NEW a \in Nat, BanksFrom(a) # {}
  PROVE  LET m == Min(BanksFrom(a))
         IN  /\ NextGpr(a) \in {a, Banks[m].lo}
             /\ NextGpr(a) = a => Banks[m].lo <= a /\ Mapped(a)
<1> DEFINE m == Min(BanksFrom(a))
<1>1. m \in 1..Len(Banks) /\ a <= Banks[m].hi
  BY FirstBank
<1>2. NextGpr(a) = Larger(a, Banks[m].lo)
  BY DEF NextGpr, StartIn
<1>3. Banks[m].lo \in Nat
  BY <1>1, BanksAssumption
<1> HIDE DEF m
<1>4. NextGpr(a) \in {a, Banks[m].lo} /\ (NextGpr(a) = a => Banks[m].lo <= a)
  BY <1>2, <1>3 DEF Larger
<1> QED BY <1>1, <1>4 DEF m, Mapped

(* Past the end of the region an address is in, the next GPR byte is the   *)
(* first byte of a later region.                                           *)
LEMMA PastRegion ==
  ASSUME NEW j \in 1..Len(Banks), BanksFrom(Banks[j].hi + 1) # {}
  PROVE  \E i \in 1..Len(Banks) : NextGpr(Banks[j].hi + 1) = Banks[i].lo
<1> DEFINE a == Banks[j].hi + 1
           m == Min(BanksFrom(a))
<1>1. a \in Nat /\ Banks[j].hi \in Nat /\ Banks[j].lo \in Nat /\ j \in Nat
  BY BanksAssumption
<1>2. m \in 1..Len(Banks) /\ a <= Banks[m].hi
  BY <1>1, FirstBank
<1>3. NextGpr(a) \in {a, Banks[m].lo} /\ (NextGpr(a) = a => Banks[m].lo <= a)
  BY <1>1, NextGprStart
<1>4. a <= Banks[m].lo
  <2> HIDE DEF m
  <2>1. Banks[m].lo \in Nat /\ Banks[m].hi \in Nat /\ m \in Nat /\ Banks[j].lo <= Banks[j].hi
    BY <1>2, BanksAssumption
  <2>2. m < j => Banks[m].hi < Banks[j].lo
    BY <1>2, BanksAssumption
  <2>3. j < m => Banks[j].hi < Banks[m].lo
    BY <1>2, BanksAssumption
  <2> QED BY <1>1, <1>2, <2>1, <2>2, <2>3
<1>5. Banks[m].lo \in Nat
  BY <1>2, BanksAssumption
<1> HIDE DEF m
<1>6. NextGpr(a) = Banks[m].lo
  BY <1>1, <1>3, <1>4, <1>5
<1> QED BY <1>2, <1>6

(* Where routine_base puts a frame it is inside one bank, if it ends on    *)
(* the device and the bank it may be moved to has room for it.             *)
LEMMA RoutineBaseInBank ==
  ASSUME NEW b \in Nat, NEW ws \in WidthSeq,
         FrameEnd(RoutineBase(b, ws), ws) < NoRoom,
         \A a \in BankStarts : InOneBank(a, ws)
  PROVE  InOneBank(RoutineBase(b, ws), ws)
<1> DEFINE at == RoutineBase(b, ws)
           m == Min(BanksFrom(b))
           regionEnd == Banks[m].hi
           top == IF Core = "pic18" THEN BankTop(b) ELSE regionEnd
<1>1. at \in Nat /\ at < NoRoom
  <2>1. at \in Nat
    BY RoutineBaseAbove
  <2>2. FrameEnd(at, ws) \in Nat /\ at <= FrameEnd(at, ws)
    BY <2>1, FrameEndAbove
  <2> DEFINE e == FrameEnd(at, ws)
  <2> HIDE DEF e, at
  <2>3. e < NoRoom
    BY DEF e, at
  <2> QED BY <2>1, <2>2, <2>3 DEF e, NoRoom
<1>2. BanksFrom(b) # {}
  BY <1>1 DEF RoutineBase, Larger, NoRoom
<1>3. m \in 1..Len(Banks) /\ regionEnd \in Nat
  BY <1>2, FirstBank, BanksAssumption
<1>4. top \in Nat
  BY <1>3, BankTopAbove
<1>5. at = IF FrameEnd(b, ws) - 1 <= Smaller(top, regionEnd) THEN b ELSE NextGpr(top + 1)
  BY <1>2 DEF RoutineBase
<1>6. CASE FrameEnd(b, ws) - 1 <= Smaller(top, regionEnd)
  <2>1. FrameEnd(b, ws) \in Nat
    BY FrameEndAbove
  <2> DEFINE e == FrameEnd(b, ws)
             t == top
             r == regionEnd
  <2>2. e - 1 <= Smaller(t, r) /\ e \in Nat /\ t \in Nat /\ r \in Nat
    BY <1>3, <1>4, <1>6, <2>1
  <2> HIDE DEF e, t, r
  <2>3. e - 1 <= r /\ e - 1 <= t
    BY <2>2 DEF Smaller
  <2>4. e - 1 <= regionEnd /\ (Core = "pic18" => e - 1 <= BankTop(b))
    BY <2>3 DEF t, r
  <2>5. at = b
    BY <1>5, <1>6
  <2> QED BY <1>2, <2>4, <2>5 DEF e, InOneBank
<1>7. CASE ~(FrameEnd(b, ws) - 1 <= Smaller(top, regionEnd))
  <2>1. at = NextGpr(top + 1)
    BY <1>5, <1>7
  <2>2. BanksFrom(top + 1) # {}
    <3> HIDE DEF at, top
    <3> QED BY <1>1, <1>4, <2>1 DEF NextGpr, Larger, NoRoom
  <2>3. CASE Core = "pic18"
    <3> DEFINE n == Min(BanksFrom(top + 1))
    <3>1. top = BankTop(b)
      BY <2>3
    <3>2. at \in {top + 1, Banks[n].lo} /\ (at = top + 1 => Mapped(top + 1))
      <4> HIDE DEF top, at
      <4> QED BY <1>4, <2>1, <2>2, NextGprStart
    <3>3. n \in 1..Len(Banks)
      <4> HIDE DEF top
      <4> QED BY <1>4, <2>2, FirstBank
    <3> HIDE DEF at, top, n
    <3>4. at \in BankStarts
      BY <1>1, <2>3, <3>1, <3>2, <3>3 DEF BankStarts
    <3> QED BY <3>4 DEF at
  <2>4. CASE Core # "pic18"
    <3>1. top = regionEnd
      BY <2>4
    <3>2. \E i \in 1..Len(Banks) : at = Banks[i].lo
      <4> HIDE DEF m, at
      <4> QED BY <1>3, <2>1, <2>2, <3>1, PastRegion
    <3> HIDE DEF at
    <3>3. at \in BankStarts
      BY <3>2 DEF BankStarts
    <3> QED BY <3>3 DEF at
  <2> QED BY <2>3, <2>4
<1> QED BY <1>6, <1>7

-----------------------------------------------------------------------------
(* The allocator.                                                          *)

(* What steps 5 and 5b know of a base they accept.                         *)
LEMMA AcceptedBase ==
  ASSUME BasesOK, NEW f \in prog.funcs, NEW roots, NEW at \in Nat,
         NEW mayDip \in BOOLEAN, f \notin roots => Callers(f) # {},
         ~Overflows(f, BaseIn(f, roots, at, mayDip))
  PROVE  LET b == BaseIn(f, roots, at, mayDip)
         IN  /\ b \in Nat
             /\ FrameEnd(b, prog.width[f]) < NoRoom
             /\ RoutinesFit /\ Core # "baseline" /\ f \in prog.routines
                   => InOneBank(b, prog.width[f])
<1> DEFINE b == BaseIn(f, roots, at, mayDip)
           x == IF f \in roots THEN at ELSE CalleeBase(f, mayDip)
           ws == prog.width[f]
<1>1. ws \in WidthSeq
  BY DEF BasesOK, ProgOK, IsProgram, WidthSeq
<1>2. x \in Nat
  BY CalleeBaseAbove
<1>3. b = Rounded(f, x)
  BY DEF BaseIn
<1>4. b \in Nat
  <2> HIDE DEF x, b
  <2> QED BY <1>2, <1>3, RoundedAbove
<1>5. FrameEnd(b, ws) < NoRoom
  <2> DEFINE e == FrameEnd(b, ws)
  <2>1. ~(e >= NoRoom)
    BY DEF Overflows
  <2>2. e \in Nat
    <3> HIDE DEF b, ws
    <3> QED BY <1>1, <1>4, FrameEndAbove
  <2> HIDE DEF e
  <2>3. e < NoRoom
    BY <2>1, <2>2 DEF NoRoom
  <2> QED BY <2>3 DEF e
<1>6. ASSUME RoutinesFit, Core # "baseline", f \in prog.routines
      PROVE  InOneBank(b, ws)
  <2>1. b = RoutineBase(x, ws)
    BY <1>3, <1>6 DEF Rounded
  <2>2. \A a \in BankStarts : InOneBank(a, ws)
    BY <1>6 DEF RoutinesFit
  <2> HIDE DEF b, x, ws
  <2> QED BY <1>1, <1>2, <1>5, <2>1, <2>2, RoutineBaseInBank
<1> QED BY <1>4, <1>5, <1>6

(* Settling one more function with an accepted base keeps what is settled. *)
LEMMA SettleKeepsBankInv ==
  ASSUME BasesOK, BankInv, NEW f \in prog.funcs, NEW b \in Nat,
         base' = [base EXCEPT ![f] = b], done' = done \cup {f},
         done \subseteq prog.funcs, prog' = prog, stage' # "run",
         FrameEnd(b, prog.width[f]) < NoRoom,
         RoutinesFit /\ Core # "baseline" /\ f \in prog.routines
            => InOneBank(b, prog.width[f])
  PROVE  BankInv'
<1>1. base'[f] = b /\ \A g \in prog.funcs \ {f} : base'[g] = base[g]
  BY DEF BasesOK
<1>2. RoomLeft'
  <2>1. ASSUME NEW g \in done \cup {f} PROVE End(g)' < NoRoom
    BY <1>1, <2>1 DEF BankInv, RoomLeft, End
  <2> QED BY <2>1 DEF RoomLeft
<1>3. SlotsInFrame' /\ SlotsInBank'
  BY DEF SlotsInFrame, SlotsInBank
<1>4. RoutinesFit' = RoutinesFit
  BY DEF RoutinesFit
<1>5. ASSUME RoutinesFit PROVE RoutinesPlaced'
  <2>1. SUFFICES ASSUME Core # "baseline", NEW g \in (done \cup {f}) \cap prog.routines
                 PROVE  InOneBank(base'[g], prog.width[g])
    BY DEF RoutinesPlaced
  <2> QED BY <1>1, <1>5, <2>1 DEF BankInv, RoutinesPlaced
<1> QED BY <1>2, <1>3, <1>4, <1>5 DEF BankInv

LEMMA BankAlloc ==
  ASSUME TypeInv, BankInv, AllocNext
  PROVE  BankInv'
<1>1. /\ TypeOK /\ ProgOK /\ BasesOK /\ start \in Nat /\ region \in Nat
      /\ done \subseteq prog.funcs
  BY TypeInvFacts DEF TypeInv, TypeOK
<1>2. prog' = prog
  BY DEF AllocNext, AcceptCallGraph, AssignMain, AssignRegion, OpenLowRegion,
         OpenHighRegion, GlobalsAboveFrames, FallBackToGlobalsFirst, PlaceGlobals,
         BasesAboveGlobals, PlaceLocals, Refuse
<1>3. RoutinesFit' = RoutinesFit
  BY <1>2 DEF RoutinesFit
<1>4. ASSUME NEW f \in prog.funcs, AssignMain(f)
      PROVE  BankInv'
  <2> DEFINE roots == {g \in prog.funcs : Callers(g) = {}}
             mayDip == dip = "All"
             b == BaseIn(f, roots, start, mayDip)
  <2>1. /\ ~Overflows(f, b) /\ base' = [base EXCEPT ![f] = b] /\ done' = done \cup {f}
        /\ stage' # "run"
    BY <1>4 DEF AssignMain, MainBase
  <2>2. mayDip \in BOOLEAN /\ (f \notin roots => Callers(f) # {})
    OBVIOUS
  <2> HIDE DEF roots, mayDip
  <2>3. /\ b \in Nat /\ FrameEnd(b, prog.width[f]) < NoRoom
        /\ RoutinesFit /\ Core # "baseline" /\ f \in prog.routines
              => InOneBank(b, prog.width[f])
    BY <1>1, <2>1, <2>2, AcceptedBase
  <2> HIDE DEF b
  <2> QED BY <1>1, <1>2, <2>1, <2>3, SettleKeepsBankInv
<1>5. ASSUME NEW f \in prog.funcs, AssignRegion(f)
      PROVE  BankInv'
  <2> DEFINE mayDip == dip # "Off"
             b == BaseIn(f, RegionRoots, region, mayDip)
  <2>1. /\ ~Overflows(f, b) /\ base' = [base EXCEPT ![f] = b] /\ done' = done \cup {f}
        /\ stage' # "run"
    BY <1>5 DEF AssignRegion, IsrBase
  <2>2. f \notin RegionRoots => Callers(f) # {}
    BY <1>1, <1>5, Contexts DEF TypeInv, AssignRegion, RegionRoots, Settled
  <2>3. mayDip \in BOOLEAN
    OBVIOUS
  <2> HIDE DEF mayDip
  <2>4. /\ b \in Nat /\ FrameEnd(b, prog.width[f]) < NoRoom
        /\ RoutinesFit /\ Core # "baseline" /\ f \in prog.routines
              => InOneBank(b, prog.width[f])
    BY <1>1, <2>1, <2>2, <2>3, AcceptedBase
  <2> HIDE DEF b
  <2> QED BY <1>1, <1>2, <2>1, <2>4, SettleKeepsBankInv
<1>6. CASE PlaceLocals
  <2>1. /\ base' = base /\ done' = done /\ done = prog.funcs
        /\ \A f \in prog.funcs : slots'[f] = SlotAddr(f)
    BY <1>6 DEF PlaceLocals, TypeInv, Settled
  <2>2. ASSUME NEW f \in prog.funcs, NEW k \in AllSlots(f)
        PROVE  /\ base[f] <= SlotAddr(f)[k]
               /\ SlotAddr(f)[k] + prog.width[f][k] <= End(f)
               /\ InBank(SlotAddr(f)[k], prog.width[f][k])
    <3>1. End(f) < NoRoom
      BY <2>1 DEF BankInv, RoomLeft
    <3> QED BY <1>1, <2>2, <3>1, SlotAddrInFrame
  <2>3. \A f : AllSlots(f)' = AllSlots(f) /\ End(f)' = End(f)
    BY <1>2, <2>1 DEF AllSlots, End
  <2>4. SlotsInFrame' /\ SlotsInBank'
    BY <1>2, <2>1, <2>2, <2>3 DEF SlotsInFrame, SlotsInBank, SlotEnd
  <2> QED BY <1>2, <1>3, <2>1, <2>3, <2>4 DEF BankInv, RoomLeft, RoutinesPlaced
<1>7. CASE \/ AcceptCallGraph \/ OpenLowRegion \/ OpenHighRegion \/ GlobalsAboveFrames
           \/ FallBackToGlobalsFirst \/ PlaceGlobals \/ BasesAboveGlobals \/ Refuse
  <2>1. base' = base /\ done' \subseteq done /\ stage' # "run"
    BY <1>1, <1>7
       DEF AcceptCallGraph, OpenLowRegion, OpenHighRegion, GlobalsAboveFrames,
           FallBackToGlobalsFirst, PlaceGlobals, BasesAboveGlobals, Refuse
  <2>2. \A f : End(f)' = End(f)
    BY <1>2, <2>1 DEF End
  <2> QED BY <1>2, <1>3, <2>1, <2>2
          DEF BankInv, RoomLeft, RoutinesPlaced, SlotsInFrame, SlotsInBank
<1> QED BY <1>4, <1>5, <1>6, <1>7 DEF AllocNext

-----------------------------------------------------------------------------
(* The invariant, and what it gives.                                       *)

LEMMA BankStep ==
  ASSUME TypeInv, BankInv, [Next]_vars
  PROVE  BankInv'
<1>1. CASE AllocNext
  BY <1>1, BankAlloc
<1>2. CASE RunNext \/ UNCHANGED vars
  <2>1. UNCHANGED allocVars
    BY <1>2, RunAfterAlloc DEF vars, allocVars
  <2> QED BY <2>1 DEF BankInv, RoomLeft, SlotsInFrame, SlotsInBank, RoutinesFit,
                      RoutinesPlaced, SlotEnd, End, AllSlots, allocVars
<1> QED BY <1>1, <1>2 DEF Next

LEMMA BankInit ==
  ASSUME AllocInit
  PROVE  BankInv
<1>1. stage = "callgraph" /\ done = {}
  BY DEF AllocInit
<1> QED BY <1>1 DEF BankInv, RoomLeft, SlotsInFrame, SlotsInBank, RoutinesPlaced

LEMMA PlacementInv == Spec => [](TypeInv /\ BankInv)
<1>1. Init => TypeInv /\ BankInv
  BY TypeInit, BankInit DEF Init
<1>2. TypeInv /\ BankInv /\ [Next]_vars => (TypeInv /\ BankInv)'
  BY TypeStep, BankStep
<1> QED BY <1>1, <1>2, PTL DEF Spec

LEMMA BankInvMapped ==
  ASSUME TypeInv, BankInv
  PROVE  FramesMapped
<1>1. SUFFICES ASSUME stage = "run", NEW f \in prog.funcs, NEW k \in AllSlots(f),
                      NEW a \in SlotBytes(f, k)
               PROVE  Mapped(a)
  BY DEF FramesMapped, FrameBytes, BytesOf
<1> DEFINE x == slots[f][k]
           w == prog.width[f][k]
<1>2. PICK i \in 1..Len(Banks) : Banks[i].lo <= x /\ x + w - 1 <= Banks[i].hi
  BY <1>1 DEF BankInv, SlotsInBank, InBank
<1>3. Banks[i].lo \in Nat /\ Banks[i].hi \in Nat
  BY BanksAssumption
<1>4. x \in Nat /\ w \in Nat
  BY <1>1, SlotEndNat
<1>5. a \in x..(x + w - 1)
  BY <1>1 DEF SlotBytes
<1> HIDE DEF x, w
<1>6. Banks[i].lo <= a /\ a <= Banks[i].hi
  BY <1>2, <1>3, <1>4, <1>5
<1> QED BY <1>6 DEF Mapped

(* Every byte of every frame is implemented RAM: where alloc accepts a     *)
(* base the frame ends on the device, so place_contiguous found a bank for *)
(* each slot and no slot is in a gap or past the last bank, reordered by   *)
(* step 7 or not.                                                          *)
THEOREM FramesMappedHolds == Spec => []FramesMapped
<1>1. TypeInv /\ BankInv => FramesMapped
  BY BankInvMapped
<1> QED BY <1>1, PlacementInv, PTL

(* Addresses from one of a bank to the bank's last byte are in that bank.  *)
LEMMA SameBank ==
  ASSUME NEW b \in Nat, NEW a \in Nat, b <= a,
         BanksFrom(b) # {}, a <= Banks[Min(BanksFrom(b))].hi,
         Core = "pic18" => a <= BankTop(b)
  PROVE  BankOf(a) = BankOf(b)
<1>1. CASE Core = "pic18"
  <2> DEFINE q == b \div BankBytes
             p == q * BankBytes
  <2>1. BankBytes \in Nat \ {0} /\ q \in Nat
    BY WindowAssumption
  <2>2. p \in Nat /\ p <= b
    <3>1. b = q * BankBytes + (b % BankBytes) /\ b % BankBytes \in 0..(BankBytes - 1)
      BY <2>1
    <3>2. q * BankBytes \in Nat
      BY <2>1
    <3> HIDE DEF q
    <3> QED BY <2>1, <3>1, <3>2
  <2>3. a <= p + BankBytes - 1
    BY <1>1 DEF BankTop
  <2>4. a \div BankBytes = q
    <3> HIDE DEF q
    <3>1. q * BankBytes <= a /\ a < q * BankBytes + BankBytes
      <4> HIDE DEF p
      <4>1. p <= a /\ a < p + BankBytes
        BY <2>1, <2>2, <2>3
      <4> QED BY <4>1 DEF p
    <3> QED BY <2>1, <3>1
  <2> QED BY <1>1, <2>4 DEF BankOf
<1>2. CASE Core # "pic18"
  <2> DEFINE m == Min(BanksFrom(b))
             n == Min(BanksFrom(a))
  <2>1. /\ m \in 1..Len(Banks) /\ a <= Banks[m].hi
        /\ \A i \in 1..Len(Banks) : b <= Banks[i].hi => m <= i
    BY FirstBank
  <2>2. BanksFrom(a) # {}
    BY <2>1 DEF BanksFrom
  <2>3. /\ n \in 1..Len(Banks) /\ a <= Banks[n].hi
        /\ \A i \in 1..Len(Banks) : a <= Banks[i].hi => n <= i
    BY <2>2, FirstBank
  <2>4. n <= m
    BY <2>1, <2>3
  <2>5. m <= n
    <3>1. b <= Banks[n].hi
      <4> HIDE DEF n
      <4>1. Banks[n].hi \in Nat
        BY <2>3, BanksAssumption
      <4> QED BY <2>3, <4>1
    <3> QED BY <2>1, <2>3, <3>1
  <2>6. m \in Nat /\ n \in Nat
    BY <2>1, <2>3
  <2> HIDE DEF m, n
  <2>7. m = n
    BY <2>4, <2>5, <2>6
  <2>8. BankKey(a)[1] = n /\ BankKey(b)[1] = m
    BY <1>2, <2>2 DEF BankKey, m, n
  <2> QED BY <1>2, <2>7, <2>8 DEF BankOf
<1> QED BY <1>1, <1>2

LEMMA BankInvOneBank ==
  ASSUME TypeInv, BankInv, RoutinesFit, Core # "baseline"
  PROVE  RoutineInOneBank
<1>1. SUFFICES ASSUME stage = "run", NEW f \in prog.routines, NEW a \in FrameBytes(f)
               PROVE  BankOf(a) = BankOf(base[f])
  BY DEF RoutineInOneBank
<1>2. f \in prog.funcs /\ done = prog.funcs
  BY <1>1, TypeInvFacts DEF TypeInv, Settled, ProgOK, IsProgram
<1>3. InOneBank(base[f], prog.width[f])
  BY <1>2 DEF BankInv, RoutinesPlaced
<1> DEFINE b == base[f]
           e == End(f)
           hi == Banks[Min(BanksFrom(b))].hi
           top == BankTop(b)
<1>4. a \in Nat /\ b <= a /\ a < e
  <2>1. a \in BytesOf(f, AllSlots(f)) /\ AllSlots(f) \in SUBSET AllSlots(f)
    BY <1>1 DEF FrameBytes
  <2> QED BY <1>1, <1>2, <2>1, FrameSpan DEF BankInv
<1>5. BanksFrom(b) # {} /\ e - 1 <= hi /\ (Core = "pic18" => e - 1 <= top)
  BY <1>3 DEF InOneBank, End
<1>6. b \in Nat /\ e \in Nat
  BY <1>2, TypeInvFacts, EndAbove DEF TypeInv
<1>7. hi \in Nat /\ top \in Nat
  <2> HIDE DEF b
  <2> QED BY <1>5, <1>6, FirstBank, BankTopAbove, BanksAssumption
<1>8. a <= hi /\ (Core = "pic18" => a <= top)
  <2> HIDE DEF b, e, hi, top
  <2> QED BY <1>4, <1>5, <1>6, <1>7
<1> HIDE DEF b, e
<1>9. BankOf(a) = BankOf(b)
  BY <1>4, <1>5, <1>6, <1>8, SameBank
<1> QED BY <1>9 DEF b

(* A runtime routine's frame needs one bank select (round_if_routine): of  *)
(* all its bytes, after every dip, rebase, move and reordering, on every   *)
(* device that has room for a routine at the start of each of its banks.   *)
THEOREM RoutineInOneBankHolds ==
  Spec => [](RoutinesFit /\ Core # "baseline" => RoutineInOneBank)
<1>1. TypeInv /\ BankInv => (RoutinesFit /\ Core # "baseline" => RoutineInOneBank)
  BY BankInvOneBank
<1> QED BY <1>1, PlacementInv, PTL
=============================================================================
