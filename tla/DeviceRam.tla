------------------------------ MODULE DeviceRam ------------------------------
(***************************************************************************)
(* The data memory of one PIC device and the address arithmetic the        *)
(* allocator performs over it: device/src/lib.rs (region_for) and the      *)
(* placement helpers of alloc/src/lib.rs.                                   *)
(*                                                                         *)
(* A frame is a sequence of slot widths.  Placing it at a base walks the   *)
(* slots in order, each at the lowest address at or above the previous     *)
(* slot's end where it fits inside ONE bank; bytes left at a bank's end    *)
(* become a hole.  All the frame arithmetic of the allocator is a reading  *)
(* of that walk (Cursor).                                                  *)
(***************************************************************************)
EXTENDS Integers, Sequences, FiniteSetsExt

CONSTANTS
    Banks,       \* ram_banks: sequence of [lo, hi] inclusive ranges, ascending
    Core,        \* "pic14", "pic18" or "baseline": what the placement rules test
    WindowLo,    \* access_bank: first and last address reached without a bank
    WindowHi,    \*   select; WindowHi < WindowLo when the device has none
    BankBytes    \* bytes one BSR value selects on PIC18 (256 on silicon)

ASSUME BanksAssumption ==
    /\ Len(Banks) \in Nat \ {0}
    /\ \A i \in 1..Len(Banks) :
          Banks[i].lo \in Nat /\ Banks[i].hi \in Nat /\ Banks[i].lo <= Banks[i].hi
    /\ \A i, j \in 1..Len(Banks) : i < j => Banks[i].hi < Banks[j].lo

ASSUME WindowAssumption ==
    /\ WindowLo \in Nat
    /\ WindowHi \in Nat
    /\ BankBytes \in Nat \ {0}

-----------------------------------------------------------------------------
Larger(a, b) == IF a >= b THEN a ELSE b
Smaller(a, b) == IF a <= b THEN a ELSE b

(* Beyond every u16 address.  A placement that reaches it is one where the *)
(* code panics ("GPR demand exceeds ..."): the callers test for it.        *)
NoRoom == 65536

HasWindow == WindowLo <= WindowHi

GprStart == Banks[1].lo

Mapped(a) == \E i \in 1..Len(Banks) : Banks[i].lo <= a /\ a <= Banks[i].hi

(* The banks at or above an address: region_for answers the first of them. *)
BanksFrom(a) == {i \in 1..Len(Banks) : a <= Banks[i].hi}

(* Where a w-byte object asked for at a lands inside bank i.               *)
StartIn(i, a) == Larger(a, Banks[i].lo)

(* Seeded fault: only the first byte of the object is tested.              *)
PlaceFirstByte(a, w) ==
    IF BanksFrom(a) = {} THEN Larger(a, NoRoom) ELSE StartIn(Min(BanksFrom(a)), a)

(* place_contiguous: the loop advances bank by bank until the object fits, *)
(* which is the first bank at or above a that can hold it.                 *)
PlaceContiguous(a, w) ==
    LET fitting == {i \in BanksFrom(a) : StartIn(i, a) + w - 1 <= Banks[i].hi}
    IN  IF fitting = {} THEN Larger(a, NoRoom) ELSE StartIn(Min(fitting), a)

(* The running address of the placement walk: Cursor(b, ws)[k] is the byte *)
(* just past slot k.                                                       *)
Cursor(b, ws) ==
    LET c[k \in 0..Len(ws)] ==
            IF k = 0 THEN b ELSE PlaceContiguous(c[k - 1], ws[k]) + ws[k]
    IN  c

(* frame_end: the address just past a frame placed at b.                   *)
FrameEnd(b, ws) == Cursor(b, ws)[Len(ws)]

(* live_high: the address just past the highest slot of a frame that holds *)
(* a value live across a call site; the base itself when none does.        *)
LiveHigh(b, ws, live) ==
    IF live = {} THEN b ELSE Cursor(b, ws)[Max(live)]

(* bank_key: two addresses with equal keys need the same bank select.      *)
BankKey(a) ==
    IF Core = "pic18"
    THEN <<a \div BankBytes, WindowLo <= a /\ a <= WindowHi>>
    ELSE <<IF BanksFrom(a) = {} THEN Len(Banks) + 1 ELSE Min(BanksFrom(a)), FALSE>>

(* The last byte of the BSR bank an address is in.                         *)
BankTop(a) == (a \div BankBytes) * BankBytes + BankBytes - 1

(* The first GPR byte at or above a.                                       *)
NextGpr(a) ==
    IF BanksFrom(a) = {} THEN Larger(a, NoRoom) ELSE StartIn(Min(BanksFrom(a)), a)

(* Seeded fault: the region's end is taken for the bank's end.             *)
RoutineBaseInRegion(b, ws) ==
    IF BanksFrom(b) = {} THEN Larger(b, NoRoom)
    ELSE LET top == Banks[Min(BanksFrom(b))].hi
         IN  IF FrameEnd(b, ws) - 1 <= top THEN b ELSE NextGpr(top + 1)

(* routine_base: a runtime routine's frame stays inside one bank, moving   *)
(* wholesale to the next one when it would straddle.  A PIC18 bank is the  *)
(* BSR bank capped at the region's end, not the region.                    *)
RoutineBase(b, ws) ==
    IF BanksFrom(b) = {} THEN Larger(b, NoRoom)
    ELSE LET regionEnd == Banks[Min(BanksFrom(b))].hi
             top       == IF Core = "pic18" THEN BankTop(b) ELSE regionEnd
         IN  IF FrameEnd(b, ws) - 1 <= Smaller(top, regionEnd)
             THEN b
             ELSE NextGpr(top + 1)
=============================================================================
