------------------------- MODULE MCPic18Interrupts -------------------------
(***************************************************************************)
(* A small program for Pic18Interrupts: two places in the main program,    *)
(* enough to tell where it was interrupted, and one behind each vector.    *)
(***************************************************************************)
EXTENDS Pic18Interrupts

SmallCode == [main |-> {0, 2}, low |-> {26}, high |-> {10}]
AnyEnable == SUBSET {"INT0", "TMR0"}
=============================================================================
