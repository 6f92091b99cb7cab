\* The selector's recipes and runtime routines against what the IR says.
SPECIFICATION Spec
CONSTANTS Programs <- Family
          Routines <- MCRoutines
          Cells <- MCCells
          Junk <- MCJunk
          MaxInterrupts = 1
          MaxTurn = 20
INVARIANTS TypeOK BeliefHolds ValuesHold ExitRight
PROPERTY Ends
