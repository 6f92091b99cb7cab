\* Selection, bank selects and the PCLATH peephole, then the machine.
SPECIFICATION Spec
CONSTANT Programs <- Family
INVARIANTS OperandInItsBank BeliefHolds TransfersLand
PROPERTY ContextKept
CHECK_DEADLOCK FALSE
