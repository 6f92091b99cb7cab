\* Bank beliefs and narrowed context saves on the PIC18.
SPECIFICATION Spec
CONSTANT Programs <- Family
INVARIANTS OperandInItsBank ContextKept
