\* Priority interrupts and the access window on a two-region PIC18.
SPECIFICATION Spec
CONSTANTS
    Banks <- Banks18
    Core = "pic18"
    WindowLo = 0
    WindowHi = 3
    BankBytes = 10
    Programs <- Programs18
    StackDepth = 8
    LowSaveBytes = 3
    IsrSaveBytes = 2
INVARIANTS TypeOK FrameSafety SaveSafety GlobalsSafe RoutineInOneBank
CHECK_DEADLOCK FALSE
