\* Every compilation ends, with a layout or a refusal.
SPECIFICATION CompileSpec
CONSTANTS
    Banks <- Banks18
    Core = "pic18"
    WindowLo = 0
    WindowHi = 3
    BankBytes = 10
    Programs <- ProgramsEnding
    StackDepth = 4
    LowSaveBytes = 3
    IsrSaveBytes = 2
PROPERTY AllocTerminates
CHECK_DEADLOCK FALSE
