\* A banked mid-range device: no window, no save areas, globals first.
SPECIFICATION Spec
CONSTANTS
    Banks <- Banks14
    Core = "pic14"
    WindowLo = 1
    WindowHi = 0
    BankBytes = 8
    Programs <- Programs14
    StackDepth = 8
    LowSaveBytes = 3
    IsrSaveBytes = 2
INVARIANTS FrameInv FramesMapped
CHECK_DEADLOCK FALSE
