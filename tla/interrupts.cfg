\* Nesting, latches and the stack view of the simulated PIC18.
SPECIFICATION Spec
CONSTANTS
    Code <- SmallCode
    Timers = {"TMR0"}
    Enables <- AnyEnable
    StackLevels = 2
    StaleBound = 1
INVARIANTS TypeOK MaskedWhileRunning StkptrExact Timer0Kept
PROPERTIES NestsProperly HighServed LowServed
CHECK_DEADLOCK FALSE
