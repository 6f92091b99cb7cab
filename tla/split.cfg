\* Two handlers, shared helpers and callbacks.
SPECIFICATION CompileSpec
CONSTANTS
    Programs <- Family
    AllFields = AllFields
    NoFn = NoFn
INVARIANTS TypeOK OneActivation Apart NeverTraps
PROPERTY SplitTerminates
CHECK_DEADLOCK FALSE
