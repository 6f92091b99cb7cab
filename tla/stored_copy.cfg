\* A main-context dispatch of an interrupt copy.
SPECIFICATION Spec
CONSTANTS
    Programs <- ProgramPolled
    AllFields = AllFields
    NoFn = NoFn
INVARIANT OneActivation
CHECK_DEADLOCK FALSE
