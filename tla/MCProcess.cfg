SPECIFICATION Spec
CONSTANTS
    MaxQueries = 2
INVARIANTS
    TypeOK
    ExitZeroIffTold
    DrainedBeforeExit
PROPERTIES
    StopsWhenTold
    OneListenerIsNotEnough
CHECK_DEADLOCK FALSE
