SPECIFICATION Spec
CONSTANTS
    Keys = {k1}
    Thresholds = {0, 2, 3}
    MaxResults = 5
INVARIANTS
    TypeOK
    HealthMatchesHistory
    CountersAreTrailingRuns
PROPERTIES
    ImplementsLocalHealth
CHECK_DEADLOCK FALSE
