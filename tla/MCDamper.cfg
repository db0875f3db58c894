SPECIFICATION Spec
CONSTANTS
    DampWindow = 2
    DampChangeThreshold = 3
    UnfreezeQuietPeriod = 3
    Fqdns = {f1}
    AnswerSets = {a, b}
    NoRecord = NoRecord
    MaxTime = 10
INVARIANTS
    TypeOK
    BoundedChurn
    FreezeJustified
    LogTracksChurn
CHECK_DEADLOCK FALSE
