SPECIFICATION Spec
CONSTANTS
    FetchMode = TRUE
    Raws <- AllRaws
    None = None
    Partial = Partial
    Retries = 1
    MaxWrites = 0
    MaxCrashes = 2
INVARIANTS
    TypeOK
PROPERTIES
    ImplementsLastGood
    LagNeedsFailure
    OutageSurvived
CHECK_DEADLOCK FALSE
