SPECIFICATION Spec
CONSTANTS
    FetchMode = FALSE
    Raws <- SmallRaws
    None = None
    Partial = Partial
    Retries = 1
    MaxWrites = 2
    MaxCrashes = 2
INVARIANTS
    PersistsServed
PROPERTIES
    ReloadConverges
CHECK_DEADLOCK FALSE
