SPECIFICATION Spec
CONSTANTS
    MaxVersion = 3
    Rejected = {2}
    BackoffBase = 1
    BackoffMax = 3
    PollInterval = 2
    IdleTimeout = 2
    FetchTimeout = 1
    MaxLines = 5
    FetchReliable = FALSE
    Bits = 8
INVARIANTS
    TypeOK
    StaleExplained
PROPERTIES
    NeverWedged
    DownStaysFresh
CHECK_DEADLOCK FALSE
