SPECIFICATION Spec
CONSTANTS
    MaxVersion = 1
    Rejected = {}
    BackoffBase = 1
    BackoffMax = 3
    PollInterval = 2
    IdleTimeout = 2
    FetchTimeout = 1
    MaxLines = 3
    FetchReliable = TRUE
    Bits = 8
PROPERTIES
    EventuallyFresh
CHECK_DEADLOCK FALSE
