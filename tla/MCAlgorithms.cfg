SPECIFICATION AlgorithmsSpec
CONSTANTS
    Bits = 7
    MaxAttempt = 10
    Second = 4
    CheckKeys = {k1, k2}
    CheckIntervals <- MCIntervals
    CheckProbes = {"tcp", "icmp"}
    MaxChecks = 3
INVARIANTS
    BackoffIsCappedDoubling
    TargetsAreFastestFirst
CHECK_DEADLOCK FALSE
