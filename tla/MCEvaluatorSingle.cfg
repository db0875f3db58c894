SPECIFICATION Spec
CONSTANTS
    k1 = k1
    k2 = k2
    a1 = a1
    a2 = a2
    bad = bad
    q0 = q0
    q1 = q1
    q2 = q2
    Keys = {k1, k2}
    Queries = {q0, q1, q2}
    Worlds <- SingleWorlds
    NoRecord = NoRecord
    Absent = Absent
    Unparseable = {bad}
    DampWindow = 1
    DampChangeThreshold = 1
    UnfreezeQuietPeriod = 2
INVARIANTS
    DeadNeverServed
CHECK_DEADLOCK FALSE
