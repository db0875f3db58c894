SPECIFICATION Spec
CONSTANTS
    a = a
    u = u
    Keys = {a, u}
    Bundles <- MCBundles
    Slices <- MCSlices
    K8sApis = {"works", "absent", "silent"}
    BaseTick = 1
    ProbeTimeout = 2
    Second = 2
    MaxInterval = 2
    MaxThreshold = 2
    MaxSlow = 1
    MaxGap = 6
INVARIANTS
    TypeOK
    GapBounded
PROPERTIES
    VerdictFollowsBackend
CHECK_DEADLOCK FALSE
