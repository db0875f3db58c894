SPECIFICATION Spec
CONSTANTS
    Keys = {k1}
    MaxHealthReportRetries = 1
    MaxPending = 2
    MaxLate = 1
INVARIANTS
    TypeOK
    NoLostWakeup
    SnapshotCovers
    QuiescentAgreement
PROPERTIES
    PictureConverges
CHECK_DEADLOCK FALSE
