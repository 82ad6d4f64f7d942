SPECIFICATION Spec
CONSTANTS
    Jobs = {j1, j2}
    Workers = {w1, w2}
    Keys = {}
    NoJob = NoJob
    NoKey = NoKey
    HardTimeout = 2
    JobDeadline = 3
    Cooldown = 4
    TmpRetention = 3
    Retention = 5
    MaxRuns = 2
    MaxAdmit = 4
    MaxClock = 5
SYMMETRY MCSymmetry
CHECK_DEADLOCK FALSE
INVARIANTS
    LiveIsActive
    OneWorkerPerExport
    ReadyHasArchive
    EligibilityAgrees
    TmpOutlivesCopy
    ListsNewest
PROPERTIES
    ImplementsSlot
