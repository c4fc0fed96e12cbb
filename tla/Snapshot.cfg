SPECIFICATION Spec
CONSTANTS
    Threads = {1, 2}
    Files = {1, 2, 3, 4}
    CPUs = {c1}
    EntriesPerPage = 2
    MaxVersions = 4
    MaxEpoch = 3
    MaxWentBack = 1
CONSTRAINTS
    Defined
    Epochs
    FewOrCrowd
INVARIANTS
    SnapshotIntact
    Accounted
    CleanerStops
CHECK_DEADLOCK FALSE
