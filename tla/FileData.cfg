SPECIFICATION Spec
CONSTANTS
    FilePages = 2
    NBlocks = 4
    MAX_PGOFF = 1
    Ranges <- MCRanges
    Sizes = {1, 2}
    MaxOps = 3
    MaxSnapshots = 1
    MaxCrashes = 1
CONSTRAINT Handled
INVARIANTS
    ReadsBack
    CrashKeeps
    RecoveryExact
    SnapshotStays
    BlocksOwned
CHECK_DEADLOCK FALSE
