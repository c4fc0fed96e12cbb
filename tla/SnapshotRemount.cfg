SPECIFICATION Spec
CONSTANTS
    Threads = {t1}
    Files = {f1, f2}
    CPUs = {c1}
    EntriesPerPage = 1
    MaxVersions = 2
    MaxEpoch = 3
    MaxWentBack = 1
SYMMETRY FileSymmetry
INVARIANT OnlyDeleteableFreed
CHECK_DEADLOCK FALSE
