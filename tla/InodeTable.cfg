\* Two CPUs with three numbers each behind the reserved ones; the second
\* superpage of each begins in the middle of them.
CONSTANTS
    Threads = {t1, t2}
    t1 = t1
    t2 = t2
    cpus = 2
    NOVA_NORMAL_INODE_START = 2
    MAX_INODE = 6
    InodesPerPage = 3
    MaxCreates = 4
    MaxMounts = 2
SPECIFICATION Spec
SYMMETRY ThreadSymmetry
CONSTRAINT NotMisled
INVARIANTS
    NumbersExact
    NumbersUnique
    NoSpaceMeansFull
CHECK_DEADLOCK FALSE
