SPECIFICATION FairSpec
CONSTANTS
    head_reserved_blocks = 2
    tail_reserved_blocks = 4
    BlockSize = 56
    StripesPerBlock = 7
    NOVA_DATA_CSUM_LEN = 1
    num_blocks = 16
    cpus = 2
    PAGES_PER_2MB = 1
    DEAD_ZONE_BLOCKS = 1
    Requests <- LogAndData
    MaxFailures = 1
    NULL = NULL
    Nodes = {n1, n2, n3}
    t1 = t1
    t2 = t2
    Threads = {t1, t2}
INVARIANTS Partition ListsSound FreeSucceeds
PROPERTIES BehavesAsPool NoSpaceMeansFull AllocationReturns
