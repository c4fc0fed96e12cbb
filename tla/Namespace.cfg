CONSTANTS
    NInodes = 4
    Names = {a, b}
    NOVA_LINK_MAX = 4
    MaxOps = 4
    MaxEpoch = 1
    MaxCrashes = 1
    a = a
    b = b
SYMMETRY NameSymmetry
SPECIFICATION Spec
CONSTRAINT Handled
INVARIANTS
    AtomicUnlessInplace
    RebuildShowsMemory
    LinksCountNames
    ParentNamed
    ReaddirShowsTree
CHECK_DEADLOCK FALSE
