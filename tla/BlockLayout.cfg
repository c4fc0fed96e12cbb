\* Every device of up to 160 small blocks: a checksum block covers 8 blocks,
\* a parity block 2.
SPECIFICATION Spec
CONSTANTS
    head_reserved_blocks = 3
    tail_reserved_blocks = 2
    BlockSize = 16
    StripesPerBlock = 2
    NOVA_DATA_CSUM_LEN = 1
    Sizes <- MCSizes
    MaxCpus = 4
    ULONG = 65536
CHECK_DEADLOCK FALSE
INVARIANTS RegionsApart ProtectionStored
