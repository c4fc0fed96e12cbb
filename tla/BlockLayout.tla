---------------------------- MODULE BlockLayout ----------------------------
(***************************************************************************)
(* Formatting a device: nova_init checks its size, nova_init_blockmap lays *)
(* out one free list per CPU, and nova_get_data_csum_addr and              *)
(* nova_get_parity_addr later find a block's checksums and parity in that  *)
(* layout.  The module ranges over devices and numbers of CPUs.            *)
(***************************************************************************)
EXTENDS BlockGeometry

CONSTANTS
    Sizes,       \* device sizes, in blocks
    MaxCpus,     \* sbi->cpus <= MAX_CPUS
    ULONG        \* 2^w for the width w of an unsigned long

\* 4096 bytes hold the 4-byte checksums of 8 stripes each of 128 blocks.
ASSUME CsumsFillBlock == BlockSize % (StripesPerBlock * NOVA_DATA_CSUM_LEN) = 0

ASSUME LayoutConstants == Sizes \subseteq Nat /\ MaxCpus \in Nat /\ ULONG \in Nat \ {0}

VARIABLES
    pc,          \* "format", "lists" in the loop over the lists, "mounted", "failed"
    sbi,         \* the geometry of the device
    i,           \* the list nova_init_blockmap lays out next
    free_lists   \* what nova_init_free_list has computed
vars == <<pc, sbi, i, free_lists>>

Lists == 0..(sbi.cpus - 1)

\* kcalloc: an array of zeroed lists.
Zeroed ==
    [block_start |-> 0, block_end |-> 0, csum_start |-> 0, replica_csum_start |-> 0,
     num_csum_blocks |-> 0, parity_start |-> 0, replica_parity_start |-> 0,
     num_parity_blocks |-> 0, num_free_blocks |-> 0]

Init ==
    /\ pc = "format"
    /\ sbi \in [num_blocks : Sizes, cpus : 1..MaxCpus]
    /\ i = 0
    /\ free_lists = [c \in Lists |-> Zeroed]

\* The block for the root directory is the +1.
nova_check_size(num_blocks) == num_blocks >= head_reserved_blocks + tail_reserved_blocks + 1

nova_init ==
    /\ pc = "format"
    /\ pc' = IF nova_check_size(sbi.num_blocks) THEN "lists" ELSE "failed"
    /\ UNCHANGED <<sbi, i, free_lists>>

\* One iteration of the loop; the counter of free blocks is unsigned.
nova_init_blockmap ==
    /\ pc = "lists"
    /\ LET l == nova_init_free_list(sbi, i)
           n == (l.block_end - l.block_start + 1) % ULONG
       IN  free_lists' = [free_lists EXCEPT ![i] =
             [f \in DOMAIN Zeroed |-> IF f = "num_free_blocks" THEN n ELSE l[f]]]
    /\ i' = i + 1
    /\ pc' = IF i + 1 = sbi.cpus THEN "mounted" ELSE "lists"
    /\ UNCHANGED sbi

Next == nova_init \/ nova_init_blockmap

Spec == Init /\ [][Next]_vars

-----------------------------------------------------------------------------
(* Where a block's checksums and parity are.                                *)

NULL == -1

\* The byte at which the checksum of a stripe is stored.
nova_get_data_csum_addr(strp_nr, replica) ==
    LET index == (strp_nr \div StripesPerBlock) \div per_list_blocks(sbi)
        strp  == strp_nr - index * per_list_blocks(sbi) * StripesPerBlock
        l     == free_lists[index]
        start == IF replica THEN l.replica_csum_start ELSE l.csum_start
    IN  IF \/ index >= sbi.cpus
           \/ (NOVA_DATA_CSUM_LEN * strp) \div BlockSize >= l.num_csum_blocks
        THEN NULL
        ELSE start * BlockSize + NOVA_DATA_CSUM_LEN * strp

\* Fault: the parity stripes are counted from the start of the region.
nova_get_parity_addr_region(blocknr) ==
    LET index == blocknr \div per_list_blocks(sbi)
        l     == free_lists[index]
        n     == blocknr - index * per_list_blocks(sbi)
    IN  IF index >= sbi.cpus \/ n \div StripesPerBlock >= l.num_parity_blocks
        THEN NULL
        ELSE l.parity_start * BlockSize + n * (BlockSize \div StripesPerBlock)

\* The byte at which the parity stripe of a block is stored.
nova_get_parity_addr(blocknr) ==
    LET index == blocknr \div per_list_blocks(sbi)
        l     == free_lists[index]
        n     == blocknr - l.block_start
    IN  IF index >= sbi.cpus \/ n \div StripesPerBlock >= l.num_parity_blocks
        THEN NULL
        ELSE l.parity_start * BlockSize + n * (BlockSize \div StripesPerBlock)

-----------------------------------------------------------------------------
(* Properties.                                                              *)

\* The device is large enough for its lists.
Usable == pc = "mounted" /\ \A c \in Lists : free_lists[c].block_start <= free_lists[c].block_end

\* Types: a list has all its fields, and its count of free blocks is an unsigned long.
TypeOK ==
    /\ pc \in {"format", "lists", "mounted", "failed"}
    /\ sbi \in [num_blocks : Sizes, cpus : 1..MaxCpus]
    /\ i \in 0..sbi.cpus
    /\ \A c \in Lists : /\ DOMAIN free_lists[c] = DOMAIN Zeroed
                        /\ free_lists[c].num_free_blocks \in 0..(ULONG - 1)

\* The n blocks from start on.
Blocks(start, n) == start..(start + n - 1)

\* What list c keeps, and the blocks it hands out.
Regions(c) ==
    LET l == free_lists[c]
    IN  <<Blocks(l.csum_start, l.num_csum_blocks), Blocks(l.parity_start, l.num_parity_blocks),
          l.block_start..l.block_end, Blocks(l.replica_csum_start, l.num_csum_blocks)>>

\* No two of the regions that nova_init_free_list carves out share a block, and
\* none reaches into the reserved blocks at the two ends of the device; the
\* fields keep their types.
RegionsApart ==
    /\ TypeOK
    /\ Usable =>
      \A b, c \in Lists : \A p, q \in 1..4 :
        /\ <<b, p>> # <<c, q>> => Regions(b)[p] \cap Regions(c)[q] = {}
        /\ Regions(b)[p] \subseteq head_reserved_blocks..(sbi.num_blocks - tail_reserved_blocks - 1)

\* Every block that can be allocated has a place for its parity, inside the
\* parity blocks of its list and apart from every other block's.
ParityStored ==
    Usable =>
      \A c \in Lists :
        LET l    == free_lists[c]
            Addr == [b \in l.block_start..l.block_end |-> nova_get_parity_addr(b)]
        IN  /\ \A b \in DOMAIN Addr : Addr[b] \div BlockSize
                                        \in Blocks(l.parity_start, l.num_parity_blocks)
            /\ \A b \in DOMAIN Addr : b + 1 \in DOMAIN Addr =>
                 Addr[b] + BlockSize \div StripesPerBlock <= Addr[b + 1]

\* The blocks whose checksums fill one block.
BlocksPerCsumBlock == BlockSize \div (StripesPerBlock * NOVA_DATA_CSUM_LEN)

\* "We store one checksum for each stripe for each page" (balloc.c:68), and
\* a replica of it.
CsumStored ==
    Usable =>
      \A c \in Lists : \A b \in free_lists[c].block_start..free_lists[c].block_end :
        \A k \in 0..(StripesPerBlock - 1) : \A replica \in BOOLEAN :
          nova_get_data_csum_addr(b * StripesPerBlock + k, replica) # NULL

\* Every block that can be allocated has a place for its parity and, on a device
\* large enough for its checksum blocks to outnumber the blocks that
\* data_csum_blocks rounds away, for its checksums.
ProtectionStored ==
    /\ ParityStored
    /\ sbi.num_blocks >= BlocksPerCsumBlock * (BlocksPerCsumBlock - 1) => CsumStored
=============================================================================
