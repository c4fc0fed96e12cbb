--------------------------- MODULE BlockGeometry ---------------------------
(***************************************************************************)
(* How NOVA divides a device into per-CPU regions (balloc.c, nova.h): the  *)
(* blocks that hold checksums and parities and the blocks a free list may  *)
(* hand out.                                                               *)
(*                                                                         *)
(* A geometry s is a record [num_blocks, cpus].  A device is a whole       *)
(* number of blocks, so that initsize = num_blocks * BlockSize.            *)
(***************************************************************************)
EXTENDS Integers

CONSTANTS
    head_reserved_blocks,  \* HEAD_RESERVED_BLOCKS, 64
    tail_reserved_blocks,  \* TAIL_RESERVED_BLOCKS, 2
    BlockSize,             \* bytes of a block, 4096
    StripesPerBlock,       \* BlockSize / NOVA_STRIPE_SIZE, 8
    NOVA_DATA_CSUM_LEN     \* bytes of a stripe's checksum, 4

ASSUME GeometryConstants ==
    /\ head_reserved_blocks \in Nat /\ tail_reserved_blocks \in Nat
    /\ BlockSize \in Nat \ {0}
    /\ StripesPerBlock \in Nat \ {0}
    /\ NOVA_DATA_CSUM_LEN \in Nat \ {0}

-----------------------------------------------------------------------------
CeilDiv(a, b) == a \div b + (IF a % b = 0 THEN 0 ELSE 1)

per_list_blocks(s) == s.num_blocks \div s.cpus

data_csum_blocks(s) == (s.num_blocks * StripesPerBlock * NOVA_DATA_CSUM_LEN) \div BlockSize

parity_blocks(s) == CeilDiv(s.num_blocks, StripesPerBlock + 1)

\* The blocks of list i before checksums and parities are set aside.
FirstBlock(s, i) == per_list_blocks(s) * i + (IF i = 0 THEN head_reserved_blocks ELSE 0)
LastBlock(s, i) ==
    per_list_blocks(s) * i + per_list_blocks(s) - 1
      - (IF i = s.cpus - 1 THEN tail_reserved_blocks ELSE 0)

num_csum_blocks(s) == CeilDiv(data_csum_blocks(s), s.cpus)
num_parity_blocks(s) == CeilDiv(parity_blocks(s), s.cpus)

\* Checksums at both ends of the region.
block_end(s, i) == LastBlock(s, i) - num_csum_blocks(s)

\* Fault: the parity blocks are not taken out of the allocatable range.
block_start_no_parity(s, i) == FirstBlock(s, i) + num_csum_blocks(s)

\* Checksums, then parities, then the blocks to allocate.
block_start(s, i) == FirstBlock(s, i) + num_csum_blocks(s) + num_parity_blocks(s)

nova_init_free_list(s, i) ==
    [block_start          |-> block_start(s, i),
     block_end            |-> block_end(s, i),
     csum_start           |-> FirstBlock(s, i),
     replica_csum_start   |-> LastBlock(s, i) + 1 - num_csum_blocks(s),
     num_csum_blocks      |-> num_csum_blocks(s),
     parity_start         |-> FirstBlock(s, i) + num_csum_blocks(s),
     replica_parity_start |-> block_end(s, i) + 1 - num_parity_blocks(s),
     num_parity_blocks    |-> num_parity_blocks(s)]
=============================================================================
