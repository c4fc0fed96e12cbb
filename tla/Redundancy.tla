----------------------------- MODULE Redundancy -----------------------------
(***************************************************************************)
(* What NOVA keeps twice, and how it repairs one copy from the rest: the   *)
(* two checksums of every stripe of a data block and the parity of the     *)
(* block (checksum.c, parity.c, dax.c), the replicas of a log entry and of *)
(* an inode (checksum.c, inode.h, log.c) and the two super blocks          *)
(* (super.c), with the mark "updating" that tells the rebuild of the file  *)
(* (rebuild.c) that data, checksums and parity may disagree after a crash. *)
(*                                                                         *)
(* The file has one block of NStripes stripes of StripeSize bytes each; a  *)
(* second block takes the copy-on-write writes.  A byte is a bit.  The     *)
(* memory is a function of cells: a byte, a checksum, a byte of parity or  *)
(* a copy of a record.  Stores are seen at once and are durable after the  *)
(* next fence; a crash keeps any of those that are not.                    *)
(*                                                                         *)
(* A checksum is the contents it was computed of: CRC32C is taken to tell  *)
(* any two stripes apart.  A copy of a record is the value it holds, or    *)
(* Bad when its checksum does not match, as after a torn store.  data_csum *)
(* and data_parity are on; metadata_csum is on or off.                     *)
(***************************************************************************)
EXTENDS Integers, Sequences, FiniteSets, SequencesExt, FiniteSetsExt, TLC

CONSTANTS
    NStripes,    \* stripes of a block (8 in the code)
    StripeSize,  \* bytes of a stripe: NOVA_STRIPE_SIZE
    Ranges,      \* what is written: pairs of the first byte and the one after the last
    MaxFaults,   \* bound on the faults of the memory
    MaxEvents    \* bound on the operations, faults of the memory and crashes together

ASSUME RedundancyConstants ==
    /\ NStripes \in Nat \ {0} /\ StripeSize \in Nat \ {0}
    /\ \A r \in Ranges : r[1] \in Nat /\ r[2] \in (r[1] + 1)..(NStripes * StripeSize)
    /\ MaxFaults \in Nat /\ MaxEvents \in Nat

VARIABLES
    metadata_csum,  \* the module parameter: log entries and inodes have replicas
    mem, dur,       \* the cells: as seen, and as is durable
    cur,            \* the block of the file, as the tree in DRAM has it
    epoch,          \* sbi->nova_sb in DRAM: the value the super blocks hold
    pc, op,         \* where the current operation is, and the bytes it writes
    file, want,     \* history: the file before the operation and after it
    bare,           \* history: data was changed without the mark and not fenced since
    ops, faults, crashes,
    lost            \* history: what went wrong in a way the code does not handle

history == <<file, want, bare>>
vars == <<metadata_csum, mem, dur, cur, epoch, pc, op, history, ops, faults, crashes, lost>>

Blocks == {1, 2}
Stripes == 0..(NStripes - 1)
Offsets == 0..(StripeSize - 1)
Bytes == 0..(NStripes * StripeSize - 1)
Copies == {0, 1}

Data(b, i) == <<"data", b, i>>
Csum(b, s, k) == <<"csum", b, s, k>>
Parity(b, j) == <<"parity", b, j>>
Entry(b, k) == <<"entry", b, k>>      \* the write entry of block b: its mark "updating"
Inode(k) == <<"inode", k>>            \* the inode: the block that its log ends with
Super(k) == <<"super", k>>            \* the super block: its epoch id

DataCells(b) == {Data(b, i) : i \in Bytes}
CsumCells(b) == {Csum(b, s, k) : s \in Stripes, k \in Copies}
ParityCells(b) == {Parity(b, j) : j \in Offsets}
BlockCells(b) == DataCells(b) \cup CsumCells(b) \cup ParityCells(b)
EntryCells(b) == {Entry(b, k) : k \in Copies}
RecordCells ==
    (UNION {EntryCells(b) : b \in Blocks}) \cup {Inode(k) : k \in Copies} \cup {Super(k) : k \in Copies}
Cells == (UNION {BlockCells(b) : b \in Blocks}) \cup RecordCells

Poison == -1                          \* reading the cell is a media error
Bad == -2                             \* the checksum of the copy does not match
NoCsum == [j \in Offsets |-> Bad]     \* a damaged checksum: that of no stripe
Usable(v) == v \notin {Poison, Bad}

Block(m, b) == [i \in Bytes |-> m[Data(b, i)]]
Strip(blk, s) == [j \in Offsets |-> blk[s * StripeSize + j]]
Touched(lo, hi) == (lo \div StripeSize)..((hi - 1) \div StripeSize)
Overwrite(blk, lo, hi, v) == [i \in Bytes |-> IF i \in lo..(hi - 1) THEN v ELSE blk[i]]

\* The memory m after the cells of f have been stored.
Store(m, f) == f @@ m

Zeros == [i \in Bytes |-> 0]

Init ==
    /\ metadata_csum \in BOOLEAN
    /\ mem = [c \in Cells |-> CASE c[1] = "csum" -> Strip(Zeros, 0)
                                [] c[1] = "inode" -> 1
                                [] OTHER -> 0]
    /\ dur = mem
    /\ cur = 1 /\ epoch = 0
    /\ pc = "idle" /\ op = <<0, 0>>
    /\ file = Zeros /\ want = Zeros /\ bare = FALSE
    /\ ops = 0 /\ faults = 0 /\ crashes = 0 /\ lost = {}

-----------------------------------------------------------------------------
(* Checksums and parity of a block.                                         *)

\* nova_calculate_block_parity: byte by byte, the exclusive or of the stripes.
nova_calculate_block_parity(blk) ==
    [j \in Offsets |-> Cardinality({s \in Stripes : blk[s * StripeSize + j] = 1}) % 2]

\* nova_update_stripe_csum: both copies of the checksum of the stripes ss of
\* the buffer blk.
nova_update_stripe_csum(b, blk, ss) ==
    [c \in {Csum(b, s, k) : s \in ss, k \in Copies} |-> Strip(blk, c[3])]

nova_update_block_parity(b, blk) ==
    LET parity == nova_calculate_block_parity(blk)
    IN  [c \in ParityCells(b) |-> parity[c[3]]]

\* nova_update_block_csum_parity: the checksums of the stripes of lo..(hi - 1),
\* the parity of the whole block.
nova_update_block_csum_parity(b, blk, lo, hi) ==
    nova_update_stripe_csum(b, blk, Touched(lo, hi)) @@ nova_update_block_parity(b, blk)

\* Mutant of nova_reset_csum_parity_page: the parity is left as it is.
ResetCsumOnly(m, b) == nova_update_stripe_csum(b, Block(m, b), Stripes)

\* nova_reset_csum_parity_page: both from what the block holds now.
nova_reset_csum_parity_page(m, b) ==
    nova_update_stripe_csum(b, Block(m, b), Stripes) @@ nova_update_block_parity(b, Block(m, b))

\* What stripe s has to be for the parity m has of the block to be right.
Xor(m, b, s) ==
    [j \in Offsets |-> (Cardinality({o \in Stripes \ {s} : m[Data(b, o * StripeSize + j)] = 1})
                        + m[Parity(b, j)]) % 2]

\* A media error in another stripe, or in the parity.
Unreadable(m, b, s) ==
    \E c \in {Data(b, i) : i \in {i \in Bytes : i \div StripeSize # s}} \cup ParityCells(b) : m[c] = Poison

\* Mutant of nova_restore_data: the damage is taken to be within one stripe.
RestoreFirstPass(m, b, s, strip, nvmmerr, csums) ==
    IF Unreadable(m, b, s) \/ Xor(m, b, s) \notin csums THEN {} ELSE {Xor(m, b, s)}

\* Mutant of nova_restore_data: what the parity gives is not checked.
RestoreUnchecked(m, b, s, strip, nvmmerr, csums) ==
    IF Unreadable(m, b, s) THEN {} ELSE {Xor(m, b, s)}

\* nova_restore_data: the stripes that may be put in place of stripe s, which
\* is read as strip: at most one, none when the recovery fails.  Pass i takes
\* the first i bytes to be good: a scribble may have run on into the next
\* stripe, and there spoils the parity of the first bytes.
nova_restore_data(m, b, s, strip, nvmmerr, csums) ==
    LET Pass(i) == [j \in Offsets |-> IF j < i THEN strip[j] ELSE Xor(m, b, s)[j]]
        passes == IF nvmmerr \/ s = NStripes - 1 THEN {0} ELSE Offsets
        good == {i \in passes : Pass(i) \in csums}
    IN  IF Unreadable(m, b, s) \/ good = {} THEN {} ELSE {Pass(Min(good))}

\* One stripe of nova_verify_data_csum: the memory after it, with the stripe
\* restored and both checksums set where they differed; {} when it fails.
VerifyStripe(m, b, s) ==
    LET strip == Strip(Block(m, b), s)
        error == \E j \in Offsets : strip[j] = Poison
        csums == {m[Csum(b, s, k)] : k \in Copies}
        good == IF ~error /\ strip \in csums THEN {strip}
                ELSE nova_restore_data(m, b, s, strip, error, csums)
    IN  IF good = {strip} /\ Cardinality(csums) = 1 THEN {m}
        ELSE {Store(m, [c \in {Data(b, s * StripeSize + j) : j \in Offsets} |-> r[c[3] % StripeSize]]
                       @@ [c \in {Csum(b, s, k) : k \in Copies} |->
                              IF Cardinality(csums) = 2 THEN r ELSE m[c]]) : r \in good}

\* nova_verify_data_csum: the stripes of lo..(hi - 1) in their order, up to the
\* first that cannot be repaired.
nova_verify_data_csum(m, b, lo, hi) ==
    LET first == lo \div StripeSize
        Step(r, s) == LET after == VerifyStripe(r.m, b, s)
                      IN  IF ~r.ok \/ after = {} THEN [m |-> r.m, ok |-> FALSE]
                          ELSE [m |-> CHOOSE x \in after : TRUE, ok |-> TRUE]
    IN  IF lo = hi THEN [m |-> m, ok |-> TRUE]
        ELSE FoldLeft(Step, [m |-> m, ok |-> TRUE],
                      [i \in 1..Cardinality(Touched(lo, hi)) |-> first + i - 1])

-----------------------------------------------------------------------------
(* Records with a replica: the copies p and a of the cells c0 and c1 as they *)
(* are read, and what is stored when one of them has to be repaired.        *)

Both(c0, c1, v) == [c \in {c0, c1} |-> v]

\* nova_verify_entry_csum: first the media errors (nova_repair_entry_pr), then
\* the checksums; the primary is trusted when both are good.
nova_verify_entry_csum(m, b) ==
    LET p == m[Entry(b, 0)]
        a == m[Entry(b, 1)]
        p1 == IF p = Poison THEN a ELSE p
        a1 == IF a = Poison THEN p1 ELSE a
        v == IF p1 # Bad THEN p1 ELSE a1
    IN  IF ~metadata_csum THEN [ok |-> TRUE, value |-> p, m |-> m]
        ELSE [ok |-> Usable(v), value |-> v, m |-> IF Usable(v) THEN Store(m, Both(Entry(b, 0), Entry(b, 1), v)) ELSE m]

\* nova_check_inode_integrity: the replica is looked at when the primary is
\* bad or when the caller asks for it.
nova_check_inode_integrity(m, check_replica) ==
    LET p == m[Inode(0)]
        a == m[Inode(1)]
        p1 == IF p = Poison THEN a ELSE p
        v == IF p1 # Bad THEN p1 ELSE a
    IN  IF ~metadata_csum \/ (Usable(p) /\ ~check_replica) THEN [ok |-> TRUE, value |-> p, m |-> m]
        ELSE IF ~Usable(v) THEN [ok |-> FALSE, value |-> v, m |-> m]
        ELSE [ok |-> TRUE, value |-> v,
              m |-> Store(m, IF Usable(p1) /\ ~check_replica THEN [c \in {Inode(0)} |-> v]
                             ELSE Both(Inode(0), Inode(1), v))]

\* nova_check_integrity: the redundant super block when the first is damaged;
\* then nova_sync_super writes both.
nova_check_integrity(m) ==
    LET v == IF Usable(m[Super(0)]) THEN m[Super(0)] ELSE m[Super(1)]
    IN  [ok |-> Usable(v), value |-> v, m |-> IF Usable(v) THEN Store(m, Both(Super(0), Super(1), v)) ELSE m]

-----------------------------------------------------------------------------
(* Fences and stores.  f is what is stored; nothing is fenced by Stores,    *)
(* and all that was stored before f is by FenceStores.                      *)

Stores(f) == mem' = Store(mem, f) /\ dur' = dur /\ bare' = bare
FenceStores(f) == mem' = Store(mem, f) /\ dur' = mem /\ bare' = FALSE
None == [c \in {} |-> 0]

\* A copy of a record that exists only with metadata_csum.
Replica(c, v) == IF metadata_csum THEN [x \in {c} |-> v] ELSE None

\* Something more may happen.
Eventful == ops + faults + crashes < MaxEvents

Begin(r, contents) ==
    /\ pc = "idle" /\ Eventful
    /\ ops' = ops + 1 /\ op' = r /\ want' = contents
    /\ UNCHANGED <<metadata_csum, cur, epoch, file, faults, crashes>>

Continue(next) ==
    /\ pc' = next
    /\ UNCHANGED <<metadata_csum, cur, epoch, op, file, want, ops, faults, crashes, lost>>

\* The operation is over: what it wanted is the file.
Finish ==
    /\ pc' = "idle" /\ file' = want /\ op' = <<0, 0>>
    /\ UNCHANGED <<metadata_csum, epoch, want, ops, faults, crashes>>

\* The byte that the next operation writes: it changes from one to the next.
NextByte == (ops + 1) % 2

\* The rest of the block, which the checksums and the parity are computed of
\* without a look at the old checksums, is damaged.
RestDamaged(lo, hi) == \E i \in Bytes \ (lo..(hi - 1)) : mem[Data(cur, i)] # file[i]
Unverified(lo, hi) == IF RestDamaged(lo, hi) THEN {"unverified"} ELSE {}

-----------------------------------------------------------------------------
(* A write in place (do_nova_inplace_file_write): the mark, the data, the   *)
(* checksums and the parity, and the entry without the mark.                *)

\* The inode and the entry are checked; nova_set_write_entry_updating stores
\* the mark.
InplaceBegin(r) ==
    LET ino == nova_check_inode_integrity(mem, FALSE)
        ent == nova_verify_entry_csum(ino.m, cur)
    IN  /\ Begin(r, Overwrite(file, r[1], r[2], NextByte))
        /\ ino.ok /\ ent.ok
        /\ mem' = Store(ent.m, [c \in {Entry(cur, 0)} |-> 1])
        /\ pc' = "mark"
        /\ UNCHANGED <<dur, bare, lost>>

\* ... flushes it with a fence, and copies it to the replica.
InplaceMark ==
    /\ pc = "mark"
    /\ FenceStores(Replica(Entry(cur, 1), 1))
    /\ Continue("copy")

InplaceCopy ==
    /\ pc = "copy"
    /\ Stores([c \in {Data(cur, i) : i \in op[1]..(op[2] - 1)} |-> want[c[3]]])
    /\ Continue("protect")

\* nova_protect_file_data with inplace: the rest of the block is read from the
\* memory as it is.
InplaceProtect ==
    /\ pc = "protect"
    /\ Stores(nova_update_block_csum_parity(cur, Block(mem, cur), op[1], op[2]))
    /\ pc' = "entry"
    /\ lost' = lost \cup Unverified(op[1], op[2])
    /\ UNCHANGED <<metadata_csum, cur, epoch, op, file, want, ops, faults, crashes>>

\* nova_inplace_update_log_entry: through the journal, which fences what was
\* stored before and changes the entry at one stroke; with replicas the primary
\* is stored directly.
nova_inplace_update_log_entry ==
    /\ pc = "entry"
    /\ IF metadata_csum
       THEN Stores([c \in {Entry(cur, 0)} |-> 0]) /\ Continue("flush")
       ELSE /\ mem' = Store(mem, [c \in {Entry(cur, 0)} |-> 0]) /\ dur' = mem'
            /\ bare' = FALSE
            /\ Finish
            /\ UNCHANGED <<cur, lost>>

\* ... flushed with a fence, and then copied to the replica.
InplaceFlush ==
    /\ pc = "flush"
    /\ FenceStores(Replica(Entry(cur, 1), 0))
    /\ Finish
    /\ UNCHANGED <<cur, lost>>

-----------------------------------------------------------------------------
(* A write to a new block (nova_cow_file_write, or a hole in an in-place    *)
(* write): nothing refers to the block before the inode does.               *)

\* memcpy_mcsafe: copies up to the first media error.
mcsafe(lo, hi) == [c \in {Data(3 - cur, i) : i \in {i \in lo..(hi - 1) :
                              \A j \in lo..i : mem[Data(cur, j)] # Poison}} |-> mem[Data(cur, c[3])]]

\* nova_handle_head_tail_blocks copies what is not written from the old block;
\* only then nova_protect_file_data verifies it there, and computes checksums
\* and parity of what it verified.  The write fails when that fails.
nova_cow_file_write(r) ==
    LET ino == nova_check_inode_integrity(mem, FALSE)
        ent == nova_verify_entry_csum(ino.m, cur)
        new == 3 - cur
        contents == Overwrite(file, r[1], r[2], NextByte)
        head == nova_verify_data_csum(ent.m, cur, 0, r[1])
        rest == nova_verify_data_csum(head.m, cur, r[2], NStripes * StripeSize)
        copied == mcsafe(0, r[1]) @@ mcsafe(r[2], NStripes * StripeSize)
                  @@ [c \in {Data(new, i) : i \in r[1]..(r[2] - 1)} |-> NextByte]
        blockbuf == Overwrite(Block(rest.m, cur), r[1], r[2], NextByte)
    IN  /\ ino.ok /\ ent.ok
        /\ IF head.ok /\ rest.ok
           THEN /\ Begin(r, contents)
                /\ mem' = Store(rest.m, copied @@ [c \in EntryCells(new) |-> 0]
                                        @@ nova_update_block_csum_parity(new, blockbuf, 0, NStripes * StripeSize))
                /\ pc' = "tail"
                /\ lost' = lost \cup (IF \E i \in Bytes \ (r[1]..(r[2] - 1)) : mem[Data(cur, i)] = Poison
                                      THEN {"uncopied"} ELSE {})
           ELSE /\ Begin(r, file)
                /\ mem' = rest.m
                /\ pc' = "idle" /\ lost' = lost
        /\ UNCHANGED <<dur, bare>>

\* Mutant of nova_update_tail: the replica gets the new tail at once, too.
TailWithReplica ==
    /\ pc = "tail"
    /\ FenceStores([c \in {Inode(0)} |-> IF metadata_csum THEN Bad ELSE 3 - cur] @@ Replica(Inode(1), Bad))
    /\ Continue("checksum")

\* nova_update_tail and nova_update_alter_tail: a fence before the tail, which
\* does not agree with the checksum of the inode.
nova_update_tail ==
    /\ pc = "tail"
    /\ FenceStores([c \in {Inode(0)} |-> IF metadata_csum THEN Bad ELSE 3 - cur])
    /\ Continue("checksum")

nova_update_inode_checksum ==
    /\ pc = "checksum"
    /\ FenceStores([c \in {Inode(0)} |-> 3 - cur])
    /\ Continue("alter")

\* nova_update_alter_inode, after the flush of the inode; the tree then has the
\* new block.
nova_update_alter_inode ==
    /\ pc = "alter"
    /\ FenceStores(Replica(Inode(1), 3 - cur))
    /\ Finish
    /\ cur' = 3 - cur /\ lost' = lost

-----------------------------------------------------------------------------
(* Changes in place without the mark: nova_dax_write_iter, truncation.      *)

\* The data arrives through the iomap interface ...
nova_dax_write_iter(r) ==
    /\ Begin(r, Overwrite(file, r[1], r[2], NextByte))
    /\ mem' = Store(mem, [c \in {Data(cur, i) : i \in r[1]..(r[2] - 1)} |-> NextByte])
    /\ bare' = TRUE /\ pc' = "iter"
    /\ UNCHANGED <<dur, lost>>

\* ... and nova_update_iter_csum_parity follows.
nova_update_iter_csum_parity ==
    /\ pc = "iter"
    /\ Stores(nova_reset_csum_parity_page(mem, cur))
    /\ lost' = lost \cup Unverified(op[1], op[2])
    /\ Finish /\ UNCHANGED cur

\* nova_clear_last_page_tail of a truncation to r[1] bytes: the zeros ...
nova_clear_last_page_tail(r) ==
    /\ r[2] = NStripes * StripeSize
    /\ Begin(r, Overwrite(file, r[1], r[2], 0))
    /\ mem' = Store(mem, [c \in {Data(cur, i) : i \in r[1]..(r[2] - 1)} |-> 0])
    /\ bare' = TRUE /\ pc' = "truncate"
    /\ UNCHANGED <<dur, lost>>

\* ... then nova_update_truncated_block_csum and _parity.
nova_update_truncated_block ==
    LET tail == Overwrite(Block(mem, cur), op[1], op[2], 0)
    IN  /\ pc = "truncate"
        /\ Stores(nova_update_stripe_csum(cur, tail, Touched(op[1], op[2]))
                  @@ nova_update_block_parity(cur, Block(mem, cur)))
        /\ lost' = lost \cup Unverified(op[1], op[2])
        /\ Finish /\ UNCHANGED cur

-----------------------------------------------------------------------------
(* The super blocks, when a snapshot is taken: nova_sync_super.             *)

SyncBegin ==
    /\ Begin(op, file)
    /\ Stores([c \in {Super(0)} |-> epoch + 1])
    /\ pc' = "sync" /\ lost' = lost

SyncReplica ==
    /\ pc = "sync"
    /\ FenceStores([c \in {Super(1)} |-> epoch + 1])
    /\ Continue("synced")

SyncEnd ==
    /\ pc = "synced"
    /\ FenceStores(None)
    /\ pc' = "idle" /\ epoch' = epoch + 1
    /\ UNCHANGED <<metadata_csum, cur, op, file, want, ops, faults, crashes, lost>>

-----------------------------------------------------------------------------
(* Reads, faults and crashes.                                               *)

\* do_dax_mapping_read: the entry is verified, then the data.
ReadOf(m, lo, hi) ==
    LET ent == nova_verify_entry_csum(m, cur)
        r == nova_verify_data_csum(ent.m, cur, lo, hi)
    IN  [m |-> r.m, ok |-> ent.ok /\ r.ok]

do_dax_mapping_read(r) ==
    /\ pc = "idle"
    /\ mem' = ReadOf(mem, r[1], r[2]).m
    /\ mem' # mem
    /\ UNCHANGED <<metadata_csum, dur, cur, epoch, pc, op, history, ops, faults, crashes, lost>>

\* The memory damages one place: a scribble no longer than a stripe, which may
\* reach over the end of one, a stripe that cannot be read, a checksum, the
\* parity, or a copy of a record.
Flip(v) == IF v = Poison THEN v ELSE 1 - v
Faults ==
    {[c \in {Data(cur, i) : i \in lo..hi} |-> Flip(mem[c])] :
        <<lo, hi>> \in {r \in Bytes \X Bytes : r[2] \in r[1]..(r[1] + StripeSize - 1)}}
    \cup {[c \in {Data(cur, s * StripeSize + j) : j \in Offsets} |-> Poison] : s \in Stripes}
    \cup {[c \in {Csum(cur, s, k)} |-> NoCsum] : s \in Stripes, k \in Copies}
    \cup {[c \in ParityCells(cur) |-> Flip(mem[c])], [c \in ParityCells(cur) |-> Poison]}
    \cup {[c \in {x} |-> v] : v \in {Poison, Bad},
                              x \in {Super(k) : k \in Copies}
                                    \cup (IF metadata_csum THEN EntryCells(cur) \cup {Inode(k) : k \in Copies}
                                          ELSE {})}

Fault ==
    /\ pc = "idle" /\ Eventful /\ faults < MaxFaults
    /\ \E f \in Faults :
          /\ mem' = Store(mem, f)
          /\ dur' = Store(dur, f)
    /\ faults' = faults + 1
    /\ UNCHANGED <<metadata_csum, cur, epoch, pc, op, history, ops, crashes, lost>>

\* The stores that a crash may keep or lose.  Those to a block that nothing
\* refers to make no difference.
Pending == {c \in BlockCells(cur) \cup EntryCells(cur) \cup {Inode(k) : k \in Copies} \cup {Super(k) : k \in Copies} :
               mem[c] # dur[c]}

\* A store to a copy of a record that carries a checksum may also be torn.
Tearable == {Super(k) : k \in Copies} \cup (IF metadata_csum THEN RecordCells ELSE {})

\* The other copy of the record.
Other(c) == [c EXCEPT ![Len(c)] = 1 - @]

\* What the code has no answer to when the crash comes now: data without its
\* mark, the mark gone before the data is durable, both copies of an entry in
\* flight, the inode being rewritten by a mount whose repair of the replica is
\* not fenced yet, a copy in flight while a fault has damaged the other.
Exposed ==
    (IF bare THEN {"unmarked"} ELSE {})
    \cup (IF Entry(cur, 0) \in Pending /\ mem[Entry(cur, 0)] = 0 /\ Pending \cap BlockCells(cur) # {}
          THEN {"unfenced"} ELSE {})
    \cup (IF EntryCells(cur) \subseteq Pending THEN {"torn"} ELSE {})
    \cup (IF pc = "finish" /\ {Inode(k) : k \in Copies} \subseteq Pending THEN {"rewritten"} ELSE {})
    \cup (IF faults > 0 /\ \E c \in Pending \cap Tearable : ~Usable(dur[Other(c)]) THEN {"double"} ELSE {})

\* What a crash may keep.  The outcomes of one that the code has no answer to
\* are not told apart.
Kept == IF Exposed = {} THEN SUBSET Pending ELSE {Pending}

Crash ==
    /\ pc # "mount" /\ Eventful
    /\ \E kept \in Kept : \E torn \in SUBSET (kept \cap Tearable) :
          mem' = [c \in Cells |-> IF c \in torn THEN Bad ELSE IF c \in kept THEN mem[c] ELSE dur[c]]
    /\ dur' = mem'
    /\ pc' = "mount" /\ crashes' = crashes + 1
    /\ lost' = lost \cup Exposed
    /\ bare' = FALSE /\ op' = <<0, 0>>
    /\ UNCHANGED <<metadata_csum, cur, epoch, file, want, ops, faults>>

\* The mount: the super block, then the file when it is first used
\* (nova_rebuild_inode): the inode, its replica, the entry; an entry with the
\* mark has its checksums and parity computed again (nova_reset_data_csum_parity),
\* of a damaged block too, and its mark removed.
Mount ==
    LET sup == nova_check_integrity(mem)
        ino == nova_check_inode_integrity(sup.m, TRUE)
        b == ino.value
        ent == nova_verify_entry_csum(ino.m, b)
        found == Block(ent.m, b)
    IN  /\ pc = "mount"
        /\ sup.ok /\ ino.ok /\ ent.ok
        /\ dur' = sup.m
        /\ cur' = b /\ epoch' = sup.value
        /\ mem' = IF ent.value = 1
                  THEN Store(ent.m, nova_reset_csum_parity_page(ent.m, b) @@ [c \in {Entry(b, 0)} |-> 0])
                  ELSE ent.m
        /\ pc' = IF ent.value = 1 THEN "rebuilt" ELSE "rewrite"
        /\ file' = IF b # cur THEN want
                   ELSE IF ent.value = 1 THEN [i \in Bytes |-> IF found[i] = want[i] THEN want[i] ELSE file[i]]
                   ELSE file
        /\ want' = file'
        /\ lost' = lost \cup (IF ent.value = 1 /\ found # file' THEN {"unverified"} ELSE {})
        /\ UNCHANGED <<metadata_csum, op, bare, ops, faults, crashes>>

\* nova_set_write_entry_updating: the fence and the replica.
Rebuilt ==
    /\ pc = "rebuilt"
    /\ FenceStores(Replica(Entry(cur, 1), 0))
    /\ Continue("rewrite")

\* The end of nova_rebuild_inode: the fields of the inode are rewritten in place
\* with what the log says, and do not agree with the checksum ...
nova_update_inode_with_rebuild ==
    /\ pc = "rewrite"
    /\ Stores(Replica(Inode(0), Bad))
    /\ Continue("finish")

\* ... until nova_rebuild_inode_finish has computed it again and flushed the
\* inode with a fence; it then copies the inode to the replica.
nova_rebuild_inode_finish ==
    LET flushed == Store(mem, [c \in {Inode(0)} |-> cur])
    IN  /\ pc = "finish"
        /\ dur' = flushed /\ mem' = Store(flushed, Replica(Inode(1), cur)) /\ bare' = FALSE
        /\ Finish
        /\ UNCHANGED <<cur, lost>>

Next ==
    \/ \E r \in Ranges : \/ InplaceBegin(r) \/ nova_cow_file_write(r)
                         \/ nova_dax_write_iter(r) \/ nova_clear_last_page_tail(r)
                         \/ do_dax_mapping_read(r)
    \/ InplaceMark \/ InplaceCopy \/ InplaceProtect \/ nova_inplace_update_log_entry \/ InplaceFlush
    \/ nova_update_tail \/ nova_update_inode_checksum \/ nova_update_alter_inode
    \/ nova_update_iter_csum_parity \/ nova_update_truncated_block
    \/ SyncBegin \/ SyncReplica \/ SyncEnd
    \/ Fault \/ Crash
    \/ Mount \/ Rebuilt \/ nova_update_inode_with_rebuild \/ nova_rebuild_inode_finish

Spec == Init /\ [][Next]_vars

-----------------------------------------------------------------------------
Handled == lost = {}

TypeOK ==
    /\ metadata_csum \in BOOLEAN /\ bare \in BOOLEAN
    /\ DOMAIN mem = Cells /\ DOMAIN dur = Cells
    /\ cur \in Blocks /\ epoch \in 0..MaxEvents
    /\ pc \in {"idle", "mark", "copy", "protect", "entry", "flush", "tail", "checksum", "alter",
               "iter", "truncate", "sync", "synced", "mount", "rebuilt", "rewrite", "finish"}
    /\ op \in Ranges \cup {<<0, 0>>}
    /\ DOMAIN file = Bytes /\ DOMAIN want = Bytes
    /\ ops + faults + crashes <= MaxEvents /\ faults <= MaxFaults
    /\ lost \subseteq {"unverified", "uncopied", "unmarked", "unfenced", "torn", "rewritten", "double"}

\* The copies that are there.
Live == BlockCells(cur) \cup {Super(k) : k \in Copies} \cup {Entry(cur, 0), Inode(0)}
        \cup (IF metadata_csum THEN {Entry(cur, 1), Inode(1)} ELSE {})

\* The value that each of them should have when no operation is in progress.
Right(c) == CASE c[1] = "data" -> file[c[3]]
              [] c[1] = "csum" -> Strip(file, c[3])
              [] c[1] = "parity" -> nova_calculate_block_parity(file)[c[3]]
              [] c[1] = "entry" -> 0
              [] c[1] = "inode" -> cur
              [] c[1] = "super" -> epoch

\* Between two operations, and after the recovery from a crash at any step of
\* one, both checksums of every stripe, the parity and all replicas agree with
\* the contents of the file, unless the memory has had a fault: the order of
\* the stores and fences of the writes and the mark "updating" see to that.  The
\* rest has its type.
OnlyFaultsDamage ==
    /\ TypeOK
    /\ pc = "idle" /\ faults = 0 /\ Handled => \A c \in Live : mem[c] = Right(c)

\* The stripes that have a wrong byte.
Damaged == {s \in Stripes : Strip(Block(mem, cur), s) # Strip(file, s)}

\* Runs of stripes, and what reading one gives.
Runs == {first..last : <<first, last>> \in {r \in Stripes \X Stripes : r[1] <= r[2]}}
ReadRun(run) == ReadOf(mem, Min(run) * StripeSize, (Max(run) + 1) * StripeSize)
RunRight(run, m) == \A s \in run : Strip(Block(m, cur), s) = Strip(file, s)

\* After a single fault every read that takes in the first damaged stripe, or
\* has only one to repair, succeeds and leaves the right contents, and every
\* record is read from a good copy (nova_verify_data_csum, nova_restore_data).
SingleFaultRepaired ==
    pc = "idle" /\ faults <= 1 /\ Handled =>
        /\ \A run \in Runs :
              (\A s \in Damaged, t \in Damaged \cap run : s < t => s \in run) =>
                  LET r == ReadRun(run) IN r.ok /\ RunRight(run, r.m)
        /\ nova_check_integrity(mem).value = epoch
        /\ nova_check_inode_integrity(mem, FALSE).value = cur
        /\ nova_verify_entry_csum(mem, cur).value = 0

\* Whatever the faults, a read that succeeds returns the contents of the file.
ReadsRight ==
    pc = "idle" /\ Handled =>
        \A run \in Runs : LET r == ReadRun(run) IN r.ok => RunRight(run, r.m)

\* After every crash, in a mount too, and with one fault before it, the mount
\* finds a super block, the inode and the entry, each as it was before or after
\* the operation in progress; unless the fault is in the other copy of a record
\* in flight, or a mount was rewriting the inode before the repair of its replica
\* was fenced (nova_rebuild_inode_finish): see Exposed.
\* Without the fault the block in use then holds, byte by byte, what was there
\* before or what was being written, and a copy-on-write write is there as a
\* whole or not at all.
CrashRecovers ==
    pc = "mount" /\ faults <= 1 /\ Handled =>
        LET sup == nova_check_integrity(mem)
            ino == nova_check_inode_integrity(mem, TRUE)
            ent == nova_verify_entry_csum(mem, ino.value)
        IN  /\ sup.ok /\ sup.value \in {epoch, epoch + 1}
            /\ ino.ok /\ ent.ok
            /\ faults = 0 => LET found == Block(mem, ino.value)
                             IN  /\ \A i \in Bytes : found[i] \in {file[i], want[i]}
                                 /\ ino.value # cur => found = want
=============================================================================
