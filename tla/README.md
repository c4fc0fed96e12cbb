# Verification of llvm-instrumentation

The repository instruments persistent-memory code. An LLVM pass inserts calls at
stores, flushes and fences; the calls write trace records into a kernel fifo
(Squint); a user process reads them. The instrumented program is the NOVA file
system, which is part of the repository and by far the largest part of it. This
directory holds TLA+ models of both, their TLC configurations and TLAPS proofs.
Below, NOVA file names are relative to `src/llvm_evaluation/NOVA/nova/`.

`PROJECT.json` lists the components, the runs, the source lines that each
definition models, a faulty variant of the code for every property that is
checked (TLC must then find the property violated), the hazards and the
theorems.

## The system and its models

| Part | Source | Model |
| --- | --- | --- |
| Squint fifo with throttle | `kfifo_kernel_evaluation/squint_module.c` | `SquintFifo`, proofs in `SquintFifoProofs` |
| Lite journal | `journal.c` | `LiteJournal`, implementing `AtomicWords`; `JournalTransactions` says which words a transaction journals; proofs in `LiteJournalProofs` |
| Block layout | `balloc.c`, `balloc.h`, `super.c`, `checksum.c`, `parity.c` | `BlockGeometry` (operators), `BlockLayout`; proofs in `BlockLayoutProofs` |
| Block allocator | `balloc.c` | `FreeList`, implementing `BlockPool`; proofs in `FreeListSteps`, `FreeListProofs` |
| Snapshots | `snapshot.c` | `Snapshot` (partly), proofs in `SnapshotSteps`, `SnapshotProofs`; `FileData` for what a snapshot shows of a file |
| Log of a regular file, its garbage collection and replay, copy-on-write writes | `log.c`, `gc.c`, `rebuild.c`, `file.c`, `dax.c` | `InodeLog` (partly) |
| Contents of a file: all kinds of writes, fallocate, truncation, reads, recovery of its blocks | `file.c`, `dax.c`, `inode.c`, `log.c`, `bbuild.c`, `rebuild.c` | `FileData` (partly) |
| Checksums, parity, replicas of entries, inodes and super block | `checksum.c`, `parity.c`, `dax.c`, `super.c`, `inode.h`, `rebuild.c` | `Redundancy` (partly) |
| Directories | `namei.c`, `dir.c`, `log.c`, `rebuild.c`, `gc.c` | `Namespace` (partly) |
| Inode numbers, inode table, choice of the recovery | `inode.c`, `bbuild.c`, `super.c` | `InodeTable` (partly), proofs in `InodeTableProofs` |
| DAX faults and mmap, write protection, symbolic links, ioctl, sysfs, statistics | `dax.c`, `mprotect.c`, `symlink.c`, `ioctl.c`, `sysfs.c`, `stats.c` | not modelled, see the end |
| LLVM pass, `is_pmem`, mock file system, older Squint modules | `fencePass`, `is_pmem`, `mockfs.c`, ... | not modelled |

How the parts of NOVA interact: an operation appends entries to the logs of one
or several inodes (`log.c`), in pages from the allocator (`balloc.c`), and
commits them by moving the tails, of several inodes in a journal transaction
(`journal.c`). Trees in DRAM index the logs; a mount rebuilds them (`rebuild.c`).
Superseded entries are marked and collected (`gc.c`), unless a snapshot shows
them (`snapshot.c`). An unmount saves the allocator's and the inode numbers'
state, and a mount that does not find it scans the inode table (`bbuild.c`).
With the options for it, what is written is also protected by checksums, parity
and replicas (`checksum.c`, `parity.c`).

The models are composed by assumption and guarantee. `InodeLog`, `FileData`,
`Namespace` and `InodeTable` take a journal transaction as one step, which is
what `AtomicWords`, implemented by `LiteJournal`, promises. `InodeLog` and
`FileData` take allocation as a choice from a set of free pages or blocks, which
is what `BlockPool`, implemented by `FreeList`, promises. Both of these
implementations are proved, not only model-checked. `FileData` takes the log as
the sequence of its entries, which is what `InodeLog` shows it to be;
`FreeList` starts from the regions that `BlockGeometry` computes and
`BlockLayout` shows to be apart.

### Conventions

Definitions keep the names of the functions they model. Persistent memory is
modelled by two copies, what the CPUs see and what is certainly durable; a crash
keeps the old or the new contents of everything stored and not yet fenced
(`LiteJournal`, `InodeLog`, `InodeTable`). `Namespace` works one level higher,
where each step is a transaction or a mark. Definitions introduced by `Fault:`
are the faulty variants, and no specification uses them. History variables are
declared as such and only properties and bounds read them. Where the code has no
defence (an error path that undoes nothing, a use of freed memory), the model
takes the step and records it in a variable `lost` or `undefined`; the
properties say what holds while it is empty (`Handled`, `Defined`).

## The modules

**SquintFifo.** Writers are threads in `write_{flush,fence,store}_trace`. After
each record, a writer with less than the threshold left raises the unprotected
flag `asleep` and waits; the reader drains, tests the flag, lowers it and wakes.
Each of these is a step, so that all interleavings of the flag are there.
Records are lengths.

**LiteJournal.** Per CPU: append undo entries, flush, move the tail, fence, update
the words, barrier, commit. A crash may tear entries and keep any subset of
unfenced stores. Recovery (`nova_lite_journal_soft_init`) walks the CPUs and is
itself interrupted by crashes. The abstract `AtomicWords` has a store that
changes by whole transactions.

**BlockGeometry, BlockLayout.** The computation of the regions of each per-CPU
list (free blocks, checksums, their replica, parity) with the rounding of the
code, and the addresses of the checksum and parity of each block; checked over
all device sizes of a range.

**FreeList.** Trees of range nodes per CPU with first and last node, counters,
allocation from both ends, the superpage paths, retries on other lists, freeing
with the four coalescing cases, failing node allocations. The attempts on a list
are made under its lock; between the choice of a list, from counters read without
locks, and its lock, others run. A failing node allocation inside
`nova_alloc_superpage` gives up the lock only in a second step.

**Snapshot.** Epochs, snapshots, per-CPU lists of what a snapshot keeps alive,
deletion, the cleaner thread with its sleep and its end, clean unmount and mount.
A writer that finds the last page of a list full gives up the lock of the list to
allocate one (`kmalloc_list_page`) and links it when it has the lock again, whether
or not another writer has done so meanwhile: `spare` says which pages a list then
counts besides those that hold its entries, one linked behind the tail or one that
nothing refers to any more.

**InodeLog.** One regular file: log pages with links, durable and visible copies,
copy-on-write writes in several pieces, truncation, mode changes in place or
appended, extension of the log, fast and thorough collection step by step, crash
and replay. Head and tail are there twice, in the inode and in DRAM (`log_head` and
`log_tail` of `sih`), and operations and collections go by the latter. Of a
thorough collection that fills its last page, entries and counts are not fenced
before the new head is stored (`CopyDurable`).

**FileData.** One regular file by the contents of its blocks, a page being two
halves so that writes and sizes end in mid-page. Copy-on-write, in-place and
iomap writes, fallocate, truncation and mode changes, each in the steps between
which a snapshot or a crash may come, with failures for lack of space. After a
crash the scan of `bbuild.c` (in windows of `MAX_PGOFF` pages) and the replay of
`rebuild.c` are computed from the same log. Checksums and parity are off.

**Redundancy.** One block of a file with its checksums and parity, the entry that
points to it, the inode and the super block with their replicas. Stores become
durable with the next fence. Faults of the memory (media errors, scribbles over
one or two cells) strike between operations. A mount repairs the copies, computes
checksums and parity of a marked block again, rewrites the inode in place with what
the log says and copies it to the replica (`nova_rebuild_inode_finish`), and a crash
may come in each of these steps. The checksum is taken to be
perfect, `clwb` is taken to be there, `data_csum` and `data_parity` are on and
`metadata_csum` is either.

**Namespace.** Inodes with logs of directory and link-change entries, trees of
names, link counts in memory. `nova_create` (also for special files and symbolic
links), `nova_mkdir`, `nova_link`, `nova_unlink`, `nova_rmdir` and `nova_rename`
work on the trees and pending entries, then `transaction` commits, then the
marks are set one by one in the order of the code. Removal in place, the link
count carried by the last directory entry, eviction, both collections,
snapshots, crash and rebuild are included.

**InodeTable.** The numbers in use as sets of ranges; creating an inode from the
unprotected `map_id` to the commit, with all failures; removal, also of inodes
that a snapshot holds; the two saves of an unmount, each of which may fail without
keeping the other from being made, and the two reads of a mount as separate steps;
after a crash the scan of the slots, one slot at a time in a
thread per CPU (`failure_thread_func`), with the run of numbers that a thread has
found and not yet inserted, and the end of the wait for all threads. A crash may
come in the middle of the scan. The list that a mount reads may be of an earlier
unmount, if the last one could not save its own; `misled` records that a mount has
read such a list.

## Runs

| Run | Checks | Result |
| --- | --- | --- |
| `squint_fifo` | `NoTruncation`, `Reserve`: the fifo falls below its threshold by at most a record per pending writer and per interrupted wait, so no record is cut while the threshold covers that. `FlaggedSleeperWakes` (liveness) | holds |
| `squint_lost_wakeup` | `TraceReturns`: a traced call returns | violated: lost wakeup, see findings |
| `lite_journal` | `NoBug`, `JournalGenuine`, refinement of `AtomicWords` (`AtomicUnlessWindow`) | holds |
| `block_layout` | `RegionsApart`: the regions of the lists do not overlap and leave the reserved blocks alone; `ProtectionStored`: every block has a place for its parity and, on devices that are not tiny, for its checksums | holds |
| `free_list` | `Partition`: each block is free once, in use, or lost by a recorded error; `ListsSound`: counters, end pointers and nodes agree; `FreeSucceeds`; `BehavesAsPool`, the refinement of `BlockPool`; `NoSpaceMeansFull`; `AllocationReturns` (liveness) | holds |
| `snapshot` | `SnapshotIntact`: nothing a snapshot shows is freed; `Accounted`: what is deleted is freed or on exactly one list; `CleanerStops`: an order to stop that comes in time is not slept through | holds |
| `snapshot_remount` | `OnlyDeleteableFreed`, across remounts | violated, see findings |
| `inode_log` | `CommittedSurvives`, `TreeShowsFile`, `PagesOwned`, `DataOwned` | holds |
| `namespace` | `AtomicUnlessInplace`, `RebuildShowsMemory`, `LinksCountNames`, `ParentNamed`, `ReaddirShowsTree` | holds |
| `inode_table` | `NumbersExact`: the ranges name exactly the taken numbers, after any mount; `NumbersUnique`; `NoSpaceMeansFull` | holds |
| `file_data` | `ReadsBack`: reads return what was written; `CrashKeeps`: recovery finds the file before or after the interrupted operation; `RecoveryExact`: and exactly its blocks; `SnapshotStays`; `BlocksOwned` | holds |
| `redundancy` | `OnlyFaultsDamage`: without faults all copies agree between operations and after recovery; `SingleFaultRepaired`; `ReadsRight`: no read returns wrong data; `CrashRecovers` | holds |

The type invariant `TypeOK` of a module is an invariant of its run or a conjunct
of one: of `RegionsApart`, `ListsSound`, `Accounted`, `PagesOwned`,
`ParentNamed`, `NumbersExact`, `BlocksOwned`, `OnlyFaultsDamage`.

### Bounds

They are the CONSTANTS in the `.cfg` files. What each makes possible:

- `squint_fifo`: two writers whose records just fit the threshold, and up to two
  interrupted waits, which do not. `squint_lost_wakeup` needs only one writer.
- `lite_journal`: rings of five entries wrap within the second transaction, two
  CPUs, a crash and a crash in the recovery from it.
- `block_layout`: all device sizes up to 160 blocks and one to four CPUs, with
  blocks so small that both roundings of the checksum area occur.
- `free_list`: two threads, 16 blocks on two CPUs, three nodes, log and data
  requests, one failing node allocation at any place: lists run empty, split,
  join in all four ways, and requests go to the other list.
- `snapshot`: two entries per list page, the cleaner, and one of two scenes
  (`FewOrCrowd`): one writer with two versions over three epochs (the constraint
  `Epochs` counts an epoch that a remount repeats), so that lists have several
  pages and empty ones; or two writers that remove four files after the first
  snapshot, which fills a page and makes both want the next one, and a second
  snapshot where that has left a page too many.
- `inode_log`: pages of two entries, four pages, four operations, one crash: the
  log is extended, collected in both ways and runs out of pages.
- `namespace`: four inodes, two names, four operations, one snapshot, one crash:
  three levels of directories, renames over existing names and across parents.
- `inode_table`: three numbers per CPU over two superpages, four creations, two
  unmounts or crashes: all cases of allocation, freeing and insertion, runs that
  go on behind the end of a superpage, scans that a crash cuts off, and a CPU that
  runs out of numbers.
- `file_data`: two pages, four blocks, three operations, one snapshot, one crash:
  blocks run out, an entry of two pages is overwritten in part, a scan takes two
  windows.
- `redundancy`: three stripes of two bytes, three ranges (within a stripe, across
  two, the whole block), two faults, three operations, faults or crashes
  together.

`CONSTRAINT Handled`, `Defined` and `NotMisled` stop the exploration after a step that the
code does not handle, as the properties say nothing from there on.
`CHECK_DEADLOCK FALSE` is given where the bounds on operations and crashes end
every behaviour. Symmetry is used for names, files, nodes and threads, in runs
without liveness properties only.

### Fairness

`SquintFifo`: the reader (`mock_squint.py` reads in an endless loop) and each
writer that is not on the wait queue are scheduled (weak fairness). Nobody has
to start a trace, send a signal or unload. `FreeList`: each thread inside an
allocation takes its next step if it stays possible (weak fairness of
`Allocate(t)`): a ticket spin lock serves every thread that waits, and a
critical section is one step or two. No other module states liveness.

## Findings

- **Lost wakeup in the Squint fifo** (`squint_lost_wakeup`). A writer raises
  `asleep`, the reader lowers it and wakes the queue before the writer is on it,
  and the writer sleeps with the flag down: no later read wakes it.
- **A remount goes back one epoch** (`snapshot_remount`). The super block gets the
  number of the last snapshot, not the epoch after it; after a remount what the
  snapshot shows is freed when it is overwritten.

Observations that are part of the models and that a property excludes by name,
or that come from reading the code:

- Recovery resets a journal's tail before a fence orders the undone words before
  it (`journal.c:182`): `AtomicUnlessWindow` excludes a crash there.
- A write between the epoch increment and the insertion of a snapshot frees what
  that snapshot shows (`snapshot.c:926-961`): `SnapshotIntact` excludes it.
- After a crash that lost a mark, a thorough collection can leave `last_setattr`
  at an older entry (`gc.c:263`), and the next mode change is lost at a remount.
- The link to the tail page and the new head are ordered by one fence only
  (`gc.c:389-394`), and so are the last entries and counts of a copy that fills its
  last page (`nova.h:708`): a crash that keeps the head and not all of the others is
  excluded from all properties of `InodeLog` ("torn"). A count that is lost
  can make a later fast collection free a page in use.
- Of a new log only the head or only the tail may be durable (`log.c:1181-1186`).
  The mount then clears the inode and not `sih` (`rebuild.c:415-421`), and the next
  append goes to a page that recovery has freed. `TreeShowsFile` and `PagesOwned`
  exclude what follows such a mount ("half").
- Two writers that both find the last page of a snapshot's list full add a page
  each (`snapshot.c:422-446`). The list counts both and holds all entries, so that
  `Accounted` stays true; but a save and restore then puts its tail on the page
  that nobody has written, or past the end (`snapshot.c:645-666`), and `Accounted`
  excludes what follows ("restore" in `undefined`).
- A request to the cleaner that comes while it is at work is forgotten
  (`snapshot.c:1353`): the entries stay on their list (`Accounted`) and are cleaned
  only when the next snapshot goes.
- An unmount saves the free blocks also when it could not save the list of inode
  numbers (`super.c:936-938`). If an older list is still there, which a crash
  between the two saves of an earlier unmount leaves behind, the next mount
  takes it for the current one (`bbuild.c:1508-1517`), and numbers of live inodes are
  handed out again. The model takes these steps (TLC reaches `misled`); the three
  properties of `InodeTable` say nothing after them.
- Fast collection can free the page of the last directory entry, with the link
  count of the directory (`gc.c:131`). `RebuildShowsMemory`, which also compares the
  last entry that a mount finds with `last_dentry`, excludes what follows; the
  thorough collection spares that entry, and the run covers it.
- `nova_readdir_fast` emits each name with the inode number of the next entry
  (`dir.c`, around line 702); `ReaddirShowsTree` therefore compares names only.
- A crash between the commit and the mark of a removed entry makes a listing show
  the name again; lookups do not find it.
- Failing creations leak the inode number until the next failure recovery.
- `balloc.c:72` rounds the checksum blocks otherwise than the comment at line 68;
  small devices lack room for the last checksums (`ProtectionStored`).
- The snapshot cleaner sleeps without testing `kthread_should_stop`
  (`snapshot.c:1327`): told to stop while it cleans, or before it is on its wait
  queue, it never ends, and neither does the unmount. `CleanerStops` is about the
  other cases.
- The removal of a name of the current epoch in place is a transaction of its own
  (`dir.c:414-416`), where `journal.c:4-5` speaks of one; a crash before the
  second transaction leaves an inode without a name (`AtomicUnlessInplace`).
- The check for a snapshot of the same epoch that the comment at
  `snapshot.c:928-933` announces is not there.

Of `FileData` (each is named in `lost` where the model takes the step):

- A recovery with a snapshot goes back one epoch, which is the finding
  `snapshot_remount`: nothing is checked after such a recovery ("epoch"), so that
  `SnapshotStays` is about the time up to the crash and `RecoveryExact` about what the
  recovery computes.
- After a snapshot, `fallocate`, writes through iomap and faults replace blocks of
  an older epoch by zeroed ones, where `file.c:265` speaks of holes.
- `nova_dax_write_iter` grows the size of the file in DRAM only; `fallocate` on
  an existing entry grows it without a new `trans_id`.
- A truncation to the middle of a page zeroes the rest of it in place, also when a
  snapshot shows it; a crash before that is durable leaves data beyond the end
  (against `log.c:192-195`), and one before the blocks are freed leaves
  `reassigned` at 0 (against `log.h:74`).
- After a truncation into an entry, an in-place write lowers the size that the
  entry records, and its last blocks are leaked.
- Blocks beyond the end (`FALLOC_FL_KEEP_SIZE`) are dropped by the rebuild and kept
  by the bitmap.
- An in-place write that runs out of space leaves the size and data of its first
  part in the log and not in the inode.
- A user buffer that faults, or a media error, in an in-place write frees blocks
  that the tree still has (`dax.c:757-766`, `804-806`); not modelled.
- `fallocate` reads the size of the file before it takes the inode's lock
  (`file.c:213-226`); not modelled.

Of `Redundancy` (with the name in `lost`):

- In-place writes, iomap writes and truncation compute checksums and parity of
  what they do not overwrite without verifying it (`dax.c:329`, `398`;
  "unverified"), so damage that was repairable becomes contents. So does the mount
  with a marked block (`rebuild.c:237`). `ReadsRight` is about the other cases.
- The updates by iomap writes and truncation are not covered by the mark
  `updating` ("unmarked"); with `metadata_csum` the mark is cleared before a fence
  orders the data, and `nova_reset_data_csum_parity` clears it before one orders
  checksums and parity ("unfenced").
- The replica of an entry is not fenced before the next update of the primary
  ("torn").
- A copy-on-write write that meets a media error while it copies the head or tail
  of a page ignores it (`dax.c:47`, `78`; "uncopied").
- A fault in one copy of a record (super block, inode or entry) and a crash while
  the other is in flight lose both ("double"). The other crashes after a fault, in
  an operation or in a mount, are covered.
- A mount rewrites the inode in place, and so tears it, before its repair of the
  replica is fenced (`rebuild.c:149-162`, `checksum.c:520-526`): after a crash in a
  copy-on-write write, a second crash there finds both copies bad or the replica
  stale ("rewritten"). `CrashRecovers` fails there and excludes it.
- A read that begins at the second of two stripes hit by one scribble fails with
  EIO, one that begins at the first repairs both (`parity.c:324-330`);
  `SingleFaultRepaired` says so.
- The parity stripe itself is not checked (`parity.c:109`), and
  `parity.c:216, 248` have moved `block` before the checksums that are not
  unrolled use it.

## Proofs

Proved with TLAPS, for all values of the constants that satisfy the named
assumptions of the modules:

- `SquintFifoProofs`: `TypeCorrect`, `ReserveHolds`, `NoRecordTruncated`, for a
  finite set of writers of any size and any fifo, threshold and record length
  (`WritersFinite`, `SizesAssumption`). The inductive invariant `IInv` adds two
  facts to the three: a writer between two records has frames left
  (`FramesLeft`), and nobody is inside an unloaded module (`UnloadedIdle`). The
  argument: a record is put only by a writer that was not pending, which then
  joins `Pending`; a writer leaves `Pending` only with the threshold free or by
  an interrupt that is counted; so there is room for the record whenever the
  threshold covers all writers and interrupts. The cardinality facts come from
  `FiniteSetTheorems`.
- `LiteJournalProofs`: `Invariant` (`Spec => []IInv`), from it `TypeCorrect`,
  `NoBugReached`, `JournalsGenuine` and `Atomicity`, for any number of CPUs, ring
  length and set of transactions (`SizesAssumption`, `TransactionsAssumption`).
  None of the properties is inductive: `IInv` says, for each place of a
  transaction, how the visible and the durable ring, pointers and words relate
  (`TxnInv`, `Running`), what holds while mounting (`Mounting`), and that in
  every state the durable journals undo exactly the open transactions
  (`Rollback`). The lemmas about `next_lite_journal` and `Between` carry the
  arithmetic of the ring. `Atomicity` is the refinement of `AtomicWords`: each
  step leaves the recovered words alone or commits one whole transaction.

- `BlockLayoutProofs`: `RegionsApartTheorem` and
  `ProtectionTheorem`, for every device size, number of CPUs, size of blocks,
  stripes and checksums and number of reserved blocks (`GeometryConstants`,
  `LayoutConstants`; the second also `CsumsFillBlock`: the checksums of a whole
  number of blocks fill a checksum block, as they do with 512-byte stripes and
  4-byte checksums). `LInv` is the
  invariant of the loop in `nova_init_blockmap`: the lists before `i` have been
  laid out. The rest is arithmetic: the lists follow each other
  (`RegionsInOrder`), and the regions of a list lie between its first and its
  last block (`RegionWithin`). `ProtectionTheorem` comes down to two counts:
  with p blocks to a list and S blocks to a parity block, p <= (S + 1) *
  `num_parity_blocks` (`ParityFits`), and with K blocks to a checksum block, p <=
  (K + 1) * `num_csum_blocks` once the device has K * (K - 1) blocks
  (`CsumFits`). Products of two variables and divisions are
  stated once as lemmas (`ProductNat`, `DivNat`), since the solver decides
  linear arithmetic only. `FreeListSteps` and `InodeTableProofs` state those few
  that they need again, as they cannot extend a module about other variables.
- `FreeListSteps`, `FreeListProofs`: `PartitionTheorem`, `ListsSoundTheorem`,
  `FreeSucceedsTheorem`, `NoSpaceTheorem` and `PoolTheorem`, for any finite number
  of lists, threads and nodes, any device and any sets of requests. (A list has
  less than 2^31 blocks, `CountsFitInt`: the code compares the counters as an
  `int`, `balloc.c:855`, and the model as numbers.) The inductive invariant `FInv`
  has, besides types and `Partition`: `ListsOK` (the nodes of a list are apart
  from each other, not empty, within the list's region, and `first_node` and
  `last_node` are the outer ones), without which neither the split of an end node
  nor the search for a slot can be followed; `CountsOK`, since an allocation
  trusts the counter; and `LocksOK`, which says that a thread inside the two-step
  critical section is alone on its list and that the list has a node, as it takes
  the first one without a test. `FreeListSteps` first proves what the changes to a
  set of ranges do to the blocks it covers (cut an end off, split, remove, add,
  extend, join), without any state, then applies it to the operations on one list,
  each of which is shown to have taken (`Took`) or given (`Gave`) one run of
  blocks and nothing else; `FreeListProofs` adds counters, callers and threads.
  The refinement follows from the same lemmas: a grant takes blocks from the pool,
  a free returns them, and all else leaves the union of the free blocks alone. The
  action property `NoSpaceMeansFull` needs one more invariant, `ScanOK`: as long
  as nobody disturbs a request, no list that its search has read holds more blocks
  than its candidate.

- `SnapshotSteps`, `SnapshotProofs`: `IntactTheorem`, `AccountedTheorem` and
  `CleanerStopsTheorem`, for any finite number of threads (the run has two) and
  any number of files, lists, entries to a page, versions, epochs and remounts
  (`SnapshotConstants`). The inductive invariant `IInv` has these parts. `Types`
  and `Stopping` give the shapes, and where the cleaner can be once it was told
  to stop. `Writers`: each writer has its file for itself, and what a file holds
  is not deleted. `Accounts`: a deleted version that is not freed, orphaned or in
  hand is on a list, every entry is in one place only (`OnePlace`), and what is
  being removed is not on a list as well. `Views`, as long as no mount has gone
  back: what a live snapshot shows was created before it, deleted after it if at
  all, and is freed only if that was while a snapshot was being taken (`ViewsOK`);
  a writer that changes a file of a snapshot does so in a later epoch
  (`WritersLate`). Deleting and cleaning would not keep this without `ListsLate`:
  what is on the list of a snapshot was created after all older ones. That is why
  the cleaner need look at its own snapshot only, and why the entries of the last
  snapshot can be freed unseen; `HandsLate` says the same of an entry that a writer
  still holds while its snapshot is deleted or others are taken. `SnapshotSteps`
  begins with what appending, marking, concatenating and restoring do to the
  entries of a list; pages that writers add at the same time change what the list
  counts and not its entries, until a restore trusts the count. `Accounts` holds
  across remounts; `Views` does not, which is the finding `snapshot_remount`.

- `InodeTableProofs`: `NumbersExactHolds`, `NumbersUniqueHolds` and
  `NoSpaceMeansFullHolds`, for any finite set of threads and any numbers of CPUs,
  reserved numbers, inodes, slots to a superpage, creations, unmounts and crashes
  (`InodeTableConstants`: besides types, that the numbers of a CPU are enough for
  the reserved ones). None of the three is
  inductive, since what the ranges are after a mount depends on what was
  persistent before it. What is proved is that `misled \/ IInv` always holds: the
  read of a list is the one step that may end `IInv`, and sets `misled` where it
  does. The invariant `IInv` has these parts. `Types` gives the shapes. `SlotsOK`:
  what makes an inode show (`valid`, `held`) is durable whenever it is visible, and
  a slot that shows is filled, not marked deleted, and within the table; so
  whatever subset of unfenced stores a crash keeps, the live inodes are the same,
  and a scan finds them. `ThreadsOK`: nobody is at work while the file system is
  not mounted, the number a thread works on has no other owner, and that of a new
  inode has its superpage, and is filled before it is committed. `TreesOK`: the
  ranges of a mounted CPU are apart and cover the taken numbers (`Tree`), and so do
  the saved ranges, if the list is that of this unmount, from the first save until
  they are read; no list counts as fresh while the file system is in use, which is
  why the order of the two saves, and of the two reads, is right. `ScansOK` is the
  loop invariant of
  `failure_thread_func`: tree and pending run have the reserved numbers and the
  live ones before the current slot, and the run is behind the whole tree
  (`Scanned`), so that an insertion overlaps nothing and joins at most with the
  range before it. The lemmas about sets of ranges (`AllocTakes`,
  `AllocFull`, `FreeGives`, `InsertAdds`) say what the four operations on a tree do
  to the numbers it covers, without any state; `AllocFull` is where the two
  ranges that `nova_alloc_unused_inode` looks at turn out to be enough.

Only model-checked: the liveness properties (liveness and ENABLED are out of the
prover's reach), and `InodeLog`, `FileData`, `Namespace` and `Redundancy`. The
first three state what a replay of a log computes, by folds over sequences, and
what such a fold does for every log needs induction over the data, which the
prover cannot do here. In `Redundancy` the verification of a range of stripes is
such a fold (`nova_verify_data_csum`), and the parity is a cardinality modulo 2,
where one changed byte would have to be followed through sets of any size.

## Not modelled

- DAX faults, mmap and its copy-on-write for snapshots (`dax.c`, `mprotect.c`),
  write protection;
- errors of user buffers in in-place writes, `fallocate` racing a change of the
  size;
- the bitmap of the whole device and the free lists that failure recovery builds
  from it (`bbuild.c`), rebuilding the snapshot
  lists for more than one file (`snapshot.c`);
- checksums of directory and attribute entries, whose copies are treated as those
  of write entries are; the alternate log of `metadata_csum`;
- operations on the same directory at once, which the VFS excludes; hash
  collisions of names, which the code ignores; a collection in the middle of an
  operation on the same directory;
- symbolic link targets, ioctl, sysfs, statistics and performance tests: thin or
  stateless;
- the LLVM pass, `is_pmem`, the mock file system and the older Squint modules.

## Plan

1. `Recovery`: the bitmap of the whole device and the free lists built from it,
   with `BlockPool` as what it must restore.
2. mmap with snapshots.
3. `FencePass`: which instructions get a call, as operators with a reference
   definition; the Squint module without throttle.
