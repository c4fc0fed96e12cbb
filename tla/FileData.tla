------------------------------ MODULE FileData ------------------------------
(***************************************************************************)
(* The data of one regular file of NOVA and what recovery makes of it:     *)
(* copy-on-write and in-place writes, writes through the iomap interface,  *)
(* fallocate and truncation (file.c, dax.c, inode.c, log.c), the snapshots *)
(* that keep superseded blocks (snapshot.c), the scan of the log that      *)
(* finds the blocks in use after a crash (bbuild.c) and the rebuild of the *)
(* tree (rebuild.c).  Checksums and parity are off.                        *)
(*                                                                         *)
(* InodeLog models where the log keeps its entries; here the log is the    *)
(* sequence of its entries, and what counts is the contents of the blocks. *)
(* A page has two halves, so that a write or a size may end in mid-page.   *)
(* Operations hold the inode lock and there is one at a time; snapshots    *)
(* and crashes come between any two of its steps.                          *)
(***************************************************************************)
EXTENDS Integers, Sequences, FiniteSets, SequencesExt, FiniteSetsExt

CONSTANTS
    FilePages,     \* bound on the size of the file, in pages
    NBlocks,       \* data blocks of the device
    MAX_PGOFF,     \* pages of the file that one scan of the log covers
    Ranges,        \* what is written: pairs of the first half and the one after the last
    Sizes,         \* what the file is truncated to
    MaxOps,        \* bound on the operations
    MaxSnapshots,  \* bound on the snapshots
    MaxCrashes     \* bound on the crashes

ASSUME FileDataConstants ==
    /\ FilePages \in Nat \ {0} /\ NBlocks \in Nat \ {0} /\ MAX_PGOFF \in Nat \ {0}
    /\ \A r \in Ranges : r[1] \in Nat /\ r[2] \in (r[1] + 1)..(2 * FilePages)
    /\ Sizes \subseteq 0..(2 * FilePages)
    /\ MaxOps \in Nat /\ MaxSnapshots \in Nat /\ MaxCrashes \in Nat

VARIABLES
    cow,         \* the mount option data_cow
    data, dur,   \* the blocks: as seen, and as is durable
    used,        \* blocks that the allocator gave to this file
    log, tail,   \* the entries of the log, and how many of them are committed
    tree,        \* sih->tree: the index in the log of the entry of a page, or 0
    i_size,      \* inode->i_size, in halves of a page
    trans_id,    \* sih->trans_id
    epoch,       \* sbi->s_epoch_id
    held,        \* the blocks on the list of each snapshot, by its epoch id
    pc, op,      \* where the current operation is, and its locals
    file,        \* history: the file that the operations made, as a reader sees it
    view,        \* history: the file when each snapshot was taken
    ops, crashes,
    lost         \* history: what went wrong in a way the code does not handle

blocks == <<data, dur, used>>
dram == <<tree, i_size, trans_id>>
snapshots == <<epoch, held, view>>
vars == <<cow, blocks, log, tail, dram, snapshots, pc, op, file, ops, crashes, lost>>

Blocks == 1..NBlocks
Pages == 0..(FilePages - 1)
MaxSize == 2 * FilePages
Units == 0..(MaxSize - 1)

\* What is in a half of a block: zeros, the number of the operation that wrote
\* it, or what another owner of the block left there.
Zero == 0
Junk == -1
Contents == {Junk, Zero} \cup (1..MaxOps)

PageOf(u) == u \div 2
PagesUpTo(s) == (s + 1) \div 2

WriteEntry(pg, n, b, s, e, t) ==
    [type |-> "write", pgoff |-> pg, num |-> n, block |-> b, size |-> s, epoch |-> e, tid |-> t,
     invalid |-> 0, reassigned |-> FALSE]
AttrEntry(z, s, e, t) == [type |-> "attr", sized |-> z, size |-> s, epoch |-> e, tid |-> t]

\* The locals of an operation on the halves lo..(hi - 1): where it has got to,
\* the epoch id when it began and as it last read it, its first new entry, the
\* blocks of the current piece and the halves it has overwritten in place.
NoOp == [kind |-> "none", lo |-> 0, hi |-> 0, keep |-> FALSE, at |-> 0, since |-> 0, epoch |-> 0,
         begin |-> 0, block |-> 0, num |-> 0, inplace |-> {}]

Init ==
    /\ cow \in BOOLEAN
    /\ data = [b \in Blocks |-> [h \in {0, 1} |-> Junk]]
    /\ dur = data
    /\ used = {}
    /\ log = << >> /\ tail = 0
    /\ tree = [p \in Pages |-> 0]
    /\ i_size = 0 /\ trans_id = 0
    /\ epoch = 0 /\ held = [s \in {} |-> {}] /\ view = held
    /\ pc = "idle" /\ op = NoOp
    /\ file = [u \in {} |-> Zero]
    /\ ops = 0 /\ crashes = 0 /\ lost = {}

-----------------------------------------------------------------------------
(* The tree, the blocks and the snapshots.                                  *)

\* get_nvmm: the block of page p that entry i holds.
get_nvmm(l, i, p) == l[i].block + p - l[i].pgoff

\* What the tree t shows in half u of the file; a hole reads as zeros.
Unit(d, l, t, u) ==
    IF t[PageOf(u)] = 0 THEN Zero ELSE d[get_nvmm(l, t[PageOf(u)], PageOf(u))][u % 2]

Shown(d, l, t, s) == [u \in 0..(s - 1) |-> Unit(d, l, t, u)]

\* Mutant of Keeper: a snapshot of the epoch of the entry does not count.
None == -1
KeeperOfLater(c, d) ==
    LET later == {s \in DOMAIN held : s > c}
    IN  IF c = d \/ later = {} \/ Min(later) >= d THEN None ELSE Min(later)

\* nova_old_entry_deleteable: the snapshot that keeps what was written in epoch
\* c and is superseded in epoch d, the first that is not older than c.
Keeper(c, d) ==
    LET later == {s \in DOMAIN held : s >= c}
    IN  IF c = d \/ later = {} \/ Min(later) >= d THEN None ELSE Min(later)

\* nova_free_old_entry for the pages ps of the file, superseded in epoch d: a
\* block that a snapshot keeps goes on its list, and the others are freed and
\* counted in their entry.  A free block is soon somebody else's.
nova_free_old_entry(ps, d) ==
    LET old == {p \in ps : tree[p] # 0}
        keeper == [p \in old |-> Keeper(log[tree[p]].epoch, d)]
        nvmm == [p \in old |-> get_nvmm(log, tree[p], p)]
        dead == {p \in old : keeper[p] = None}
        freed == {nvmm[p] : p \in dead}
        Scrub(m) == [b \in Blocks |-> IF b \in freed THEN [h \in {0, 1} |-> Junk] ELSE m[b]]
    IN  /\ used' = used \ freed
        /\ held' = [s \in DOMAIN held |->
                      held[s] \cup {nvmm[p] : p \in {q \in old : keeper[q] = s}}]
        /\ log' = [i \in DOMAIN log |->
                     IF \E p \in old : tree[p] = i
                     THEN [log[i] EXCEPT !.reassigned = TRUE,
                                         !.invalid = @ + Cardinality({p \in dead : tree[p] = i})]
                     ELSE log[i]]
        /\ data' = Scrub(data)
        /\ dur' = Scrub(IF old = {} THEN dur ELSE data)

\* nova_new_data_blocks gives a run of at most n blocks.
Runs(k) == {b \in Blocks : b + k - 1 \in Blocks /\ b..(b + k - 1) \cap used = {}}
nova_new_data_blocks(n) ==
    {[num |-> k, block |-> Min(Runs(k))] : k \in {j \in 1..n : Runs(j) # {}}}

\* Mutant: an entry is taken to hold all of its blocks.
ExistingWhole(p, n, e) ==
    LET i == tree[p]
        next == {q \in Pages : q > p /\ tree[q] # 0}
        run == IF i # 0 THEN log[i].num - (p - log[i].pgoff)
               ELSE IF next = {} THEN n ELSE log[tree[Min(next)]].pgoff - p
    IN  [entry |-> i, num |-> Min({n, run}), inplace |-> i # 0 /\ log[i].epoch = e]

\* nova_check_existing_entry for n blocks from page p: the entry that holds p,
\* how many blocks it or the hole goes on for, and whether they may be
\* overwritten in place.
nova_check_existing_entry(p, n, e) ==
    LET i == tree[p]
        next == {q \in Pages : q > p /\ tree[q] # 0}
        run == IF i # 0
               THEN IF log[i].reassigned THEN 1 ELSE log[i].num - (p - log[i].pgoff)
               ELSE IF next = {} THEN n ELSE log[tree[Min(next)]].pgoff - p
    IN  [entry |-> i, num |-> Min({n, run}), inplace |-> i # 0 /\ log[i].epoch = e]

-----------------------------------------------------------------------------
(* Recovery.  The scan of the log, nova_traverse_file_inode_log, goes over  *)
(* it once for every MAX_PGOFF pages of the file, with a ring that has the  *)
(* last entry of each of them.                                              *)

Span(e) == e.pgoff..(e.pgoff + e.num - 1)
Dead(e) == e.type = "write" /\ e.invalid = e.num

\* nova_check_old_entry for the pages ps of the ring, superseded in epoch d: a
\* block that a snapshot keeps is in use and goes on its list again.
nova_check_old_entry(l, r, ps, d) ==
    LET old == {p \in ps : r.ring[p] # 0}
        keeper == [p \in old |-> Keeper(l[r.ring[p]].epoch, d)]
        nvmm == [p \in old |-> get_nvmm(l, r.ring[p], p)]
    IN  [r EXCEPT !.bm = @ \cup {nvmm[p] : p \in {q \in old : keeper[q] # None}},
                  !.held = [s \in DOMAIN @ |->
                              @[s] \cup {nvmm[p] : p \in {q \in old : keeper[q] = s}}]]

\* nova_traverse_file_write_entry with nova_set_ring_array.
TraverseWrite(l, r, i, window) ==
    LET e == l[i]
        ps == IF Dead(e) THEN {} ELSE Span(e) \cap window
    IN  [nova_check_old_entry(l, r, ps, e.epoch) EXCEPT
           !.ring = [p \in DOMAIN @ |-> IF p \in ps THEN i ELSE @[p]],
           !.last = IF Dead(e) THEN @ ELSE Max({@, e.pgoff + e.num - 1}),
           !.size = e.size]

\* Mutant: the size is followed, the pages beyond it stay in the ring.
RingKeepsPages(l, r, i, window) == [r EXCEPT !.size = l[i].size]

nova_ring_setattr_entry(l, r, i, window) ==
    LET e == l[i]
        ps == IF r.size <= e.size THEN {}
              ELSE (PagesUpTo(e.size)..(PagesUpTo(r.size) - 1)) \cap window
    IN  [nova_check_old_entry(l, r, ps, e.epoch) EXCEPT
           !.ring = [p \in DOMAIN @ |-> IF p \in ps THEN 0 ELSE @[p]],
           !.size = e.size]

\* One scan, which ends with nova_set_file_bm.
Scan(l, r, base) ==
    LET window == base..(base + MAX_PGOFF - 1)
        Step(x, i) == IF l[i].type = "write" THEN TraverseWrite(l, x, i, window)
                      ELSE nova_ring_setattr_entry(l, x, i, window)
        end == FoldLeft(Step, r, [i \in DOMAIN l |-> i])
        mine == {p \in window \cap Pages : p <= end.last /\ end.ring[p] # 0}
    IN  [end EXCEPT !.bm = @ \cup {get_nvmm(l, end.ring[p], p) : p \in mine},
                    !.ring = [p \in DOMAIN @ |-> IF p \in mine THEN 0 ELSE @[p]]]

nova_traverse_file_inode_log(l) ==
    LET start == [ring |-> [p \in Pages |-> 0], last |-> 0, size |-> 0, bm |-> {},
                  held |-> [s \in DOMAIN held |-> {}]]
        Again(r, base) == IF base = 0 \/ r.last >= base THEN Scan(l, r, base) ELSE r
        bases == [k \in 1..((FilePages + MAX_PGOFF - 1) \div MAX_PGOFF) |-> (k - 1) * MAX_PGOFF]
    IN  FoldLeft(Again, start, bases)

\* nova_rebuild_handle_write_entry, and nova_apply_setattr_entry with what
\* nova_rebuild_file_inode_tree does for it: the entry with the largest
\* transaction id has the size.
RebuildStep(r, e, i) ==
    LET ps == IF e.type = "attr" \/ Dead(e) THEN {} ELSE Span(e)
        t == [p \in Pages |->
                IF p \in ps THEN i
                ELSE IF e.type = "attr" /\ p >= PagesUpTo(e.size) THEN 0 ELSE r.tree[p]]
        newer == e.tid >= r.tid
    IN  [tree |-> t,
         reassigned |-> r.reassigned \cup {r.tree[p] : p \in {q \in ps : r.tree[q] # 0}},
         size |-> IF newer THEN e.size ELSE r.size,
         tid |-> IF newer THEN e.tid ELSE r.tid]

nova_rebuild_file_inode_tree(l) ==
    LET Step(r, i) == RebuildStep(r, l[i], i)
    IN  FoldLeft(Step, [tree |-> [p \in Pages |-> 0], reassigned |-> {}, size |-> 0, tid |-> 0],
                 [i \in DOMAIN l |-> i])

\* The file as the log shows it, and as a mount of snapshot s does: it stops at
\* the first entry that nova_encounter_mount_snapshot finds too new.
Rebuilt(l) == LET r == nova_rebuild_file_inode_tree(l) IN Shown(data, l, r.tree, r.size)
SnapshotShows(s) ==
    LET new == {i \in 1..tail : log[i].epoch > s}
    IN  Rebuilt(SubSeq(log, 1, IF new = {} THEN tail ELSE Min(new) - 1))

-----------------------------------------------------------------------------
(* Operations.  Each takes the inode lock, reads the epoch id and goes      *)
(* through its range a piece at a time.                                     *)

Begin(kind, lo, hi, keep, start) ==
    /\ pc = "idle" /\ ops < MaxOps
    /\ ops' = ops + 1
    /\ pc' = start
    /\ op' = [NoOp EXCEPT !.kind = kind, !.lo = lo, !.hi = hi, !.keep = keep, !.at = lo,
                          !.since = epoch, !.epoch = epoch]
    /\ UNCHANGED <<cow, blocks, log, tail, dram, snapshots, file, crashes, lost>>

nova_dax_file_write == \E r \in Ranges : Begin("write", r[1], r[2], FALSE, "write")

\* Only without data_cow: otherwise nova_wrap_rw_iter makes it a write.
nova_dax_write_iter ==
    ~cow /\ \E r \in Ranges : Begin("iter", r[1], r[2], FALSE, "iter")

\* It works on whole blocks, and hi is the size that is asked for.
nova_fallocate ==
    \E r \in Ranges, keep \in BOOLEAN : Begin("falloc", 2 * PageOf(r[1]), r[2], keep, "falloc")

\* A new size, or other attributes; lo is the old size and hi the new one.
nova_notify_change ==
    \/ \E hi \in Sizes : Begin("trunc", i_size, hi, FALSE, "attr")
    \/ Begin("chmod", i_size, i_size, FALSE, "attr")

PagesLeft == PagesUpTo(op.hi) - PageOf(op.at)
EndOf(n) == Min({op.hi, 2 * (PageOf(op.at) + n)})
Existing(e) == nova_check_existing_entry(PageOf(op.at), PagesLeft, e)

\* nova_fallocate: what the size is to be.
NewSize == IF op.keep \/ op.hi <= i_size THEN i_size ELSE op.hi

\* The blocks of a piece get what the operation writes into halves ws and, in
\* the rest, what the file has there.
Filled(run, ws) ==
    [b \in Blocks |->
       IF b \in run.block..(run.block + run.num - 1)
       THEN [h \in {0, 1} |-> LET u == 2 * (PageOf(op.at) + b - run.block) + h
                              IN  IF u \in ws THEN ops ELSE Unit(data, log, tree, u)]
       ELSE data[b]]

Zeroed(run) ==
    [b \in Blocks |-> IF b \in run.block..(run.block + run.num - 1)
                      THEN [h \in {0, 1} |-> Zero] ELSE data[b]]

\* Append a write entry for the blocks of run, which is not yet committed.
AppendEntry(run, size, e) ==
    /\ log' = Append(log, WriteEntry(PageOf(op.at), run.num, run.block, size, e, trans_id))
    /\ used' = used \cup (run.block..(run.block + run.num - 1))

\* Where an operation goes when it has done its range: to the commit of its
\* entries if it has any.
After(o, again) ==
    IF o.at < o.hi THEN again ELSE IF o.begin # 0 THEN "commit" ELSE "finish"

\* do_nova_cow_file_write, and the hole of do_nova_inplace_file_write: new
\* blocks, head and tail copied from the old ones, and a new entry.
write_new_blocks ==
    /\ pc = "write" /\ op.at < op.hi
    /\ LET old == Existing(op.epoch)
           n == IF cow THEN PagesLeft ELSE old.num
       IN  /\ cow \/ ~old.inplace
           /\ \E run \in nova_new_data_blocks(n) :
                LET end == EndOf(run.num)
                    o == [op EXCEPT !.at = end, !.begin = IF @ = 0 THEN Len(log) + 1 ELSE @]
                IN  /\ data' = Filled(run, op.at..(end - 1))
                    /\ AppendEntry(run, Max({end, i_size}), op.epoch)
                    /\ op' = o
                    /\ pc' = After(o, "write")
    /\ UNCHANGED <<cow, dur, tail, dram, snapshots, file, ops, crashes, lost>>

\* do_nova_inplace_file_write on an entry of the same epoch: the copy is not
\* ordered before a crash until the journal of the entry's update is fenced.
write_in_place ==
    /\ pc = "write" /\ op.at < op.hi /\ ~cow
    /\ LET old == Existing(op.epoch)
           b == get_nvmm(log, old.entry, PageOf(op.at))
           ws == op.at..(EndOf(old.num) - 1)
       IN  /\ old.inplace
           /\ data' = [x \in Blocks |->
                         [h \in {0, 1} |->
                            IF x >= b /\ 2 * (PageOf(op.at) + x - b) + h \in ws
                            THEN ops ELSE data[x][h]]]
           /\ op' = [op EXCEPT !.num = old.num, !.inplace = @ \cup ws]
    /\ pc' = "entry"
    /\ UNCHANGED <<cow, dur, used, log, tail, dram, snapshots, file, ops, crashes, lost>>

nova_inplace_update_write_entry ==
    /\ pc = "entry"
    /\ LET end == EndOf(op.num)
           o == [op EXCEPT !.at = end]
       IN  /\ log' = [log EXCEPT ![tree[PageOf(op.at)]].size = Max({end, i_size}),
                                 ![tree[PageOf(op.at)]].tid = trans_id]
           /\ op' = o
           /\ pc' = After(o, "write")
           /\ lost' = IF Max({end, i_size}) < log[tree[PageOf(op.at)]].size
                      THEN lost \cup {"shrunk"} ELSE lost
    /\ dur' = data
    /\ UNCHANGED <<cow, data, used, tail, dram, snapshots, file, ops, crashes>>

\* nova_fallocate: an entry of this epoch gets the new size, everything else is
\* replaced by zeroed blocks.
fallocate_existing ==
    /\ pc = "falloc" /\ op.at < op.hi
    /\ LET old == Existing(op.epoch)
           o == [op EXCEPT !.at = EndOf(old.num)]
       IN  /\ old.inplace
           /\ log' = [log EXCEPT ![old.entry].size = Max({@, NewSize})]
           /\ dur' = IF log' = log THEN dur ELSE data
           /\ op' = o
           /\ pc' = After(o, "falloc")
    /\ UNCHANGED <<cow, data, used, tail, dram, snapshots, file, ops, crashes, lost>>

fallocate_new_blocks ==
    /\ pc = "falloc" /\ op.at < op.hi
    /\ LET old == Existing(op.epoch)
       IN  /\ ~old.inplace
           /\ \E run \in nova_new_data_blocks(old.num) :
                LET o == [op EXCEPT !.at = EndOf(run.num),
                                    !.begin = IF @ = 0 THEN Len(log) + 1 ELSE @]
                IN  /\ data' = Zeroed(run)
                    /\ AppendEntry(run, NewSize, op.epoch)
                    /\ op' = o
                    /\ pc' = After(o, "falloc")
           /\ lost' = IF old.entry # 0 THEN lost \cup {"zeroed"} ELSE lost
    /\ UNCHANGED <<cow, dur, tail, dram, snapshots, file, ops, crashes>>

\* nova_dax_get_blocks with create: the epoch id is read again for each piece,
\* and what cannot be overwritten in place gets zeroed blocks, at once
\* committed.  The size in the entry is the old one.
nova_dax_get_blocks ==
    /\ pc = "iter" /\ op.at < op.hi
    /\ LET old == Existing(epoch)
       IN  \/ /\ old.inplace
              /\ op' = [op EXCEPT !.block = get_nvmm(log, old.entry, PageOf(op.at)),
                                  !.num = old.num, !.epoch = epoch]
              /\ pc' = "copy"
              /\ UNCHANGED <<data, used, log, lost>>
           \/ /\ ~old.inplace
              /\ \E run \in nova_new_data_blocks(old.num) :
                   /\ data' = Zeroed(run)
                   /\ AppendEntry(run, i_size, epoch)
                   /\ op' = [op EXCEPT !.block = run.block, !.num = run.num, !.epoch = epoch,
                                       !.begin = Len(log) + 1]
              /\ pc' = "commit"
              /\ lost' = IF old.entry # 0 THEN lost \cup {"zeroed"} ELSE lost
    /\ UNCHANGED <<cow, dur, tail, dram, snapshots, file, ops, crashes>>

\* dax_iomap_rw copies into the blocks it was given.
dax_iomap_rw ==
    /\ pc = "copy"
    /\ LET ws == op.at..(EndOf(op.num) - 1)
           o == [op EXCEPT !.at = EndOf(op.num), !.inplace = @ \cup ws]
       IN  /\ data' = [x \in Blocks |->
                         [h \in {0, 1} |->
                            IF x >= op.block /\ 2 * (PageOf(op.at) + x - op.block) + h \in ws
                            THEN ops ELSE data[x][h]]]
           /\ op' = o
           /\ pc' = After(o, "iter")
    /\ UNCHANGED <<cow, dur, used, log, tail, dram, snapshots, file, ops, crashes, lost>>

\* Mutant: the tail is stored without the fence in front of it.
UpdateInodeUnfenced ==
    /\ pc = "commit"
    /\ tail' = Len(log)
    /\ pc' = "assign"
    /\ UNCHANGED <<cow, blocks, log, dram, snapshots, op, file, ops, crashes, lost>>

\* nova_update_inode stores the new tail of the log between two fences.
nova_update_inode ==
    /\ pc = "commit"
    /\ tail' = Len(log)
    /\ dur' = data
    /\ pc' = "assign"
    /\ UNCHANGED <<cow, data, used, log, dram, snapshots, op, file, ops, crashes, lost>>

\* The last of the entries from index i on that holds page p, or 0.
NewEntry(i, p) ==
    LET es == {j \in i..Len(log) : p \in log[j].pgoff..(log[j].pgoff + log[j].num - 1)}
    IN  IF es = {} THEN 0 ELSE Max(es)

nova_reassign_file_tree ==
    /\ pc = "assign"
    /\ LET touched == {p \in Pages : NewEntry(op.begin, p) # 0}
       IN  /\ nova_free_old_entry(touched, op.epoch)
           /\ tree' = [p \in Pages |-> IF p \in touched THEN NewEntry(op.begin, p) ELSE tree[p]]
    /\ op' = [op EXCEPT !.begin = 0]
    /\ pc' = IF op.kind = "iter" THEN "copy" ELSE "finish"
    /\ trans_id' = IF op.kind = "iter" THEN trans_id + 1 ELSE trans_id
    /\ UNCHANGED <<cow, tail, i_size, epoch, view, file, ops, crashes, lost>>

SizeOf(f) == Cardinality(DOMAIN f)

\* What an operation makes of the file f: halves ws are written, the size is s,
\* and halves that were not part of the file are zeros.
Made(f, ws, s) ==
    [u \in 0..(s - 1) |-> IF u \in ws THEN ops ELSE IF u \in DOMAIN f THEN f[u] ELSE Zero]

\* The file when the operation is done.
Result ==
    CASE op.kind \in {"write", "iter"} -> Made(file, op.lo..(op.hi - 1), Max({SizeOf(file), op.hi}))
      [] op.kind = "falloc" /\ ~op.keep -> Made(file, {}, Max({SizeOf(file), op.hi}))
      [] op.kind = "trunc" -> Made(file, {}, op.hi)
      [] OTHER -> file

\* A snapshot that was taken during the operation shows it done.
Settle ==
    view' = [s \in DOMAIN view |->
               IF op.kind # "iter" /\ s >= op.epoch THEN file' ELSE view[s]]

\* The end of an operation: the size, and for a synchronous nova_dax_write_iter
\* the fence of nova_fsync.  A size that is not in the log is not durable.
finish ==
    /\ pc = "finish"
    /\ file' = Result
    /\ i_size' = SizeOf(file')
    /\ trans_id' = IF op.kind = "iter" THEN trans_id ELSE trans_id + 1
    /\ dur' = IF op.kind = "iter" THEN data ELSE dur
    /\ Settle
    /\ pc' = "idle" /\ op' = NoOp
    /\ lost' = IF nova_rebuild_file_inode_tree(log).size # i_size' THEN lost \cup {"size"} ELSE lost
    /\ UNCHANGED <<cow, data, used, log, tail, tree, epoch, held, ops, crashes>>

\* An entry that was updated in place already has a larger size.
Outgrown ==
    \/ op.kind = "falloc" /\ op.at > op.lo /\ NewSize > i_size
    \/ \E u \in op.inplace : u >= i_size

\* No blocks for the next piece.  nova_cleanup_incomplete_write frees those of
\* the entries that are not committed; a write through iomap ends short.
no_space ==
    /\ pc \in {"write", "falloc", "iter"} /\ op.at < op.hi
    /\ \/ cow /\ op.kind = "write"
       \/ ~Existing(IF op.kind = "iter" THEN epoch ELSE op.epoch).inplace
    /\ LET freed == UNION {log[i].block..(log[i].block + log[i].num - 1) :
                             i \in (tail + 1)..Len(log)}
           Scrub(m) == [b \in Blocks |-> IF b \in freed THEN [h \in {0, 1} |-> Junk] ELSE m[b]]
       IN  used' = used \ freed /\ data' = Scrub(data) /\ dur' = Scrub(dur)
    /\ log' = SubSeq(log, 1, tail)
    /\ IF op.kind = "iter" /\ op.at > op.lo
       THEN /\ op' = [op EXCEPT !.hi = op.at]
            /\ pc' = "finish"
            /\ UNCHANGED <<file, view, lost>>
       ELSE /\ file' = Made(file, op.inplace, i_size)
            /\ lost' = IF Outgrown THEN lost \cup {"short"} ELSE lost
            /\ Settle
            /\ op' = NoOp /\ pc' = "idle"
    /\ UNCHANGED <<cow, tail, dram, epoch, held, ops, crashes>>

-----------------------------------------------------------------------------
(* Truncation.  The entry with the new size is committed first.             *)

\* nova_can_inplace_update_setattr, nova_inplace_update_setattr_entry and
\* nova_append_setattr_entry: the last entry is overwritten unless it or the new
\* one sets the size.  Blocks that fallocate put beyond the end of the file are
\* not part of what the entry truncates.
nova_handle_setattr_operation ==
    /\ pc = "attr"
    /\ LET attrs == {i \in DOMAIN log : log[i].type = "attr"}
           last == Max(attrs)
           entry == AttrEntry(op.kind = "trunc", op.hi, op.epoch, trans_id)
       IN  log' = IF /\ op.kind = "chmod" /\ attrs # {}
                     /\ ~log[last].sized /\ log[last].epoch = op.epoch
                  THEN [log EXCEPT ![last] = entry]
                  ELSE Append(log, entry)
    /\ tail' = Len(log')
    /\ dur' = data
    /\ pc' = IF op.hi = op.lo THEN "finish" ELSE "size"
    /\ lost' = IF \E p \in Pages : p >= PagesUpTo(Max({op.lo, op.hi})) /\ tree[p] # 0
               THEN lost \cup {"beyond"} ELSE lost
    /\ UNCHANGED <<cow, data, used, dram, snapshots, op, file, ops, crashes>>

\* The rest of the last page is zeroed where it is, without a fence, and whether
\* or not a snapshot shows it.
nova_clear_last_page_tail(newsize) ==
    LET p == PageOf(newsize)
    IN  IF newsize % 2 = 0 \/ newsize > i_size \/ tree[p] = 0 THEN data
        ELSE [data EXCEPT ![get_nvmm(log, tree[p], p)][1] = Zero]

\* nova_setsize up to the new size.
nova_setsize ==
    /\ pc = "size"
    /\ data' = nova_clear_last_page_tail(op.hi)
    /\ lost' = IF data' # data /\ \E s \in DOMAIN held : s >= log[tree[PageOf(op.hi)]].epoch
               THEN lost \cup {"snapshot"} ELSE lost
    /\ i_size' = op.hi
    /\ pc' = "cut"
    /\ UNCHANGED <<cow, dur, used, log, tail, tree, trans_id, snapshots, op, file, ops, crashes>>

\* Mutant: the first block beyond the new size leaves the tree, but is not freed.
DeleteKeepsFirst(first) ==
    LET cut == {p \in Pages : p >= first}
    IN  /\ nova_free_old_entry(cut \ {first}, op.epoch)
        /\ tree' = [p \in Pages |-> IF p \in cut THEN 0 ELSE tree[p]]

\* It goes on to the last block there is.
nova_delete_file_tree(first) ==
    LET cut == {p \in Pages : p >= first}
    IN  /\ nova_free_old_entry(cut, op.epoch)
        /\ tree' = [p \in Pages |-> IF p \in cut THEN 0 ELSE tree[p]]

nova_truncate_file_blocks ==
    /\ pc = "cut"
    /\ IF op.lo = 0 \/ PagesUpTo(op.hi) > PagesUpTo(op.lo) - 1
       THEN UNCHANGED <<blocks, log, tree, held>>
       ELSE nova_delete_file_tree(PagesUpTo(op.hi))
    /\ pc' = "finish"
    /\ UNCHANGED <<cow, tail, i_size, trans_id, epoch, view, op, file, ops, crashes, lost>>

-----------------------------------------------------------------------------
(* Snapshots, crashes and recovery.                                         *)

\* A write through iomap reads the epoch id for each piece, so that a snapshot
\* shows the pieces up to the current one.
nova_create_snapshot ==
    /\ pc # "down" /\ Cardinality(DOMAIN held) < MaxSnapshots
    /\ LET piece == IF pc \in {"commit", "assign", "copy"} THEN op.at..(EndOf(op.num) - 1) ELSE {}
           now == IF op.kind = "iter" THEN Made(file, op.inplace \cup piece, i_size) ELSE file
       IN  /\ held' = [s \in DOMAIN held \cup {epoch} |-> IF s = epoch THEN {} ELSE held[s]]
           /\ view' = [s \in DOMAIN held' |-> IF s = epoch THEN now ELSE view[s]]
    /\ epoch' = epoch + 1
    /\ UNCHANGED <<cow, blocks, log, tail, dram, pc, op, file, ops, crashes, lost>>

\* Halves that are not yet durable may be lost, and so is what is in DRAM; held
\* and op stay to compare with what is recovered.
Crash ==
    /\ pc # "down" /\ crashes < MaxCrashes
    /\ \E kept \in SUBSET {x \in Blocks \X {0, 1} : data[x[1]][x[2]] # dur[x[1]][x[2]]} :
         data' = [b \in Blocks |-> [h \in {0, 1} |-> IF <<b, h>> \in kept THEN data[b][h] ELSE dur[b][h]]]
    /\ dur' = data'
    /\ log' = SubSeq(log, 1, tail)
    /\ tree' = [p \in Pages |-> 0] /\ i_size' = 0 /\ trans_id' = 0
    /\ pc' = "down"
    /\ UNCHANGED <<cow, used, tail, snapshots, op, file, ops, crashes, lost>>

\* There is data beyond the end of the file.
DirtyTail(l, t, s) == \E u \in Units : u >= s /\ Unit(data, l, t, u) # Zero

\* Entry i has a page in tree t but not all that follow, and does not say so.
Overruns(l, t, i) ==
    /\ ~l[i].reassigned
    /\ \E p, q \in Span(l[i]) : p < q /\ t[p] = i /\ t[q] # i

\* nova_recovery after a crash, and the rebuild of the inode when it is next
\* read.  The epoch id is that of the last snapshot again.
nova_recovery ==
    /\ pc = "down"
    /\ LET scan == nova_traverse_file_inode_log(log)
           reb == nova_rebuild_file_inode_tree(log)
           Scrub(m) == [b \in Blocks |-> IF b \in scan.bm THEN m[b] ELSE [h \in {0, 1} |-> Junk]]
       IN  /\ used' = scan.bm
           /\ held' = scan.held
           /\ log' = [i \in DOMAIN log |->
                        IF i \in reb.reassigned THEN [log[i] EXCEPT !.reassigned = TRUE] ELSE log[i]]
           /\ tree' = reb.tree
           /\ i_size' = reb.size
           /\ trans_id' = reb.tid + 1
           /\ file' = Shown(data, log, reb.tree, reb.size)
           /\ data' = Scrub(data) /\ dur' = data'
           /\ lost' = lost \cup (IF DOMAIN held # {} THEN {"epoch"} ELSE {})
                           \cup (IF DirtyTail(log, reb.tree, reb.size) THEN {"tail"} ELSE {})
                           \cup (IF \E i \in DOMAIN log' :
                                      log'[i].type = "write" /\ Overruns(log', reb.tree, i)
                                 THEN {"overrun"} ELSE {})
    /\ view' = [s \in DOMAIN view |-> SnapshotShows(s)]
    /\ epoch' = IF DOMAIN held = {} THEN epoch ELSE Max(DOMAIN held)
    /\ pc' = "idle" /\ op' = NoOp
    /\ crashes' = crashes + 1
    /\ UNCHANGED <<cow, tail, ops>>

Next ==
    \/ nova_dax_file_write \/ nova_dax_write_iter \/ nova_fallocate \/ nova_notify_change
    \/ write_new_blocks \/ write_in_place \/ nova_inplace_update_write_entry
    \/ fallocate_existing \/ fallocate_new_blocks
    \/ nova_dax_get_blocks \/ dax_iomap_rw
    \/ nova_update_inode \/ nova_reassign_file_tree \/ no_space
    \/ nova_handle_setattr_operation \/ nova_setsize \/ nova_truncate_file_blocks
    \/ finish
    \/ nova_create_snapshot \/ Crash \/ nova_recovery

Spec == Init /\ [][Next]_vars

\* Nothing has gone wrong in a way that the code does not handle.
Handled == lost = {}

-----------------------------------------------------------------------------
(* Reading.                                                                 *)

\* do_dax_mapping_read from page p on: the entry that each page is read from.
\* One that is not marked reassigned is read to its end.
Source(p) ==
    LET src[q \in p..(FilePages - 1)] ==
          IF q > p /\ src[q - 1] # 0 /\ ~log[src[q - 1]].reassigned /\ q \in Span(log[src[q - 1]])
          THEN src[q - 1] ELSE tree[q]
    IN  src

do_dax_mapping_read(p) ==
    LET src == Source(p)
    IN  [u \in (2 * p)..(i_size - 1) |-> Unit(data, log, src, u)]

-----------------------------------------------------------------------------
(* Properties.                                                              *)

TypeOK ==
    /\ cow \in BOOLEAN
    /\ data \in [Blocks -> [{0, 1} -> Contents]] /\ dur \in [Blocks -> [{0, 1} -> Contents]]
    /\ used \subseteq Blocks
    /\ tail \in 0..Len(log)
    /\ tree \in [Pages -> 0..Len(log)]
    /\ i_size \in 0..MaxSize
    /\ trans_id \in Nat /\ epoch \in 0..MaxSnapshots
    /\ DOMAIN held \subseteq 0..MaxSnapshots /\ \A s \in DOMAIN held : held[s] \subseteq Blocks
    /\ DOMAIN view = DOMAIN held
    /\ ops \in 0..MaxOps /\ crashes \in 0..MaxCrashes

\* A read from any page on returns the file that the operations made
\* (do_dax_mapping_read, file.c): no block of it is lost, replaced or reused,
\* and the runs of blocks that one entry stands for are still its own.
ReadsBack ==
    Handled /\ pc = "idle" =>
      \A p \in Pages : \A u \in (2 * p)..(SizeOf(file) - 1) :
        i_size = SizeOf(file) /\ do_dax_mapping_read(p)[u] = file[u]

\* What a crash may leave of an operation on the way.  Copy-on-write, fallocate
\* and truncation are done or not done; an overwrite in place may have got as
\* far as any half.
Survives(f) ==
    IF op.kind = "iter" \/ (op.kind = "write" /\ ~cow)
    THEN /\ SizeOf(f) \in SizeOf(file)..Max({SizeOf(file), op.hi})
         /\ \A u \in DOMAIN f :
              \/ f[u] = Made(file, {}, SizeOf(f))[u]
              \/ u \in op.lo..(op.hi - 1) /\ f[u] = ops
    ELSE f \in {file, Result}

\* After a crash the log rebuilds to the file before or after the operation that
\* was interrupted (nova_rebuild_file_inode_tree, rebuild.c).
CrashKeeps == Handled /\ pc = "down" => Survives(Rebuilt(log))

\* The blocks that the scan of the log finds in use after a crash
\* (nova_traverse_file_inode_log, bbuild.c) are those of the rebuilt tree and
\* those that the snapshots keep, each for one purpose; between operations they
\* are the ones that were in use before, on the same lists.
RecoveryExact ==
    Handled /\ pc = "down" =>
      LET scan == nova_traverse_file_inode_log(log)
          reb == nova_rebuild_file_inode_tree(log)
          mine == {get_nvmm(log, reb.tree[p], p) : p \in {q \in Pages : reb.tree[q] # 0}}
      IN  /\ scan.bm = mine \cup UNION {scan.held[s] : s \in DOMAIN scan.held}
          /\ \A s \in DOMAIN scan.held : scan.held[s] \cap mine = {}
          /\ op.kind = "none" => scan.bm = used /\ scan.held = held

\* A snapshot keeps showing the file it was taken of, whatever is written,
\* truncated or recovered afterwards; one that was taken during an operation
\* shows it once it is done.
SnapshotStays ==
    Handled => \A s \in DOMAIN held :
      \/ pc \notin {"idle", "down"}
      \/ SnapshotShows(s) = view[s]
      \/ pc = "down" /\ s >= op.since /\ Survives(SnapshotShows(s))

\* Between operations every block that was allocated is in the tree once or on
\* the list of one snapshot; all else has its type.
BlocksOwned ==
    /\ TypeOK
    /\ Handled /\ pc = "idle" =>
      LET mine == [p \in {q \in Pages : tree[q] # 0} |-> get_nvmm(log, tree[p], p)]
          owned == {mine[p] : p \in DOMAIN mine}
      IN  /\ used = owned \cup UNION {held[s] : s \in DOMAIN held}
          /\ Cardinality(owned) = Cardinality(DOMAIN mine)
          /\ \A s \in DOMAIN held : held[s] \cap owned = {}
          /\ \A s, t \in DOMAIN held : s # t => held[s] \cap held[t] = {}

=============================================================================
