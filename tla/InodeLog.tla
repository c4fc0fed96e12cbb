------------------------------ MODULE InodeLog ------------------------------
(***************************************************************************)
(* The log of one regular file of NOVA: appending entries (log.c), the     *)
(* copy-on-write write and the attribute changes that use it (file.c,      *)
(* inode.c, dax.c), garbage collection (gc.c) and the rebuild at the next  *)
(* mount (rebuild.c), with metadata checksums off, so that there is no     *)
(* alternate log.                                                          *)
(*                                                                         *)
(* The log is a list of pages.  A file operation appends its entries after *)
(* the tail, commits by storing the new tail, and only then updates the    *)
(* tree that finds the data of a page of the file, marks the entries that  *)
(* are superseded and frees their blocks.  When the last page is full the  *)
(* log is extended, and pages with no valid entry leave the list; a log    *)
(* that is mostly invalid is copied.                                       *)
(*                                                                         *)
(* Operations hold the inode lock, so there is one at a time; a crash may  *)
(* come between any two steps.  Persistent memory is a function from       *)
(* locations to values, kept twice: what the CPU sees and what is durable. *)
(* A fence makes them equal, and a crash keeps any of the stores since.    *)
(***************************************************************************)
EXTENDS Integers, Sequences, FiniteSets, SequencesExt, FiniteSetsExt

CONSTANTS
    NPages,            \* blocks that the log may get from the allocator
    PerPage,           \* entries that fit a log page
    FilePages,         \* bound on the size of the file, in pages
    EXTEND_THRESHOLD,  \* most pages that one extension asks for
    MaxOps,            \* bound on the operations
    MaxCrashes         \* bound on the crashes

ASSUME InodeLogConstants ==
    /\ NPages \in Nat \ {0} /\ PerPage \in Nat \ {0} /\ FilePages \in Nat \ {0}
    /\ EXTEND_THRESHOLD \in Nat \ {0} /\ MaxOps \in Nat /\ MaxCrashes \in Nat

VARIABLES
    mem, dur,      \* the inode and the log pages: as seen, and as is durable
    free,          \* blocks that are free for log pages
    data,          \* data blocks in use, named by the write and the page of the file
    tree,          \* sih->tree: where the write entry of each page of the file is
    last_setattr,  \* sih->last_setattr
    trans_id,      \* sih->trans_id
    size, mode,    \* inode->i_size in pages, inode->i_mode
    log_pages,     \* sih->log_pages
    log_head, log_tail,  \* sih->log_head and sih->log_tail, what the operations go by
    pc, op,        \* where the current operation is, and its locals
    file,          \* history: the file as of the last commit
    ops, crashes,  \* history: how many there were
    lost           \* history: what went wrong in a way the code does not handle

memory == <<mem, dur, free, data>>
dram == <<tree, last_setattr, trans_id, size, mode, log_pages, log_head, log_tail>>
vars == <<memory, dram, pc, op, file, ops, crashes, lost>>

Pages == 1..NPages
PageOffsets == 0..(FilePages - 1)
Sizes == 0..FilePages
Modes == {0, 1}

\* A place in the log is a page and a slot; the slot after the last one is
\* where the next entry no longer fits.
NULL == <<0, 0>>
Slots == 1..PerPage
Places == Pages \X (1..(PerPage + 1))

LogHead == <<"log_head", 0, 0>>
LogTail == <<"log_tail", 0, 0>>
ISize == <<"i_size", 0, 0>>
IMode == <<"i_mode", 0, 0>>
NextOf(p) == <<"next_page", p, 0>>
Num(p) == <<"num_entries", p, 0>>
Inv(p) == <<"invalid_entries", p, 0>>
Slot(a) == <<"entry", a[1], a[2]>>

Locations ==
    {LogHead, LogTail, ISize, IMode} \cup {NextOf(p) : p \in Pages} \cup {Num(p) : p \in Pages}
      \cup {Inv(p) : p \in Pages} \cup {Slot(a) : a \in Pages \X Slots}

\* What a page holds that was somebody else's, and the mark NEXT_PAGE.
Junk == [type |-> "junk"]
NextPage == [type |-> "next"]

\* A write entry: the pages lo..hi of the file, written by write id, of which
\* invalid were superseded.  An attribute entry: isSize is ATTR_SIZE in attr.
WriteEntry(lo, hi, id, s, t) ==
    [type |-> "write", lo |-> lo, hi |-> hi, id |-> id, size |-> s, tid |-> t, invalid |-> 0]
AttrEntry(isSize, s, m, t) ==
    [type |-> "attr", isSize |-> isSize, size |-> s, mode |-> m, tid |-> t, invalid |-> 0]

NumPages(e) == e.hi - e.lo + 1

\* curr_log_entry_invalid
Invalid(e) ==
    \/ e.type = "write" /\ e.invalid = NumPages(e)
    \/ e.type = "attr" /\ e.invalid = 1

\* The locals of an operation: the entries it has yet to append and the places
\* of the others, update->tail, and those of the garbage collection.
NoOp == [kind |-> "none", todo |-> << >>, places |-> << >>, tail |-> NULL, inAppend |-> FALSE,
         new |-> 0, num |-> 0, freed |-> 0, blocks |-> 0, old |-> << >>, copy |-> << >>]

EmptyFile == [map |-> [p \in PageOffsets |-> 0], size |-> 0, mode |-> 0]

Init ==
    /\ mem = [l \in Locations |->
                CASE l = LogTail -> NULL
                  [] l[1] = "entry" -> Junk
                  [] OTHER -> 0]
    /\ dur = mem
    /\ free = Pages
    /\ data = {}
    /\ tree = [p \in PageOffsets |-> NULL]
    /\ last_setattr = NULL
    /\ trans_id = 0
    /\ size = 0 /\ mode = 0
    /\ log_pages = 0 /\ log_head = 0 /\ log_tail = NULL
    /\ pc = "idle" /\ op = NoOp
    /\ file = EmptyFile
    /\ ops = 0 /\ crashes = 0 /\ lost = {}

-----------------------------------------------------------------------------
(* Memory.                                                                  *)

Store(m, l, v) == [m EXCEPT ![l] = v]

\* A store that is flushed and fenced: with it everything before is durable.
Persist(m) == mem' = m /\ dur' = m

\* A block that is given back may be overwritten by its next owner.
Scrub(m, ps) ==
    [l \in Locations |->
       IF l[2] \notin ps THEN m[l] ELSE IF l[1] = "entry" THEN Junk ELSE 0]

\* nova_coalesce_log_pages: the pages ps, a sequence, become a list.  Their
\* entries are not cleared (ALLOC_NO_INIT).
Coalesced(m, ps) ==
    [l \in Locations |->
       IF l[2] \in ToSet(ps) /\ l[1] # "entry"
       THEN LET i == CHOOSE j \in DOMAIN ps : ps[j] = l[2]
            IN  IF l[1] = "next_page" /\ i < Len(ps) THEN ps[i + 1] ELSE 0
       ELSE m[l]]

\* nova_allocate_inode_log_pages: whatever there is, up to n pages.
Allocated(n) == LET all == SetToSortSeq(free, <) IN SubSeq(all, 1, Min({n, Len(all)}))

\* The pages that follow page p in the list, p included, up to page stop.
PagesFrom(m, p, stop) ==
    LET walk[n \in 0..NPages] ==
          IF n = 0 THEN << >>
          ELSE LET done == walk[n - 1]
                   next == IF done = << >> THEN p ELSE m[NextOf(Last(done))]
               IN  IF next \in {0, stop} \/ next \in ToSet(done) THEN done
                   ELSE Append(done, next)
    IN  walk[NPages]

Chain(m) == PagesFrom(m, m[LogHead], 0)

-----------------------------------------------------------------------------
(* Reading the log: nova_rebuild_file_inode_tree.                           *)

IsEntry(e) == e.type \in {"write", "attr"}

\* The places of the entries from the head to the tail.  After a hop to the
\* next page the code reads an entry without comparing with the tail again.
\* ok is FALSE where the code would meet BUG() or an entry of unknown type.
Walk(m) ==
    LET walk[n \in 0..(NPages * (PerPage + 1))] ==
          IF n = 0 THEN [at |-> <<m[LogHead], 1>>, places |-> << >>, ok |-> TRUE]
          ELSE LET s == walk[n - 1]
                   hop == s.at[2] > PerPage \/ m[Slot(s.at)] = NextPage
                   here == IF hop THEN <<m[NextOf(s.at[1])], 1>> ELSE s.at
               IN  IF ~s.ok \/ s.at = m[LogTail] THEN s
                   ELSE IF here[1] = 0 \/ ~IsEntry(m[Slot(here)]) THEN [s EXCEPT !.ok = FALSE]
                   ELSE [s EXCEPT !.at = <<here[1], here[2] + 1>>,
                                  !.places = Append(@, here)]
        end == walk[NPages * (PerPage + 1)]
    IN  IF m[LogHead] = 0 \/ m[LogTail] = NULL THEN [at |-> NULL, places |-> << >>, ok |-> TRUE]
        ELSE [end EXCEPT !.ok = @ /\ end.at = m[LogTail]]

Committed(m) == Walk(m).places

\* nova_rebuild_handle_write_entry: an entry with a page left is assigned whole,
\* what follows in the log takes back the pages it superseded.
ReplayWrite(r, a, e) ==
    LET newest == e.tid >= r.tid
    IN  [r EXCEPT !.tree = IF Invalid(e) THEN @
                           ELSE [p \in PageOffsets |-> IF p \in e.lo..e.hi THEN a ELSE @[p]],
                  !.size = IF newest THEN e.size ELSE @,
                  !.tid = IF newest THEN e.tid ELSE @]

\* nova_apply_setattr_entry: also an entry that changes no size cuts the tree.
ReplayAttr(r, a, e) ==
    LET newest == e.tid >= r.tid
    IN  [r EXCEPT !.tree = [p \in PageOffsets |-> IF p >= e.size THEN NULL ELSE @[p]],
                  !.mode = e.mode,
                  !.last = a,
                  !.size = IF newest THEN e.size ELSE @,
                  !.tid = IF newest THEN e.tid ELSE @]

Rebuilt(m) ==
    FoldLeft(LAMBDA r, a : IF m[Slot(a)].type = "write" THEN ReplayWrite(r, a, m[Slot(a)])
                                                        ELSE ReplayAttr(r, a, m[Slot(a)]),
             [tree |-> [p \in PageOffsets |-> NULL], size |-> m[ISize], mode |-> m[IMode],
              last |-> NULL, tid |-> 0],
             Committed(m))

\* The write whose data is found through place a.
DataAt(m, a) ==
    IF a = NULL THEN 0 ELSE IF m[Slot(a)].type = "write" THEN m[Slot(a)].id ELSE -1

\* The file that a tree, a size and a mode describe.
Contents(m, t, s, md) ==
    [map |-> [p \in PageOffsets |-> DataAt(m, t[p])], size |-> s, mode |-> md]

Recovered(m) == LET r == Rebuilt(m) IN Contents(m, r.tree, r.size, r.mode)

-----------------------------------------------------------------------------
(* Superseding entries, after a commit.                                     *)

\* nova_execute_invalidate_reassign_logentry: n pages of the entry at place a
\* are superseded; an entry that has none left counts as invalid in its page.
Invalidated(m, a, n) ==
    LET e == [m[Slot(a)] EXCEPT !.invalid = @ + n]
    IN  [m EXCEPT ![Slot(a)] = e, ![Inv(a[1])] = IF Invalid(e) THEN @ + 1 ELSE @]

\* nova_free_old_entry for the pages ps.  (Runs of pages that have the same
\* entry are freed together; each page counts once either way.)
Superseded(m, t, ps) ==
    FoldLeft(LAMBDA x, p : Invalidated(x, t[p], 1), m,
             SetToSortSeq({p \in ps : t[p] # NULL}, <))

OldData(m, t, ps) == {<<DataAt(m, t[p]), p>> : p \in {q \in ps : t[q] # NULL}}

-----------------------------------------------------------------------------
(* Starting an operation.                                                   *)

Begin == pc = "idle" /\ ops < MaxOps /\ ops' = ops + 1

\* The entries of a write of the pages lo..hi: the allocator may give the blocks
\* in several pieces, cut after the pages in cuts.
WriteEntries(lo, hi, cuts) ==
    LET ends == SetToSortSeq(cuts \cup {hi}, <)
    IN  [i \in DOMAIN ends |->
           WriteEntry(IF i = 1 THEN lo ELSE ends[i - 1] + 1, ends[i], ops + 1,
                      Max({size, ends[i] + 1}), trans_id)]

do_nova_cow_file_write ==
    /\ Begin
    /\ \E lo \in PageOffsets : \E hi \in lo..(FilePages - 1) : \E cuts \in SUBSET (lo..(hi - 1)) :
         op' = [NoOp EXCEPT !.kind = "write", !.todo = WriteEntries(lo, hi, cuts),
                            !.tail = log_tail]
    /\ pc' = "append"
    /\ UNCHANGED <<memory, dram, file, crashes, lost>>

\* The copy from the user's buffer faults at once: the entry is appended and
\* committed, with the size as far as the copy came.
cow_write_fault ==
    /\ Begin
    /\ \E lo \in PageOffsets :
         op' = [NoOp EXCEPT !.kind = "fault", !.tail = log_tail,
                  !.todo = << WriteEntry(lo, lo, ops + 1, Max({size, lo}), trans_id) >>]
    /\ pc' = "append"
    /\ UNCHANGED <<memory, dram, file, crashes, lost>>

\* nova_can_inplace_update_setattr, without snapshots.
CanUpdateInplace == last_setattr # NULL /\ ~mem[Slot(last_setattr)].isSize

\* The newest attribute entry in the log, which is the one that counts.
NewestAttr ==
    LET attrs == SelectSeq(Committed(mem), LAMBDA a : mem[Slot(a)].type = "attr")
    IN  IF attrs = << >> THEN NULL ELSE Last(attrs)

\* nova_notify_change without ATTR_SIZE.  The inode takes the mode first
\* (setattr_copy); the update in place is a transaction of the lite journal.
setattr_mode ==
    /\ Begin
    /\ \E m \in Modes :
         LET e == AttrEntry(FALSE, size, m, trans_id)
         IN  /\ mode' = m
             /\ IF CanUpdateInplace
                THEN /\ Persist(Store(mem, Slot(last_setattr), e))
                     /\ file' = [file EXCEPT !.mode = m]
                     /\ lost' = IF last_setattr = NewestAttr THEN lost ELSE {"misplaced"}
                     /\ trans_id' = trans_id + 1
                     /\ UNCHANGED <<pc, op>>
                ELSE /\ op' = [NoOp EXCEPT !.kind = "attr", !.todo = << e >>,
                                           !.tail = log_tail]
                     /\ pc' = "append"
                     /\ UNCHANGED <<mem, dur, file, lost, trans_id>>
    /\ UNCHANGED <<free, data, tree, last_setattr, size, log_pages, log_head, log_tail, crashes>>

\* nova_notify_change with ATTR_SIZE.
setattr_size ==
    /\ Begin
    /\ \E s \in Sizes :
         op' = [NoOp EXCEPT !.kind = "attr", !.todo = << AttrEntry(TRUE, s, mode, trans_id) >>,
                            !.tail = log_tail]
    /\ pc' = "append"
    /\ UNCHANGED <<memory, dram, file, crashes, lost>>

\* nova_seq_gc: collection on request, with force_thorough.
nova_seq_gc ==
    /\ Begin
    /\ op' = [NoOp EXCEPT !.kind = "gc"]
    /\ pc' = "fast_gc"
    /\ UNCHANGED <<memory, dram, file, crashes, lost>>

-----------------------------------------------------------------------------
(* Appending: nova_append_log_entry, nova_get_append_head.                  *)

PageFull(a) == a[2] > PerPage

\* Fault: the blocks of a failed write are not freed.
Fail_keep ==
    /\ pc' = "idle" /\ op' = NoOp
    /\ UNCHANGED <<memory, dram, file, ops, crashes, lost>>

\* -ENOSPC: nova_cleanup_incomplete_write frees the blocks of the write.  The
\* entries stay behind the tail; the inode keeps the mode it took.
Fail ==
    /\ data' = {d \in data : d[1] # ops}
    /\ pc' = "idle" /\ op' = NoOp
    /\ UNCHANGED <<mem, dur, free, dram, file, ops, crashes, lost>>

\* nova_initialize_inode_log: the page is durable, log_tail and log_head are
\* two stores before one fence.
nova_initialize_inode_log ==
    /\ pc = "append" /\ op.tail = NULL
    /\ IF free = {} THEN Fail
       ELSE LET ps == Allocated(1)
                m == Coalesced(mem, ps)
            IN  /\ dur' = m
                /\ mem' = [m EXCEPT ![LogHead] = ps[1], ![LogTail] = <<ps[1], 1>>]
                /\ free' = free \ ToSet(ps)
                /\ log_pages' = 1
                /\ log_head' = ps[1] /\ log_tail' = <<ps[1], 1>>
                /\ op' = [op EXCEPT !.tail = <<ps[1], 1>>, !.inAppend = TRUE]
                /\ pc' = "fence"
                /\ UNCHANGED <<data, tree, last_setattr, trans_id, size, mode, file, ops,
                               crashes, lost>>

fence ==
    /\ pc = "fence"
    /\ dur' = mem
    /\ pc' = "append"
    /\ UNCHANGED <<mem, free, data, dram, op, file, ops, crashes, lost>>

\* nova_extend_inode_log, up to the call of nova_inode_log_fast_gc.
nova_extend_inode_log ==
    /\ pc = "append" /\ op.tail # NULL
    /\ PageFull(op.tail) /\ mem[NextOf(op.tail[1])] = 0
    /\ IF free = {} THEN Fail
       ELSE LET ps == Allocated(Min({log_pages, EXTEND_THRESHOLD}))
            IN  /\ Persist(Coalesced(mem, ps))
                /\ free' = free \ ToSet(ps)
                /\ op' = [op EXCEPT !.new = ps[1], !.num = Len(ps), !.freed = 0,
                                    !.inAppend = TRUE]
                /\ pc' = "fast_gc"
                /\ UNCHANGED <<data, dram, file, ops, crashes, lost>>

\* Where the next entry goes, on the page that follows if this one is full.
AppendPlace == IF PageFull(op.tail) THEN <<mem[NextOf(op.tail[1])], 1>> ELSE op.tail

append_entry ==
    /\ pc = "append" /\ op.tail # NULL /\ AppendPlace[1] # 0
    /\ LET a == AppendPlace
           e == Head(op.todo)
       IN  /\ mem' = [mem EXCEPT ![Slot(a)] = e, ![Num(a[1])] = @ + 1]
           /\ data' = IF e.type = "write" THEN data \cup {<<e.id, p>> : p \in e.lo..e.hi} ELSE data
           /\ op' = [op EXCEPT !.tail = <<a[1], a[2] + 1>>, !.todo = Tail(@),
                               !.places = Append(@, a), !.inAppend = FALSE]
    /\ pc' = IF Len(op.todo) = 1 THEN "commit" ELSE "append"
    /\ UNCHANGED <<dur, free, dram, file, ops, crashes, lost>>

\* nova_new_data_blocks finds no block for the next piece, before the append.
no_data_blocks ==
    /\ pc = "append" /\ op.kind \in {"write", "fault"} /\ ~op.inAppend
    /\ Fail

-----------------------------------------------------------------------------
(* Commit: nova_update_inode and what follows it.                           *)

Touched == UNION {mem[Slot(op.places[i])].lo..mem[Slot(op.places[i])].hi : i \in DOMAIN op.places}

\* nova_update_tail: a fence, the store of the tail and a fence.
NewTail == Store(mem, LogTail, op.tail)

\* nova_reassign_file_tree after the commit of a write.
commit_write ==
    /\ pc = "commit" /\ op.kind = "write"
    /\ dur' = NewTail
    /\ mem' = Superseded(NewTail, tree, Touched)
    /\ data' = data \ OldData(mem, tree, Touched)
    /\ tree' = [p \in PageOffsets |->
                  IF p \in Touched
                  THEN LET i == CHOOSE j \in DOMAIN op.places :
                                  p \in mem[Slot(op.places[j])].lo..mem[Slot(op.places[j])].hi
                       IN  op.places[i]
                  ELSE tree[p]]
    /\ size' = Max({size, Max(Touched) + 1})
    /\ file' = [file EXCEPT !.map = [p \in PageOffsets |-> IF p \in Touched THEN ops ELSE @[p]],
                            !.size = size']
    /\ trans_id' = trans_id + 1
    /\ log_tail' = op.tail
    /\ pc' = "idle" /\ op' = NoOp
    /\ UNCHANGED <<free, last_setattr, mode, log_pages, log_head, ops, crashes, lost>>

\* begin_tail is set only after a whole piece was copied, and is still 0 here:
\* the entry is committed and not put into the tree.
commit_fault ==
    /\ pc = "commit" /\ op.kind = "fault"
    /\ Persist(NewTail)
    /\ size' = mem[Slot(op.places[1])].size
    /\ trans_id' = trans_id + 1
    /\ log_tail' = op.tail
    /\ lost' = lost \cup {"fault"}
    /\ pc' = "idle" /\ op' = NoOp
    /\ UNCHANGED <<free, data, tree, last_setattr, mode, log_pages, log_head, file, ops, crashes>>

\* nova_handle_setattr_operation after the append, then nova_setsize: pages
\* are freed only if the file shrinks.
commit_attr ==
    /\ pc = "commit" /\ op.kind = "attr"
    /\ LET a == op.places[1]
           e == mem[Slot(a)]
           old == last_setattr
           cut == {p \in PageOffsets : p >= e.size /\ e.size < size}
           m == IF old = NULL \/ mem[Slot(old)].isSize THEN NewTail
                ELSE Invalidated(NewTail, old, 1)
       IN  /\ dur' = NewTail
           /\ mem' = Superseded(m, tree, cut)
           /\ data' = data \ OldData(mem, tree, cut)
           /\ tree' = [p \in PageOffsets |-> IF p \in cut THEN NULL ELSE tree[p]]
           /\ last_setattr' = a
           /\ size' = e.size
           /\ file' = [map |-> [p \in PageOffsets |-> IF p >= e.size THEN 0 ELSE file.map[p]],
                       size |-> e.size, mode |-> e.mode]
    /\ trans_id' = trans_id + 1
    /\ log_tail' = op.tail
    /\ pc' = "idle" /\ op' = NoOp
    /\ UNCHANGED <<free, mode, log_pages, log_head, ops, crashes, lost>>

-----------------------------------------------------------------------------
(* Garbage collection: nova_inode_log_fast_gc.  The page of the tail is     *)
(* never collected.                                                         *)

TailPage == log_tail[1]
Scanned == PagesFrom(mem, log_head, TailPage)
curr_page_invalid(p) == mem[Num(p)] = mem[Inv(p)]

\* The collection is over: nova_extend_inode_log returns the new page, a
\* collection on request is done.
EndOfGC ==
    IF op.kind = "gc" THEN pc' = "idle" /\ op' = NoOp
    ELSE pc' = "append" /\ op' = [op EXCEPT !.tail = <<op.new, 1>>]

\* free_curr_page: the next invalid page, except the first, leaves the list.
free_curr_page ==
    /\ pc = "fast_gc"
    /\ LET ps == Scanned
           bad == {i \in 2..Len(ps) : curr_page_invalid(ps[i])}
           i == Min(bad)
       IN  IF bad = {} THEN pc' = "link" /\ UNCHANGED <<mem, dur, free, op>>
           ELSE /\ Persist(Scrub(Store(mem, NextOf(ps[i - 1]), mem[NextOf(ps[i])]), {ps[i]}))
                /\ free' = free \cup {ps[i]}
                /\ op' = [op EXCEPT !.freed = @ + 1]
                /\ pc' = pc
    /\ UNCHANGED <<data, dram, file, ops, crashes, lost>>

\* The new pages follow the page that is full.
link_new_pages ==
    /\ pc = "link"
    /\ Persist(IF op.num = 0 THEN mem ELSE Store(mem, NextOf(op.tail[1]), op.new))
    /\ pc' = "head"
    /\ UNCHANGED <<free, data, dram, op, file, ops, crashes, lost>>

Ceiling(n, d) == (n + d - 1) \div d

\* The head moves past an invalid first page, which is freed then.  The decision
\* for a copy compares what is valid with the pages that are left.
move_head ==
    /\ pc = "head"
    /\ LET ps == Scanned
           skip == ps # << >> /\ curr_page_invalid(ps[1])
           rest == IF skip THEN Tail(ps) ELSE ps
           gone == IF skip THEN {ps[1]} ELSE {}
           num_entries == SumFunction([i \in DOMAIN rest |-> mem[Num(rest[i])]])
           valid_entries == num_entries - SumFunction([i \in DOMAIN rest |-> mem[Inv(rest[i])]])
           blocks == Ceiling(valid_entries * Len(rest), num_entries)
       IN  /\ log_head' = IF rest = << >> THEN TailPage ELSE rest[1]
           /\ Persist(Scrub(Store(mem, LogHead, log_head'), gone))
           /\ free' = free \cup gone
           /\ log_pages' = log_pages + op.num - op.freed - Cardinality(gone)
           /\ IF /\ num_entries # 0
                 /\ op.kind = "gc" \/ (blocks # 0 /\ blocks * 2 < Len(rest))
              THEN pc' = "thorough_gc" /\ op' = [op EXCEPT !.blocks = blocks]
              ELSE EndOfGC
    /\ UNCHANGED <<data, tree, last_setattr, trans_id, size, mode, log_tail, file, ops, crashes, lost>>

-----------------------------------------------------------------------------
(* Copying the log: nova_inode_log_thorough_gc.                             *)

\* The entries to copy, in the order of the log.
Live == SelectSeq(Committed(mem), LAMBDA a : a[1] # TailPage /\ ~Invalid(mem[Slot(a)]))

\* Where the i-th entry goes in a log of the pages ps, and where writing stops.
CopyPlace(ps, i) == <<ps[Ceiling(i, PerPage)], ((i - 1) % PerPage) + 1>>
CopyEnd(ps, n) == IF n = 0 THEN <<ps[1], 1>>
                  ELSE <<CopyPlace(ps, n)[1], CopyPlace(ps, n)[2] + 1>>

\* The pages ps with copies of the entries at the places src, and the mark
\* behind the last one.
Copied(m, ps, src) ==
    LET n == Len(src)
        dst == [i \in 1..n |-> CopyPlace(ps, i)]
    IN  [l \in Locations |->
           IF l = Slot(CopyEnd(ps, n)) THEN NextPage
           ELSE IF \E i \in 1..n : l = Slot(dst[i])
           THEN m[Slot(src[CHOOSE i \in 1..n : l = Slot(dst[i])])]
           ELSE IF l[1] = "num_entries" /\ l[2] \in ToSet(ps)
           THEN Cardinality({i \in 1..n : dst[i][1] = l[2]})
           ELSE m[l]]

\* Fault: the tree keeps pointing to the old log.
Moved_never(t, src, ps) == t

\* nova_gc_assign_new_entry
Moved(t, src, ps) ==
    IF \E i \in DOMAIN src : src[i] = t
    THEN CopyPlace(ps, CHOOSE i \in DOMAIN src : src[i] = t)
    ELSE t

\* What is durable of the copy m of n entries to the pages ps, which were empty as
\* in m0: the mark behind the last entry brings a fence; a last page that is full
\* has no mark, and then entries and counts may still be in flight.
CopyDurable(m0, m, ps, n) == IF n > 0 /\ PageFull(CopyEnd(ps, n)) THEN m0 ELSE m

\* The copy is not reachable yet.  If the pages asked for are not all there, the
\* ones that are there are forgotten; if the estimate was too low, pages are
\* added one by one, and when there are no more the copy goes to block 0.
copy_log ==
    /\ pc = "thorough_gc"
    /\ LET src == Live
           need == Ceiling(Len(src), PerPage)
           ps == Allocated(Max({op.blocks, need}))
           used == SubSeq(ps, 1, Max({need, 1}))
           rest == ToSet(ps) \ ToSet(used)
           attrs == {i \in DOMAIN src : mem[Slot(src[i])].type = "attr"}
           copied == Scrub(Copied(Coalesced(mem, ps), used, src), rest)
       IN  IF Cardinality(free) < op.blocks
           THEN /\ Persist(Coalesced(mem, ps))
                /\ free' = {}
                /\ lost' = IF free = {} THEN lost ELSE lost \cup {"pages"}
                /\ EndOfGC
                /\ UNCHANGED <<tree, last_setattr>>
           ELSE IF Cardinality(free) < need
           THEN /\ lost' = lost \cup {"block 0"}
                /\ EndOfGC
                /\ UNCHANGED <<mem, dur, free, tree, last_setattr>>
           ELSE /\ mem' = copied /\ dur' = CopyDurable(Coalesced(mem, ps), copied, used, Len(src))
                /\ free' = free \ ToSet(used)
                /\ tree' = [p \in PageOffsets |-> Moved(tree[p], src, used)]
                /\ last_setattr' = IF attrs = {} THEN last_setattr
                                   ELSE CopyPlace(used, Max(attrs))
                /\ op' = [op EXCEPT !.old = Scanned, !.copy = used, !.blocks = Len(ps)]
                /\ pc' = "switch"
                /\ UNCHANGED lost
    /\ UNCHANGED <<data, trans_id, size, mode, log_pages, log_head, log_tail, file, ops, crashes>>

\* Fault: the copy is not linked to the tail page.
switch_log_unlinked ==
    /\ pc = "switch"
    /\ mem' = [mem EXCEPT ![LogHead] = op.copy[1]]
    /\ pc' = "unlink"
    /\ UNCHANGED <<dur, free, data, dram, op, file, ops, crashes, lost>>

\* The link to the tail page and the new head: stores before one fence.
switch_log ==
    /\ pc = "switch"
    /\ mem' = [mem EXCEPT ![NextOf(Last(op.copy))] = TailPage, ![LogHead] = op.copy[1]]
    /\ pc' = "unlink"
    /\ UNCHANGED <<dur, free, data, dram, op, file, ops, crashes, lost>>

\* Fault: the old log is unlinked and not freed.
unlink_old_log_leak ==
    /\ pc = "unlink"
    /\ Persist(Scrub(mem, ToSet(op.old)))
    /\ log_pages' = log_pages + op.blocks - Len(op.old)
    /\ log_head' = op.copy[1]
    /\ EndOfGC
    /\ UNCHANGED <<free, data, tree, last_setattr, trans_id, size, mode, log_tail, file, ops, crashes, lost>>

\* nova_free_contiguous_log_blocks
unlink_old_log ==
    /\ pc = "unlink"
    /\ Persist(Scrub(mem, ToSet(op.old)))
    /\ free' = free \cup ToSet(op.old)
    /\ log_pages' = log_pages + op.blocks - Len(op.old)
    /\ log_head' = op.copy[1]
    /\ EndOfGC
    /\ UNCHANGED <<data, tree, last_setattr, trans_id, size, mode, log_tail, file, ops, crashes, lost>>

-----------------------------------------------------------------------------
(* A crash, and the next mount.                                             *)

Dirty == {l \in Locations : mem[l] # dur[l]}

\* The switch to the copy is torn when the head is durable, and the link to the tail
\* page, or an entry or a count of the copy, is not.
Torn(kept) == pc = "unlink" /\ LogHead \in kept /\ kept # Dirty

Crash ==
    /\ pc # "down" /\ crashes < MaxCrashes
    /\ \E kept \in SUBSET Dirty :
         /\ Persist([l \in Locations |-> IF l \in kept THEN mem[l] ELSE dur[l]])
         /\ lost' = IF Torn(kept) THEN lost \cup {"torn"} ELSE lost
    /\ tree' = [p \in PageOffsets |-> NULL]
    /\ last_setattr' = NULL
    /\ trans_id' = 0 /\ size' = 0 /\ mode' = 0 /\ log_pages' = 0 /\ log_head' = 0 /\ log_tail' = NULL
    /\ free' = {} /\ data' = {}
    /\ pc' = "down" /\ op' = NoOp
    /\ crashes' = crashes + 1
    /\ UNCHANGED <<file, ops>>

\* nova_rebuild_file_inode_tree and nova_rebuild_inode_finish.  Recovery gives
\* every block that no log page or tree refers to back to the allocator.  An inode
\* with half of a log, the head or the tail, is cleared; sih keeps the half, and the
\* next append or collection goes to a page that is not the log's.
nova_rebuild_file_inode_tree ==
    /\ pc = "down"
    /\ LET empty == mem[LogHead] = 0 \/ mem[LogTail] = NULL
           r == Rebuilt(mem)
           m == IF empty THEN [mem EXCEPT ![LogHead] = 0, ![LogTail] = NULL]
                ELSE [mem EXCEPT ![ISize] = r.size, ![IMode] = r.mode]
           used == ToSet(Chain(m))
       IN  /\ Persist(Scrub(m, Pages \ used))
           /\ free' = Pages \ used
           /\ tree' = r.tree /\ last_setattr' = r.last
           /\ size' = r.size /\ mode' = r.mode
           /\ trans_id' = IF empty THEN 0 ELSE r.tid + 1
           /\ log_pages' = IF empty THEN 1 ELSE Cardinality(used)
           /\ data' = OldData(mem, r.tree, PageOffsets)
           /\ log_head' = mem[LogHead] /\ log_tail' = mem[LogTail]
           /\ lost' = IF <<m[LogHead], m[LogTail]>> = <<log_head', log_tail'>> THEN lost
                      ELSE lost \cup {"half"}
    /\ pc' = "idle"
    /\ UNCHANGED <<op, file, ops, crashes>>

-----------------------------------------------------------------------------
AppendEntries ==
    \/ nova_initialize_inode_log \/ fence \/ nova_extend_inode_log
    \/ append_entry \/ no_data_blocks

Commit == commit_write \/ commit_fault \/ commit_attr

GC ==
    \/ free_curr_page \/ link_new_pages \/ move_head
    \/ copy_log \/ switch_log \/ unlink_old_log

Next ==
    \/ do_nova_cow_file_write \/ cow_write_fault \/ setattr_mode \/ setattr_size \/ nova_seq_gc
    \/ AppendEntries \/ Commit \/ GC
    \/ Crash \/ nova_rebuild_file_inode_tree

Spec == Init /\ [][Next]_vars

-----------------------------------------------------------------------------
(* Properties.                                                              *)

\* The properties are about behaviours in which none of this has happened: a write
\* whose copy faulted ("fault"), an update in place of an attribute entry that is
\* not the newest ("misplaced"), a copy for want of pages given up ("pages") or made
\* to block 0 ("block 0"), a crash that tore the switch to a copy ("torn"), and a
\* mount that met half of a log ("half").
Handled == lost = {}

\* The counters of a page, the places the memory structures point to and the
\* bounds of the file.
TypeOK ==
    /\ \A p \in Pages : mem[Num(p)] \in 0..(ops * FilePages) /\ mem[Inv(p)] \in 0..mem[Num(p)]
    /\ mem[LogHead] \in 0..NPages /\ mem[LogTail] \in Places \cup {NULL}
    /\ free \subseteq Pages
    /\ tree \in [PageOffsets -> Places \cup {NULL}]
    /\ last_setattr \in Places \cup {NULL}
    /\ size \in Sizes /\ mode \in Modes
    /\ trans_id \in Nat /\ log_pages \in Nat
    /\ log_head \in 0..NPages /\ log_tail \in Places \cup {NULL}
    /\ pc \in {"idle", "append", "fence", "commit", "fast_gc", "link", "head", "thorough_gc",
               "switch", "unlink", "down"}

\* After a crash at any step the log can be walked to its tail, and replaying it
\* gives the file of the last commit: nothing of an operation that did not get
\* to its commit, all of one that did, whatever was collected or copied.
CommittedSurvives ==
    pc = "down" /\ Handled => Walk(mem).ok /\ Recovered(mem) = file

\* While the file is in use the tree points to entries that hold the file of the
\* last commit, at every step of an append or a collection.
TreeShowsFile ==
    pc # "down" /\ Handled =>
      /\ Contents(mem, tree, size, file.mode) = file
      /\ pc = "idle" => Rebuilt(mem).tree = tree

\* A page of the log is not free, not even one that only the durable head
\* reaches, and the page that is appended to is the log's; between operations every
\* page is free or of the log.  Types are kept.
PagesOwned ==
    /\ TypeOK
    /\ pc # "down" /\ Handled =>
      /\ free \cap (ToSet(Chain(mem)) \cup ToSet(Chain(dur))) = {}
      /\ log_tail # NULL => TailPage \in ToSet(Chain(mem))
      /\ pc = "idle" => free \cup ToSet(Chain(mem)) = Pages

\* The data that the tree reaches is not freed, and between operations nothing
\* else is in use: a failed write gives back what it took.
DataOwned ==
    pc # "down" /\ Handled =>
      /\ OldData(mem, tree, PageOffsets) \subseteq data
      /\ pc = "idle" => data = OldData(mem, tree, PageOffsets)

=============================================================================
