----------------------------- MODULE InodeTable -----------------------------
(***************************************************************************)
(* Inode numbers of NOVA (inode.c) and how a mount finds out which are in  *)
(* use (bbuild.c).                                                         *)
(*                                                                         *)
(* Number n belongs to CPU n % cpus and has there the internal number      *)
(* n / cpus.  Each CPU keeps the internal numbers in use as a tree of      *)
(* ranges, in DRAM, under a mutex, and a table of inode slots in           *)
(* superpages, persistent.  A clean unmount saves the ranges to the log of *)
(* one reserved inode and then the free blocks to the log of another; the  *)
(* latter tells the next mount that it may use both.  After a crash the    *)
(* mount rebuilds the ranges from the slots.                               *)
(***************************************************************************)
EXTENDS Integers, Sequences, FiniteSets, FiniteSetsExt

CONSTANTS
    Threads,
    cpus,                    \* sbi->cpus
    NOVA_NORMAL_INODE_START, \* numbers below are reserved
    MAX_INODE,               \* the largest internal number is MAX_INODE - 2
    InodesPerPage,           \* slots of a superpage
    MaxCreates,              \* bound on the numbers given out
    MaxMounts                \* bound on the unmounts and crashes

ASSUME InodeTableConstants ==
    /\ IsFiniteSet(Threads)
    /\ cpus \in Nat \ {0} /\ InodesPerPage \in Nat \ {0}
    /\ NOVA_NORMAL_INODE_START \in Nat \ {0}
    /\ MAX_INODE \in Nat /\ MAX_INODE >= NOVA_NORMAL_INODE_START + 2
    /\ MaxCreates \in Nat /\ MaxMounts \in Nat

VARIABLES
    inuse,       \* inode_maps[cpu].inode_inuse_tree: a set of ranges
    map_id,      \* sbi->map_id, which no lock protects
    pages,       \* persistent: superpages in the table of each CPU
    slot,        \* the inode slots, as the CPUs see them
    dur,         \* the inode slots, as far as they are certainly persistent
    list,        \* persistent: the log of NOVA_INODELIST_INO
    blocknode,   \* persistent: the log of NOVA_BLOCKNODE_INO is there
    mode,        \* mounted, down, or in between
    scan,        \* the locals of the recovery thread of each CPU
    pc, req,     \* where each thread is, and its locals
    leaked,      \* history: numbers that an error left in use without an inode
    nospace,     \* history: the numbers in use when an allocation failed
    misled,      \* history: a mount has read a list that an earlier unmount had saved
    creates, mounts

vars == <<inuse, map_id, pages, slot, dur, list, blocknode, mode, scan, pc, req, leaked, nospace,
          creates, mounts, misled>>

CPUs == 0..(cpus - 1)
Ino(cpu, internal) == internal * cpus + cpu
Cpu(ino) == ino % cpus
Internal(ino) == ino \div cpus

\* nova_init_inode_inuse_list: the range that every CPU starts with.
RangeHigh ==
    NOVA_NORMAL_INODE_START \div cpus + (IF NOVA_NORMAL_INODE_START % cpus = 0 THEN 0 ELSE 1)

RangeNode(low, high) == [low |-> low, high |-> high]
Reserved == RangeNode(0, RangeHigh)

Internals == (RangeHigh + 1)..(MAX_INODE - 2)
Inos == {Ino(c, k) : c \in CPUs, k \in Internals}

\* held: a snapshot shows the inode, although it was removed.
EmptySlot == [mode |-> FALSE, valid |-> FALSE, deleted |-> FALSE, held |-> FALSE]
NoList == [state |-> "none", ranges |-> {}]
NoRequest == [map |-> 0, ino |-> 0]
NoScan == [count |-> 0, i |-> 0, low |-> 0, high |-> 0]

Covered(ranges) == UNION {r.low..r.high : r \in ranges}

Init ==
    /\ inuse = [c \in CPUs |-> {Reserved}]
    /\ map_id = 0
    /\ pages = [c \in CPUs |-> 1]
    /\ slot = [n \in Inos |-> EmptySlot] /\ dur = slot
    /\ list = NoList /\ blocknode = FALSE
    /\ mode = "mounted" /\ scan = [c \in CPUs |-> NoScan]
    /\ pc = [t \in Threads |-> "idle"] /\ req = [t \in Threads |-> NoRequest]
    /\ leaked = {} /\ nospace = << >>
    /\ misled = FALSE
    /\ creates = 0 /\ mounts = 0

Goto(t, label) == pc' = [pc EXCEPT ![t] = label]

-----------------------------------------------------------------------------
(* Creating an inode.                                                       *)

\* nova_new_nova_inode reads sbi->map_id and then stores the next one.
read_map_id(t) ==
    /\ mode = "mounted" /\ pc[t] = "idle" /\ creates < MaxCreates
    /\ creates' = creates + 1
    /\ req' = [req EXCEPT ![t].map = map_id]
    /\ Goto(t, "map")
    /\ UNCHANGED <<inuse, map_id, pages, slot, dur, list, blocknode, mode, scan, leaked, nospace, mounts, misled>>

\* The build may read sbi->map_id again for it.
store_map_id(t) ==
    /\ pc[t] = "map"
    /\ \E m \in {req[t].map, map_id} : map_id' = (m + 1) % cpus
    /\ Goto(t, "alloc")
    /\ UNCHANGED <<inuse, pages, slot, dur, list, blocknode, mode, scan, req, leaked, nospace,
                   creates, mounts, misled>>

\* The first range, which has the reserved numbers, and where the next begins.
FirstRange(ranges) == CHOOSE r \in ranges : r.low = 0

NextRangeLow(ranges) ==
    LET lows == {r.low : r \in ranges} \ {0}
    IN  IF lows = {} THEN MAX_INODE ELSE Min(lows)

\* nova_alloc_unused_inode fails with ENOSPC otherwise.
CanAlloc(ranges) ==
    LET new == FirstRange(ranges).high + 1
        next == NextRangeLow(ranges)
    IN  new < next - 1 \/ (next # MAX_INODE /\ new = next - 1)

\* The ranges after it: the number behind the first range is taken, and a gap
\* that this fills disappears.
nova_alloc_unused_inode(ranges) ==
    LET first == FirstRange(ranges)
        next == {r \in ranges : r.low = first.high + 2}
    IN  IF next = {} THEN (ranges \ {first}) \cup {[first EXCEPT !.high = @ + 1]}
        ELSE (ranges \ ({first} \cup next)) \cup {RangeNode(0, (CHOOSE r \in next : TRUE).high)}

\* The rest of nova_new_nova_inode, under the mutex of the map.  The superpage of
\* the slot is allocated if need be; if that fails the number stays in use.
nova_new_nova_inode(t) ==
    /\ pc[t] = "alloc"
    /\ LET c == req[t].map
           internal == FirstRange(inuse[c]).high + 1
           page == internal \div InodesPerPage
       IN  IF CanAlloc(inuse[c])
           THEN /\ inuse' = [inuse EXCEPT ![c] = nova_alloc_unused_inode(@)]
                /\ \/ /\ pages' = [pages EXCEPT ![c] = Max({@, page + 1})]
                      /\ req' = [req EXCEPT ![t].ino = Ino(c, internal)]
                      /\ Goto(t, "new")
                      /\ UNCHANGED leaked
                   \/ /\ page >= pages[c]
                      /\ leaked' = leaked \cup {Ino(c, internal)}
                      /\ Goto(t, "idle")
                      /\ UNCHANGED <<pages, req>>
                /\ UNCHANGED nospace
           ELSE /\ nospace' = Append(nospace, <<c, Covered(inuse[c])>>)
                /\ Goto(t, "idle")
                /\ UNCHANGED <<inuse, pages, req, leaked>>
    /\ UNCHANGED <<map_id, slot, dur, list, blocknode, mode, scan, creates, mounts, misled>>

\* Fault: the mark of the inode that had the slot before stays.
nova_new_vfs_inode_deleted(t) ==
    /\ pc[t] = "new"
    /\ slot' = [slot EXCEPT ![req[t].ino].mode = TRUE]
    /\ Goto(t, "commit")
    /\ UNCHANGED <<inuse, map_id, pages, dur, list, blocknode, mode, scan, req, leaked, nospace,
                   creates, mounts, misled>>

\* nova_new_vfs_inode fills the slot and flushes it, without a fence.  valid is
\* not touched.
nova_new_vfs_inode(t) ==
    /\ pc[t] = "new"
    /\ slot' = [slot EXCEPT ![req[t].ino] = [@ EXCEPT !.mode = TRUE, !.deleted = FALSE]]
    /\ Goto(t, "commit")
    /\ UNCHANGED <<inuse, map_id, pages, dur, list, blocknode, mode, scan, req, leaked, nospace,
                   creates, mounts, misled>>

\* nova_lite_transaction_for_new_inode: a fence, then valid in a transaction.
nova_lite_transaction_for_new_inode(t) ==
    /\ pc[t] = "commit"
    /\ slot' = [slot EXCEPT ![req[t].ino].valid = TRUE]
    /\ dur' = [dur EXCEPT ![req[t].ino] = slot'[req[t].ino]]
    /\ Goto(t, "idle")
    /\ UNCHANGED <<inuse, map_id, pages, list, blocknode, mode, scan, req, leaked, nospace,
                   creates, mounts, misled>>

\* nova_create and its like fail after nova_new_nova_inode: nothing is undone.
create_fails(t) ==
    /\ pc[t] \in {"new", "commit"}
    /\ leaked' = leaked \cup {req[t].ino}
    /\ Goto(t, "idle")
    /\ UNCHANGED <<inuse, map_id, pages, slot, dur, list, blocknode, mode, scan, req, nospace,
                   creates, mounts, misled>>

-----------------------------------------------------------------------------
(* Removing an inode.                                                       *)

\* The transaction of nova_unlink, nova_rmdir or nova_rename; an inode that a
\* snapshot shows is kept by nova_evict_inode.
invalidate(t) ==
    /\ mode = "mounted" /\ pc[t] = "idle"
    /\ \E n \in Inos, held \in BOOLEAN :
         /\ slot[n].valid
         /\ slot' = [slot EXCEPT ![n] = [@ EXCEPT !.valid = FALSE, !.held = held]]
         /\ dur' = [dur EXCEPT ![n] = slot'[n]]
         /\ req' = [req EXCEPT ![t].ino = n]
         /\ Goto(t, IF held THEN "idle" ELSE "evict")
    /\ UNCHANGED <<inuse, map_id, pages, list, blocknode, mode, scan, leaked, nospace, creates, mounts, misled>>

\* The last snapshot that shows the inode is deleted: the cleaner thread runs
\* nova_delete_dead_inode, which goes on as nova_evict_inode does.
nova_delete_dead_inode(t) ==
    /\ mode = "mounted" /\ pc[t] = "idle"
    /\ \E n \in Inos :
         /\ slot[n].held
         /\ slot' = [slot EXCEPT ![n].held = FALSE]
         /\ dur' = [dur EXCEPT ![n] = slot'[n]]
         /\ req' = [req EXCEPT ![t].ino = n]
    /\ Goto(t, "evict")
    /\ UNCHANGED <<inuse, map_id, pages, list, blocknode, mode, scan, leaked, nospace, creates, mounts, misled>>

\* nova_free_inode_resource marks the slot, flushes and fences.
nova_free_inode_resource(t) ==
    /\ pc[t] = "evict"
    /\ slot' = [slot EXCEPT ![req[t].ino].deleted = TRUE]
    /\ dur' = [dur EXCEPT ![req[t].ino] = slot'[req[t].ino]]
    /\ Goto(t, "free")
    /\ UNCHANGED <<inuse, map_id, pages, list, blocknode, mode, scan, req, leaked, nospace,
                   creates, mounts, misled>>

\* Fault: what is left of the range behind the number is forgotten.
RemainingLeft(r, k) == {s \in {RangeNode(r.low, k - 1)} : s.low <= s.high}

\* What is left of range r when number k is taken out, in the four cases.
Remaining(r, k) == {s \in {RangeNode(r.low, k - 1), RangeNode(k + 1, r.high)} : s.low <= s.high}

\* nova_free_inuse_inode, under the mutex of the map.  Without memory for the
\* second part of a range nothing is freed.
nova_free_inuse_inode(t) ==
    /\ pc[t] = "free"
    /\ LET n == req[t].ino
           c == Cpu(n)
           found == {r \in inuse[c] : Internal(n) \in r.low..r.high}
           rest == UNION {Remaining(r, Internal(n)) : r \in found}
       IN  \/ /\ inuse' = [inuse EXCEPT ![c] = (@ \ found) \cup rest]
              /\ UNCHANGED leaked
           \/ /\ Cardinality(rest) = 2
              /\ leaked' = leaked \cup {n}
              /\ UNCHANGED inuse
    /\ Goto(t, "idle")
    /\ UNCHANGED <<map_id, pages, slot, dur, list, blocknode, mode, scan, req, nospace, creates, mounts, misled>>

-----------------------------------------------------------------------------
(* Unmounting and mounting.                                                 *)

\* The mount restores the tree of each CPU, so DRAM starts empty.
Forget ==
    /\ inuse' = [c \in CPUs |-> {}]
    /\ map_id' = 0 /\ scan' = [c \in CPUs |-> NoScan]
    /\ pc' = [t \in Threads |-> "idle"] /\ req' = [t \in Threads |-> NoRequest]

\* nova_put_super: all is evicted, nova_save_inode_list_to_log saves the ranges,
\* each with its CPU in the high bits.  With no room for it the list stays as it
\* was, and the unmount goes on.
nova_save_inode_list_to_log ==
    /\ mode = "mounted" /\ mounts < MaxMounts
    /\ \A t \in Threads : pc[t] = "idle"
    /\ mounts' = mounts + 1
    /\ \/ list' = [state |-> "fresh", ranges |-> UNION {{<<c, r>> : r \in inuse[c]} : c \in CPUs}]
       \/ UNCHANGED list
    /\ mode' = "saving"
    /\ dur' = slot
    /\ Forget
    /\ UNCHANGED <<pages, slot, blocknode, leaked, nospace, creates, misled>>

\* The log of the free blocks may fit where the other did not, and the other way
\* round.
nova_save_blocknode_mappings_to_log ==
    /\ mode = "saving"
    /\ \/ blocknode' = TRUE
       \/ UNCHANGED blocknode
    /\ mode' = "down"
    /\ UNCHANGED <<inuse, map_id, pages, slot, dur, list, scan, pc, req, leaked, nospace, creates, mounts, misled>>

\* nova_try_normal_recovery: nova_init_blockmap_from_inode frees the log it reads.
nova_init_blockmap_from_inode ==
    /\ mode = "down" /\ blocknode
    /\ blocknode' = FALSE
    /\ mode' = "blockmap"
    /\ UNCHANGED <<inuse, map_id, pages, slot, dur, list, scan, pc, req, leaked, nospace, creates, mounts, misled>>

\* nova_init_inode_list_from_inode does not know when the list was saved; the pages
\* of one that a failure recovery has passed over may also be in other use by now.
nova_init_inode_list_from_inode ==
    /\ mode = "blockmap" /\ list.state # "none"
    /\ inuse' = [c \in CPUs |-> {r[2] : r \in {x \in list.ranges : x[1] = c}}]
    /\ misled' = (misled \/ list.state = "stale")
    /\ list' = NoList
    /\ mode' = "mounted"
    /\ UNCHANGED <<map_id, pages, slot, dur, blocknode, scan, pc, req, leaked, nospace, creates, mounts>>

\* Fault: a run that begins a superpage is not joined with the range before it.
nova_failure_insert_inodetree_apart(ranges, low, high) == ranges \cup {RangeNode(low, high)}

\* nova_failure_insert_inodetree, with its four cases; a range that overlaps one
\* of the tree is refused.
nova_failure_insert_inodetree(ranges, low, high) ==
    LET prev == {r \in ranges : r.high + 1 = low}
        next == {r \in ranges : r.low = high + 1}
    IN  IF \E r \in ranges : r.low <= high /\ low <= r.high THEN ranges
        ELSE (ranges \ (prev \cup next))
               \cup {RangeNode(Min({low} \cup {r.low : r \in prev}), Max({high} \cup {r.high : r \in next}))}

\* An inode that failure_thread_func finds in use; it marks the others.
Alive(s) == s.mode /\ ~s.deleted /\ (s.valid \/ s.held)

\* nova_failure_recovery: every tree starts as nova_init_inode_inuse_list leaves
\* it, then the scan begins.  What is left of the saved list is not looked at.
nova_failure_recovery ==
    /\ \/ mode = "down" /\ ~blocknode
       \/ mode = "blockmap" /\ list.state = "none"
    /\ inuse' = [c \in CPUs |-> {Reserved}]
    /\ list' = IF list.state = "none" THEN list ELSE [state |-> "stale", ranges |-> list.ranges]
    /\ mode' = "scan"
    /\ leaked' = {}
    /\ UNCHANGED <<map_id, pages, slot, dur, blocknode, scan, pc, req, nospace, creates, mounts, misled>>

\* The run ino_low..ino_high of inodes goes into the tree.
InsertRun(ranges, run) == nova_failure_insert_inodetree(ranges, Internal(run.low), Internal(run.high))

\* The run and the tree after inode n: it goes on, or another begins.
Joins(run, n) == run.low # 0 /\ n = run.high + cpus
nova_failure_update_inodetree(run, n) == [low |-> IF Joins(run, n) THEN run.low ELSE n, high |-> n]
TreeBefore(ranges, run, n) ==
    IF run.low = 0 \/ Joins(run, n) THEN ranges ELSE InsertRun(ranges, run)

\* failure_thread_func, the thread of CPU c: one slot of a superpage.  The run ends
\* with the superpage.  A slot that is not in use is marked, without a flush.
failure_thread_func(c) ==
    LET s == scan[c]
        n == Ino(c, s.count * InodesPerPage + s.i)
        old == [low |-> s.low, high |-> s.high]
        alive == n \in Inos /\ Alive(slot[n])
        run == IF alive THEN nova_failure_update_inodetree(old, n) ELSE old
        ranges == IF alive THEN TreeBefore(inuse[c], old, n) ELSE inuse[c]
    IN  /\ mode = "scan" /\ s.count < pages[c]
        /\ slot' = IF n \in Inos /\ ~alive /\ slot[n].mode THEN [slot EXCEPT ![n].deleted = TRUE] ELSE slot
        /\ IF s.i + 1 < InodesPerPage
           THEN /\ scan' = [scan EXCEPT ![c] = [count |-> s.count, i |-> s.i + 1, low |-> run.low, high |-> run.high]]
                /\ inuse' = [inuse EXCEPT ![c] = ranges]
           ELSE /\ scan' = [scan EXCEPT ![c] = [count |-> s.count + 1, i |-> 0, low |-> 0, high |-> 0]]
                /\ inuse' = [inuse EXCEPT ![c] = IF run.low = 0 THEN ranges ELSE InsertRun(ranges, run)]
        /\ UNCHANGED <<map_id, pages, dur, list, blocknode, mode, pc, req, leaked, nospace, creates, mounts, misled>>

\* wait_to_finish: the mount goes on when every thread is done.
wait_to_finish ==
    /\ mode = "scan" /\ \A c \in CPUs : scan[c].count = pages[c]
    /\ mode' = "mounted"
    /\ scan' = [c \in CPUs |-> NoScan]
    /\ UNCHANGED <<inuse, map_id, pages, slot, dur, list, blocknode, pc, req, leaked, nospace, creates, mounts, misled>>

\* What was flushed and not fenced may be lost.
Crash ==
    /\ mode # "down" /\ mounts < MaxMounts /\ mounts' = mounts + 1
    /\ mode' = "down"
    /\ \E kept \in SUBSET {n \in Inos : slot[n] # dur[n]} :
         slot' = [n \in Inos |-> IF n \in kept THEN slot[n] ELSE dur[n]]
    /\ dur' = slot'
    /\ Forget
    /\ UNCHANGED <<pages, list, blocknode, leaked, nospace, creates, misled>>

-----------------------------------------------------------------------------
Next ==
    \/ \E t \in Threads :
         \/ read_map_id(t) \/ store_map_id(t) \/ nova_new_nova_inode(t) \/ nova_new_vfs_inode(t)
         \/ nova_lite_transaction_for_new_inode(t) \/ create_fails(t)
         \/ invalidate(t) \/ nova_delete_dead_inode(t) \/ nova_free_inode_resource(t) \/ nova_free_inuse_inode(t)
    \/ nova_save_inode_list_to_log
    \/ nova_save_blocknode_mappings_to_log
    \/ nova_init_blockmap_from_inode
    \/ nova_init_inode_list_from_inode
    \/ nova_failure_recovery
    \/ \E c \in CPUs : failure_thread_func(c)
    \/ wait_to_finish
    \/ Crash

Spec == Init /\ [][Next]_vars

-----------------------------------------------------------------------------
(* Properties.                                                              *)

\* The numbers that threads work on, and those of inodes that a name or a
\* snapshot shows.
Busy == {t \in Threads : pc[t] \in {"new", "commit", "evict", "free"}}
Working == {req[t].ino : t \in Busy}
Live == {n \in Inos : slot[n].valid \/ slot[n].held}

\* Types: ranges within the numbers of a CPU, and map_id names a CPU.
TypeOK ==
    /\ \A c \in CPUs : \A r \in inuse[c] : r.low \in 0..r.high /\ r.high \in 0..(MAX_INODE - 2)
    /\ map_id \in CPUs
    /\ slot \in [Inos -> [mode : BOOLEAN, valid : BOOLEAN, deleted : BOOLEAN, held : BOOLEAN]]
    /\ list.state \in {"none", "fresh", "stale"} /\ blocknode \in BOOLEAN
    /\ mode \in {"mounted", "saving", "down", "blockmap", "scan"}

\* The ranges say exactly which numbers are taken: those of inodes that are
\* there, those that a thread works on and those that an error left behind,
\* whatever way the file system was mounted: no number is handed out twice and
\* none is forgotten.  Types are kept.  This and the next two say nothing once a
\* mount was misled: a list that was saved by an unmount which then failed to save
\* the free blocks stays behind, a later unmount saves the free blocks and fails to
\* save its list, and the mount after that takes the old list for the new one.
NumbersExact ==
    ~misled =>
      /\ TypeOK
      /\ mode = "mounted" =>
           \A c \in CPUs : Covered(inuse[c]) =
             Covered({Reserved}) \cup {Internal(n) : n \in {m \in Live \cup Working \cup leaked : Cpu(m) = c}}

\* Two threads never work on the same number, and none works on the number of an
\* inode that a name or a snapshot shows, or on one that an error left in use.
NumbersUnique ==
    ~misled =>
      /\ \A t, u \in Busy : t # u => req[t].ino # req[u].ino
      /\ \A t \in Busy : req[t].ino \notin Live \cup leaked

\* The ranges of a CPU are apart from each other, with free numbers in between,
\* so that an allocation looks at the first two only and fails only when the
\* numbers of the CPU are used up.
NoSpaceMeansFull ==
    ~misled =>
      /\ mode = "mounted" =>
           \A c \in CPUs : \A r, s \in inuse[c] : r # s => r.high + 1 < s.low \/ s.high + 1 < r.low
      /\ \A k \in DOMAIN nospace : nospace[k][2] = 0..(MAX_INODE - 2)

=============================================================================
