----------------------------- MODULE Namespace -----------------------------
(***************************************************************************)
(* Directories of NOVA: the operations of namei.c on names, the directory  *)
(* log and tree of dir.c, the entries of log.c they append, the eviction   *)
(* of inodes (inode.c) and the rebuild after a crash (rebuild.c), with     *)
(* metadata checksums off.                                                 *)
(*                                                                         *)
(* An operation appends entries behind the tails of the logs of the inodes *)
(* it changes and then moves the tails, and validates or invalidates an    *)
(* inode, in one transaction of the lite journal.  A transaction is one    *)
(* step here: module LiteJournal shows that it is atomic.  The removal of  *)
(* a directory entry is different: an entry of the current epoch is        *)
(* updated in place, in a transaction of its own, earlier.                 *)
(*                                                                         *)
(* The VFS locks the directories and the victim, so the steps of two       *)
(* operations do not interleave.  Evictions and snapshots come at any      *)
(* time, and so does a crash.                                              *)
(***************************************************************************)
EXTENDS Integers, Sequences, FiniteSets, SequencesExt, FiniteSetsExt

CONSTANTS
    NInodes,         \* inode numbers are 1..NInodes, 1 is the root
    Names,           \* names other than . and ..
    NOVA_LINK_MAX,   \* most links of an inode
    MaxOps,          \* bound on the operations
    MaxEpoch,        \* bound on the epochs
    MaxCrashes       \* bound on the crashes

ASSUME NamespaceConstants ==
    /\ NInodes \in Nat \ {0} /\ NOVA_LINK_MAX \in Nat \ {0}
    /\ MaxOps \in Nat /\ MaxEpoch \in Nat /\ MaxCrashes \in Nat
    /\ {".", ".."} \cap Names = {}

VARIABLES
    pi,              \* persistent: the inode table with the logs up to their tails
    s_epoch_id,      \* the current epoch, in DRAM
    snapshots,       \* persistent: epochs of the snapshots; the last one is in the superblock
    inuse,           \* inode numbers in use, in DRAM
    i_nlink,         \* inode->i_nlink
    rb_tree,         \* sih->rb_tree: where the entry of each name is in the log
    trans_id,        \* sih->trans_id
    last_dentry,     \* sih->last_dentry
    last_link_change,\* sih->last_link_change
    pc, op,          \* where the current operation is, and its locals
    ns,              \* history: the names and inodes that committed operations left
    ops, crashes,    \* history: how many there were
    lost             \* history: what went wrong in a way the code does not handle

dram == <<s_epoch_id, inuse, i_nlink, rb_tree, trans_id, last_dentry, last_link_change>>
vars == <<pi, snapshots, dram, pc, op, ns, ops, crashes, lost>>

Inodes == 1..NInodes
Root == 1

\* A directory entry of a log; ino is 0 in an entry that removes the name.
Dentry(name, ino, links, tid, epoch) ==
    [type |-> "dir", name |-> name, ino |-> ino, links |-> links, tid |-> tid, epoch |-> epoch,
     invalid |-> FALSE, reassigned |-> FALSE]

LinkChange(links, tid, epoch) ==
    [type |-> "link", links |-> links, tid |-> tid, epoch |-> epoch, invalid |-> FALSE]

\* nova_init_dentry
nova_init_dentry(self, parent, epoch) ==
    << Dentry(".", self, 1, 0, epoch), Dentry("..", parent, 2, 0, epoch) >>

FatherEntry == 2

\* nova_init_inode and nova_append_dir_init_entries; valid is not touched.
NewInode(self, parent, mode, epoch) ==
    [mode |-> mode, valid |-> pi[self].valid, deleted |-> FALSE,
     links |-> IF mode = "dir" THEN 2 ELSE 1,
     create_epoch_id |-> epoch, delete_epoch_id |-> 0,
     log |-> IF mode = "dir" THEN nova_init_dentry(self, parent, epoch) ELSE << >>]

NoInode == [mode |-> "none", valid |-> FALSE, deleted |-> FALSE, links |-> 0,
            create_epoch_id |-> 0, delete_epoch_id |-> 0, log |-> << >>]

NoNames == [n \in Names |-> 0]

\* The locals of an operation: the entries it appended to each log, the marks
\* it will set once it has committed, the inodes that its transaction makes
\* valid or invalid, the parent it stores in the .. entry of a directory, and
\* what a rename has yet to remove.
NoOp == [pend |-> [i \in Inodes |-> << >>], linkcs |-> << >>, marks |-> << >>, validate |-> {}, invalidate |-> {},
         father |-> << >>, rest |-> << >>, epoch |-> 0, goal |-> {}, torn |-> FALSE]

-----------------------------------------------------------------------------
(* Rebuilding an inode from its log: nova_rebuild_dir_inode_tree, and for a *)
(* file the link count of nova_rebuild_file_inode_tree.                     *)

\* nova_rebuild_handle_dentry; ok is FALSE when a name is added twice.
ReplayDentry(r, log, p) ==
    LET e == log[p]
        newest == e.tid >= r.tid
        adds == ~e.invalid /\ e.ino > 0
    IN  [r EXCEPT
           !.tree = IF e.invalid \/ e.name \notin Names THEN @
                    ELSE [@ EXCEPT ![e.name] = IF adds THEN p ELSE 0],
           !.ok = @ /\ ~(adds /\ e.name \in Names /\ r.tree[e.name] # 0),
           !.last_dentry = IF @ = 0 \/ e.tid >= log[IF @ = 0 THEN p ELSE @].tid THEN p ELSE @,
           !.links = IF newest THEN e.links ELSE @,
           !.tid = IF newest THEN e.tid ELSE @]

ReplayLinkChange(r, log, p) ==
    LET e == log[p]
        newest == e.tid >= r.tid
    IN  [r EXCEPT !.last_link_change = p,
                  !.links = IF newest THEN e.links ELSE @,
                  !.tid = IF newest THEN e.tid ELSE @]

Rebuilt(inode) ==
    FoldLeft(LAMBDA r, p : IF inode.log[p].type = "dir" THEN ReplayDentry(r, inode.log, p)
                                                        ELSE ReplayLinkChange(r, inode.log, p),
             [tree |-> NoNames, links |-> inode.links, tid |-> 0, last_dentry |-> 0,
              last_link_change |-> 0, ok |-> TRUE],
             [p \in 1..Len(inode.log) |-> p])

\* The names and the inodes that a mount would find.
Recovered(t) ==
    LET live == {i \in Inodes : t[i].mode # "none" /\ t[i].valid /\ ~t[i].deleted}
        names(d) == LET tree == Rebuilt(t[d]).tree
                    IN  {<<d, n, t[d].log[tree[n]].ino>> : n \in {m \in Names : tree[m] # 0}}
    IN  {<<"live", i>> : i \in live}
          \cup UNION {names(d) : d \in {i \in live : t[i].mode = "dir"}}

-----------------------------------------------------------------------------
\* A new file system: nova_init creates the root.
Init ==
    /\ pi = [i \in Inodes |->
               IF i # Root THEN NoInode
               ELSE [NoInode EXCEPT !.mode = "dir", !.valid = TRUE, !.links = 2,
                                    !.log = nova_init_dentry(Root, Root, 0)]]
    /\ s_epoch_id = 0 /\ snapshots = {}
    /\ inuse = {Root}
    /\ i_nlink = [i \in Inodes |-> IF i = Root THEN 2 ELSE 0]
    /\ rb_tree = [i \in Inodes |-> NoNames]
    /\ trans_id = [i \in Inodes |-> IF i = Root THEN 1 ELSE 0]
    /\ last_dentry = [i \in Inodes |-> IF i = Root THEN FatherEntry ELSE 0]
    /\ last_link_change = [i \in Inodes |-> 0]
    /\ pc = "idle" /\ op = NoOp
    /\ ns = {<<"live", Root>>}
    /\ ops = 0 /\ crashes = 0 /\ lost = {}

-----------------------------------------------------------------------------
(* The pieces of an operation.  A working state w holds the variables that  *)
(* the pieces change one after the other.                                   *)

Working ==
    [pi |-> pi, nlink |-> i_nlink, tree |-> rb_tree, tid |-> trans_id,
     dentry |-> last_dentry, linkc |-> last_link_change, op |-> op]

\* Where the next entry appended to the log of inode i goes.
NextPlace(w, i) == Len(w.pi[i].log) + Len(w.op.pend[i]) + 1

\* The links_count of an entry of directory d.
LinksCount(w, d, change) ==
    IF w.nlink[d] = 0 /\ change = -1 THEN 0 ELSE w.nlink[d] + change

nova_append_dentry(w, d, name, ino, change) ==
    [w EXCEPT !.op.pend[d] = Append(@, Dentry(name, ino, LinksCount(w, d, change), w.tid[d],
                                              w.op.epoch)),
              !.dentry[d] = NextPlace(w, d),
              !.tid[d] = @ + 1]

nova_add_dentry(w, d, name, ino, inc_link) ==
    [nova_append_dentry(w, d, name, ino, inc_link) EXCEPT !.tree[d][name] = NextPlace(w, d)]

\* nova_inplace_update_dentry: a transaction of its own.
nova_inplace_update_dentry(w, d, p, change) ==
    [w EXCEPT !.pi[d].log[p] = [@ EXCEPT !.epoch = w.op.epoch, !.tid = w.tid[d], !.ino = 0,
                                         !.invalid = TRUE, !.links = LinksCount(w, d, change)],
              !.dentry[d] = p,
              !.tid[d] = @ + 1,
              !.op.torn = TRUE]

\* What is marked after the commit: in the log of inode, at place at; then is
\* the place of the entry to mark invalid after it, or 0.
Mark(set, inode, at, then) == [set |-> set, inode |-> inode, at |-> at, then |-> then]

\* Fault: the entry that created the name is not marked reassigned.
DentryMarksNoReassign(d, create, delete) == << Mark("freeable", d, create, delete) >>

\* nova_invalidate_dentries: the entry that created the name is reassigned, and
\* if it is freeable, it and the entry that deletes the name become invalid.
DentryMarks(d, create, delete) ==
    << Mark("reassigned", d, create, 0), Mark("freeable", d, create, delete) >>

nova_remove_dentry(w, d, name, dec_link) ==
    LET p == w.tree[d][name]
        w1 == [w EXCEPT !.tree[d][name] = 0]
    IN  IF w.pi[d].log[p].epoch = w.op.epoch
        THEN nova_inplace_update_dentry(w1, d, p, dec_link)
        ELSE [nova_append_dentry(w1, d, name, 0, dec_link)
                EXCEPT !.op.marks = @ \o DentryMarks(d, p, NextPlace(w, d))]

\* nova_append_link_change_entry with the new i_nlink; the old entry is marked
\* after the commit, before any directory entry.
nova_append_link_change_entry(w, i, links) ==
    LET old == w.linkc[i]
    IN  [w EXCEPT !.nlink[i] = links,
                  !.op.pend[i] = Append(@, LinkChange(links, w.tid[i], w.op.epoch)),
                  !.op.linkcs = IF old = 0 THEN @ ELSE Append(@, Mark("freeable", i, old, 0)),
                  !.linkc[i] = NextPlace(w, i),
                  !.tid[i] = @ + 1]

\* The operation goes on with what the working state w became.
Continue(w, next) ==
    /\ pi' = w.pi /\ i_nlink' = w.nlink /\ rb_tree' = w.tree /\ trans_id' = w.tid
    /\ last_dentry' = w.dentry /\ last_link_change' = w.linkc
    /\ op' = w.op /\ pc' = next
    /\ UNCHANGED <<s_epoch_id, snapshots, ns, crashes, lost>>

Begin == pc = "idle" /\ ops < MaxOps /\ ops' = ops + 1

\* A fresh set of locals; goal is what the operation is meant to leave.
Start(goal) == [Working EXCEPT !.op = [NoOp EXCEPT !.epoch = s_epoch_id, !.goal = goal]]

\* What the VFS lets an operation work on.
IsDir(i) == pi[i].mode = "dir" /\ pi[i].valid /\ i_nlink[i] > 0
InodeOf(d, n) == pi[d].log[rb_tree[d][n]].ino
Exists(d, n) == rb_tree[d][n] # 0
IsDirInode(i) == pi[i].mode = "dir"

\* nova_link, nova_mkdir and nova_rename fail with EMLINK otherwise.
LinksLeft(i) == i_nlink[i] < NOVA_LINK_MAX

nova_empty_dir(i) == \A n \in Names : rb_tree[i][n] = 0

-----------------------------------------------------------------------------
(* The operations of namei.c.                                               *)

\* What nova_create and nova_mkdir do up to the transaction: the number of the
\* inode, its entry in the directory and the inode itself.
nova_new_inode(d, n, mode) ==
    /\ Begin
    /\ IsDir(d) /\ ~Exists(d, n)
    /\ mode = "dir" => LinksLeft(d)
    /\ Inodes \ inuse # {}
    /\ LET i == Min(Inodes \ inuse)
           inc == IF mode = "dir" THEN 1 ELSE 0
           w == nova_add_dentry(Start(ns \cup {<<"live", i>>, <<d, n, i>>}), d, n, i, inc)
           inode == NewInode(i, d, mode, s_epoch_id)
           r == Rebuilt(inode)
       IN  /\ inuse' = inuse \cup {i}
           /\ Continue([w EXCEPT !.pi[i] = inode,
                                 !.nlink = [@ EXCEPT ![d] = @ + inc, ![i] = inode.links],
                                 !.tree[i] = NoNames,
                                 !.tid[i] = IF mode = "dir" THEN r.tid + 1 ELSE 0,
                                 !.dentry[i] = r.last_dentry,
                                 !.linkc[i] = 0,
                                 !.op.validate = {i}], "commit")

\* nova_mknod and nova_symlink do the same.
nova_create(d, n) == nova_new_inode(d, n, "file")

nova_mkdir(d, n) == nova_new_inode(d, n, "dir")

nova_link(i, d, n) ==
    /\ Begin
    /\ IsDir(d) /\ ~Exists(d, n)
    /\ pi[i].mode = "file" /\ pi[i].valid /\ i_nlink[i] > 0 /\ LinksLeft(i)
    /\ LET w == nova_add_dentry(Start(ns \cup {<<d, n, i>>}), d, n, i, 0)
       IN  Continue(nova_append_link_change_entry(w, i, i_nlink[i] + 1), "commit")
    /\ UNCHANGED inuse

nova_unlink(d, n) ==
    /\ Begin
    /\ IsDir(d) /\ Exists(d, n)
    /\ LET i == InodeOf(d, n)
           last == i_nlink[i] = 1
           w == nova_remove_dentry(Start(ns \ ({<<d, n, i>>} \cup IF last THEN {<<"live", i>>} ELSE {})),
                                   d, n, 0)
           w1 == nova_append_link_change_entry(w, i, Max({i_nlink[i] - 1, 0}))
       IN  /\ ~IsDirInode(i)
           /\ Continue([w1 EXCEPT !.op.invalidate = IF last THEN {i} ELSE {}], "commit")
    /\ UNCHANGED inuse

nova_rmdir(d, n) ==
    /\ Begin
    /\ IsDir(d) /\ Exists(d, n)
    /\ LET i == InodeOf(d, n)
           w == nova_remove_dentry(Start(ns \ {<<d, n, i>>, <<"live", i>>}), d, n, -1)
           w1 == nova_append_link_change_entry([w EXCEPT !.nlink[d] = Max({@ - 1, 0})], i, 0)
       IN  /\ IsDirInode(i) /\ nova_empty_dir(i)
           /\ Continue([w1 EXCEPT !.op.invalidate = {i}], "commit")
    /\ UNCHANGED inuse

\* Directory i and everything below it, which the VFS does not let i move into.
Below(i) ==
    LET grow[k \in 0..NInodes] ==
          IF k = 0 THEN {i}
          ELSE grow[k - 1] \cup {c \in Inodes : \E d \in grow[k - 1], n \in Names :
                                   IsDirInode(d) /\ Exists(d, n) /\ InodeOf(d, n) = c}
    IN  grow[NInodes]

\* Fault: within one directory only the increment is taken back.
LinkChangesOnce(dir, same, target) ==
    LET inc == (IF target = 0 THEN 1 ELSE 0) - (IF same THEN 1 ELSE 0)
    IN  IF dir THEN <<inc, -1>> ELSE <<0, 0>>

\* inc_link and dec_link of nova_rename: what the move of a directory changes
\* in the links of the new and the old parent.  Within one directory the entry
\* that is appended last in the log has to carry the final count.
LinkChanges(dir, same, target) ==
    LET inc == (IF target = 0 THEN 1 ELSE 0) - (IF same THEN 1 ELSE 0)
    IN  IF dir THEN <<inc, IF same /\ inc = 0 THEN 0 ELSE -1>> ELSE <<0, 0>>

\* nova_rename as far as the new name; target is 0 when the new name is free.
nova_rename(od, on, nd, nn) ==
    /\ Begin
    /\ IsDir(od) /\ IsDir(nd) /\ Exists(od, on)
    /\ LET i == InodeOf(od, on)
           target == IF Exists(nd, nn) THEN InodeOf(nd, nn) ELSE 0
           dir == IsDirInode(i)
           moved == dir /\ od # nd
           change == LinkChanges(dir, od = nd, target)
           inc == change[1]
           dec == change[2]
           dies == target # 0 /\ i_nlink[target] <= (IF dir THEN 2 ELSE 1)
           goal == (ns \ ({<<od, on, i>>, <<nd, nn, target>>}
                            \cup IF dies THEN {<<"live", target>>} ELSE {})) \cup {<<nd, nn, i>>}
           w0 == nova_append_link_change_entry(Start(goal), i, i_nlink[i])
           w1 == IF target = 0 THEN w0 ELSE nova_remove_dentry(w0, nd, nn, 0)
           w2 == nova_add_dentry(w1, nd, nn, i, inc)
       IN  /\ i # target
           /\ nd \notin Below(i) \/ ~dir
           /\ target # 0 => (dir <=> IsDirInode(target))
           /\ target # 0 /\ dir => nova_empty_dir(target)
           /\ target = 0 /\ dir => LinksLeft(nd)
           /\ Continue([w2 EXCEPT !.nlink[nd] = IF inc > 0 THEN @ + 1 ELSE @,
                                  !.op.father = IF moved THEN <<i, nd>> ELSE << >>,
                                  !.op.invalidate = IF dies THEN {target} ELSE {},
                                  !.op.rest = <<od, on, dec, target>>], "remove_old")
    /\ UNCHANGED inuse

\* The rest of nova_rename before the transaction.
rename_remove_old ==
    /\ pc = "remove_old"
    /\ LET od == op.rest[1]
           dec == op.rest[3]
           target == op.rest[4]
           w == nova_remove_dentry(Working, od, op.rest[2], dec)
           w1 == [w EXCEPT !.nlink[od] = IF dec < 0 THEN @ - 1 ELSE @]
           drops == IF target = 0 THEN 0 ELSE IF IsDirInode(target) THEN 2 ELSE 1
       IN  Continue(IF target = 0 THEN w1
                    ELSE nova_append_link_change_entry(w1, target, Max({i_nlink[target] - drops, 0})),
                    "commit")
    /\ UNCHANGED <<inuse, ops>>

\* Fault: the transaction leaves the parent of a directory that moved.
CommittedLogFather(i) == pi[i].log \o op.pend[i]

\* The log of inode i in a transaction: the tail moves over what was appended,
\* and the .. entry of a directory that moved gets its parent.
CommittedLog(i) ==
    (IF op.father # << >> /\ op.father[1] = i THEN [pi[i].log EXCEPT ![FatherEntry].ino = op.father[2]]
     ELSE pi[i].log) \o op.pend[i]

\* nova_lite_transaction_for_new_inode, nova_lite_transaction_for_time_and_link
\* and the transaction of nova_rename: the logs change, an inode becomes valid
\* or invalid.
transaction ==
    /\ pc = "commit"
    /\ pi' = [i \in Inodes |->
                [pi[i] EXCEPT
                   !.valid = i \in op.validate \/ (@ /\ i \notin op.invalidate),
                   !.delete_epoch_id = IF i \in op.invalidate THEN op.epoch ELSE @,
                   !.log = CommittedLog(i)]]
    /\ ns' = op.goal
    /\ op' = [NoOp EXCEPT !.marks = op.linkcs \o op.marks]
    /\ pc' = IF op.linkcs \o op.marks = << >> THEN "idle" ELSE "mark"
    /\ UNCHANGED <<snapshots, dram, ops, crashes, lost>>

\* Sets the mark m and goes on with the marks rest.
SetMark(m, field, rest) ==
    /\ pi' = [pi EXCEPT ![m.inode].log[m.at] = IF field = "reassigned" THEN [@ EXCEPT !.reassigned = TRUE]
                                               ELSE IF field = "invalid" THEN [@ EXCEPT !.invalid = TRUE]
                                               ELSE @]
    /\ op' = [op EXCEPT !.marks = rest]
    /\ pc' = IF rest = << >> THEN "idle" ELSE "mark"
    /\ UNCHANGED <<snapshots, dram, ns, ops, crashes, lost>>

\* Fault: the entry that deletes a name becomes invalid before the one that created it.
mark_delete_first ==
    /\ pc = "mark"
    /\ LET m == Head(op.marks)
           rest == Tail(op.marks)
       IN  \/ m.set # "freeable" /\ SetMark(m, m.set, rest)
           \/ /\ m.set = "freeable" /\ pi[m.inode].log[m.at].epoch = s_epoch_id
              /\ IF m.then = 0 THEN SetMark(m, "invalid", rest)
                 ELSE SetMark([m EXCEPT !.at = m.then], "invalid", <<Mark("invalid", m.inode, m.at, 0)>> \o rest)
           \/ m.set = "freeable" /\ pi[m.inode].log[m.at].epoch # s_epoch_id /\ SetMark(m, "none", rest)

\* nova_invalidate_link_change_entry and nova_invalidate_dentries, one mark at a
\* time: each is flushed and fenced.  Only an entry of the epoch that is now
\* current is invalidated (old_entry_freeable).
mark ==
    /\ pc = "mark"
    /\ LET m == Head(op.marks)
           rest == Tail(op.marks)
       IN  \/ m.set # "freeable" /\ SetMark(m, m.set, rest)
           \/ /\ m.set = "freeable" /\ pi[m.inode].log[m.at].epoch = s_epoch_id
              /\ SetMark(m, "invalid",
                         (IF m.then = 0 THEN << >> ELSE <<Mark("invalid", m.inode, m.then, 0)>>) \o rest)
           \/ m.set = "freeable" /\ pi[m.inode].log[m.at].epoch # s_epoch_id /\ SetMark(m, "none", rest)

\* A later piece of an operation fails for want of memory or log space: the
\* code returns the error and undoes nothing.
fail ==
    /\ pc \in {"remove_old", "commit"}
    /\ pc' = "idle" /\ op' = NoOp
    /\ lost' = {"failed"}
    /\ UNCHANGED <<pi, snapshots, dram, ns, ops, crashes>>

-----------------------------------------------------------------------------
(* Eviction, garbage collection, snapshots.                                 *)

\* nova_append_inode_to_snapshot returns 0: a snapshot holds the deleted inode.
InSnapshot(inode) ==
    LET later == {s \in snapshots : s >= inode.create_epoch_id}
    IN  /\ inode.create_epoch_id # inode.delete_epoch_id
        /\ later # {}
        /\ Min(later) < inode.delete_epoch_id

\* nova_evict_inode when the last reference to an inode without links goes.
nova_evict_inode(i) ==
    /\ i \in inuse /\ i_nlink[i] = 0 /\ i \notin op.invalidate
    /\ \A k \in DOMAIN op.marks : op.marks[k].inode # i
    /\ ~pi[i].valid /\ ~InSnapshot(pi[i])
    /\ pi' = [pi EXCEPT ![i].deleted = TRUE, ![i].log = << >>]
    /\ inuse' = inuse \ {i}
    /\ UNCHANGED <<snapshots, s_epoch_id, i_nlink, rb_tree, trans_id, last_dentry,
                   last_link_change, pc, op, ns, ops, crashes, lost>>

\* Garbage collection of the log of inode i drops the entries in drop and copies
\* the others up to place k; the tree and the pointers into the log follow.
\* nova_gc_assign_new_entry sets last_link_change to each such entry it copies.
Collect(i, k, drop) ==
    LET log == pi[i].log
        keep == SelectSeq([p \in 1..Len(log) |-> p], LAMBDA p : p \notin drop)
        moved(p) == Cardinality({q \in 1..p : q \notin drop})
        linkcs == {p \in (1..k) \ drop : log[p].type = "link"}
    IN  /\ pi' = [pi EXCEPT ![i].log = [m \in DOMAIN keep |-> @[keep[m]]]]
        /\ rb_tree' = [rb_tree EXCEPT ![i] = [n \in Names |-> IF @[n] = 0 THEN 0 ELSE moved(@[n])]]
        /\ last_dentry' = [last_dentry EXCEPT ![i] = IF @ \in drop THEN 0 ELSE moved(@)]
        /\ last_link_change' = [last_link_change EXCEPT
             ![i] = IF linkcs # {} THEN moved(Max(linkcs)) ELSE IF @ = 0 THEN 0 ELSE moved(@)]
        /\ UNCHANGED <<snapshots, s_epoch_id, inuse, i_nlink, trans_id, pc, op, ns, ops, crashes>>

Invalid(i) == {p \in 1..Len(pi[i].log) : pi[i].log[p].invalid}

\* Fault: curr_log_entry_invalid does not spare the last directory entry.
nova_inode_log_thorough_gc_last(i) ==
    /\ pc = "idle" /\ pi[i].valid
    /\ \E k \in 1..(Len(pi[i].log) - 1) :
         LET drop == Invalid(i) \cap (1..k)
         IN  drop # {} /\ Collect(i, k, drop)
    /\ UNCHANGED lost

\* nova_inode_log_thorough_gc copies the pages before the tail's: all that is
\* invalid in them goes, except the last directory entry.
nova_inode_log_thorough_gc(i) ==
    /\ pc = "idle" /\ pi[i].valid
    /\ \E k \in 1..(Len(pi[i].log) - 1) :
         LET drop == (Invalid(i) \cap (1..k)) \ {last_dentry[i]}
         IN  drop # {} /\ Collect(i, k, drop)
    /\ UNCHANGED lost

\* nova_inode_log_fast_gc: a page goes when all its entries are counted as
\* invalid, the last directory entry too.
nova_inode_log_fast_gc(i) ==
    /\ pc = "idle" /\ pi[i].valid
    /\ \E p, q \in Invalid(i) :
         /\ p <= q /\ q < Len(pi[i].log) /\ p..q \subseteq Invalid(i)
         /\ Collect(i, 0, p..q)
         /\ lost' = IF last_dentry[i] \in p..q THEN {"last dentry"} ELSE lost

\* nova_create_snapshot
nova_create_snapshot ==
    /\ s_epoch_id < MaxEpoch
    /\ snapshots' = snapshots \cup {s_epoch_id}
    /\ s_epoch_id' = s_epoch_id + 1
    /\ UNCHANGED <<pi, inuse, i_nlink, rb_tree, trans_id, last_dentry, last_link_change,
                   pc, op, ns, ops, crashes, lost>>

-----------------------------------------------------------------------------
\* A crash, the recovery (failure_thread_func decides which inodes are in use)
\* and the rebuild of each inode when it is looked up (nova_iget).
Crash ==
    /\ crashes < MaxCrashes /\ crashes' = crashes + 1
    /\ LET used == {i \in Inodes : pi[i].mode # "none" /\ ~pi[i].deleted
                                     /\ (pi[i].valid \/ InSnapshot(pi[i]))}
           r == [i \in Inodes |-> Rebuilt(pi[i])]
       IN  /\ inuse' = used
           /\ pi' = [i \in Inodes |-> IF i \in used THEN [pi[i] EXCEPT !.links = r[i].links]
                                      ELSE [pi[i] EXCEPT !.deleted = (@ \/ pi[i].mode # "none")]]
           /\ i_nlink' = [i \in Inodes |-> IF i \in used /\ pi[i].valid THEN r[i].links ELSE 0]
           /\ rb_tree' = [i \in Inodes |-> IF i \in used THEN r[i].tree ELSE NoNames]
           /\ trans_id' = [i \in Inodes |-> r[i].tid + 1]
           /\ last_dentry' = [i \in Inodes |-> r[i].last_dentry]
           /\ last_link_change' = [i \in Inodes |-> r[i].last_link_change]
    /\ s_epoch_id' = IF snapshots = {} THEN 0 ELSE Max(snapshots)
    /\ lost' = lost \cup (IF op.torn THEN {"torn"} ELSE {})
                    \cup (IF \E k \in DOMAIN op.marks : op.marks[k].set = "reassigned" /\ pc = "mark"
                          THEN {"listed"} ELSE {})
    /\ pc' = "idle" /\ op' = NoOp
    /\ UNCHANGED <<snapshots, ns, ops>>

-----------------------------------------------------------------------------
Next ==
    \/ \E d \in Inodes, n \in Names : nova_create(d, n) \/ nova_mkdir(d, n)
    \/ \E i, d \in Inodes, n \in Names : nova_link(i, d, n)
    \/ \E d \in Inodes, n \in Names : nova_unlink(d, n) \/ nova_rmdir(d, n)
    \/ \E od, nd \in Inodes, on, nn \in Names : nova_rename(od, on, nd, nn)
    \/ rename_remove_old
    \/ transaction
    \/ mark
    \/ fail
    \/ \E i \in Inodes : nova_evict_inode(i)
    \/ \E i \in Inodes : nova_inode_log_thorough_gc(i) \/ nova_inode_log_fast_gc(i)
    \/ nova_create_snapshot
    \/ Crash

Spec == Init /\ [][Next]_vars

-----------------------------------------------------------------------------
(* Properties.                                                              *)

Handled == lost = {}

\* Types: inodes and their logs, and trees that point into the log.
TypeOK ==
    /\ \A i \in Inodes :
         /\ pi[i].mode \in {"none", "file", "dir"}
         /\ \A p \in DOMAIN pi[i].log : pi[i].log[p].type \in {"dir", "link"}
         /\ i_nlink[i] \in 0..NOVA_LINK_MAX
         /\ \A n \in Names : Handled => rb_tree[i][n] \in 0..(Len(pi[i].log) + Len(op.pend[i]))
    /\ inuse \in SUBSET Inodes
    /\ pc \in {"idle", "remove_old", "commit", "mark"}
    /\ ops \in 0..MaxOps /\ crashes \in 0..MaxCrashes

Live == {i \in Inodes : pi[i].mode # "none" /\ pi[i].valid}
LiveDirs == {d \in Live : pi[d].mode = "dir"}

\* The names of directory d in its tree, as <<name, inode>>.
Entries(d) == {<<n, InodeOf(d, n)>> : n \in {m \in Names : Exists(d, m)}}

\* The journal's promise (journal.c), outside the operations that have updated an
\* entry in place: a crash at any moment leaves what the operations that committed
\* left, never a part of one.
AtomicUnlessInplace == Handled /\ ~op.torn => Recovered(pi) = ns

\* What an inode is rebuilt to from its log, by nova_iget after an eviction or
\* after a crash, is what memory holds: names, links and last_dentry, the entry that
\* garbage collection must spare.  (A fast collection does not; what follows one
\* that drops it is not Handled.)
RebuildShowsMemory ==
    Handled /\ pc \in {"idle", "mark"} =>
      \A i \in Live : LET r == Rebuilt(pi[i])
                      IN  /\ r.ok
                          /\ r.links = i_nlink[i]
                          /\ r.tid < trans_id[i] \/ pi[i].mode = "file"
                          /\ pi[i].mode = "dir" => r.tree = rb_tree[i] /\ r.last_dentry = last_dentry[i]

\* Links are counted right: a file has one per name, a directory one for its
\* name, one for . and one per subdirectory.
LinksCountNames ==
    Handled /\ pc \in {"idle", "mark"} =>
      \A i \in Live :
        LET named == {<<d, n>> \in LiveDirs \X Names : Exists(d, n) /\ InodeOf(d, n) = i}
            subdirs == {e \in Entries(i) : IsDirInode(e[2])}
        IN  IF pi[i].mode = "file" THEN i_nlink[i] = Cardinality(named) /\ named # {}
            ELSE /\ i_nlink[i] = 2 + Cardinality(subdirs)
                 /\ Cardinality(named) = IF i = Root THEN 0 ELSE 1

\* The .. entry of a directory, which nova_get_parent reads and rename updates
\* in place where it expects it in the log, names the directory it is in; the
\* other fields have their types.
ParentNamed ==
    /\ TypeOK
    /\ Handled /\ pc \in {"idle", "mark"} =>
      \A d \in LiveDirs \ {Root} :
        LET father == pi[d].log[FatherEntry]
        IN  /\ father.name = ".." /\ ~father.invalid
            /\ father.ino \in LiveDirs
            /\ \E n \in Names : Exists(father.ino, n) /\ InodeOf(father.ino, n) = d

\* nova_readdir_fast reads the log, not the tree.  It emits a name when it meets
\* the next one, with the number of that next one; the last name gets its own.
nova_readdir_fast(d) ==
    LET log == pi[d].log
        shown == SelectSeq([p \in DOMAIN log |-> p],
                           LAMBDA p : log[p].type = "dir" /\ log[p].ino > 0
                                        /\ ~log[p].invalid /\ ~log[p].reassigned)
    IN  [k \in DOMAIN shown |-> <<log[shown[k]].name, log[shown[Min({k + 1, Len(shown)})]].ino>>]

\* Between operations a listing of a directory shows every name that a lookup
\* finds and no other, each of them once.
ReaddirShowsTree ==
    Handled /\ pc = "idle" =>
      \A d \in LiveDirs :
        LET names == {n \in Names : Exists(d, n)}
            emitted == nova_readdir_fast(d)
        IN  /\ {emitted[k][1] : k \in DOMAIN emitted} = {".", ".."} \cup names
            /\ Len(emitted) = 2 + Cardinality(names)

=============================================================================
