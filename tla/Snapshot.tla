------------------------------ MODULE Snapshot ------------------------------
(***************************************************************************)
(* NOVA's snapshots (snapshot.c).  A snapshot is a number: the epoch that  *)
(* ends when it is taken.  What is written carries the epoch in which it   *)
(* was created, what is overwritten the epoch in which it was deleted, and *)
(* a snapshot s shows what was created up to s and deleted after s.  Blocks*)
(* that are overwritten while a snapshot shows them are put on a list of   *)
(* that snapshot instead of being freed.  Deleting a snapshot hands its    *)
(* list on to the next one, where a background thread frees what the next  *)
(* one does not show.                                                      *)
(*                                                                         *)
(* A version stands for one data extent or one inode, the two kinds of     *)
(* things on the lists (SS_FILE_WRITE, SS_INODE); versions are numbered in *)
(* the order in which they are created and a freed one is not used again.  *)
(***************************************************************************)
EXTENDS Integers, Sequences, FiniteSets

CONSTANTS
    Threads,         \* threads that write files
    Files,           \* a file holds one version at a time
    CPUs,            \* a snapshot has one list per CPU
    EntriesPerPage,  \* entries that fit a list page
    MaxVersions,     \* bound on the versions created
    MaxEpoch,        \* bound on the epochs
    MaxWentBack      \* bound on the mounts that go back to an earlier epoch

ASSUME SnapshotConstants ==
    /\ IsFiniteSet(Threads)
    /\ EntriesPerPage \in Nat \ {0}
    /\ MaxVersions \in Nat /\ MaxEpoch \in Nat /\ MaxWentBack \in Nat

VARIABLES
    epoch,       \* sbi->s_epoch_id
    saved,       \* super->s_epoch_id, what the next mount starts from
    infos,       \* snapshot_info_tree: the pages of each list, from its head to its tail
    spare,       \* pages that each list counts besides: one "linked" behind the tail, or "lost"
    taking,      \* the snapshot under way, or None
    removing,    \* the lists of the last snapshot, whose entries are being freed
    clean,       \* curr_clean_snapshot_info, or None
    cleaner,     \* where the cleaner thread is, the snapshot it works on, and if it is the last
    stop,        \* kthread_stop: "no", or when it came: "seen" by the thread, or "missed"
    file,        \* the version each file holds, or 0
    create,      \* the epoch in which each version was created
    delete,      \* the epoch in which it was deleted, or None
    pc, req,     \* of each thread that writes: where it is, and its locals
    new_page,    \* the list for which it has allocated a page, or None
    freed,       \* versions that were freed
    view,        \* history: what the files held when each live snapshot was taken
    raced,       \* history: versions freed while a snapshot was being taken
    orphaned,    \* history: deleted versions that are on no list and not freed
    undefined,   \* history: places that used memory freed before or never written
    wentBack     \* history: mounts that started in an epoch that had ended

versions == <<file, create, delete>>
vars == <<epoch, saved, infos, spare, taking, removing, clean, cleaner, stop, versions, pc, req,
          new_page, freed, view, raced, orphaned, undefined, wentBack>>

None == -1
NoRequest == [f |-> None, e |-> 0, new |-> FALSE, info |-> None, v |-> 0]

Fresh == [pc |-> "awake", info |-> None, final |-> FALSE]

Snapshots == DOMAIN infos

\* A list is a sequence of pages; its tail is the end of the last one.
EmptyPage(e) == [epoch |-> e, entries |-> << >>]
EmptyLists(e) == [c \in CPUs |-> <<EmptyPage(e)>>]
NoSpare == [c \in CPUs |-> {}]

Init ==
    /\ epoch = 0 /\ saved = 0
    /\ infos = << >> /\ spare = << >>
    /\ taking = None /\ removing = << >> /\ clean = None
    /\ cleaner = Fresh /\ stop = "no"
    /\ file = [f \in Files |-> 0]
    /\ create = << >> /\ delete = << >>
    /\ pc = [t \in Threads |-> "idle"]
    /\ req = [t \in Threads |-> NoRequest]
    /\ new_page = [t \in Threads |-> None]
    /\ freed = {} /\ view = << >> /\ raced = {} /\ orphaned = {}
    /\ undefined = {} /\ wentBack = 0

-----------------------------------------------------------------------------
(* Overwriting and removing files.                                          *)

\* Versions vs go back to the allocator; delete' is known.
Free(vs) ==
    /\ freed' = freed \cup vs
    /\ raced' = IF taking = None THEN raced ELSE raced \cup vs

\* The first snapshot that is not older than e.
nova_find_target_snapshot_info(e) ==
    LET S == {s \in Snapshots : s >= e}
    IN  IF S = {} THEN None ELSE CHOOSE s \in S : \A r \in S : s <= r

nova_old_entry_deleteable(c, d) ==
    \/ c = d
    \/ nova_find_target_snapshot_info(c) = None
    \/ nova_find_target_snapshot_info(c) >= d

\* A write, or the removal of a file, holds the inode's lock; it reads the epoch
\* when it starts.
nova_get_epoch_id(t) ==
    /\ pc[t] = "idle" /\ stop = "no"
    /\ \E f \in Files, new \in BOOLEAN :
         /\ \A u \in Threads : pc[u] # "idle" => req[u].f # f
         /\ IF new THEN Len(create) + Cardinality({u \in Threads : req[u].new}) < MaxVersions
            ELSE file[f] # 0
         /\ req' = [req EXCEPT ![t] = [f |-> f, e |-> epoch, new |-> new, info |-> None, v |-> 0]]
    /\ pc' = [pc EXCEPT ![t] = "reassign"]
    /\ UNCHANGED <<epoch, saved, infos, spare, taking, removing, clean, cleaner, stop, versions>>
    /\ UNCHANGED <<new_page, freed, view, raced, orphaned, undefined, wentBack>>

\* The file holds the new version, if there is one, and the old one is deleted.
Replace(r) ==
    LET old == file[r.f]
        ended == IF old = 0 THEN delete ELSE [delete EXCEPT ![old] = r.e]
    IN  /\ file' = [file EXCEPT ![r.f] = IF r.new THEN Len(create) + 1 ELSE 0]
        /\ create' = IF r.new THEN Append(create, r.e) ELSE create
        /\ delete' = IF r.new THEN Append(ended, None) ELSE ended

\* nova_assign_write_entry and nova_evict_inode, up to the lookup of the snapshot
\* whose list the old version belongs to.
nova_free_old_entry(t) ==
    LET r == req[t]
        old == file[r.f]
    IN  /\ pc[t] = "reassign"
        /\ Replace(r)
        /\ IF old = 0 \/ nova_old_entry_deleteable(create[old], r.e)
           THEN /\ Free(IF old = 0 THEN {} ELSE {old})
                /\ pc' = [pc EXCEPT ![t] = "idle"]
                /\ req' = [req EXCEPT ![t] = NoRequest]
           ELSE /\ pc' = [pc EXCEPT ![t] = "append"]
                /\ req' = [req EXCEPT ![t] = [f |-> r.f, e |-> r.e, new |-> FALSE, v |-> old,
                            info |-> nova_find_target_snapshot_info(create[old])]]
                /\ UNCHANGED <<freed, raced>>
        /\ UNCHANGED <<epoch, saved, infos, spare, taking, removing, clean, cleaner, stop>>
        /\ UNCHANGED <<new_page, view, orphaned, undefined, wentBack>>

Entry(v) == [v |-> v, deleted |-> FALSE]

\* The list with one entry more, on the next page if the last one is full.
WithEntry(list, s, entry) ==
    LET n == Len(list)
    IN  IF Len(list[n].entries) < EntriesPerPage
        THEN [list EXCEPT ![n].entries = Append(@, entry)]
        ELSE Append(list, [epoch |-> s, entries |-> <<entry>>])

Full(s, c) == Len(infos[s][c][Len(infos[s][c])].entries) = EntriesPerPage

\* The tail's page is full, and neither the list nor t has another one.
NeedsPage(t, c) ==
    new_page[t] = None /\ Full(req[t].info, c) /\ "linked" \notin spare[req[t].info][c]

\* t links the page it has allocated behind the tail's page, in place of whatever
\* is linked there, and the list counts it; the entry goes there only if the
\* tail's page is full, and that is where another thread may have moved the tail.
SpareAfter(t, c) ==
    LET s == req[t].info
        before == spare[s][c]
    IN  IF new_page[t] # None
        THEN (IF Full(s, c) THEN {} ELSE {"linked"}) \cup (IF before = {} THEN {} ELSE {"lost"})
        ELSE IF Full(s, c) THEN before \ {"linked"} ELSE before

\* With the lock of the list given up, which is taken again only afterwards.
kmalloc_list_page(t) ==
    /\ pc[t] = "append"
    /\ req[t].info \in Snapshots
    /\ \E c \in CPUs :
         /\ NeedsPage(t, c)
         /\ new_page' = [new_page EXCEPT ![t] = c]
    /\ UNCHANGED <<epoch, saved, infos, spare, taking, removing, clean, cleaner, stop, versions>>
    /\ UNCHANGED <<pc, req, freed, view, raced, orphaned, undefined, wentBack>>

\* Nobody looks at the error when no page can be allocated, and the snapshot may
\* have been deleted since the lookup.
nova_append_snapshot_list_entry(t) ==
    LET s == req[t].info
    IN  /\ pc[t] = "append"
        /\ \E c \in CPUs :
             /\ new_page[t] \in {None, c}
             /\ \/ /\ s \in Snapshots /\ ~NeedsPage(t, c)
                   /\ infos' = [infos EXCEPT ![s][c] = WithEntry(@, s, Entry(req[t].v))]
                   /\ spare' = [spare EXCEPT ![s][c] = SpareAfter(t, c)]
                   /\ UNCHANGED <<orphaned, undefined>>
                \/ /\ s \in Snapshots => NeedsPage(t, c)
                   /\ orphaned' = orphaned \cup {req[t].v}
                   /\ undefined' = IF s \in Snapshots THEN undefined ELSE undefined \cup {"append"}
                   /\ UNCHANGED <<infos, spare>>
        /\ pc' = [pc EXCEPT ![t] = "idle"]
        /\ req' = [req EXCEPT ![t] = NoRequest]
        /\ new_page' = [new_page EXCEPT ![t] = None]
        /\ UNCHANGED <<epoch, saved, taking, removing, clean, cleaner, stop, versions>>
        /\ UNCHANGED <<freed, view, raced, wentBack>>

-----------------------------------------------------------------------------
(* Taking a snapshot.                                                       *)

\* From here on others write in the next epoch, but the snapshot is not yet in
\* the tree.
create_snapshot_begin ==
    /\ taking = None /\ stop = "no"
    /\ epoch < MaxEpoch
    /\ taking' = epoch
    /\ epoch' = epoch + 1
    /\ view' = [s \in DOMAIN view \cup {epoch} |->
                 IF s # epoch \/ s \in Snapshots THEN view[s]
                 ELSE [f \in Files |-> IF \E t \in Threads : req[t].f = f THEN 0 ELSE file[f]]]
    /\ UNCHANGED <<saved, infos, spare, removing, clean, cleaner, stop, versions, pc, req, new_page>>
    /\ UNCHANGED <<freed, raced, orphaned, undefined, wentBack>>

\* An allocation fails, or the snapshot is logged, inserted (which fails if the
\* number is taken) and the super block gets the number of the snapshot.
create_snapshot_end ==
    /\ taking # None
    /\ taking' = None
    /\ \/ /\ infos' = [s \in Snapshots \cup {taking} |->
                        IF s \in Snapshots THEN infos[s] ELSE EmptyLists(s)]
          /\ spare' = [s \in Snapshots \cup {taking} |->
                        IF s \in Snapshots THEN spare[s] ELSE NoSpare]
          /\ saved' = taking
          /\ UNCHANGED view
       \/ /\ view' = [s \in Snapshots |-> view[s]]
          /\ UNCHANGED <<infos, spare, saved>>
    /\ UNCHANGED <<epoch, removing, clean, cleaner, stop, versions, pc, req, new_page>>
    /\ UNCHANGED <<freed, raced, orphaned, undefined, wentBack>>

-----------------------------------------------------------------------------
(* Walking a list.                                                          *)

\* Entering a page moves on by one page only: on a page that is empty and not
\* the last one, its NEXT_PAGE mark is read as an entry of unknown type
\* (NOVA_ASSERT(0)), and so is whatever kmalloc left behind the mark.
Unwritten(list, n) ==
    IF \E p \in 2..n : p < Len(list) /\ list[p].entries = << >> THEN {"walk"} ELSE {}

\* The versions on the first n pages that are still to be freed.
Pending(list, n) ==
    UNION {{list[p].entries[k].v : k \in {k \in DOMAIN list[p].entries : ~list[p].entries[k].deleted}}
             : p \in 1..n}

\* Leading pages that came from snapshots older than s.
OldPages(list, s) ==
    CHOOSE n \in 0..Len(list) :
      /\ \A p \in 1..n : list[p].epoch < s
      /\ n < Len(list) => list[n + 1].epoch >= s

\* Fault: an entry is freed as soon as it is inherited.
Cleanable_all(list, s) == Pending(list, OldPages(list, s))

\* What nova_background_clean_snapshot_list frees: s does not show it.
Cleanable(list, s) ==
    {v \in Pending(list, OldPages(list, s)) : delete[v] <= s}

MarkedEntry(e, vs) == [v |-> e.v, deleted |-> e.deleted \/ e.v \in vs]

Marked(list, vs) ==
    [p \in DOMAIN list |->
       [epoch |-> list[p].epoch,
        entries |-> [k \in DOMAIN list[p].entries |-> MarkedEntry(list[p].entries[k], vs)]]]

-----------------------------------------------------------------------------
(* Deleting a snapshot.                                                     *)

\* Fault: the next snapshot forgets what is on its own list.
nova_link_to_next_snapshot_drop(s, next) == [c \in CPUs |-> infos[s][c]]

\* The next snapshot's lists begin with those of s.
nova_link_to_next_snapshot(s, next) == [c \in CPUs |-> infos[s][c] \o infos[next][c]]

\* They count the pages of s; one linked behind the tail of s is not reached.
SpareJoined(s, next) ==
    [c \in CPUs |-> spare[next][c] \cup (IF spare[s][c] = {} THEN {} ELSE {"lost"})]

\* With sbi->s_lock held; the cleaner is woken if it sleeps.
nova_delete_snapshot(s) ==
    LET next == nova_find_target_snapshot_info(s + 1)
    IN  /\ taking = None /\ stop = "no"
        /\ s \in Snapshots
        /\ next # None
        /\ infos' = [r \in Snapshots \ {s} |->
                      IF r = next THEN nova_link_to_next_snapshot(s, next) ELSE infos[r]]
        /\ spare' = [r \in Snapshots \ {s} |-> IF r = next THEN SpareJoined(s, next) ELSE spare[r]]
        /\ clean' = next
        /\ cleaner' = IF cleaner.pc = "asleep" THEN [cleaner EXCEPT !.pc = "start"] ELSE cleaner
        /\ view' = [r \in Snapshots \ {s} |-> view[r]]
        /\ UNCHANGED <<epoch, saved, stop, taking, removing, versions, pc, req, new_page>>
        /\ UNCHANGED <<freed, raced, orphaned, undefined, wentBack>>

\* The last snapshot: its entries are freed after s_lock is released.
delete_last_snapshot(s) ==
    /\ taking = None /\ stop = "no"
    /\ s \in Snapshots
    /\ nova_find_target_snapshot_info(s + 1) = None
    /\ removing = << >>
    /\ removing' = infos[s]
    /\ infos' = [r \in Snapshots \ {s} |-> infos[r]]
    /\ spare' = [r \in Snapshots \ {s} |-> spare[r]]
    /\ view' = [r \in Snapshots \ {s} |-> view[r]]
    /\ UNCHANGED <<epoch, saved, taking, clean, cleaner, stop, versions, pc, req, new_page>>
    /\ UNCHANGED <<freed, raced, orphaned, undefined, wentBack>>

nova_delete_snapshot_info ==
    LET list(c) == removing[c]
    IN  /\ removing # << >>
        /\ Free(UNION {Pending(list(c), Len(list(c))) : c \in CPUs})
        /\ undefined' = undefined \cup UNION {Unwritten(list(c), Len(list(c))) : c \in CPUs}
        /\ removing' = << >>
        /\ UNCHANGED <<epoch, saved, infos, spare, taking, clean, cleaner, stop, versions, pc, req, new_page>>
        /\ UNCHANGED <<view, orphaned, wentBack>>

-----------------------------------------------------------------------------
(* The cleaner thread.                                                      *)

\* Mutant of nova_clean_snapshot_begin: kthread_should_stop is not tested.
CleanOnly ==
    /\ cleaner.pc = "start"
    /\ cleaner' = IF clean = None THEN Fresh ELSE [pc |-> "clean", info |-> clean, final |-> FALSE]
    /\ UNCHANGED <<epoch, saved, infos, spare, taking, removing, clean, stop, versions, pc, req, new_page>>
    /\ UNCHANGED <<freed, view, raced, orphaned, undefined, wentBack>>

\* Awake, the thread tests kthread_should_stop; asked to stop it serves the
\* request it has and ends.
nova_clean_snapshot_begin ==
    /\ cleaner.pc = "start"
    /\ cleaner' = IF clean # None THEN [pc |-> "clean", info |-> clean, final |-> stop # "no"]
                  ELSE IF stop = "no" THEN Fresh
                  ELSE [Fresh EXCEPT !.pc = "ended"]
    /\ UNCHANGED <<epoch, saved, infos, spare, taking, removing, clean, stop, versions, pc, req, new_page>>
    /\ UNCHANGED <<freed, view, raced, orphaned, undefined, wentBack>>

\* The snapshot may have been deleted since.
nova_background_clean_snapshot_list ==
    LET s == cleaner.info
        vs == UNION {Cleanable(infos[s][c], s) : c \in CPUs}
        walk == UNION {Unwritten(infos[s][c], OldPages(infos[s][c], s)) : c \in CPUs}
    IN  /\ cleaner.pc = "clean"
        /\ IF s \in Snapshots
           THEN /\ Free(vs)
                /\ infos' = [infos EXCEPT ![s] = [c \in CPUs |-> Marked(@[c], vs)]]
                /\ undefined' = undefined \cup walk
           ELSE /\ undefined' = undefined \cup {"clean"}
                /\ UNCHANGED <<infos, freed, raced>>
        /\ cleaner' = [cleaner EXCEPT !.pc = "end"]
        /\ UNCHANGED <<epoch, saved, spare, taking, removing, clean, stop, versions, pc, req, new_page>>
        /\ UNCHANGED <<view, orphaned, wentBack>>

\* A request that came in meanwhile is forgotten.
nova_clean_snapshot_end ==
    /\ cleaner.pc = "end"
    /\ clean' = None
    /\ cleaner' = IF cleaner.final THEN [Fresh EXCEPT !.pc = "ended"] ELSE Fresh
    /\ UNCHANGED <<epoch, saved, infos, spare, taking, removing, stop, versions, pc, req, new_page>>
    /\ UNCHANGED <<freed, view, raced, orphaned, undefined, wentBack>>

\* It goes to sleep whether or not a request came in since, or the order to stop.
snapshot_cleaner_try_sleeping ==
    /\ cleaner.pc = "awake"
    /\ cleaner' = [cleaner EXCEPT !.pc = "asleep"]
    /\ UNCHANGED <<epoch, saved, infos, spare, taking, removing, clean, stop, versions, pc, req, new_page>>
    /\ UNCHANGED <<freed, view, raced, orphaned, undefined, wentBack>>

-----------------------------------------------------------------------------
(* Unmounting and mounting.                                                 *)

WentBack == IF saved < epoch THEN wentBack + 1 ELSE wentBack

\* nova_save_snapshots, when nothing else is under way: the thread is told to
\* stop, and woken.
kthread_stop ==
    /\ stop = "no"
    /\ \A t \in Threads : pc[t] = "idle"
    /\ taking = None /\ removing = << >>
    /\ WentBack <= MaxWentBack
    /\ stop' = IF cleaner.pc \in {"asleep", "start"} THEN "seen" ELSE "missed"
    /\ cleaner' = IF cleaner.pc = "asleep" THEN [cleaner EXCEPT !.pc = "start"] ELSE cleaner
    /\ UNCHANGED <<epoch, saved, infos, spare, taking, removing, clean, versions, pc, req, new_page>>
    /\ UNCHANGED <<freed, view, raced, orphaned, undefined, wentBack>>

\* The lists are copied to persistent memory and back, as many pages as they count,
\* and the tail is put on the last one: on a page that was never written, if one is
\* linked behind the tail, and past the end of the list, if one is lost.  Every page
\* comes back with the number of the snapshot it is kept for.  Recovery ends by
\* setting the epoch to the super block's.
nova_save_and_restore_snapshots ==
    /\ cleaner.pc = "ended"
    /\ cleaner' = Fresh /\ stop' = "no"
    /\ infos' = [s \in Snapshots |-> [c \in CPUs |->
                   [p \in DOMAIN infos[s][c] |-> [infos[s][c][p] EXCEPT !.epoch = s]]]]
    /\ spare' = [s \in Snapshots |-> NoSpare]
    /\ undefined' = undefined \cup (IF \A s \in Snapshots : spare[s] = NoSpare THEN {} ELSE {"restore"})
    /\ epoch' = saved
    /\ wentBack' = WentBack
    /\ UNCHANGED <<saved, taking, removing, clean, versions, pc, req, new_page>>
    /\ UNCHANGED <<freed, view, raced, orphaned>>

-----------------------------------------------------------------------------
Writer(t) ==
    \/ nova_get_epoch_id(t) \/ nova_free_old_entry(t)
    \/ kmalloc_list_page(t) \/ nova_append_snapshot_list_entry(t)

Cleaner ==
    \/ nova_clean_snapshot_begin
    \/ nova_background_clean_snapshot_list
    \/ nova_clean_snapshot_end
    \/ snapshot_cleaner_try_sleeping

Next ==
    \/ \E t \in Threads : Writer(t)
    \/ create_snapshot_begin \/ create_snapshot_end
    \/ \E s \in Snapshots : nova_delete_snapshot(s) \/ delete_last_snapshot(s)
    \/ nova_delete_snapshot_info
    \/ Cleaner
    \/ kthread_stop \/ nova_save_and_restore_snapshots

Spec == Init /\ [][Next]_vars

-----------------------------------------------------------------------------
(* Properties.                                                              *)

PageOK(page) ==
    /\ page.epoch \in 0..MaxEpoch
    /\ Len(page.entries) <= EntriesPerPage
    /\ \A k \in DOMAIN page.entries :
         page.entries[k].v \in DOMAIN create /\ page.entries[k].deleted \in BOOLEAN

\* Epochs stay within 0..MaxEpoch, no list loses its last page and no page holds
\* more entries than fit it: the shapes that the list walks rely on.
TypeOK ==
    /\ epoch \in 0..MaxEpoch /\ saved \in 0..epoch
    /\ Snapshots \subseteq 0..(MaxEpoch - 1)
    /\ \A s \in Snapshots, c \in CPUs :
         infos[s][c] # << >> /\ \A p \in DOMAIN infos[s][c] : PageOK(infos[s][c][p])
    /\ taking \in -1..(MaxEpoch - 1) /\ clean \in -1..(MaxEpoch - 1)
    /\ cleaner \in [pc : {"asleep", "start", "clean", "end", "awake", "ended"},
                    info : -1..(MaxEpoch - 1), final : BOOLEAN]
    /\ stop \in {"no", "seen", "missed"}
    /\ file \in [Files -> 0..Len(create)]
    /\ create \in Seq(0..MaxEpoch) /\ delete \in Seq(-1..MaxEpoch)
    /\ Len(delete) = Len(create) /\ Len(create) <= MaxVersions
    /\ spare \in [Snapshots -> [CPUs -> SUBSET {"linked", "lost"}]]
    /\ new_page \in [Threads -> CPUs \cup {None}]
    /\ pc \in [Threads -> {"idle", "reassign", "append"}]
    /\ freed \cup raced \cup orphaned \subseteq DOMAIN create

\* What snapshot s shows of the files that nobody was writing when it was taken.
Shown(s) == {view[s][f] : f \in Files} \ {0}

\* Live snapshots lose nothing: what a file held when the snapshot was taken is
\* not freed, and its epochs place it in the snapshot, whatever is written and
\* whichever snapshots are deleted later.  This leaves out what the two findings
\* are about: blocks freed while a snapshot is being taken, and remounting.
SnapshotIntact ==
    wentBack = 0 /\ undefined = {} =>
      \A s \in Snapshots : \A v \in Shown(s) \ raced :
        /\ v \notin freed
        /\ create[v] <= s
        /\ delete[v] # None => delete[v] > s

\* The list entries that name v and are not marked deleted.
EntriesOf(v, list) ==
    UNION {{p} \X {k \in DOMAIN list[p].entries : list[p].entries[k] = Entry(v)} : p \in DOMAIN list}

Places(v, lists) == UNION {{c} \X EntriesOf(v, lists[c]) : c \in CPUs}

Held(v) ==
    {s \in Snapshots : Places(v, infos[s]) # {}}
    \cup (IF removing # << >> /\ Places(v, removing) # {} THEN {None} ELSE {})

InHand(v) == \E t \in Threads : req[t].v = v

\* Nothing is lost and nothing is freed twice: a version that was overwritten and
\* not freed is on one list, in one entry, or about to be put there, except where
\* the entry could not be allocated; a freed one is on no list.  Types are kept.
\* This leaves out what follows a use of memory that was freed or never written,
\* such as the restore of a list to which two writers added a page too many.
Accounted ==
    /\ TypeOK
    /\ undefined = {} =>
      \A v \in DOMAIN create :
        /\ \A s \in Snapshots : Cardinality(Places(v, infos[s])) <= 1
        /\ Cardinality(Held(v)) =
             IF delete[v] = None \/ v \in freed \cup orphaned \/ InHand(v) THEN 0 ELSE 1

\* The unmount does not wait for ever: a thread that is told to stop while it
\* sleeps, or before it tests kthread_should_stop, does not sleep again.  One told
\* later does, and nova_save_snapshots never returns.
CleanerStops == cleaner.pc = "asleep" => stop # "seen"

\* "An entry is deleteable if 1) It is created after the last snapshot, or 2) It
\* is created and deleted during the same snapshot period": across a remount too.
OnlyDeleteableFreed ==
    undefined = {} =>
      \A s \in Snapshots : (Shown(s) \ raced) \cap freed = {}

=============================================================================
