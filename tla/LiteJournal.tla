----------------------------- MODULE LiteJournal -----------------------------
(***************************************************************************)
(* NOVA's lite journal (journal.c) and the transactions that use it: a     *)
(* one-page ring of undo entries per CPU, in persistent memory.            *)
(*                                                                         *)
(* Persistent memory has two copies of everything: what the CPUs see (ptr, *)
(* slot, word) and what is durable (nvPtr, nvSlot, nvWord).  A store       *)
(* changes the first; nova_flush_buffer followed by a fence copies it to   *)
(* the second.  A crash keeps, of every location that was stored and not   *)
(* yet fenced, the old or the new contents: a dirty cache line may have    *)
(* been written back at any time.  A journal entry takes several stores    *)
(* and may also be torn.  The head and the tail of a ring share one cache  *)
(* line and are updated one store at a time.                               *)
(*                                                                         *)
(* The inode locks of the VFS keep two transactions off the same word.     *)
(***************************************************************************)
EXTENDS Integers, Sequences, FiniteSets

CONSTANTS
    cpus,          \* sbi->cpus
    JournalLen,    \* entries in a ring (128 in the code)
    Words,         \* 8-byte words of inodes, dentries and log entries
    Values,
    Transactions,  \* the sequences of words that transactions journal
    MaxTxns,       \* bound on the transactions that are begun
    MaxCrashes     \* bound on the crashes

CPUs == 0..(cpus - 1)
Slots == 0..(JournalLen - 1)

ASSUME SizesAssumption ==
    cpus \in Nat \ {0} /\ JournalLen \in Nat \ {0} /\ MaxTxns \in Nat /\ MaxCrashes \in Nat

\* A transaction journals different words, at least one and fewer than a ring holds.
ASSUME TransactionsAssumption ==
    \A ws \in Transactions :
        /\ ws \in Seq(Words)
        /\ Len(ws) \in 1..(JournalLen - 1)
        /\ \A i, j \in 1..Len(ws) : ws[i] = ws[j] => i = j

VARIABLES
    mode,         \* running, mounting (nova_lite_journal_soft_init) or failed
    pc,           \* where each CPU's transaction is; idle: its journal lock is free
    txn,          \* the updates of each open transaction, a function of words
    end,          \* the tail that nova_create_..._transaction returned
    ptr, nvPtr,   \* the journal_ptr_pair of each CPU
    slot, nvSlot, \* the ring of each CPU
    word, nvWord, \* the journaled words
    cur, rpc,     \* the CPU whose journal is recovered, and the step
    begun, crashes,
    windowCrash   \* history: a crash fell between the reset of a tail and its fence

vars == <<mode, pc, txn, end, ptr, nvPtr, slot, nvSlot, word, nvWord, cur, rpc,
          begun, crashes, windowCrash>>

\* An entry whose checksum does not match; a zeroed ring is made of these.
Torn == [genuine |-> FALSE]
Entries == [genuine : {TRUE}, addr : Words, value : Values]
Pairs == [journal_head : Slots, journal_tail : Slots]

None == [w \in {} |-> 0]

\* Types: ring positions, entries and the places of the CPUs.
TypeOK ==
    /\ mode \in {"running", "mounting", "failed"}
    /\ pc \in [CPUs -> {"idle", "append", "tail", "tailfence", "update", "barrier",
                        "commit", "commitfence"}]
    /\ DOMAIN txn = CPUs
    /\ \A c \in CPUs : DOMAIN txn[c] \subseteq Words /\ txn[c] \in [DOMAIN txn[c] -> Values]
    /\ end \in [CPUs -> Slots]
    /\ ptr \in [CPUs -> Pairs] /\ nvPtr \in [CPUs -> Pairs]
    /\ slot \in [CPUs -> [Slots -> Entries \cup {Torn}]]
    /\ nvSlot \in [CPUs -> [Slots -> Entries \cup {Torn}]]
    /\ word \in [Words -> Values] /\ nvWord \in [Words -> Values]
    /\ cur \in 0..cpus /\ rpc \in {"next", "undo", "reset", "fence"}
    /\ begun \in Nat /\ crashes \in Nat /\ windowCrash \in BOOLEAN

\* After nova_lite_journal_hard_init, and its call of soft_init, on a new file system.
Init ==
    /\ mode = "running"
    /\ pc = [c \in CPUs |-> "idle"]
    /\ txn = [c \in CPUs |-> None]
    /\ end = [c \in CPUs |-> 0]
    /\ ptr = [c \in CPUs |-> [journal_head |-> 0, journal_tail |-> 0]] /\ nvPtr = ptr
    /\ slot = [c \in CPUs |-> [i \in Slots |-> Torn]] /\ nvSlot = slot
    /\ \E v \in Values : word = [w \in Words |-> v]
    /\ nvWord = word
    /\ cur = 0 /\ rpc = "next"
    /\ begun = 0 /\ crashes = 0 /\ windowCrash = FALSE

-----------------------------------------------------------------------------
(* The ring.                                                                *)

\* Fault: the ring does not wrap.
next_without_wrap(p, k) == p + k

\* k times next_lite_journal from p.
next_lite_journal(p, k) == IF p + k >= JournalLen THEN p + k - JournalLen ELSE p + k

\* The slots that a walk from h to t visits.
Between(h, t) == {i \in Slots : IF h <= t THEN h <= i /\ i < t ELSE h <= i \/ i < t}

\* The entries between head and tail.
Journal(p, s) == {s[i] : i \in Between(p.journal_head, p.journal_tail)}

-----------------------------------------------------------------------------
(* Transactions.                                                            *)

\* nova_create_{inode,rename,logentry}_transaction up to the flush: one entry
\* with the present value for every word, from the head on.
create_transaction(c, ws, update) ==
    LET head  == ptr[c].journal_head
        at(i) == next_lite_journal(head, i - 1)
    IN  /\ mode = "running" /\ pc[c] = "idle" /\ begun < MaxTxns
        /\ \A b \in CPUs : DOMAIN txn[b] \cap DOMAIN update = {}
        /\ slot' = [slot EXCEPT ![c] =
             [k \in Slots |->
                IF \E i \in 1..Len(ws) : at(i) = k
                THEN LET w == ws[CHOOSE i \in 1..Len(ws) : at(i) = k]
                     IN  [genuine |-> TRUE, addr |-> w, value |-> word[w]]
                ELSE slot[c][k]]]
        /\ end' = [end EXCEPT ![c] = next_lite_journal(head, Len(ws))]
        /\ txn' = [txn EXCEPT ![c] = update]
        /\ pc' = [pc EXCEPT ![c] = "append"]
        /\ begun' = begun + 1
        /\ UNCHANGED <<mode, ptr, nvPtr, nvSlot, word, nvWord, cur, rpc, crashes, windowCrash>>

\* What nova_flush_journal_in_batch flushes: a circular range in two parts.
FlushRange(h, t) ==
    IF h < t THEN {i \in Slots : h <= i /\ i < t}
    ELSE {i \in Slots : h <= i} \cup {i \in Slots : i < t}

\* Fault: a circular range is flushed to the end of the page only.
flush_journal_first_part(c) ==
    /\ pc[c] = "append"
    /\ nvSlot' = [nvSlot EXCEPT ![c] =
         [i \in Slots |-> IF ptr[c].journal_head <= i
                          THEN slot[c][i] ELSE nvSlot[c][i]]]
    /\ pc' = [pc EXCEPT ![c] = "tail"]
    /\ UNCHANGED <<mode, txn, end, ptr, nvPtr, slot, word, nvWord, cur, rpc, begun, crashes,
                   windowCrash>>

nova_flush_journal_in_batch(c) ==
    /\ pc[c] = "append"
    /\ nvSlot' = [nvSlot EXCEPT ![c] =
         [i \in Slots |-> IF i \in FlushRange(ptr[c].journal_head, end[c])
                          THEN slot[c][i] ELSE nvSlot[c][i]]]
    /\ pc' = [pc EXCEPT ![c] = "tail"]
    /\ UNCHANGED <<mode, txn, end, ptr, nvPtr, slot, word, nvWord, cur, rpc, begun, crashes,
                   windowCrash>>

\* pair->journal_tail = temp
store_tail(c) ==
    /\ pc[c] = "tail"
    /\ ptr' = [ptr EXCEPT ![c].journal_tail = end[c]]
    /\ pc' = [pc EXCEPT ![c] = "tailfence"]
    /\ UNCHANGED <<mode, txn, end, nvPtr, slot, nvSlot, word, nvWord, cur, rpc, begun, crashes,
                   windowCrash>>

\* nova_flush_buffer(&pair->journal_head, CACHELINE_SIZE, 1)
fence_tail(c) ==
    /\ pc[c] = "tailfence"
    /\ nvPtr' = [nvPtr EXCEPT ![c] = ptr[c]]
    /\ pc' = [pc EXCEPT ![c] = "update"]
    /\ UNCHANGED <<mode, txn, end, ptr, slot, nvSlot, word, nvWord, cur, rpc, begun, crashes,
                   windowCrash>>

\* The stores of the transaction itself (nova_update_inode, pi->valid, the
\* dentry or the log entry).  Whatever their own order and fences, a crash
\* before the barrier leaves some of them durable and some not.
update_words(c) ==
    /\ pc[c] = "update"
    /\ word' = [w \in Words |-> IF w \in DOMAIN txn[c] THEN txn[c][w] ELSE word[w]]
    /\ pc' = [pc EXCEPT ![c] = "barrier"]
    /\ UNCHANGED <<mode, txn, end, ptr, nvPtr, slot, nvSlot, nvWord, cur, rpc, begun, crashes,
                   windowCrash>>

\* Fault: the commit is not preceded by a barrier.
no_barrier(c) ==
    /\ pc[c] = "barrier"
    /\ pc' = [pc EXCEPT ![c] = "commit"]
    /\ UNCHANGED <<mode, txn, end, ptr, nvPtr, slot, nvSlot, word, nvWord, cur, rpc, begun,
                   crashes, windowCrash>>

\* PERSISTENT_BARRIER before the commit.
PERSISTENT_BARRIER(c) ==
    /\ pc[c] = "barrier"
    /\ nvWord' = [w \in Words |-> IF w \in DOMAIN txn[c] THEN word[w] ELSE nvWord[w]]
    /\ pc' = [pc EXCEPT ![c] = "commit"]
    /\ UNCHANGED <<mode, txn, end, ptr, nvPtr, slot, nvSlot, word, cur, rpc, begun, crashes,
                   windowCrash>>

\* nova_commit_lite_transaction: pair->journal_head = tail
store_head(c) ==
    /\ pc[c] = "commit"
    /\ ptr' = [ptr EXCEPT ![c].journal_head = end[c]]
    /\ pc' = [pc EXCEPT ![c] = "commitfence"]
    /\ UNCHANGED <<mode, txn, end, nvPtr, slot, nvSlot, word, nvWord, cur, rpc, begun, crashes,
                   windowCrash>>

\* Fault: the lock is dropped before the head is durable.
unlock_unfenced(c) ==
    /\ pc[c] = "commitfence"
    /\ txn' = [txn EXCEPT ![c] = None]
    /\ pc' = [pc EXCEPT ![c] = "idle"]
    /\ UNCHANGED <<mode, end, ptr, nvPtr, slot, nvSlot, word, nvWord, cur, rpc, begun, crashes,
                   windowCrash>>

\* The fence of the commit; the journal lock is released.
fence_head(c) ==
    /\ pc[c] = "commitfence"
    /\ nvPtr' = [nvPtr EXCEPT ![c] = ptr[c]]
    /\ txn' = [txn EXCEPT ![c] = None]
    /\ pc' = [pc EXCEPT ![c] = "idle"]
    /\ UNCHANGED <<mode, end, ptr, slot, nvSlot, word, nvWord, cur, rpc, begun, crashes,
                   windowCrash>>

-----------------------------------------------------------------------------
(* Crash and recovery.                                                      *)

\* Each dirty location keeps its old or its new contents.
Crash ==
    /\ mode # "failed" /\ crashes < MaxCrashes
    /\ \E P \in SUBSET {c \in CPUs : ptr[c] # nvPtr[c]} :
         nvPtr' = [c \in CPUs |-> IF c \in P THEN ptr[c] ELSE nvPtr[c]]
    /\ \E W \in SUBSET {w \in Words : word[w] # nvWord[w]} :
         nvWord' = [w \in Words |-> IF w \in W THEN word[w] ELSE nvWord[w]]
    /\ LET dirty == {ci \in CPUs \X Slots : slot[ci[1]][ci[2]] # nvSlot[ci[1]][ci[2]]}
       IN  \E kept \in [dirty -> {"old", "new", "torn"}] :
             nvSlot' = [c \in CPUs |-> [i \in Slots |->
                          IF <<c, i>> \notin dirty \/ kept[<<c, i>>] = "old" THEN nvSlot[c][i]
                          ELSE IF kept[<<c, i>>] = "new" THEN slot[c][i]
                          ELSE Torn]]
    /\ ptr' = nvPtr' /\ word' = nvWord' /\ slot' = nvSlot'
    /\ mode' = "mounting" /\ cur' = 0 /\ rpc' = "next"
    /\ pc' = [c \in CPUs |-> "idle"] /\ txn' = [c \in CPUs |-> None]
    /\ end' = [c \in CPUs |-> 0]
    /\ crashes' = crashes + 1
    /\ windowCrash' = (windowCrash \/ (mode = "mounting" /\ rpc = "fence"))
    /\ UNCHANGED begun

\* One iteration of the loop of nova_lite_journal_soft_init: an empty journal
\* is skipped, one with a bad checksum ends the mount.
soft_init_next ==
    /\ mode = "mounting" /\ rpc = "next" /\ cur < cpus
    /\ LET journal == Journal(ptr[cur], slot[cur])
       IN  IF ptr[cur].journal_head = ptr[cur].journal_tail
           THEN cur' = cur + 1 /\ UNCHANGED <<mode, rpc>>
           ELSE IF \A e \in journal : e.genuine
           THEN rpc' = "undo" /\ UNCHANGED <<mode, cur>>
           ELSE mode' = "failed" /\ UNCHANGED <<cur, rpc>>
    /\ UNCHANGED <<pc, txn, end, ptr, nvPtr, slot, nvSlot, word, nvWord, begun, crashes,
                   windowCrash>>

\* nova_undo_journal_entry for every entry: stored and flushed, not fenced.
undo_entries ==
    LET journal == Journal(ptr[cur], slot[cur])
    IN  /\ mode = "mounting" /\ rpc = "undo"
        /\ word' = [w \in Words |->
                      IF \E e \in journal : e.addr = w
                      THEN (CHOOSE e \in journal : e.addr = w).value
                      ELSE word[w]]
        /\ rpc' = "reset"
        /\ UNCHANGED <<mode, pc, txn, end, ptr, nvPtr, slot, nvSlot, nvWord, cur, begun,
                       crashes, windowCrash>>

\* Fault: the tail is left where it is.
reset_tail_skipped ==
    /\ mode = "mounting" /\ rpc = "reset"
    /\ rpc' = "fence"
    /\ UNCHANGED <<mode, pc, txn, end, ptr, nvPtr, slot, nvSlot, word, nvWord, cur, begun,
                   crashes, windowCrash>>

\* pair->journal_tail = pair->journal_head
reset_tail ==
    /\ mode = "mounting" /\ rpc = "reset"
    /\ ptr' = [ptr EXCEPT ![cur].journal_tail = ptr[cur].journal_head]
    /\ rpc' = "fence"
    /\ UNCHANGED <<mode, pc, txn, end, nvPtr, slot, nvSlot, word, nvWord, cur, begun, crashes,
                   windowCrash>>

\* The flush of the pair and the fence, which also completes the undo stores.
fence_recovery ==
    /\ mode = "mounting" /\ rpc = "fence"
    /\ nvPtr' = [nvPtr EXCEPT ![cur] = ptr[cur]]
    /\ nvWord' = word
    /\ rpc' = "next" /\ cur' = cur + 1
    /\ UNCHANGED <<mode, pc, txn, end, ptr, slot, nvSlot, word, begun, crashes, windowCrash>>

soft_init_done ==
    /\ mode = "mounting" /\ rpc = "next" /\ cur = cpus
    /\ mode' = "running"
    /\ UNCHANGED <<pc, txn, end, ptr, nvPtr, slot, nvSlot, word, nvWord, cur, rpc, begun,
                   crashes, windowCrash>>

-----------------------------------------------------------------------------
Transaction(c) ==
    \/ \E ws \in Transactions :
         \E update \in [{ws[i] : i \in 1..Len(ws)} -> Values] :
           /\ \A w \in DOMAIN update : update[w] # word[w]
           /\ create_transaction(c, ws, update)
    \/ nova_flush_journal_in_batch(c) \/ store_tail(c) \/ fence_tail(c)
    \/ update_words(c) \/ PERSISTENT_BARRIER(c) \/ store_head(c) \/ fence_head(c)

Recovery == soft_init_next \/ undo_entries \/ reset_tail \/ fence_recovery \/ soft_init_done

Next == Crash \/ Recovery \/ \E c \in CPUs : Transaction(c)

Spec == Init /\ [][Next]_vars

\* Mounting makes progress: it is one thread that nothing blocks.
FairSpec == Spec /\ WF_vars(Recovery)

-----------------------------------------------------------------------------
(* Properties.                                                              *)

\* The BUG() of nova_create_..._transaction and of nova_commit_lite_transaction
\* are never reached: a free journal is empty, and nobody moves the tail of an
\* open transaction.
NoBug ==
    mode = "running" => \A c \in CPUs :
        /\ pc[c] = "idle" => ptr[c].journal_head = ptr[c].journal_tail
        /\ pc[c] = "commit" => ptr[c].journal_tail = end[c]

\* "Ensure all entries are genuine" never fails: whatever a crash tears, it is
\* not between a durable head and a durable tail.
JournalGenuine ==
    /\ mode # "failed"
    /\ \A c \in CPUs : \A e \in Journal(nvPtr[c], nvSlot[c]) : e.genuine

\* The value of a word that recovery would restore.
Recovered(w) ==
    LET undo == {e \in UNION {Journal(nvPtr[c], nvSlot[c]) : c \in CPUs} :
                   e.genuine /\ e.addr = w}
    IN  IF undo = {} THEN nvWord[w] ELSE (CHOOSE e \in undo : TRUE).value

Abstract == INSTANCE AtomicWords
              WITH store <- [w \in Words |-> Recovered(w)], pending <- txn, lost <- windowCrash

\* Transactions are atomic and durable across crashes, also crashes during
\* recovery, unless one falls between the reset of a tail and the fence after it.
AtomicUnlessWindow == Abstract!Spec
=============================================================================
