------------------------------ MODULE FreeList ------------------------------
(***************************************************************************)
(* NOVA's block allocator (balloc.c): every CPU has a free list, a tree of *)
(* disjoint ranges of blocks with pointers to its first and its last node  *)
(* and with counters.  Any thread may allocate from any list under that    *)
(* list's lock; when a list is short, the thread drops the lock, looks for *)
(* the list with most free blocks without taking locks, and tries again.   *)
(* Freed blocks go back to the list whose region they are in.              *)
(*                                                                         *)
(* A thread inside nova_new_blocks is at retry (about to take the lock and *)
(* to test the list), in scan (the loop of nova_get_candidate_free_list),  *)
(* or at unaligned (the second attempt of nova_alloc_blocks_in_free_list,  *)
(* the lock still held after a first that has changed the list).  What is  *)
(* done under one lock is one step: all that others see of a list without  *)
(* its lock is num_free_blocks, which is stored once.                      *)
(***************************************************************************)
EXTENDS BlockGeometry, FiniteSets

CONSTANTS
    num_blocks, cpus,   \* the geometry of the device
    Threads,
    Nodes, NULL,        \* range nodes of the slab cache, and no node
    PAGES_PER_2MB,      \* 512
    DEAD_ZONE_BLOCKS,   \* 256
    Requests,           \* what each thread asks for, and the list it starts at
    MaxFailures         \* bound on the node allocations that fail

ASSUME FreeListConstants ==
    /\ num_blocks \in Nat \ {0} /\ cpus \in Nat \ {0}
    /\ NULL \notin Nodes
    /\ PAGES_PER_2MB \in Nat \ {0} /\ DEAD_ZONE_BLOCKS \in Nat
    /\ MaxFailures \in Nat
    /\ Requests \in [Threads -> SUBSET [cpuid : 0..(cpus - 1), num : Nat \ {0},
                                        atype : {"LOG", "DATA"}, from_tail : BOOLEAN]]

sbi == [num_blocks |-> num_blocks, cpus |-> cpus]
CPUs == 0..(cpus - 1)
Region(c) == block_start(sbi, c)..block_end(sbi, c)

\* The device has room for its lists and for at least one checksum block.
ASSUME DeviceLargeEnough ==
    /\ \A c \in CPUs : block_start(sbi, c) <= block_end(sbi, c)
    /\ num_csum_blocks(sbi) > 0

\* The number of free blocks of a list fits the int num_free_blocks of
\* nova_get_candidate_free_list (balloc.c:855): a list is of less than 8 TiB.
ASSUME CountsFitInt == \A c \in CPUs : block_end(sbi, c) - block_start(sbi, c) < 2147483647

VARIABLES
    tree,             \* the nodes in the tree of each list
    low, high,        \* range_low and range_high of each node, 0 in a free node
    first_node, last_node, num_free_blocks, num_blocknode,
    pc, req, cpuid, retried,   \* of each thread in nova_new_blocks
    i, most,          \* the locals of nova_get_candidate_free_list
    failures,         \* node allocations that failed
    inuse,            \* blocks that callers hold
    lost,             \* history: blocks that left a tree but are still counted as free
    leaked,           \* history: blocks that nova_free_blocks did not take back
    freeFailed,       \* history: nova_free_blocks refused blocks that were in use
    disturbed         \* history: threads during whose request others changed a list

lists == <<tree, low, high, first_node, last_node, num_free_blocks, num_blocknode>>
locals == <<pc, req, cpuid, retried, i, most>>
vars == <<lists, locals, failures, inuse, lost, leaked, freeFailed, disturbed>>

\* The locals of a thread outside nova_new_blocks.
NoRequest == [cpuid |-> 0, num |-> 1, atype |-> "LOG", from_tail |-> FALSE]

FreeBlocks(c) == UNION {low[n]..high[n] : n \in tree[c]}

\* nova_init_blockmap of a new file system: one node per list.
Init ==
    /\ \E root \in [CPUs -> Nodes] :
         /\ \A b, c \in CPUs : b # c => root[b] # root[c]
         /\ tree = [c \in CPUs |-> {root[c]}]
         /\ low = [n \in Nodes |->
              IF \E c \in CPUs : root[c] = n
              THEN block_start(sbi, CHOOSE c \in CPUs : root[c] = n) ELSE 0]
         /\ high = [n \in Nodes |->
              IF \E c \in CPUs : root[c] = n
              THEN block_end(sbi, CHOOSE c \in CPUs : root[c] = n) ELSE 0]
         /\ first_node = root /\ last_node = root
    /\ num_free_blocks = [c \in CPUs |-> block_end(sbi, c) - block_start(sbi, c) + 1]
    /\ num_blocknode = [c \in CPUs |-> 1]
    /\ pc = [t \in Threads |-> "idle"]
    /\ req = [t \in Threads |-> NoRequest]
    /\ cpuid = [t \in Threads |-> 0]
    /\ retried = [t \in Threads |-> 0]
    /\ i = [t \in Threads |-> 0]
    /\ most = [t \in Threads |-> 0]
    /\ failures = 0
    /\ inuse = {} /\ lost = {} /\ leaked = {}
    /\ freeFailed = FALSE
    /\ disturbed = {}

-----------------------------------------------------------------------------
(* The tree of a list.                                                      *)

\* The list's lock is held from the first attempt of an allocation to the second.
Locked(c) == \E t \in Threads : pc[t] = "unaligned" /\ cpuid[t] = c

\* The threads whose request a step of t disturbs.
Others(t) == {u \in Threads \ {t} : pc[u] # "idle"}

\* The range node that the slab cache hands out: one that is in no tree, it makes
\* no difference which.
Unused == Nodes \ UNION {tree[c] : c \in CPUs}
nova_alloc_blocknode == IF Unused = {} THEN {} ELSE {CHOOSE n \in Unused : TRUE}

\* The nodes before and after a block, NULL if there is none.
Below(c, b) == {n \in tree[c] : high[n] < b}
Above(c, b) == {n \in tree[c] : low[n] > b}
Preceding(c, b) ==
    IF Below(c, b) = {} THEN NULL
    ELSE CHOOSE n \in Below(c, b) : \A m \in Below(c, b) : low[m] <= low[n]
Following(c, b) ==
    IF Above(c, b) = {} THEN NULL
    ELSE CHOOSE n \in Above(c, b) : \A m \in Above(c, b) : low[n] <= low[m]

-----------------------------------------------------------------------------
(* nova_new_blocks.                                                         *)

not_enough_blocks(c, r) ==
    \/ num_free_blocks[c] < r.num
    \/ first_node[c] = NULL \/ last_node[c] = NULL
    \/ /\ first_node[c] # NULL /\ last_node[c] # NULL
       /\ r.atype = "LOG"
       /\ high[last_node[c]] - low[first_node[c]] < DEAD_ZONE_BLOCKS

Return(t) ==
    /\ pc' = [pc EXCEPT ![t] = "idle"]
    /\ req' = [req EXCEPT ![t] = NoRequest]
    /\ cpuid' = [cpuid EXCEPT ![t] = 0]
    /\ retried' = [retried EXCEPT ![t] = 0]
    /\ UNCHANGED <<i, most>>

nova_new_blocks(t) ==
    /\ pc[t] = "idle"
    /\ \E r \in Requests[t] :
         /\ req' = [req EXCEPT ![t] = r]
         /\ cpuid' = [cpuid EXCEPT ![t] = r.cpuid]
    /\ retried' = [retried EXCEPT ![t] = 0]
    /\ pc' = [pc EXCEPT ![t] = "retry"]
    /\ UNCHANGED <<lists, i, most, failures, inuse, lost, leaked, freeFailed, disturbed>>

\* Fault: the attempts are not counted.
retry_uncounted(t) ==
    /\ pc[t] = "retry"
    /\ ~Locked(cpuid[t])
    /\ not_enough_blocks(cpuid[t], req[t])
    /\ cpuid' = [cpuid EXCEPT ![t] = 0]
    /\ i' = [i EXCEPT ![t] = 0]
    /\ most' = [most EXCEPT ![t] = 0]
    /\ pc' = [pc EXCEPT ![t] = "scan"]
    /\ UNCHANGED <<lists, req, retried, failures, inuse, lost, leaked, freeFailed, disturbed>>

\* The list is short: drop its lock and look for another one.
retry(t) ==
    /\ pc[t] = "retry"
    /\ ~Locked(cpuid[t])
    /\ not_enough_blocks(cpuid[t], req[t]) /\ retried[t] < 2
    /\ retried' = [retried EXCEPT ![t] = @ + 1]
    /\ cpuid' = [cpuid EXCEPT ![t] = 0]
    /\ i' = [i EXCEPT ![t] = 0]
    /\ most' = [most EXCEPT ![t] = 0]
    /\ pc' = [pc EXCEPT ![t] = "scan"]
    /\ UNCHANGED <<lists, req, failures, inuse, lost, leaked, freeFailed, disturbed>>

\* Fault: the loop does not look at the last list.
nova_get_candidate_free_list_short(t) ==
    /\ pc[t] = "scan"
    /\ LET better == i[t] < cpus - 1 /\ num_free_blocks[i[t]] > most[t]
       IN  /\ cpuid' = [cpuid EXCEPT ![t] = IF better THEN i[t] ELSE @]
           /\ most' = [most EXCEPT ![t] = IF i[t] = cpus - 1 THEN 0
                                         ELSE IF better THEN num_free_blocks[i[t]] ELSE @]
    /\ i' = [i EXCEPT ![t] = IF @ = cpus - 1 THEN 0 ELSE @ + 1]
    /\ pc' = [pc EXCEPT ![t] = IF i[t] = cpus - 1 THEN "retry" ELSE @]
    /\ UNCHANGED <<lists, req, retried, failures, inuse, lost, leaked, freeFailed, disturbed>>

\* One iteration: the counter of a list, read without its lock.
nova_get_candidate_free_list(t) ==
    /\ pc[t] = "scan"
    /\ LET better == num_free_blocks[i[t]] > most[t]
       IN  /\ cpuid' = [cpuid EXCEPT ![t] = IF better THEN i[t] ELSE @]
           /\ most' = [most EXCEPT ![t] = IF i[t] = cpus - 1 THEN 0
                                         ELSE IF better THEN num_free_blocks[i[t]] ELSE @]
    /\ i' = [i EXCEPT ![t] = IF @ = cpus - 1 THEN 0 ELSE @ + 1]
    /\ pc' = [pc EXCEPT ![t] = IF i[t] = cpus - 1 THEN "retry" ELSE @]
    /\ UNCHANGED <<lists, req, retried, failures, inuse, lost, leaked, freeFailed, disturbed>>

\* The list is the one to allocate from, but there is nothing to have.
CannotAlloc(c, r) ==
    \/ first_node[c] = NULL \/ num_free_blocks[c] = 0
    \/ r.atype = "LOG" /\ not_enough_blocks(c, r)

Settled(t) ==
    /\ pc[t] = "retry"
    /\ ~Locked(cpuid[t])
    /\ not_enough_blocks(cpuid[t], req[t]) => retried[t] >= 2

no_space(t) ==
    /\ Settled(t)
    /\ CannotAlloc(cpuid[t], req[t])
    /\ Return(t)
    /\ disturbed' = disturbed \ {t}
    /\ UNCHANGED <<lists, failures, inuse, lost, leaked, freeFailed>>

IS_DATABLOCKS_2MB_ALIGNED(r) == r.num % PAGES_PER_2MB = 0 /\ r.atype = "DATA"

\* The allocation ends with n blocks from b on.
Granted(t, b, n) ==
    /\ num_free_blocks' = [num_free_blocks EXCEPT ![cpuid[t]] = @ - n]
    /\ inuse' = inuse \cup (b..(b + n - 1))
    /\ Return(t)

-----------------------------------------------------------------------------
(* nova_alloc_superpage.                                                    *)

\* Blocks of a node before its next 2MB boundary: a whole 2MB if it starts at one.
left_margin(n) == PAGES_PER_2MB - (low[n] % PAGES_PER_2MB)

\* Blocks of a node from that boundary on.
AfterMargin(n) == high[n] - low[n] + 1 - left_margin(n)

\* The nodes with room for an aligned 2MB, and the first of them that the walk meets.
Suitable(c) == {n \in tree[c] : AfterMargin(n) >= PAGES_PER_2MB}
Met(c, from_tail) ==
    CHOOSE n \in Suitable(c) : \A m \in Suitable(c) :
        IF from_tail THEN low[m] <= low[n] ELSE low[n] <= low[m]

\* The attempts of nova_alloc_blocks_in_free_list: an aligned one if the request
\* is of whole 2MB and a node has room for it, else an unaligned one.
Superpage(t) ==
    /\ Settled(t) /\ ~CannotAlloc(cpuid[t], req[t])
    /\ IS_DATABLOCKS_2MB_ALIGNED(req[t]) /\ Suitable(cpuid[t]) # {}
Unaligned(t) ==
    \/ pc[t] = "unaligned"
    \/ /\ Settled(t) /\ ~CannotAlloc(cpuid[t], req[t])
       /\ IS_DATABLOCKS_2MB_ALIGNED(req[t]) => Suitable(cpuid[t]) = {}

\* Best effort: as many whole 2MB of the request as the node has.
Best(n, num) ==
    IF num <= AfterMargin(n) THEN num ELSE AfterMargin(n) - (AfterMargin(n) % PAGES_PER_2MB)

\* Fault: the node for the right margin starts one block early.
SplitOff_early(n, node, b) ==
    /\ low' = [low EXCEPT ![node] = b - 1]
    /\ high' = [high EXCEPT ![n] = low[n] + left_margin(n) - 1, ![node] = high[n]]

\* Node n keeps the left margin, the new node gets the blocks from b on.
SplitOff(n, node, b) ==
    /\ low' = [low EXCEPT ![node] = b]
    /\ high' = [high EXCEPT ![n] = low[n] + left_margin(n) - 1, ![node] = high[n]]

\* A margin is left on the right: it needs a node of its own.
superpage_split(t) ==
    LET c == cpuid[t]
        curr == Met(c, req[t].from_tail)
        got == Best(curr, req[t].num)
        blocknr == low[curr] + left_margin(curr)
    IN  /\ Superpage(t)
        /\ AfterMargin(curr) > got
        /\ \E node \in nova_alloc_blocknode :
             /\ SplitOff(curr, node, blocknr + got)
             /\ tree' = [tree EXCEPT ![c] = @ \cup {node}]
             /\ last_node' = [last_node EXCEPT ![c] = IF @ = curr THEN node ELSE @]
        /\ num_blocknode' = [num_blocknode EXCEPT ![c] = @ + 1]
        /\ Granted(t, blocknr, got)
        /\ disturbed' = (disturbed \ {t}) \cup Others(t)
        /\ UNCHANGED <<first_node, failures, lost, leaked, freeFailed>>

\* No node for the right margin: curr was cut already, what it had from the
\* boundary on is in no tree any more, and the unaligned attempt follows.
superpage_enomem(t) ==
    LET c == cpuid[t]
        curr == Met(c, req[t].from_tail)
        blocknr == low[curr] + left_margin(curr)
    IN  /\ Superpage(t)
        /\ AfterMargin(curr) > Best(curr, req[t].num)
        /\ failures < MaxFailures
        /\ failures' = failures + 1
        /\ high' = [high EXCEPT ![curr] = blocknr - 1]
        /\ lost' = lost \cup (blocknr..high[curr])
        /\ pc' = [pc EXCEPT ![t] = "unaligned"]
        /\ disturbed' = disturbed \cup Others(t)
        /\ UNCHANGED <<tree, low, first_node, last_node, num_free_blocks, num_blocknode>>
        /\ UNCHANGED <<req, cpuid, retried, i, most, inuse, leaked, freeFailed>>

\* The request takes the node up to its end.
superpage_tail(t) ==
    LET c == cpuid[t]
        curr == Met(c, req[t].from_tail)
        blocknr == low[curr] + left_margin(curr)
    IN  /\ Superpage(t)
        /\ AfterMargin(curr) = Best(curr, req[t].num)
        /\ high' = [high EXCEPT ![curr] = blocknr - 1]
        /\ Granted(t, blocknr, AfterMargin(curr))
        /\ disturbed' = (disturbed \ {t}) \cup Others(t)
        /\ UNCHANGED <<tree, low, first_node, last_node, num_blocknode>>
        /\ UNCHANGED <<failures, lost, leaked, freeFailed>>

nova_alloc_superpage(t) ==
    superpage_split(t) \/ superpage_enomem(t) \/ superpage_tail(t)

-----------------------------------------------------------------------------
(* The unaligned attempt of nova_alloc_blocks_in_free_list.  The assertion  *)
(* at its end (num_free_blocks < num_blocks) is the invariant Counters.     *)

EndNode(t) == IF req[t].from_tail THEN last_node[cpuid[t]] ELSE first_node[cpuid[t]]

\* The caller gets the whole first or last node, however small.
whole_node(t) ==
    LET c == cpuid[t]
        curr == EndNode(t)
    IN  /\ Unaligned(t)
        /\ req[t].num >= high[curr] - low[curr] + 1
        /\ first_node' = [first_node EXCEPT ![c] =
                            IF @ = curr THEN Following(c, high[curr]) ELSE @]
        /\ last_node' = [last_node EXCEPT ![c] =
                            IF @ = curr THEN Preceding(c, low[curr]) ELSE @]
        /\ tree' = [tree EXCEPT ![c] = @ \ {curr}]
        /\ low' = [low EXCEPT ![curr] = 0]
        /\ high' = [high EXCEPT ![curr] = 0]
        /\ num_blocknode' = [num_blocknode EXCEPT ![c] = @ - 1]
        /\ Granted(t, low[curr], high[curr] - low[curr] + 1)
        /\ disturbed' = (disturbed \ {t}) \cup Others(t)
        /\ UNCHANGED <<failures, lost, leaked, freeFailed>>

TakeEnd(curr, num, from_tail) ==
    IF from_tail
    THEN low' = low /\ high' = [high EXCEPT ![curr] = @ - num]
    ELSE high' = high /\ low' = [low EXCEPT ![curr] = @ + num]

part_of_node(t) ==
    LET curr == EndNode(t)
        num == req[t].num
    IN  /\ Unaligned(t)
        /\ num < high[curr] - low[curr] + 1
        /\ TakeEnd(curr, num, req[t].from_tail)
        /\ Granted(t, IF req[t].from_tail THEN high[curr] + 1 - num ELSE low[curr], num)
        /\ disturbed' = (disturbed \ {t}) \cup Others(t)
        /\ UNCHANGED <<tree, first_node, last_node, num_blocknode>>
        /\ UNCHANGED <<failures, lost, leaked, freeFailed>>

-----------------------------------------------------------------------------
(* nova_free_blocks, for the blocks lo..hi of list c.                       *)

\* The node at which nova_find_range_node ends its search when no node holds
\* the block: a neighbour of the block, which one depends on the tree's shape.
SearchEnds(c, lo) ==
    IF tree[c] = {} THEN {NULL} ELSE {Preceding(c, lo), Following(c, lo)} \ {NULL}

\* An overlap with the following node is seen only if the search ended there.
nova_find_free_slot_fails(c, lo, hi, ret_node) ==
    \/ \E n \in tree[c] : low[n] <= lo /\ lo <= high[n]
    \/ ret_node # NULL /\ high[ret_node] >= lo /\ low[ret_node] <= hi

fits_hole(c, lo, hi) ==
    LET prev == Preceding(c, lo)
        next == Following(c, lo)
    IN  /\ tree' = [tree EXCEPT ![c] = @ \ {next}]
        /\ num_blocknode' = [num_blocknode EXCEPT ![c] = @ - 1]
        /\ high' = [high EXCEPT ![prev] = high[next], ![next] = 0]
        /\ low' = [low EXCEPT ![next] = 0]
        /\ last_node' = [last_node EXCEPT ![c] = IF @ = next THEN prev ELSE @]
        /\ UNCHANGED first_node

aligns_left(c, lo, hi) ==
    /\ high' = [high EXCEPT ![Preceding(c, lo)] = @ + (hi - lo + 1)]
    /\ UNCHANGED <<tree, low, first_node, last_node, num_blocknode>>

aligns_right(c, lo, hi) ==
    /\ low' = [low EXCEPT ![Following(c, lo)] = @ - (hi - lo + 1)]
    /\ UNCHANGED <<tree, high, first_node, last_node, num_blocknode>>

in_the_middle(c, lo, hi, curr_node) ==
    /\ tree' = [tree EXCEPT ![c] = @ \cup {curr_node}]
    /\ low' = [low EXCEPT ![curr_node] = lo]
    /\ high' = [high EXCEPT ![curr_node] = hi]
    /\ first_node' = [first_node EXCEPT ![c] =
                        IF Preceding(c, lo) = NULL THEN curr_node ELSE @]
    /\ last_node' = [last_node EXCEPT ![c] =
                        IF Following(c, lo) = NULL THEN curr_node ELSE @]
    /\ num_blocknode' = [num_blocknode EXCEPT ![c] = @ + 1]

\* Fault: a range that fits a hole is only joined with the node on its left.
AddRange_no_hole(c, lo, hi, curr_node) ==
    LET left  == Preceding(c, lo) # NULL /\ lo = high[Preceding(c, lo)] + 1
        right == Following(c, lo) # NULL /\ hi + 1 = low[Following(c, lo)]
    IN  \/ left /\ aligns_left(c, lo, hi)
        \/ ~left /\ right /\ aligns_right(c, lo, hi)
        \/ ~left /\ ~right /\ in_the_middle(c, lo, hi, curr_node)

AddRange(c, lo, hi, curr_node) ==
    LET left  == Preceding(c, lo) # NULL /\ lo = high[Preceding(c, lo)] + 1
        right == Following(c, lo) # NULL /\ hi + 1 = low[Following(c, lo)]
    IN  \/ left /\ right /\ fits_hole(c, lo, hi)
        \/ left /\ ~right /\ aligns_left(c, lo, hi)
        \/ ~left /\ right /\ aligns_right(c, lo, hi)
        \/ ~left /\ ~right /\ in_the_middle(c, lo, hi, curr_node)

\* The list a block is returned to.
HomeList(blocknr) == blocknr \div per_list_blocks(sbi)

\* The caller gives up blocks it holds, perhaps a part of what it was given.
nova_free_blocks(lo, hi) ==
    LET c == HomeList(lo)
    IN  /\ lo..hi \subseteq inuse
        /\ ~Locked(c)
        /\ inuse' = inuse \ (lo..hi)
        /\ \E curr_node \in nova_alloc_blocknode, ret_node \in SearchEnds(c, lo) :
             IF \/ lo < block_start(sbi, c) \/ hi > block_end(sbi, c)
                \/ nova_find_free_slot_fails(c, lo, hi, ret_node)
             THEN /\ freeFailed' = TRUE
                  /\ leaked' = leaked \cup (lo..hi)
                  /\ UNCHANGED lists
             ELSE /\ AddRange(c, lo, hi, curr_node)
                  /\ num_free_blocks' = [num_free_blocks EXCEPT ![c] = @ + (hi - lo + 1)]
                  /\ UNCHANGED <<freeFailed, leaked>>
        /\ disturbed' = disturbed \cup {u \in Threads : pc[u] # "idle"}
        /\ UNCHANGED <<locals, failures, lost>>

\* No node could be preallocated: -ENOMEM, and the blocks are not freed.
free_blocks_enomem(lo, hi) ==
    /\ lo..hi \subseteq inuse
    /\ failures < MaxFailures
    /\ failures' = failures + 1
    /\ inuse' = inuse \ (lo..hi)
    /\ leaked' = leaked \cup (lo..hi)
    /\ UNCHANGED <<lists, locals, lost, freeFailed, disturbed>>

-----------------------------------------------------------------------------
Allocate(t) ==
    \/ retry(t) \/ nova_get_candidate_free_list(t) \/ no_space(t)
    \/ nova_alloc_superpage(t) \/ whole_node(t) \/ part_of_node(t)

Next ==
    \/ \E t \in Threads : nova_new_blocks(t) \/ Allocate(t)
    \/ \E lo \in inuse : \E hi \in lo..(num_blocks - 1) :
         nova_free_blocks(lo, hi) \/ free_blocks_enomem(lo, hi)

Spec == Init /\ [][Next]_vars

(***************************************************************************)
(* A kernel thread inside the allocator is not preempted for ever, and the *)
(* ticket spinlock serves every thread that waits for it: a critical       *)
(* section is one step, or two when a node allocation has failed.  Nobody  *)
(* has to allocate or to free.                                             *)
(***************************************************************************)
FairSpec ==
    /\ Spec
    /\ \A t \in Threads : WF_vars(Allocate(t))

-----------------------------------------------------------------------------
(* Properties.                                                              *)

\* Types: nodes, counters and the places of the threads.
TypeOK ==
    /\ tree \in [CPUs -> SUBSET Nodes]
    /\ low \in [Nodes -> Nat]
    /\ high \in [Nodes -> Nat]
    /\ first_node \in [CPUs -> Nodes \cup {NULL}]
    /\ last_node \in [CPUs -> Nodes \cup {NULL}]
    /\ num_free_blocks \in [CPUs -> Nat]
    /\ num_blocknode \in [CPUs -> Nat]
    /\ pc \in [Threads -> {"idle", "retry", "scan", "unaligned"}]
    /\ req \in [Threads -> (UNION {Requests[t] : t \in Threads}) \cup {NoRequest}]
    /\ cpuid \in [Threads -> CPUs]
    /\ retried \in [Threads -> 0..2]
    /\ i \in [Threads -> CPUs]
    /\ most \in [Threads -> Nat]
    /\ failures \in 0..MaxFailures
    /\ inuse \subseteq Nat /\ lost \subseteq Nat /\ leaked \subseteq Nat
    /\ freeFailed \in BOOLEAN
    /\ disturbed \subseteq Threads

\* Every block of a list's region is in exactly one place: free in exactly one
\* node of that list, held by a caller, or given up after a failed node
\* allocation.  In particular no block is handed out twice.
Partition ==
    /\ \A c \in CPUs : FreeBlocks(c) \subseteq Region(c)
    /\ \A c \in CPUs : Region(c) \subseteq FreeBlocks(c) \cup inuse \cup lost \cup leaked
    /\ inuse \cup lost \cup leaked \subseteq UNION {Region(c) : c \in CPUs}
    /\ \A c \in CPUs : FreeBlocks(c) \cap (inuse \cup lost \cup leaked) = {}
    /\ inuse \cap lost = {} /\ inuse \cap leaked = {} /\ lost \cap leaked = {}

\* num_free_blocks counts the blocks of the tree and those an -ENOMEM in
\* nova_alloc_superpage dropped from it; so an allocation never finds fewer
\* blocks counted than it takes (the check "allocated %lu blocks?").
Counters ==
    \A c \in CPUs :
      /\ num_free_blocks[c] = Cardinality(FreeBlocks(c)) + Cardinality(lost \cap Region(c))
      /\ num_blocknode[c] = Cardinality(tree[c])

\* first_node and last_node are the ends of the tree, which the allocator
\* dereferences without a search.
EndNodes ==
    \A c \in CPUs :
      IF tree[c] = {} THEN first_node[c] = NULL /\ last_node[c] = NULL
      ELSE /\ first_node[c] \in tree[c] /\ last_node[c] \in tree[c]
           /\ \A n \in tree[c] : /\ low[first_node[c]] <= low[n]
                                 /\ high[n] <= high[last_node[c]]

\* Nodes are not empty, do not overlap, and neighbours are joined: between two
\* nodes of a list there is always a block that is not free.
Coalesced ==
    /\ \A c \in CPUs : \A n \in tree[c] : low[n] <= high[n]
    /\ \A c \in CPUs : \A m, n \in tree[c] : m # n => high[m] + 1 < low[n] \/ high[n] + 1 < low[m]
    /\ \A b, c \in CPUs : b # c => tree[b] \cap tree[c] = {}

\* A list stays sound whatever is allocated from it and returned to it: its
\* counters, its end pointers and its nodes agree, and have their types.
ListsSound == TypeOK /\ Counters /\ EndNodes /\ Coalesced

\* nova_free_blocks never refuses (-EIO, -EINVAL) blocks that are in use.
FreeSucceeds == ~freeFailed

\* A data request during which nobody else changed a list ends without a block
\* only if no list has one, unless blocks were lost to an -ENOMEM before.
NoSpaceMeansFull ==
    [][\A t \in Threads :
         no_space(t) /\ req[t].atype = "DATA" /\ t \notin disturbed /\ lost = {}
         => \A c \in CPUs : tree[c] = {}]_vars

\* The allocator behaves like a pool of blocks.
Pool == INSTANCE BlockPool WITH
    Blocks <- UNION {Region(c) : c \in CPUs},
    free <- UNION {FreeBlocks(c) : c \in CPUs}

BehavesAsPool == Pool!Spec

\* Every allocation ends, whatever the other threads do to the lists.
AllocationReturns == \A t \in Threads : pc[t] # "idle" ~> pc[t] = "idle"

=============================================================================
