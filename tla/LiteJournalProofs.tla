-------------------------- MODULE LiteJournalProofs --------------------------
(***************************************************************************)
(* The lite journal for any number of CPUs, rings, words and transactions: *)
(* no BUG(), no journal that fails its checksum, and atomic transactions.  *)
(***************************************************************************)
EXTENDS LiteJournal, TLAPS

\* The slots that the open transaction of c has filled.
Filled(c) == Between(nvPtr[c].journal_head, end[c])

\* Ring s holds an undo entry for every word of the transaction of c.
Covers(c, s) ==
    /\ end[c] # nvPtr[c].journal_head
    /\ \A i \in Filled(c) : s[i] \in Entries /\ s[i].addr \in DOMAIN txn[c]
    /\ \A i, j \in Filled(c) : s[i].addr = s[j].addr => s[i].value = s[j].value
    /\ \A w \in DOMAIN txn[c] : \E i \in Filled(c) : s[i].addr = w

\* The entries hold what is durable.
Undoes(c, s) == Covers(c, s) /\ \A i \in Filled(c) : s[i].value = nvWord[s[i].addr]

\* The entries are durable.
Flushed(c) == \A i \in Filled(c) : slot[c][i] = nvSlot[c][i]

Updated(c) == \A w \in DOMAIN txn[c] : word[w] = txn[c][w]
Durable(c) == \A w \in DOMAIN txn[c] : word[w] = nvWord[w]
Empty(p) == p.journal_head = p.journal_tail

\* What each step of a transaction relies on.
TxnInv(c) ==
    /\ pc[c] = "idle" => txn[c] = None /\ ptr[c] = nvPtr[c] /\ Empty(ptr[c])
    /\ pc[c] = "append" =>
         ptr[c] = nvPtr[c] /\ Empty(ptr[c]) /\ Undoes(c, slot[c]) /\ Durable(c)
    /\ pc[c] = "tail" =>
         /\ ptr[c] = nvPtr[c] /\ Empty(ptr[c])
         /\ Undoes(c, nvSlot[c]) /\ Flushed(c) /\ Durable(c)
    /\ pc[c] = "tailfence" =>
         /\ ptr[c].journal_head = nvPtr[c].journal_head /\ ptr[c].journal_tail = end[c]
         /\ Empty(nvPtr[c])
         /\ Undoes(c, nvSlot[c]) /\ Flushed(c) /\ Durable(c)
    /\ pc[c] = "update" =>
         /\ ptr[c] = nvPtr[c] /\ nvPtr[c].journal_tail = end[c]
         /\ Undoes(c, nvSlot[c]) /\ Flushed(c) /\ Durable(c)
    /\ pc[c] = "barrier" =>
         /\ ptr[c] = nvPtr[c] /\ nvPtr[c].journal_tail = end[c]
         /\ Undoes(c, nvSlot[c]) /\ Flushed(c) /\ Updated(c)
    /\ pc[c] = "commit" =>
         /\ ptr[c] = nvPtr[c] /\ nvPtr[c].journal_tail = end[c]
         /\ Covers(c, nvSlot[c]) /\ Flushed(c) /\ Updated(c) /\ Durable(c)
    /\ pc[c] = "commitfence" =>
         /\ ptr[c].journal_head = end[c] /\ ptr[c].journal_tail = end[c]
         /\ nvPtr[c].journal_tail = end[c]
         /\ Covers(c, nvSlot[c]) /\ Flushed(c) /\ Updated(c) /\ Durable(c)

\* Open transactions have different words, and only their words are dirty.
Running ==
    /\ \A c \in CPUs : TxnInv(c)
    /\ \A b, c \in CPUs : b # c => DOMAIN txn[b] \cap DOMAIN txn[c] = {}
    /\ \A w \in Words : word[w] # nvWord[w] => \E c \in CPUs : w \in DOMAIN txn[c]

\* The durable journals can be rolled back, and agree on what to restore.
Rollback ==
    /\ \A c \in CPUs : \A i \in Between(nvPtr[c].journal_head, nvPtr[c].journal_tail) :
         nvSlot[c][i] \in Entries
    /\ \A b, c \in CPUs :
         \A i \in Between(nvPtr[b].journal_head, nvPtr[b].journal_tail),
            j \in Between(nvPtr[c].journal_head, nvPtr[c].journal_tail) :
              nvSlot[b][i].addr = nvSlot[c][j].addr => nvSlot[b][i].value = nvSlot[c][j].value

\* What each step of recovery relies on.
Mounting ==
    /\ pc = [c \in CPUs |-> "idle"] /\ txn = [c \in CPUs |-> None]
    /\ slot = nvSlot
    /\ \A c \in CPUs : c < cur => Empty(nvPtr[c])
    /\ \A c \in CPUs : ~(rpc = "fence" /\ c = cur) => ptr[c] = nvPtr[c]
    /\ rpc # "next" => cur \in CPUs
    /\ rpc = "fence" => /\ ptr[cur].journal_head = nvPtr[cur].journal_head
                        /\ ptr[cur].journal_tail = nvPtr[cur].journal_head
    /\ rpc \in {"next", "undo"} => word = nvWord
    /\ rpc \in {"reset", "fence"} => word = [w \in Words |->
         IF \E e \in Journal(nvPtr[cur], nvSlot[cur]) : e.addr = w
         THEN (CHOOSE e \in Journal(nvPtr[cur], nvSlot[cur]) : e.addr = w).value
         ELSE nvWord[w]]

IInv ==
    /\ TypeOK
    /\ mode # "failed"
    /\ Rollback
    /\ mode = "running" => Running
    /\ mode = "mounting" => Mounting

-----------------------------------------------------------------------------
\* Most leaves are first-order; the ones about arithmetic and functions cite SMT.
USE Zenon

(* The ring.                                                                *)

\* next_lite_journal stays in the ring and, for less than a whole round, does
\* not come back to where it began.
LEMMA NextInRing ==
    ASSUME NEW p \in Slots, NEW k \in 0..(JournalLen - 1)
    PROVE  next_lite_journal(p, k) \in Slots /\ (k > 0 => next_lite_journal(p, k) # p)
BY SizesAssumption, SMT DEF Slots, next_lite_journal

\* A walk of n steps from h visits the slots before its end, and no other.
LEMMA WalkIsBetween ==
    ASSUME NEW h \in Slots, NEW n \in 1..(JournalLen - 1), NEW k \in Slots
    PROVE  k \in Between(h, next_lite_journal(h, n)) <=>
             \E i \in 1..n : next_lite_journal(h, i - 1) = k
<1>1. ASSUME k \in Between(h, next_lite_journal(h, n))
      PROVE  \E i \in 1..n : next_lite_journal(h, i - 1) = k
  <2>1. CASE h <= k
    <3>1. (k - h) + 1 \in 1..n
      BY <1>1, <2>1, SizesAssumption, SMT DEF Slots, Between, next_lite_journal
    <3>2. next_lite_journal(h, ((k - h) + 1) - 1) = k
      BY <2>1, SizesAssumption, SMT DEF Slots, next_lite_journal
    <3>. QED  BY <3>1, <3>2
  <2>2. CASE k < h
    <3>1. (k + JournalLen - h) + 1 \in 1..n
      BY <1>1, <2>2, SizesAssumption, SMT DEF Slots, Between, next_lite_journal
    <3>2. next_lite_journal(h, ((k + JournalLen - h) + 1) - 1) = k
      BY <2>2, SizesAssumption, SMT DEF Slots, next_lite_journal
    <3>. QED  BY <3>1, <3>2
  <2>. QED  BY <2>1, <2>2, SMT DEF Slots
<1>2. ASSUME NEW i \in 1..n, next_lite_journal(h, i - 1) = k
      PROVE  k \in Between(h, next_lite_journal(h, n))
  BY <1>2, SizesAssumption, SMT DEF Slots, Between, next_lite_journal
<1>. QED  BY <1>1, <1>2

\* A walk of less than a round visits no slot twice.
LEMMA WalkInjective ==
    ASSUME NEW h \in Slots, NEW n \in 1..(JournalLen - 1), NEW i \in 1..n, NEW j \in 1..n,
           next_lite_journal(h, i - 1) = next_lite_journal(h, j - 1)
    PROVE  i = j
BY SizesAssumption, SMT DEF Slots, next_lite_journal

\* nova_flush_journal_in_batch covers a walk that is not empty.
LEMMA FlushCovers ==
    ASSUME NEW h \in Slots, NEW t \in Slots, NEW i \in Between(h, t)
    PROVE  i \in FlushRange(h, t)
BY SizesAssumption, SMT DEF Slots, Between, FlushRange

\* Nothing lies between a head and a tail that are equal.
LEMMA BetweenSame == ASSUME NEW h \in Slots PROVE Between(h, h) = {}
BY SizesAssumption, SMT DEF Between, Slots

\* The invariant holds at first.
LEMMA InitIInv == Init => IInv
<1>. SUFFICES ASSUME Init PROVE IInv  OBVIOUS
<1>1. TypeOK
  <2>1. 0 \in Slots /\ 0 \in 0..cpus /\ 0 \in Nat  BY SizesAssumption, SMT DEF Slots
  <2>2. None \in [{} -> Values] /\ DOMAIN None = {}  BY DEF None
  <2>3. /\ mode \in {"running", "mounting", "failed"}
        /\ end \in [CPUs -> Slots]
        /\ pc \in [CPUs -> {"idle", "append", "tail", "tailfence", "update", "barrier",
                             "commit", "commitfence"}]
        /\ cur \in 0..cpus /\ rpc \in {"next", "undo", "reset", "fence"}
        /\ begun \in Nat /\ crashes \in Nat /\ windowCrash \in BOOLEAN
    BY <2>1 DEF Init
  <2>4. ptr \in [CPUs -> Pairs] /\ nvPtr \in [CPUs -> Pairs]  BY <2>1 DEF Init, Pairs
  <2>5. slot \in [CPUs -> [Slots -> Entries \cup {Torn}]] /\ nvSlot = slot  BY DEF Init
  <2>6. word \in [Words -> Values] /\ nvWord = word  BY DEF Init
  <2>7. /\ DOMAIN txn = CPUs
        /\ \A c \in CPUs : DOMAIN txn[c] \subseteq Words /\ txn[c] \in [DOMAIN txn[c] -> Values]
    BY <2>2 DEF Init
  <2>. QED  BY <2>3, <2>4, <2>5, <2>6, <2>7 DEF TypeOK
<1>2. \A c \in CPUs : /\ nvPtr[c] = ptr[c] /\ Empty(ptr[c]) /\ txn[c] = None /\ pc[c] = "idle"
                      /\ Between(nvPtr[c].journal_head, nvPtr[c].journal_tail) = {}
  <2>1. 0 \in Slots  BY SizesAssumption, SMT DEF Slots
  <2>. QED  BY <2>1, BetweenSame DEF Init, Empty
<1>3. Rollback  BY <1>2 DEF Rollback
<1>4. Running
  <2>1. \A c \in CPUs : TxnInv(c)  BY <1>2 DEF TxnInv
  <2>2. DOMAIN None = {}  BY DEF None
  <2>. QED  BY <1>2, <2>1, <2>2 DEF Running, Init
<1>. QED  BY <1>1, <1>3, <1>4 DEF IInv, Init

-----------------------------------------------------------------------------
(* Transactions.                                                            *)

\* The durable journal of a CPU is empty until its tail is fenced, and then
\* covers its transaction.
LEMMA DurableJournal ==
    ASSUME TypeOK, NEW c \in CPUs, TxnInv(c),
           NEW i \in Between(nvPtr[c].journal_head, nvPtr[c].journal_tail)
    PROVE  i \in Filled(c) /\ Covers(c, nvSlot[c])
<1>1. nvPtr[c] \in Pairs /\ nvPtr[c].journal_head \in Slots  BY DEF TypeOK, Pairs
<1>2. ~Empty(nvPtr[c])  BY <1>1, BetweenSame DEF Empty
<1>3. pc[c] \in {"update", "barrier", "commit", "commitfence"}
  BY <1>2 DEF TxnInv, TypeOK
<1>. QED  BY <1>3 DEF TxnInv, Filled, Undoes

\* While transactions run, the durable journals can be rolled back.
LEMMA RunningRollback == TypeOK /\ Running => Rollback
<1>. SUFFICES ASSUME TypeOK, Running PROVE Rollback  OBVIOUS
<1>1. ASSUME NEW c \in CPUs, NEW i \in Between(nvPtr[c].journal_head, nvPtr[c].journal_tail)
      PROVE  /\ i \in Filled(c) /\ Covers(c, nvSlot[c])
             /\ nvSlot[c][i] \in Entries /\ nvSlot[c][i].addr \in DOMAIN txn[c]
  BY <1>1, DurableJournal DEF Running, Covers
<1>2. ASSUME NEW b \in CPUs, NEW c \in CPUs,
             NEW i \in Between(nvPtr[b].journal_head, nvPtr[b].journal_tail),
             NEW j \in Between(nvPtr[c].journal_head, nvPtr[c].journal_tail),
             nvSlot[b][i].addr = nvSlot[c][j].addr
      PROVE  nvSlot[b][i].value = nvSlot[c][j].value
  <2>1. b = c  BY <1>1, <1>2, SMT DEF Running
  <2>. QED  BY <2>1, <1>1, <1>2, ZenonT(60) DEF Covers
<1>. QED  BY <1>1, <1>2 DEF Rollback

\* A step of another CPU does not disturb a transaction.
LEMMA Frame ==
    ASSUME NEW b \in CPUs, TxnInv(b),
           pc'[b] = pc[b], txn'[b] = txn[b], end'[b] = end[b],
           ptr'[b] = ptr[b], nvPtr'[b] = nvPtr[b], slot'[b] = slot[b], nvSlot'[b] = nvSlot[b],
           \A w \in DOMAIN txn[b] : word'[w] = word[w] /\ nvWord'[w] = nvWord[w]
    PROVE  TxnInv(b)'
<1>1. Filled(b)' = Filled(b)  BY DEF Filled, Between
<1>2. /\ Covers(b, slot[b]) => Covers(b, slot[b])'
      /\ Covers(b, nvSlot[b]) => Covers(b, nvSlot[b])'
  BY <1>1, SMT DEF Covers
<1>3. /\ Undoes(b, slot[b]) => Undoes(b, slot[b])'
      /\ Undoes(b, nvSlot[b]) => Undoes(b, nvSlot[b])'
  BY <1>1, <1>2, SMT DEF Undoes, Covers
<1>4. Flushed(b) => Flushed(b)'  BY <1>1 DEF Flushed
<1>5. (Updated(b) => Updated(b)') /\ (Durable(b) => Durable(b)')  BY DEF Updated, Durable
<1>. QED  BY <1>1, <1>2, <1>3, <1>4, <1>5 DEF TxnInv, Empty

\* A step of one transaction keeps the invariant if it keeps that transaction
\* in order, touches no other CPU's state and no word that it does not own.
LEMMA OneCPU ==
    ASSUME IInv, mode = "running", mode' = "running", TypeOK', NEW c \in CPUs, TxnInv(c)',
           \A b \in CPUs \ {c} :
             /\ pc'[b] = pc[b] /\ txn'[b] = txn[b] /\ end'[b] = end[b]
             /\ ptr'[b] = ptr[b] /\ nvPtr'[b] = nvPtr[b]
             /\ slot'[b] = slot[b] /\ nvSlot'[b] = nvSlot[b]
             /\ DOMAIN txn[b] \cap DOMAIN txn'[c] = {},
           \A w \in Words : w \notin DOMAIN txn[c] => word'[w] = word[w] /\ nvWord'[w] = nvWord[w],
           \A w \in DOMAIN txn[c] : word'[w] # nvWord'[w] => w \in DOMAIN txn'[c]
    PROVE  IInv'
<1>1. Running /\ TypeOK  BY DEF IInv
<1>2. ASSUME NEW b \in CPUs, b # c PROVE TxnInv(b)'
  <2>1. DOMAIN txn[b] \subseteq Words /\ DOMAIN txn[b] \cap DOMAIN txn[c] = {} /\ TxnInv(b)
    BY <1>1, <1>2, SMT DEF Running, TypeOK
  <2>2. \A w \in DOMAIN txn[b] : word'[w] = word[w] /\ nvWord'[w] = nvWord[w]
    BY <2>1
  <2>. QED  BY <1>2, <2>1, <2>2, Frame
<1>3. \A b, d \in CPUs : b # d => DOMAIN txn'[b] \cap DOMAIN txn'[d] = {}
  BY <1>1, SMT DEF Running
<1>4. ASSUME NEW w \in Words, word'[w] # nvWord'[w]
      PROVE  \E b \in CPUs : w \in DOMAIN txn'[b]
  <2>1. CASE w \in DOMAIN txn[c]  BY <2>1, <1>4
  <2>2. CASE w \notin DOMAIN txn[c]
    <3>1. PICK b \in CPUs : w \in DOMAIN txn[b]  BY <2>2, <1>1, <1>4 DEF Running
    <3>2. b # c  BY <2>2, <3>1
    <3>. QED  BY <3>1, <3>2
  <2>. QED  BY <2>1, <2>2
<1>5. Running'  BY <1>2, <1>3, <1>4 DEF Running
<1>6. TypeOK' /\ Running' => Rollback'  BY RunningRollback, PTL
<1>. QED  BY <1>5, <1>6 DEF IInv

\* The steps from the flush of the entries to the end of the transaction.
LEMMA TxnStep ==
    ASSUME IInv, mode = "running", NEW c \in CPUs,
           \/ nova_flush_journal_in_batch(c) \/ store_tail(c) \/ fence_tail(c)
           \/ update_words(c) \/ PERSISTENT_BARRIER(c) \/ store_head(c) \/ fence_head(c)
    PROVE  IInv'
<1>1. TypeOK /\ Running /\ TxnInv(c)  BY DEF IInv, Running
<1>2. nvPtr[c].journal_head \in Slots /\ end[c] \in Slots /\ ptr[c] \in Pairs /\ nvPtr[c] \in Pairs
  BY <1>1 DEF TypeOK, Pairs
<1>3. CASE nova_flush_journal_in_batch(c)
  <2>. USE DEF nova_flush_journal_in_batch
  <2>1. TypeOK'  BY <1>1, <1>3 DEF TypeOK
  <2>2. pc[c] = "append" /\ pc'[c] = "tail"  BY <1>1, <1>3 DEF TypeOK
  <2>3. ptr[c] = nvPtr[c] /\ Empty(ptr[c]) /\ Undoes(c, slot[c]) /\ Durable(c)
    BY <1>1, <2>2 DEF TxnInv
  <2>4. UNCHANGED <<mode, txn, end, ptr, nvPtr, slot, word, nvWord>>  BY <1>3
  <2>5. Filled(c)' = Filled(c)  BY <2>4 DEF Filled, Between
  <2>6. ASSUME NEW i \in Filled(c) PROVE nvSlot'[c][i] = slot[c][i]
    BY <1>1, <1>2, <1>3, <2>3, <2>6, FlushCovers DEF TypeOK, Filled, Between
  <2>7. Undoes(c, nvSlot[c])' /\ Flushed(c)'
    BY <2>3, <2>4, <2>5, <2>6, SMT DEF Undoes, Covers, Flushed
  <2>8. TxnInv(c)'  BY <2>2, <2>3, <2>4, <2>7 DEF TxnInv, Durable
  <2>9. \A b \in CPUs \ {c} : pc'[b] = pc[b] /\ nvSlot'[b] = nvSlot[b]
    BY <1>1, <1>3 DEF TypeOK
  <2>. QED  BY <1>1, <2>1, <2>4, <2>8, <2>9, OneCPU DEF Running
<1>4. CASE store_tail(c)
  <2>. USE DEF store_tail
  <2>1. TypeOK'  BY <1>1, <1>4, ZenonT(60) DEF TypeOK, Pairs
  <2>3. TxnInv(c)'
    BY <1>1, <1>4, SMT DEF TypeOK, Pairs, TxnInv, Undoes, Covers, Flushed, Filled, Durable, Empty
  <2>. QED  BY <1>1, <1>4, <2>1, <2>3, OneCPU, SMT DEF TypeOK, Running
<1>5. CASE fence_tail(c)
  <2>. USE DEF fence_tail
  <2>1. TypeOK'  BY <1>1, <1>5 DEF TypeOK
  <2>2. pc[c] = "tailfence" /\ pc'[c] = "update"  BY <1>1, <1>5 DEF TypeOK
  <2>3. /\ ptr[c].journal_head = nvPtr[c].journal_head /\ ptr[c].journal_tail = end[c]
        /\ Undoes(c, nvSlot[c]) /\ Flushed(c) /\ Durable(c)
    BY <1>1, <2>2 DEF TxnInv
  <2>4. UNCHANGED <<mode, txn, end, ptr, slot, nvSlot, word, nvWord>>  BY <1>5
  <2>5. nvPtr'[c] = ptr[c]  BY <1>1, <1>5 DEF TypeOK
  <2>6. Filled(c)' = Filled(c)  BY <2>3, <2>4, <2>5 DEF Filled, Between
  <2>7. Undoes(c, nvSlot[c])' /\ Flushed(c)'
    BY <2>3, <2>4, <2>5, <2>6, SMT DEF Undoes, Covers, Flushed
  <2>8. TxnInv(c)'  BY <2>2, <2>3, <2>4, <2>5, <2>7 DEF TxnInv, Durable
  <2>9. \A b \in CPUs \ {c} : pc'[b] = pc[b] /\ nvPtr'[b] = nvPtr[b]
    BY <1>1, <1>5 DEF TypeOK
  <2>. QED  BY <1>1, <2>1, <2>4, <2>8, <2>9, OneCPU DEF Running
<1>6. CASE update_words(c)
  <2>. USE DEF update_words
  <2>1. TypeOK'  BY <1>1, <1>6 DEF TypeOK
  <2>2. pc[c] = "update" /\ pc'[c] = "barrier"  BY <1>1, <1>6 DEF TypeOK
  <2>3. /\ ptr[c] = nvPtr[c] /\ nvPtr[c].journal_tail = end[c]
        /\ Undoes(c, nvSlot[c]) /\ Flushed(c)
    BY <1>1, <2>2 DEF TxnInv
  <2>4. UNCHANGED <<mode, txn, end, ptr, nvPtr, slot, nvSlot, nvWord>>  BY <1>6
  <2>5. \A w \in Words : word'[w] = IF w \in DOMAIN txn[c] THEN txn[c][w] ELSE word[w]
    BY <1>6
  <2>6. Filled(c)' = Filled(c)  BY <2>4 DEF Filled, Between
  <2>7. Undoes(c, nvSlot[c])' /\ Flushed(c)'
    BY <2>3, <2>4, <2>6, SMT DEF Undoes, Covers, Flushed
  <2>8. Updated(c)'  BY <1>1, <2>4, <2>5 DEF Updated, TypeOK
  <2>9. TxnInv(c)'  BY <2>2, <2>3, <2>4, <2>7, <2>8 DEF TxnInv
  <2>10. \A b \in CPUs \ {c} : pc'[b] = pc[b]  BY <1>1, <1>6 DEF TypeOK
  <2>. QED  BY <1>1, <2>1, <2>4, <2>5, <2>9, <2>10, OneCPU DEF Running
<1>7. CASE PERSISTENT_BARRIER(c)
  <2>. USE DEF PERSISTENT_BARRIER
  <2>1. TypeOK'  BY <1>1, <1>7 DEF TypeOK
  <2>2. pc[c] = "barrier" /\ pc'[c] = "commit"  BY <1>1, <1>7 DEF TypeOK
  <2>3. /\ ptr[c] = nvPtr[c] /\ nvPtr[c].journal_tail = end[c]
        /\ Covers(c, nvSlot[c]) /\ Flushed(c) /\ Updated(c)
    BY <1>1, <2>2 DEF TxnInv, Undoes
  <2>4. UNCHANGED <<mode, txn, end, ptr, nvPtr, slot, nvSlot, word>>  BY <1>7
  <2>5. \A w \in Words : nvWord'[w] = IF w \in DOMAIN txn[c] THEN word[w] ELSE nvWord[w]
    BY <1>7
  <2>6. Filled(c)' = Filled(c)  BY <2>4 DEF Filled, Between
  <2>7. Covers(c, nvSlot[c])' /\ Flushed(c)'  BY <2>3, <2>4, <2>6, SMT DEF Covers, Flushed
  <2>8. Updated(c)' /\ Durable(c)'  BY <1>1, <2>3, <2>4, <2>5 DEF Updated, Durable, TypeOK
  <2>9. TxnInv(c)'  BY <2>2, <2>3, <2>4, <2>7, <2>8 DEF TxnInv
  <2>10. \A b \in CPUs \ {c} : pc'[b] = pc[b]  BY <1>1, <1>7 DEF TypeOK
  <2>11. \A w \in DOMAIN txn[c] : word'[w] = nvWord'[w]  BY <2>4, <2>8 DEF Durable
  <2>. QED  BY <1>1, <2>1, <2>4, <2>5, <2>9, <2>10, <2>11, OneCPU DEF Running
<1>8. CASE store_head(c)
  <2>. USE DEF store_head
  <2>1. TypeOK'  BY <1>1, <1>8, ZenonT(60) DEF TypeOK, Pairs
  <2>3. TxnInv(c)'
    BY <1>1, <1>8, SMT DEF TypeOK, Pairs, TxnInv, Covers, Flushed, Filled, Updated, Durable, Empty
  <2>. QED  BY <1>1, <1>8, <2>1, <2>3, OneCPU, SMT DEF TypeOK, Running
<1>9. CASE fence_head(c)
  <2>. USE DEF fence_head
  <2>0. DOMAIN None = {} /\ None \in [{} -> Values]  BY DEF None
  <2>1. TypeOK'  BY <1>1, <1>9, <2>0 DEF TypeOK
  <2>3. TxnInv(c)'
    BY <1>1, <1>9 DEF TypeOK, Pairs, TxnInv, Empty
  <2>4. \A w \in DOMAIN txn[c] : word'[w] = nvWord'[w]  BY <1>1, <1>9 DEF TxnInv, Durable
  <2>. QED  BY <1>1, <1>9, <2>0, <2>1, <2>3, <2>4, OneCPU, SMT DEF TypeOK, Running
<1>. QED  BY <1>3, <1>4, <1>5, <1>6, <1>7, <1>8, <1>9

\* The append of the undo entries.
LEMMA CreateStep ==
    ASSUME IInv, NEW c \in CPUs, NEW ws \in Transactions,
           NEW update \in [{ws[i] : i \in 1..Len(ws)} -> Values],
           create_transaction(c, ws, update)
    PROVE  IInv'
<1>. DEFINE head == ptr[c].journal_head
            n == Len(ws)
<1>1. mode = "running" /\ TypeOK /\ Running /\ TxnInv(c)
  BY DEF create_transaction, IInv, Running
<1>2. n \in 1..(JournalLen - 1) /\ \A i \in 1..n : ws[i] \in Words
  BY TransactionsAssumption, SMT
<1>3. pc[c] = "idle" /\ txn[c] = None /\ ptr[c] = nvPtr[c] /\ Empty(ptr[c]) /\ head \in Slots
  BY <1>1 DEF create_transaction, TxnInv, TypeOK, Pairs
<1>4. DOMAIN update = {ws[i] : i \in 1..n} /\ DOMAIN update \subseteq Words  BY <1>2, ZenonT(60)
<1>5. /\ pc' = [pc EXCEPT ![c] = "append"]
      /\ txn' = [txn EXCEPT ![c] = update]
      /\ end' = [end EXCEPT ![c] = next_lite_journal(head, n)]
      /\ UNCHANGED <<mode, ptr, nvPtr, nvSlot, word, nvWord, cur, rpc, crashes, windowCrash>>
      /\ begun' = begun + 1
  BY DEF create_transaction
<1>6. next_lite_journal(head, n) \in Slots /\ next_lite_journal(head, n) # head
  BY <1>2, <1>3, NextInRing, SizesAssumption, SMT
<1>7. ASSUME NEW k \in Slots
      PROVE  IF k \in Between(head, next_lite_journal(head, n))
             THEN \E i \in 1..n : /\ next_lite_journal(head, i - 1) = k
                                  /\ slot'[c][k] = [genuine |-> TRUE, addr |-> ws[i],
                                                    value |-> word[ws[i]]]
             ELSE slot'[c][k] = slot[c][k]
  <2>1. slot'[c][k] = IF \E i \in 1..n : next_lite_journal(head, i - 1) = k
                      THEN LET w == ws[CHOOSE i \in 1..n : next_lite_journal(head, i - 1) = k]
                           IN  [genuine |-> TRUE, addr |-> w, value |-> word[w]]
                      ELSE slot[c][k]
    BY <1>1, <1>7 DEF TypeOK, create_transaction
  <2>2. k \in Between(head, next_lite_journal(head, n)) <=>
          \E i \in 1..n : next_lite_journal(head, i - 1) = k
    BY <1>2, <1>3, <1>7, WalkIsBetween, ZenonT(60)
  <2>. QED  BY <2>1, <2>2
<1>8. ASSUME NEW i \in 1..n
      PROVE  /\ next_lite_journal(head, i - 1) \in Slots
             /\ next_lite_journal(head, i - 1) \in Between(head, next_lite_journal(head, n))
  <2>1. i - 1 \in 0..(JournalLen - 1)  BY <1>2, <1>8, SizesAssumption, SMT
  <2>2. next_lite_journal(head, i - 1) \in Slots  BY <2>1, <1>3, NextInRing
  <2>. QED  BY <2>2, <1>2, <1>3, <1>8, WalkIsBetween
<1>9. Filled(c)' = Between(head, next_lite_journal(head, n))
  BY <1>1, <1>3, <1>5 DEF Filled, Between, TypeOK
<1>10. \A k \in Filled(c)' : /\ slot'[c][k] \in Entries
                             /\ slot'[c][k].addr \in DOMAIN update
                             /\ slot'[c][k].value = word[slot'[c][k].addr]
  <2>. SUFFICES ASSUME NEW k \in Filled(c)'
                PROVE  /\ slot'[c][k] \in Entries /\ slot'[c][k].addr \in DOMAIN update
                       /\ slot'[c][k].value = word[slot'[c][k].addr]
    OBVIOUS
  <2>1. k \in Slots /\ k \in Between(head, next_lite_journal(head, n))  BY <1>9 DEF Between
  <2>2. PICK i \in 1..n : slot'[c][k] = [genuine |-> TRUE, addr |-> ws[i], value |-> word[ws[i]]]
    BY <1>7, <2>1
  <2>3. ws[i] \in Words /\ ws[i] \in DOMAIN update /\ word[ws[i]] \in Values
    BY <1>1, <1>2, <1>4 DEF TypeOK
  <2>. QED  BY <2>2, <2>3, SMT DEF Entries
<1>11. \A b \in CPUs \ {c} : /\ pc'[b] = pc[b] /\ txn'[b] = txn[b] /\ end'[b] = end[b]
                              /\ slot'[b] = slot[b]
                              /\ DOMAIN txn[b] \cap DOMAIN update = {}
  BY <1>1 DEF TypeOK, create_transaction
<1>12. TypeOK'
  <2>1. slot' \in [CPUs -> [Slots -> Entries \cup {Torn}]]
    <3>1. ASSUME NEW k \in Slots PROVE slot'[c][k] \in Entries \cup {Torn}
      <4>1. CASE k \in Filled(c)'  BY <1>10, <4>1
      <4>2. CASE k \notin Filled(c)'
        <5>1. slot'[c][k] = slot[c][k]  BY <1>7, <1>9, <4>2
        <5>. QED  BY <1>1, <5>1, SMT DEF TypeOK
      <4>. QED  BY <4>1, <4>2
    <3>2. slot'[c] \in [Slots -> Entries \cup {Torn}]
      <4>1. slot'[c] = [k \in Slots |-> slot'[c][k]]  BY <1>1 DEF TypeOK, create_transaction
      <4>. QED  BY <4>1, <3>1
    <3>3. slot' = [slot EXCEPT ![c] = slot'[c]]  BY <1>1 DEF TypeOK, create_transaction
    <3>. QED  BY <1>1, <3>2, <3>3 DEF TypeOK
  <2>2. DOMAIN txn' = CPUs /\ txn'[c] = update  BY <1>1, <1>5 DEF TypeOK
  <2>3. \A b \in CPUs : DOMAIN txn'[b] \subseteq Words /\ txn'[b] \in [DOMAIN txn'[b] -> Values]
    BY <1>1, <1>4, <1>11, <2>2 DEF TypeOK
  <2>. QED  BY <1>1, <1>5, <1>6, <2>1, <2>2, <2>3, SMT DEF TypeOK
<1>13. txn'[c] = update /\ pc'[c] = "append" /\ end'[c] = next_lite_journal(head, n)
  BY <1>1, <1>5 DEF TypeOK
<1>14. ASSUME NEW w \in DOMAIN update PROVE word[w] = nvWord[w]
  <2>1. \A b \in CPUs : w \notin DOMAIN txn[b]
    <3>1. DOMAIN txn[c] = {}  BY <1>3 DEF None
    <3>. QED  BY <1>11, <1>14, <3>1
  <2>. QED  BY <2>1, <1>1, <1>4, <1>14 DEF Running
<1>15. Covers(c, slot[c])'
  <2>1. ASSUME NEW w \in DOMAIN update PROVE \E k \in Filled(c)' : slot'[c][k].addr = w
    <3>1. PICK i \in 1..n : ws[i] = w  BY <1>4, <2>1
    <3>2. PICK k \in Slots : k = next_lite_journal(head, i - 1) /\ k \in Filled(c)'
      BY <1>8, <1>9
    <3>3. PICK j \in 1..n :
            /\ next_lite_journal(head, j - 1) = k
            /\ slot'[c][k] = [genuine |-> TRUE, addr |-> ws[j], value |-> word[ws[j]]]
      BY <1>7, <1>9, <3>2
    <3>4. i = j  BY <1>2, <1>3, <3>2, <3>3, WalkInjective
    <3>. QED  BY <3>1, <3>2, <3>3, <3>4, SMT
  <2>. QED  BY <1>3, <1>5, <1>6, <1>10, <1>13, <2>1, ZenonT(60) DEF Covers
<1>16. Undoes(c, slot[c])'  BY <1>5, <1>10, <1>14, <1>15 DEF Undoes
<1>17. Durable(c)'  BY <1>5, <1>13, <1>14 DEF Durable
<1>18. TxnInv(c)'  BY <1>3, <1>5, <1>13, <1>16, <1>17 DEF TxnInv, Empty
<1>. QED
  <2>1. \A w \in DOMAIN txn[c] : FALSE  BY <1>3 DEF None
  <2>. QED  BY <1>1, <1>5, <1>11, <1>12, <1>13, <1>18, <2>1, OneCPU

-----------------------------------------------------------------------------
(* Crash and recovery.                                                      *)

\* What a crash can leave of each location.
LEMMA CrashLeaves ==
    ASSUME TypeOK, Crash
    PROVE  /\ \A c \in CPUs : nvPtr'[c] \in {ptr[c], nvPtr[c]}
           /\ \A w \in Words : nvWord'[w] \in {word[w], nvWord[w]}
           /\ \A c \in CPUs, i \in Slots :
                /\ nvSlot'[c][i] \in {slot[c][i], nvSlot[c][i], Torn}
                /\ slot[c][i] = nvSlot[c][i] => nvSlot'[c][i] = nvSlot[c][i]
           /\ nvPtr' \in [CPUs -> Pairs] /\ nvWord' \in [Words -> Values]
           /\ nvSlot' \in [CPUs -> [Slots -> Entries \cup {Torn}]]
<1>1. /\ \A c \in CPUs : nvPtr'[c] \in {ptr[c], nvPtr[c]}
      /\ nvPtr' \in [CPUs -> Pairs]
  BY SMT DEF Crash, TypeOK
<1>2. /\ \A w \in Words : nvWord'[w] \in {word[w], nvWord[w]}
      /\ nvWord' \in [Words -> Values]
  BY ZenonT(60) DEF Crash, TypeOK
<1>. DEFINE dirty == {ci \in CPUs \X Slots : slot[ci[1]][ci[2]] # nvSlot[ci[1]][ci[2]]}
<1>3. PICK kept \in [dirty -> {"old", "new", "torn"}] :
        nvSlot' = [c \in CPUs |-> [i \in Slots |->
                     IF <<c, i>> \notin dirty \/ kept[<<c, i>>] = "old" THEN nvSlot[c][i]
                     ELSE IF kept[<<c, i>>] = "new" THEN slot[c][i]
                     ELSE Torn]]
  BY DEF Crash
<1>4. ASSUME NEW c \in CPUs, NEW i \in Slots
      PROVE  /\ nvSlot'[c][i] \in {slot[c][i], nvSlot[c][i], Torn}
             /\ slot[c][i] = nvSlot[c][i] => nvSlot'[c][i] = nvSlot[c][i]
             /\ nvSlot'[c][i] \in Entries \cup {Torn}
  <2>1. nvSlot'[c][i] = IF <<c, i>> \notin dirty \/ kept[<<c, i>>] = "old" THEN nvSlot[c][i]
                        ELSE IF kept[<<c, i>>] = "new" THEN slot[c][i]
                        ELSE Torn
    BY <1>3, <1>4
  <2>2. slot[c][i] = nvSlot[c][i] => <<c, i>> \notin dirty  OBVIOUS
  <2>3. nvSlot'[c][i] \in {slot[c][i], nvSlot[c][i], Torn}  BY <2>1, Zenon
  <2>4. slot[c][i] = nvSlot[c][i] => nvSlot'[c][i] = nvSlot[c][i]  BY <2>1, <2>2, Zenon
  <2>5. slot[c][i] \in Entries \cup {Torn} /\ nvSlot[c][i] \in Entries \cup {Torn}
    BY <1>4, SMT DEF TypeOK
  <2>. QED  BY <2>3, <2>4, <2>5, Zenon
<1>5. nvSlot' \in [CPUs -> [Slots -> Entries \cup {Torn}]]  BY <1>3, <1>4
<1>. QED  BY <1>1, <1>2, <1>4, <1>5

\* A crash keeps the invariant.
LEMMA CrashStep ==
    ASSUME IInv, Crash
    PROVE  IInv'
<1>1. TypeOK /\ Rollback  BY DEF IInv
<1>2. /\ mode' = "mounting" /\ cur' = 0 /\ rpc' = "next"
      /\ pc' = [c \in CPUs |-> "idle"] /\ txn' = [c \in CPUs |-> None]
      /\ end' = [c \in CPUs |-> 0]
      /\ crashes' = crashes + 1 /\ begun' = begun /\ windowCrash' \in BOOLEAN
      /\ ptr' = nvPtr' /\ word' = nvWord' /\ slot' = nvSlot'
  BY <1>1 DEF Crash, TypeOK
<1>3. TypeOK'
  <2>1. 0 \in Slots /\ 0 \in 0..cpus  BY SizesAssumption, SMT DEF Slots
  <2>2. DOMAIN None = {} /\ None \in [{} -> Values]  BY DEF None
  <2>3. /\ DOMAIN txn' = CPUs
        /\ \A c \in CPUs : DOMAIN txn'[c] \subseteq Words /\ txn'[c] \in [DOMAIN txn'[c] -> Values]
    BY <1>2, <2>2
  <2>4. crashes' \in Nat /\ begun' \in Nat  BY <1>1, <1>2, SMT DEF TypeOK
  <2>5. /\ pc' \in [CPUs -> {"idle", "append", "tail", "tailfence", "update", "barrier",
                              "commit", "commitfence"}]
        /\ end' \in [CPUs -> Slots]
    BY <1>2, <2>1
  <2>. QED  BY <1>1, <1>2, <2>1, <2>3, <2>4, <2>5, CrashLeaves DEF TypeOK
<1>4. Mounting'
  <2>1. \A c \in CPUs : ~(c < 0)  BY SMT DEF CPUs
  <2>. QED  BY <1>2, <2>1 DEF Mounting
<1>5. ASSUME NEW c \in CPUs, NEW i \in Between(nvPtr'[c].journal_head, nvPtr'[c].journal_tail)
      PROVE  /\ nvSlot'[c][i] = nvSlot[c][i] /\ nvSlot[c][i] \in Entries
             /\ mode = "running" => i \in Filled(c) /\ Covers(c, nvSlot[c])
             /\ mode = "mounting" => i \in Between(nvPtr[c].journal_head, nvPtr[c].journal_tail)
  <2>1. i \in Slots  BY <1>5 DEF Between
  <2>2. /\ nvPtr'[c] \in {ptr[c], nvPtr[c]}
        /\ slot[c][i] = nvSlot[c][i] => nvSlot'[c][i] = nvSlot[c][i]
    BY <1>1, <2>1, CrashLeaves
  <2>3. ~Empty(nvPtr'[c])
    <3>1. nvPtr'[c] \in Pairs  BY <1>1, CrashLeaves
    <3>2. nvPtr'[c].journal_head \in Slots  BY <3>1 DEF Pairs
    <3>. QED  BY <1>5, <3>2, BetweenSame DEF Empty
  <2>4. CASE mode = "running"
    <3>1. TxnInv(c)  BY <2>4 DEF IInv, Running
    <3>2. pc[c] \in {"tailfence", "update", "barrier", "commit", "commitfence"}
      BY <1>1, <2>2, <2>3, <3>1 DEF TxnInv, TypeOK
    <3>3. Covers(c, nvSlot[c]) /\ Flushed(c)  BY <3>1, <3>2 DEF TxnInv, Undoes
    <3>4. i \in Filled(c)
      <4>1. nvPtr'[c].journal_head = nvPtr[c].journal_head /\ nvPtr'[c].journal_tail = end[c]
        BY <2>2, <2>3, <3>1, <3>2 DEF TxnInv, Empty
      <4>. QED  BY <1>5, <4>1 DEF Filled
    <3>. QED  BY <2>2, <2>4, <3>3, <3>4 DEF Flushed, Covers
  <2>5. CASE mode = "mounting"
    <3>1. Mounting  BY <2>5 DEF IInv
    <3>2. nvPtr'[c] = nvPtr[c]  BY <2>2, <2>3, <3>1 DEF Mounting, Empty
    <3>3. nvSlot'[c][i] = nvSlot[c][i]  BY <2>2, <3>1 DEF Mounting
    <3>. QED  BY <1>1, <1>5, <2>5, <3>2, <3>3 DEF Rollback
  <2>. QED  BY <1>1, <2>4, <2>5 DEF IInv, TypeOK
<1>6. ASSUME NEW b \in CPUs, NEW c \in CPUs,
             NEW i \in Between(nvPtr'[b].journal_head, nvPtr'[b].journal_tail),
             NEW j \in Between(nvPtr'[c].journal_head, nvPtr'[c].journal_tail),
             nvSlot'[b][i].addr = nvSlot'[c][j].addr
      PROVE  nvSlot'[b][i].value = nvSlot'[c][j].value
  <2>1. nvSlot'[b][i] = nvSlot[b][i] /\ nvSlot'[c][j] = nvSlot[c][j]  BY <1>5
  <2>2. CASE mode = "running"
    <3>1. b = c  BY <1>5, <1>6, <2>1, <2>2, SMT DEF IInv, Running, Covers
    <3>. QED  BY <1>5, <1>6, <2>1, <2>2, <3>1, SMT DEF Covers
  <2>3. CASE mode = "mounting"
    <3>1. /\ i \in Between(nvPtr[b].journal_head, nvPtr[b].journal_tail)
          /\ j \in Between(nvPtr[c].journal_head, nvPtr[c].journal_tail)
      BY <1>5, <2>3
    <3>. QED  BY <1>1, <1>6, <2>1, <3>1, SMT DEF Rollback
  <2>. QED  BY <1>1, <2>2, <2>3 DEF IInv, TypeOK
<1>7. Rollback'  BY <1>5, <1>6 DEF Rollback
<1>. QED  BY <1>2, <1>3, <1>4, <1>7 DEF IInv

\* An entry that is not torn passes nova_check_entry_integrity.
LEMMA EntriesGenuine == \A e \in Entries : e.genuine
<1>1. \A e \in Entries : e.genuine \in {TRUE}  BY DEF Entries
<1>. QED  BY <1>1, Zenon

\* The journal that is being recovered is the durable one, of genuine entries.
LEMMA CurrentJournal ==
    ASSUME IInv, mode = "mounting", cur \in CPUs, rpc # "fence"
    PROVE  /\ Journal(ptr[cur], slot[cur]) = Journal(nvPtr[cur], nvSlot[cur])
           /\ Journal(nvPtr[cur], nvSlot[cur]) \subseteq Entries
BY SMT DEF IInv, Mounting, Rollback, Journal

\* Recovery keeps the invariant.
LEMMA RecoveryStep ==
    ASSUME IInv, Recovery
    PROVE  IInv'
<1>1. TypeOK /\ Rollback /\ mode = "mounting" /\ Mounting
  BY DEF IInv, Recovery, soft_init_next, undo_entries, reset_tail, fence_recovery, soft_init_done
<1>2. CASE soft_init_next
  <2>1. cur \in CPUs /\ rpc = "next"
    BY <1>1, <1>2, SizesAssumption, SMT DEF soft_init_next, TypeOK, CPUs
  <2>2. \A e \in Journal(ptr[cur], slot[cur]) : e.genuine
    <3>1. rpc # "fence"  BY <2>1
    <3>2. Journal(ptr[cur], slot[cur]) \subseteq Entries  BY <1>1, <2>1, <3>1, CurrentJournal
    <3>. QED  BY <3>2, EntriesGenuine, Zenon
  <2>3. UNCHANGED <<mode, pc, txn, end, ptr, nvPtr, slot, nvSlot, word, nvWord, begun, crashes,
                    windowCrash>>
    BY <1>2, <2>2 DEF soft_init_next
  <2>4. Rollback'  BY <1>1, <2>3, SMT DEF Rollback, Between
  <2>5. CASE Empty(ptr[cur])
    <3>1. cur' = cur + 1 /\ rpc' = "next"  BY <1>2, <2>1, <2>5 DEF soft_init_next, Empty
    <3>2. cur' \in 0..cpus /\ \A c \in CPUs : c < cur' => c < cur \/ c = cur
      BY <2>1, <3>1, SizesAssumption, SMT DEF CPUs
    <3>3. TypeOK'  BY <1>1, <2>3, <3>1, <3>2 DEF TypeOK
    <3>4. Empty(nvPtr[cur])  BY <1>1, <2>1, <2>5 DEF Mounting
    <3>5. \A c \in CPUs : c < cur' => Empty(nvPtr[c])  BY <1>1, <3>2, <3>4 DEF Mounting
    <3>6. Mounting'  BY <1>1, <2>1, <2>3, <3>1, <3>5 DEF Mounting
    <3>. QED  BY <1>1, <2>3, <2>4, <3>3, <3>6 DEF IInv
  <2>6. CASE ~Empty(ptr[cur])
    <3>1. cur' = cur /\ rpc' = "undo"  BY <1>2, <2>1, <2>2, <2>6 DEF soft_init_next, Empty
    <3>2. TypeOK'  BY <1>1, <2>3, <3>1 DEF TypeOK
    <3>3. Mounting'  BY <1>1, <2>1, <2>3, <3>1 DEF Mounting
    <3>. QED  BY <1>1, <2>3, <2>4, <3>2, <3>3 DEF IInv
  <2>. QED  BY <2>5, <2>6
<1>3. CASE undo_entries
  <2>1. cur \in CPUs /\ rpc = "undo" /\ rpc' = "reset" /\ word = nvWord
    BY <1>1, <1>3 DEF undo_entries, Mounting
  <2>2. UNCHANGED <<mode, pc, txn, end, ptr, nvPtr, slot, nvSlot, nvWord, cur, begun, crashes,
                    windowCrash>>
    BY <1>3 DEF undo_entries
  <2>3. Rollback'  BY <1>1, <2>2, SMT DEF Rollback, Between
  <2>4. word' = [w \in Words |->
          IF \E e \in Journal(nvPtr[cur], nvSlot[cur]) : e.addr = w
          THEN (CHOOSE e \in Journal(nvPtr[cur], nvSlot[cur]) : e.addr = w).value
          ELSE nvWord[w]]
    BY <1>1, <1>3, <2>1, CurrentJournal DEF undo_entries
  <2>5. word' \in [Words -> Values]
    <3>1. \A e \in Journal(nvPtr[cur], nvSlot[cur]) : e.value \in Values
      BY <1>1, <2>1, CurrentJournal DEF Entries
    <3>. QED  BY <1>1, <2>4, <3>1 DEF TypeOK
  <2>6. TypeOK'  BY <1>1, <2>1, <2>2, <2>5 DEF TypeOK
  <2>7. Mounting'  BY <1>1, <2>1, <2>2, <2>4, SMT DEF Mounting, Journal, Between
  <2>. QED  BY <1>1, <2>2, <2>3, <2>6, <2>7 DEF IInv
<1>4. CASE reset_tail
  <2>1. cur \in CPUs /\ rpc = "reset" /\ rpc' = "fence"
    BY <1>1, <1>4 DEF reset_tail, Mounting
  <2>2. UNCHANGED <<mode, pc, txn, end, nvPtr, slot, nvSlot, word, nvWord, cur, begun, crashes,
                    windowCrash>>
    BY <1>4 DEF reset_tail
  <2>3. Rollback'  BY <1>1, <2>2, SMT DEF Rollback, Between
  <2>4. ptr' = [ptr EXCEPT ![cur].journal_tail = ptr[cur].journal_head]
    BY <1>4 DEF reset_tail
  <2>5. ptr[cur] \in Pairs /\ ptr[cur] = nvPtr[cur]  BY <1>1, <2>1 DEF TypeOK, Mounting
  <2>6. /\ ptr' \in [CPUs -> Pairs]
        /\ ptr'[cur].journal_head = nvPtr[cur].journal_head
        /\ ptr'[cur].journal_tail = nvPtr[cur].journal_head
        /\ \A c \in CPUs : c # cur => ptr'[c] = ptr[c]
    BY <1>1, <2>1, <2>4, <2>5 DEF TypeOK, Pairs
  <2>7. TypeOK'  BY <1>1, <2>1, <2>2, <2>6 DEF TypeOK
  <2>8. Mounting'  BY <1>1, <2>1, <2>2, <2>6, SMT DEF Mounting, Journal, Between
  <2>. QED  BY <1>1, <2>2, <2>3, <2>7, <2>8 DEF IInv
<1>5. CASE fence_recovery
  <2>1. cur \in CPUs /\ rpc = "fence" /\ rpc' = "next" /\ cur' = cur + 1
    BY <1>1, <1>5 DEF fence_recovery, Mounting
  <2>2. UNCHANGED <<mode, pc, txn, end, ptr, slot, nvSlot, word, begun, crashes, windowCrash>>
    BY <1>5 DEF fence_recovery
  <2>3. nvPtr' = [nvPtr EXCEPT ![cur] = ptr[cur]] /\ nvWord' = word
    BY <1>5 DEF fence_recovery
  <2>4. cur' \in 0..cpus /\ \A c \in CPUs : c < cur' => c < cur \/ c = cur
    BY <2>1, SizesAssumption, SMT DEF CPUs
  <2>5. nvPtr'[cur] = ptr[cur] /\ \A c \in CPUs : c # cur => nvPtr'[c] = nvPtr[c]
    BY <1>1, <2>1, <2>3 DEF TypeOK
  <2>6. TypeOK'  BY <1>1, <2>1, <2>2, <2>3, <2>4 DEF TypeOK
  <2>7. ptr[cur] \in Pairs /\ Empty(ptr[cur])  BY <1>1, <2>1 DEF TypeOK, Mounting, Empty
  <2>8. Between(nvPtr'[cur].journal_head, nvPtr'[cur].journal_tail) = {}
    BY <2>5, <2>7, BetweenSame DEF Empty, Pairs
  <2>9. Rollback'
    <3>1. ASSUME NEW c \in CPUs,
                 NEW i \in Between(nvPtr'[c].journal_head, nvPtr'[c].journal_tail)
          PROVE  i \in Between(nvPtr[c].journal_head, nvPtr[c].journal_tail)
      BY <2>5, <2>8, <3>1
    <3>. QED  BY <1>1, <2>2, <3>1 DEF Rollback
  <2>10. \A c \in CPUs : c < cur' => Empty(nvPtr'[c])
    BY <1>1, <2>4, <2>5, <2>7 DEF Mounting
  <2>11. \A c \in CPUs : ptr'[c] = nvPtr'[c]  BY <1>1, <2>2, <2>5 DEF Mounting
  <2>12. Mounting'  BY <1>1, <2>1, <2>2, <2>3, <2>10, <2>11 DEF Mounting, Empty
  <2>. QED  BY <1>1, <2>2, <2>6, <2>9, <2>12 DEF IInv
<1>6. CASE soft_init_done
  <2>1. cur = cpus /\ rpc = "next" /\ mode' = "running"  BY <1>6 DEF soft_init_done
  <2>2. UNCHANGED <<pc, txn, end, ptr, nvPtr, slot, nvSlot, word, nvWord, cur, rpc, begun,
                    crashes, windowCrash>>
    BY <1>6 DEF soft_init_done
  <2>3. TypeOK'  BY <1>1, <2>1, <2>2 DEF TypeOK
  <2>4. Rollback'  BY <1>1, <2>2, SMT DEF Rollback, Between
  <2>5. \A c \in CPUs : Empty(ptr[c]) /\ ptr[c] = nvPtr[c] /\ txn[c] = None /\ pc[c] = "idle"
    <3>1. \A c \in CPUs : c < cur  BY <2>1, SizesAssumption, SMT DEF CPUs
    <3>. QED  BY <1>1, <2>1, <3>1 DEF Mounting, Empty
  <2>6. \A c \in CPUs : TxnInv(c)'  BY <2>2, <2>5 DEF TxnInv, Empty
  <2>7. word = nvWord /\ DOMAIN None = {}  BY <1>1, <2>1 DEF Mounting, None
  <2>8. Running'  BY <2>2, <2>5, <2>6, <2>7 DEF Running
  <2>. QED  BY <2>1, <2>3, <2>4, <2>8 DEF IInv
<1>. QED  BY <1>2, <1>3, <1>4, <1>5, <1>6 DEF Recovery

-----------------------------------------------------------------------------
\* The invariant holds in every reachable state.
THEOREM Invariant == Spec => []IInv
<1>1. IInv /\ [Next]_vars => IInv'
  <2>. SUFFICES ASSUME IInv, [Next]_vars PROVE IInv'  OBVIOUS
  <2>1. CASE Crash  BY <2>1, CrashStep
  <2>2. CASE Recovery  BY <2>2, RecoveryStep
  <2>3. ASSUME NEW c \in CPUs, NEW ws \in Transactions,
               NEW update \in [{ws[i] : i \in 1..Len(ws)} -> Values],
               create_transaction(c, ws, update)
        PROVE  IInv'
    BY <2>3, CreateStep
  <2>4. ASSUME NEW c \in CPUs,
               \/ nova_flush_journal_in_batch(c) \/ store_tail(c) \/ fence_tail(c)
               \/ update_words(c) \/ PERSISTENT_BARRIER(c) \/ store_head(c) \/ fence_head(c)
        PROVE  IInv'
    <3>1. pc[c] # "idle"
      BY <2>4 DEF nova_flush_journal_in_batch, store_tail, fence_tail, update_words,
                  PERSISTENT_BARRIER, store_head, fence_head
    <3>2. mode = "running"  BY <3>1, <2>4 DEF IInv, TypeOK, Mounting
    <3>. QED  BY <2>4, <3>2, TxnStep
  <2>5. CASE UNCHANGED vars
    <3>. USE <2>5 DEF vars
    <3>1. TypeOK' /\ Rollback'  BY SMT DEF IInv, TypeOK, Rollback, Between
    <3>2. \A c \in CPUs : TxnInv(c) => TxnInv(c)'  BY Frame
    <3>3. Running => Running'  BY <3>2 DEF Running
    <3>4. Mounting => Mounting'  BY SMT DEF Mounting, Empty, Journal, Between
    <3>. QED  BY <3>1, <3>3, <3>4 DEF IInv
  <2>. QED  BY <2>1, <2>2, <2>3, <2>4, <2>5 DEF Next, Transaction
<1>. QED  BY <1>1, InitIInv, PTL DEF Spec

\* The journal keeps its types.
THEOREM TypeCorrect == Spec => []TypeOK
<1>1. IInv => TypeOK  BY DEF IInv
<1>. QED  BY <1>1, Invariant, PTL

\* No BUG() of journal.c is ever reached.
THEOREM NoBugReached == Spec => []NoBug
<1>1. IInv => NoBug  BY DEF IInv, Running, TxnInv, NoBug, Empty
<1>. QED  BY <1>1, Invariant, PTL

\* No mount is refused, and no durable journal holds a torn entry.
THEOREM JournalsGenuine == Spec => []JournalGenuine
<1>1. ASSUME IInv, NEW c \in CPUs PROVE Journal(nvPtr[c], nvSlot[c]) \subseteq Entries
  BY <1>1 DEF IInv, Rollback, Journal
<1>2. IInv => JournalGenuine
  <2>. SUFFICES ASSUME IInv PROVE JournalGenuine  OBVIOUS
  <2>1. \A c \in CPUs : \A e \in Journal(nvPtr[c], nvSlot[c]) : e.genuine
    BY <1>1, EntriesGenuine, Zenon
  <2>. QED  BY <2>1 DEF IInv, JournalGenuine
<1>. QED  BY <1>2, Invariant, PTL

-----------------------------------------------------------------------------
(* Atomicity: every step is a step of AtomicWords, or leaves the store and  *)
(* the open transactions alone.                                             *)

\* The slots of the durable journal of c.
Logged(c) == Between(nvPtr[c].journal_head, nvPtr[c].journal_tail)

\* Recovery restores the value of any entry for a word, and leaves a word
\* without an entry as it is.
RestoresEntry ==
    \A w \in Words :
        /\ \A c \in CPUs : \A i \in Logged(c) :
             nvSlot[c][i].addr = w => Recovered(w) = nvSlot[c][i].value
        /\ (\A c \in CPUs : \A i \in Logged(c) : nvSlot[c][i].addr # w) => Recovered(w) = nvWord[w]

\* Recovery leaves the logged value in a word that is logged, and no other word changes.
LEMMA RecoveredValue == Rollback => RestoresEntry
<1>. SUFFICES ASSUME Rollback, NEW w \in Words
              PROVE  /\ \A c \in CPUs : \A i \in Logged(c) :
                          nvSlot[c][i].addr = w => Recovered(w) = nvSlot[c][i].value
                     /\ (\A c \in CPUs : \A i \in Logged(c) : nvSlot[c][i].addr # w) =>
                          Recovered(w) = nvWord[w]
  BY DEF RestoresEntry
<1>. DEFINE undo == {e \in UNION {Journal(nvPtr[c], nvSlot[c]) : c \in CPUs} :
                       e.genuine /\ e.addr = w}
<1>1. Recovered(w) = IF undo = {} THEN nvWord[w] ELSE (CHOOSE e \in undo : TRUE).value
  BY DEF Recovered
<1>2. ASSUME NEW c \in CPUs, NEW i \in Logged(c)
      PROVE  /\ nvSlot[c][i] \in Entries
             /\ nvSlot[c][i].addr = w => nvSlot[c][i] \in undo
  <2>1. nvSlot[c][i] \in Entries /\ nvSlot[c][i] \in Journal(nvPtr[c], nvSlot[c])
    BY <1>2 DEF Rollback, Logged, Journal
  <2>2. nvSlot[c][i].genuine  BY <2>1, EntriesGenuine, Zenon
  <2>. QED  BY <2>1, <2>2
<1>3. ASSUME NEW e \in undo
      PROVE  \E c \in CPUs : \E i \in Logged(c) : e = nvSlot[c][i] /\ nvSlot[c][i].addr = w
  BY <1>3 DEF Journal, Logged
<1>4. ASSUME NEW c \in CPUs, NEW i \in Logged(c), nvSlot[c][i].addr = w
      PROVE  Recovered(w) = nvSlot[c][i].value
  <2>1. undo # {}  BY <1>2, <1>4
  <2>2. PICK e \in undo : Recovered(w) = e.value  BY <1>1, <2>1
  <2>3. PICK d \in CPUs : \E j \in Logged(d) : e = nvSlot[d][j] /\ nvSlot[d][j].addr = w
    BY <1>3, <2>2
  <2>4. PICK j \in Logged(d) : e = nvSlot[d][j] /\ nvSlot[d][j].addr = w  BY <2>3
  <2>. QED  BY <1>4, <2>2, <2>4, SMT DEF Rollback, Logged
<1>5. ASSUME \A c \in CPUs : \A i \in Logged(c) : nvSlot[c][i].addr # w
      PROVE  Recovered(w) = nvWord[w]
  <2>1. undo = {}  BY <1>3, <1>5
  <2>. QED  BY <1>1, <2>1
<1>. QED  BY <1>4, <1>5

\* The store stays as it is when every entry still has its counterpart and
\* words without an entry are left alone.
LEMMA StoreKept ==
    ASSUME Rollback, Rollback', NEW w \in Words,
           \/ /\ \A c \in CPUs : \A i \in Logged(c) : nvSlot[c][i].addr # w
              /\ \A c \in CPUs : \A i \in Logged(c)' : nvSlot'[c][i].addr # w
              /\ nvWord'[w] = nvWord[w]
           \/ \E b, c \in CPUs : \E i \in Logged(b), j \in Logged(c)' :
                /\ nvSlot[b][i].addr = w /\ nvSlot'[c][j].addr = w
                /\ nvSlot[b][i].value = nvSlot'[c][j].value
    PROVE  Recovered(w)' = Recovered(w)
<1>1. Rollback' => RestoresEntry'  BY RecoveredValue, PTL
<1>. QED  BY <1>1, RecoveredValue, SMT DEF RestoresEntry

\* A durable entry belongs to the open transaction of its CPU.
OwnWords ==
    \A c \in CPUs : \A i \in Logged(c) :
        /\ i \in Filled(c) /\ Covers(c, nvSlot[c])
        /\ nvSlot[c][i].addr \in DOMAIN txn[c]

\* The words a journal would restore are those of its own transaction.
LEMMA LoggedOwn == TypeOK /\ Running => OwnWords
BY DurableJournal DEF Running, Covers, OwnWords, Logged

\* A step of one transaction leaves the words of the others alone.
LEMMA OtherWords ==
    ASSUME IInv, IInv', mode = "running", mode' = "running", NEW c \in CPUs, NEW w \in Words,
           w \notin DOMAIN txn[c], w \notin DOMAIN txn'[c], nvWord'[w] = nvWord[w],
           \A b \in CPUs \ {c} : nvPtr'[b] = nvPtr[b] /\ nvSlot'[b] = nvSlot[b]
    PROVE  Recovered(w)' = Recovered(w)
<1>1. TypeOK /\ Running /\ Rollback /\ TypeOK' /\ Running' /\ Rollback'  BY DEF IInv
<1>2. TypeOK' /\ Running' => OwnWords'  BY LoggedOwn, PTL
<1>3. OwnWords /\ OwnWords'  BY <1>1, <1>2, LoggedOwn
<1>4. \A b \in CPUs \ {c} : Logged(b)' = Logged(b)  BY DEF Logged, Between
<1>5. \A i \in Logged(c) : nvSlot[c][i].addr # w  BY <1>3 DEF OwnWords
<1>6. \A i \in Logged(c)' : nvSlot'[c][i].addr # w  BY <1>3 DEF OwnWords
<1>7. CASE \E b \in CPUs : \E i \in Logged(b) : nvSlot[b][i].addr = w
  <2>1. PICK b \in CPUs : \E i \in Logged(b) : nvSlot[b][i].addr = w  BY <1>7
  <2>2. PICK i \in Logged(b) : nvSlot[b][i].addr = w  BY <2>1
  <2>3. b \in CPUs \ {c} /\ i \in Logged(b)' /\ nvSlot'[b][i] = nvSlot[b][i]
    BY <1>4, <1>5, <2>2, SMT
  <2>. QED  BY <1>1, <2>2, <2>3, StoreKept
<1>8. CASE \A b \in CPUs : \A i \in Logged(b) : nvSlot[b][i].addr # w
  <2>1. \A b \in CPUs : \A i \in Logged(b)' : nvSlot'[b][i].addr # w  BY <1>4, <1>6, <1>8, SMT
  <2>. QED  BY <1>1, <1>8, <2>1, StoreKept
<1>. QED  BY <1>7, <1>8

\* A word of an open transaction is logged by nobody else.
LEMMA OwnValue ==
    ASSUME IInv, mode = "running", NEW c \in CPUs, NEW w \in DOMAIN txn[c]
    PROVE  /\ w \in Words
           /\ Empty(nvPtr[c]) => Recovered(w) = nvWord[w]
           /\ \A i \in Logged(c) : nvSlot[c][i].addr = w => Recovered(w) = nvSlot[c][i].value
           /\ \A b \in CPUs \ {c} : \A i \in Logged(b) : nvSlot[b][i].addr # w
<1>1. TypeOK /\ Running /\ Rollback /\ OwnWords /\ RestoresEntry
  BY LoggedOwn, RecoveredValue DEF IInv
<1>2. w \in Words /\ nvPtr[c] \in Pairs /\ nvPtr[c].journal_head \in Slots
  BY <1>1 DEF TypeOK, Pairs
<1>3. \A b \in CPUs \ {c} : \A i \in Logged(b) : nvSlot[b][i].addr # w
  BY <1>1, SMT DEF OwnWords, Running
<1>4. Empty(nvPtr[c]) => Logged(c) = {}  BY <1>2, BetweenSame DEF Logged, Empty
<1>5. Empty(nvPtr[c]) => Recovered(w) = nvWord[w]
  BY <1>1, <1>2, <1>3, <1>4 DEF RestoresEntry
<1>. QED  BY <1>1, <1>2, <1>3, <1>5 DEF RestoresEntry

\* Nothing changes when nothing durable does.
LEMMA SameDurable ==
    ASSUME UNCHANGED <<nvPtr, nvSlot, nvWord>>
    PROVE  \A w \in Words : Recovered(w)' = Recovered(w)
BY SMT DEF Recovered, Journal, Between

\* A step of a transaction is invisible until the last one, which commits it.
LEMMA TxnRefines ==
    ASSUME IInv, IInv', mode = "running", NEW c \in CPUs,
           \/ nova_flush_journal_in_batch(c) \/ store_tail(c) \/ fence_tail(c)
           \/ update_words(c) \/ PERSISTENT_BARRIER(c) \/ store_head(c) \/ fence_head(c)
    PROVE  [Abstract!Next]_(Abstract!vars)
<1>1. TypeOK /\ Running /\ TxnInv(c) /\ Rollback /\ Rollback'  BY DEF IInv, Running
<1>2. CASE (\A w \in Words : Recovered(w)' = Recovered(w)) /\ UNCHANGED <<txn, windowCrash>>
  BY <1>2 DEF Abstract!vars
<1>3. CASE store_tail(c) \/ update_words(c) \/ store_head(c)
  BY <1>2, <1>3, SameDurable DEF store_tail, update_words, store_head
<1>4. CASE nova_flush_journal_in_batch(c)
  <2>. USE DEF nova_flush_journal_in_batch
  <2>1. mode' = "running" /\ UNCHANGED <<txn, nvPtr, nvWord, windowCrash>>  BY <1>4
  <2>2. \A b \in CPUs \ {c} : nvSlot'[b] = nvSlot[b]  BY <1>1, <1>4 DEF TypeOK
  <2>3. Empty(nvPtr[c]) /\ Empty(nvPtr[c])'  BY <1>1, <1>4 DEF TxnInv, Empty
  <2>4. ASSUME NEW w \in Words PROVE Recovered(w)' = Recovered(w)
    <3>1. CASE w \in DOMAIN txn[c]
      <4>1. Logged(c) = {} /\ Logged(c)' = {}
        <5>1. nvPtr[c] \in Pairs /\ nvPtr[c].journal_head \in Slots  BY <1>1 DEF TypeOK, Pairs
        <5>. QED  BY <2>1, <2>3, <5>1, BetweenSame DEF Logged, Empty
      <4>2. \A b \in CPUs \ {c} : Logged(b)' = Logged(b)  BY <2>1 DEF Logged, Between
      <4>3. \A b \in CPUs : \A i \in Logged(b) : nvSlot[b][i].addr # w
        BY <3>1, <4>1, OwnValue, SMT
      <4>4. \A b \in CPUs : \A i \in Logged(b)' : nvSlot'[b][i].addr # w
        BY <2>2, <4>1, <4>2, <4>3
      <4>. QED  BY <1>1, <2>1, <4>3, <4>4, StoreKept
    <3>2. CASE w \notin DOMAIN txn[c]  BY <2>1, <2>2, <3>2, OtherWords
    <3>. QED  BY <3>1, <3>2
  <2>. QED  BY <1>2, <2>1, <2>4
<1>5. CASE fence_tail(c)
  <2>. USE DEF fence_tail
  <2>1. mode' = "running" /\ UNCHANGED <<txn, end, nvSlot, nvWord, windowCrash>>  BY <1>5
  <2>2. nvPtr'[c] = ptr[c] /\ \A b \in CPUs \ {c} : nvPtr'[b] = nvPtr[b]  BY <1>1, <1>5 DEF TypeOK
  <2>3. /\ ptr[c].journal_head = nvPtr[c].journal_head /\ ptr[c].journal_tail = end[c]
        /\ Empty(nvPtr[c]) /\ Undoes(c, nvSlot[c])
    BY <1>1, <1>5 DEF TxnInv
  <2>4. Logged(c)' = Filled(c)  BY <2>2, <2>3 DEF Logged, Filled, Between
  <2>5. ASSUME NEW w \in Words PROVE Recovered(w)' = Recovered(w)
    <3>1. CASE w \in DOMAIN txn[c]
      <4>1. PICK i \in Filled(c) : nvSlot[c][i].addr = w /\ nvSlot[c][i].value = nvWord[w]
        BY <2>3, <3>1, ZenonT(60) DEF Undoes, Covers
      <4>2. Rollback' => RestoresEntry'  BY RecoveredValue, PTL
      <4>3. Recovered(w)' = nvWord[w]  BY <1>1, <2>1, <2>4, <4>1, <4>2, ZenonT(60) DEF RestoresEntry
      <4>4. Recovered(w) = nvWord[w]  BY <2>3, <3>1, OwnValue
      <4>. QED  BY <4>3, <4>4
    <3>2. CASE w \notin DOMAIN txn[c]  BY <2>1, <2>2, <3>2, OtherWords
    <3>. QED  BY <3>1, <3>2
  <2>. QED  BY <1>2, <2>1, <2>5
<1>6. CASE PERSISTENT_BARRIER(c)
  <2>. USE DEF PERSISTENT_BARRIER
  <2>1. mode' = "running" /\ UNCHANGED <<txn, end, nvPtr, nvSlot, windowCrash>>  BY <1>6
  <2>2. \A w \in Words : w \notin DOMAIN txn[c] => nvWord'[w] = nvWord[w]  BY <1>6
  <2>3. nvPtr[c].journal_tail = end[c] /\ Covers(c, nvSlot[c])  BY <1>1, <1>6 DEF TxnInv, Undoes
  <2>4. Logged(c)' = Logged(c) /\ Logged(c) = Filled(c)  BY <2>1, <2>3 DEF Logged, Filled, Between
  <2>5. ASSUME NEW w \in Words PROVE Recovered(w)' = Recovered(w)
    <3>1. CASE w \in DOMAIN txn[c]
      <4>1. PICK i \in Filled(c) : nvSlot[c][i].addr = w  BY <2>3, <3>1 DEF Covers
      <4>. QED  BY <1>1, <2>1, <2>4, <4>1, StoreKept
    <3>2. CASE w \notin DOMAIN txn[c]  BY <2>1, <2>2, <3>2, OtherWords
    <3>. QED  BY <3>1, <3>2
  <2>. QED  BY <1>2, <2>1, <2>5
<1>7. CASE fence_head(c)
  <2>. USE DEF fence_head
  <2>1. /\ mode' = "running" /\ UNCHANGED <<end, nvSlot, nvWord, windowCrash>>
        /\ txn' = [txn EXCEPT ![c] = None]
    BY <1>7
  <2>2. nvPtr'[c] = ptr[c] /\ \A b \in CPUs \ {c} : nvPtr'[b] = nvPtr[b]  BY <1>1, <1>7 DEF TypeOK
  <2>3. /\ Empty(ptr[c]) /\ Covers(c, nvSlot[c]) /\ Updated(c) /\ Durable(c)
        /\ nvPtr[c].journal_tail = end[c] /\ ptr[c] \in Pairs /\ nvPtr[c] \in Pairs
    BY <1>1, <1>7 DEF TxnInv, Empty, TypeOK
  <2>4. Logged(c)' = {}
    <3>1. ptr[c].journal_head \in Slots  BY <2>3 DEF Pairs
    <3>. QED  BY <2>2, <2>3, <3>1, BetweenSame DEF Logged, Empty
  <2>5. \A b \in CPUs \ {c} : Logged(b)' = Logged(b)  BY <2>2 DEF Logged, Between
  <2>6. DOMAIN txn[c] \subseteq Words /\ txn'[c] = None /\ DOMAIN None = {}
    BY <1>1, <2>1 DEF TypeOK, None
  <2>7. ASSUME NEW w \in Words
        PROVE  Recovered(w)' = IF w \in DOMAIN txn[c] THEN txn[c][w] ELSE Recovered(w)
    <3>1. CASE w \in DOMAIN txn[c]
      <4>1. \A b \in CPUs : \A i \in Logged(b)' : nvSlot'[b][i].addr # w
        BY <2>1, <2>4, <2>5, <3>1, OwnValue, SMT
      <4>2. Rollback' => RestoresEntry'  BY RecoveredValue, PTL
      <4>3. Recovered(w)' = nvWord'[w]  BY <1>1, <4>1, <4>2 DEF RestoresEntry
      <4>. QED  BY <2>1, <2>3, <3>1, <4>3 DEF Updated, Durable
    <3>2. CASE w \notin DOMAIN txn[c]  BY <2>1, <2>2, <2>6, <3>2, OtherWords
    <3>. QED  BY <3>1, <3>2
  <2>8. txn[c] # None
    <3>1. PICK i \in Filled(c) : TRUE
      <4>1. nvPtr[c].journal_head \in Slots /\ end[c] \in Slots  BY <1>1, <2>3 DEF Pairs, TypeOK
      <4>2. end[c] # nvPtr[c].journal_head  BY <2>3 DEF Covers
      <4>. QED  BY <4>1, <4>2, SizesAssumption, SMT DEF Filled, Between, Slots
    <3>. QED  BY <2>3, <2>6, <3>1 DEF Covers
  <2>9. /\ [w \in Words |-> Recovered(w)'] =
             Abstract!Apply(txn[c], [w \in Words |-> Recovered(w)])
        /\ txn[c] # Abstract!None /\ txn' = [txn EXCEPT ![c] = Abstract!None]
    BY <2>1, <2>7, <2>8 DEF Abstract!Apply, None, Abstract!None
  <2>. QED  BY <2>1, <2>9 DEF Abstract!Next, Abstract!Commit
<1>. QED  BY <1>3, <1>4, <1>5, <1>6, <1>7

\* Appending the undo entries begins a transaction.
LEMMA CreateRefines ==
    ASSUME IInv, NEW c \in CPUs, NEW ws \in Transactions,
           NEW update \in [{ws[i] : i \in 1..Len(ws)} -> Values],
           create_transaction(c, ws, update)
    PROVE  [Abstract!Next]_(Abstract!vars)
<1>1. TypeOK /\ mode = "running" /\ pc[c] = "idle" /\ txn[c] = None
  BY DEF create_transaction, IInv, Running, TxnInv
<1>2. \A i \in 1..Len(ws) : ws[i] \in Words  BY TransactionsAssumption, SMT
<1>3. /\ txn' = [txn EXCEPT ![c] = update] /\ UNCHANGED <<nvPtr, nvSlot, nvWord, windowCrash>>
      /\ \A b \in CPUs : DOMAIN txn[b] \cap DOMAIN update = {}
  BY DEF create_transaction
<1>4. txn'[c] = update /\ DOMAIN update \subseteq Words /\ update \in [DOMAIN update -> Values]
  BY <1>1, <1>2, <1>3, SMT DEF TypeOK
<1>5. [w \in Words |-> Recovered(w)'] = [w \in Words |-> Recovered(w)]  BY <1>3, SameDurable
<1>6. txn[c] = Abstract!None  BY <1>1 DEF None, Abstract!None
<1>7. Abstract!Begin(c)  BY <1>3, <1>4, <1>5, <1>6 DEF Abstract!Begin
<1>. QED  BY <1>7 DEF Abstract!Next

\* What a crash leaves in the journals of running transactions.
LEMMA CrashJournals ==
    ASSUME IInv, Crash, mode = "running", NEW c \in CPUs
    PROVE  /\ Logged(c)' = {} \/ Logged(c)' = Filled(c)
           /\ Logged(c)' # {} => Covers(c, nvSlot[c]) /\ \A i \in Filled(c) : nvSlot'[c][i] = nvSlot[c][i]
           /\ pc[c] \in {"idle", "append", "tail"} => Logged(c)' = {}
           /\ pc[c] \in {"update", "barrier", "commit"} => Logged(c)' = Filled(c)
           /\ pc[c] \in {"update", "barrier", "commit", "commitfence"} => Logged(c) = Filled(c)
<1>1. TypeOK /\ TxnInv(c)  BY DEF IInv, Running
<1>2. nvPtr'[c] \in {ptr[c], nvPtr[c]}  BY <1>1, CrashLeaves
<1>3. /\ ptr[c] \in Pairs /\ nvPtr[c] \in Pairs
      /\ ptr[c].journal_head \in Slots /\ nvPtr[c].journal_head \in Slots
  BY <1>1 DEF TypeOK, Pairs
<1>4. Empty(nvPtr'[c]) => Logged(c)' = {}  BY <1>2, <1>3, BetweenSame DEF Logged, Empty
<1>5. CASE pc[c] \in {"idle", "append", "tail"}
  <2>1. Empty(nvPtr'[c])  BY <1>1, <1>2, <1>5 DEF TxnInv
  <2>. QED  BY <1>4, <1>5, <2>1
<1>6. CASE pc[c] \in {"tailfence", "update", "barrier", "commit", "commitfence"}
  <2>1. Covers(c, nvSlot[c]) /\ Flushed(c)  BY <1>1, <1>6 DEF TxnInv, Undoes
  <2>2. Filled(c) \subseteq Slots  BY DEF Filled, Between
  <2>3. \A i \in Filled(c) : nvSlot'[c][i] = nvSlot[c][i]
    BY <1>1, <2>1, <2>2, CrashLeaves DEF Flushed
  <2>4. Logged(c)' = {} \/ Logged(c)' = Filled(c)
    <3>1. CASE Empty(nvPtr'[c])  BY <1>4, <3>1
    <3>2. CASE ~Empty(nvPtr'[c])
      <4>1. nvPtr'[c].journal_head = nvPtr[c].journal_head /\ nvPtr'[c].journal_tail = end[c]
        BY <1>1, <1>2, <1>6, <3>2 DEF TxnInv, Empty
      <4>. QED  BY <4>1 DEF Logged, Filled, Between
    <3>. QED  BY <3>1, <3>2
  <2>5. pc[c] \in {"update", "barrier", "commit"} => Logged(c)' = Filled(c)
    <3>. SUFFICES ASSUME pc[c] \in {"update", "barrier", "commit"} PROVE Logged(c)' = Filled(c)
      OBVIOUS
    <3>1. nvPtr'[c] = nvPtr[c] /\ nvPtr[c].journal_tail = end[c]  BY <1>1, <1>2 DEF TxnInv
    <3>. QED  BY <3>1 DEF Logged, Filled, Between
  <2>6. pc[c] \in {"update", "barrier", "commit", "commitfence"} => Logged(c) = Filled(c)
    BY <1>1 DEF TxnInv, Logged, Filled
  <2>. QED  BY <1>6, <2>1, <2>3, <2>4, <2>5, <2>6
<1>. QED  BY <1>1, <1>5, <1>6 DEF TypeOK

\* A crash keeps the transactions whose head became durable while they were
\* about to return, and undoes the others.
LEMMA CrashRunningRefines ==
    ASSUME IInv, IInv', Crash, mode = "running"
    PROVE  [Abstract!Next]_(Abstract!vars)
<1>. DEFINE C == {c \in CPUs : pc[c] = "commitfence" /\ Logged(c)' = {}}
<1>1. TypeOK /\ Running /\ Rollback /\ Rollback' /\ OwnWords /\ RestoresEntry
  BY LoggedOwn, RecoveredValue DEF IInv
<1>2. Rollback' => RestoresEntry'  BY RecoveredValue, PTL
<1>3. \A c \in CPUs : \A i \in Logged(c)' :
        nvSlot'[c][i] = nvSlot[c][i] /\ nvSlot[c][i].addr \in DOMAIN txn[c]
  BY CrashJournals DEF Covers
<1>4. \A w \in Words : nvWord'[w] \in {word[w], nvWord[w]}  BY <1>1, CrashLeaves
<1>5. ASSUME NEW w \in Words, \A c \in CPUs : w \notin DOMAIN txn[c]
      PROVE  Recovered(w)' = Recovered(w)
  <2>1. nvWord'[w] = nvWord[w]  BY <1>1, <1>4, <1>5 DEF Running
  <2>2. \A c \in CPUs : \A i \in Logged(c) : nvSlot[c][i].addr # w  BY <1>1, <1>5 DEF OwnWords
  <2>3. \A c \in CPUs : \A i \in Logged(c)' : nvSlot'[c][i].addr # w  BY <1>3, <1>5, SMT
  <2>. QED  BY <1>1, <2>1, <2>2, <2>3, StoreKept
<1>6. ASSUME NEW w \in Words, NEW c \in CPUs, w \in DOMAIN txn[c]
      PROVE  Recovered(w)' = IF c \in C THEN txn[c][w] ELSE Recovered(w)
  <2>1. TxnInv(c) /\ pc[c] # "idle"
    <3>1. TxnInv(c)  BY <1>1 DEF Running
    <3>. QED  BY <1>6, <3>1 DEF TxnInv, None
  <2>2. \A b \in CPUs \ {c} : w \notin DOMAIN txn[b]  BY <1>1, <1>6 DEF Running
  <2>3. \A b \in CPUs \ {c} : \A i \in Logged(b)' : nvSlot'[b][i].addr # w  BY <1>3, <2>2, SMT
  <2>4. CASE Logged(c)' = {}
    <3>1. Recovered(w)' = nvWord'[w]  BY <1>1, <1>2, <2>3, <2>4 DEF RestoresEntry
    <3>2. CASE pc[c] = "commitfence"
      <4>1. Updated(c) /\ Durable(c)  BY <2>1, <3>2 DEF TxnInv
      <4>. QED  BY <1>4, <1>6, <2>4, <3>1, <3>2, <4>1 DEF Updated, Durable
    <3>3. CASE pc[c] # "commitfence"
      <4>1. pc[c] \in {"append", "tail", "tailfence"}
        <5>1. Logged(c)' # Filled(c) \/ Filled(c) = {}  BY <2>4
        <5>2. pc[c] \in {"update", "barrier", "commit"} => Filled(c) # {}
          BY <1>6, <2>1 DEF TxnInv, Covers, Undoes
        <5>. QED  BY <1>1, <2>1, <3>3, <5>1, <5>2, CrashJournals DEF TypeOK
      <4>2. Empty(nvPtr[c]) /\ Durable(c)  BY <2>1, <4>1 DEF TxnInv
      <4>3. Recovered(w) = nvWord[w]  BY <1>6, <4>2, OwnValue
      <4>. QED  BY <1>4, <1>6, <3>1, <3>3, <4>2, <4>3 DEF Durable
    <3>. QED  BY <3>2, <3>3
  <2>5. CASE Logged(c)' # {}
    <3>1. Logged(c)' = Filled(c) /\ Covers(c, nvSlot[c])  BY <2>5, CrashJournals
    <3>2. PICK i \in Filled(c) : nvSlot[c][i].addr = w  BY <1>6, <3>1 DEF Covers
    <3>3. nvSlot'[c][i] = nvSlot[c][i]  BY <1>3, <3>1
    <3>4. Recovered(w)' = nvSlot[c][i].value
      BY <1>1, <1>2, <3>1, <3>2, <3>3, SMT DEF RestoresEntry
    <3>5. Recovered(w) = nvSlot[c][i].value
      <4>1. CASE pc[c] = "tailfence"
        <5>1. Empty(nvPtr[c]) /\ Undoes(c, nvSlot[c])  BY <2>1, <4>1 DEF TxnInv
        <5>. QED  BY <1>6, <3>2, <5>1, OwnValue DEF Undoes
      <4>2. CASE pc[c] \in {"update", "barrier", "commit", "commitfence"}
        <5>1. i \in Logged(c)  BY <4>2, CrashJournals
        <5>. QED  BY <1>6, <3>2, <5>1, OwnValue, ZenonT(60)
      <4>. QED  BY <1>1, <2>5, <4>1, <4>2, CrashJournals DEF TypeOK
    <3>. QED  BY <2>5, <3>4, <3>5
  <2>. QED  BY <2>4, <2>5
<1>7. ASSUME NEW w \in Words
      PROVE  Recovered(w)' = IF \E c \in C : w \in DOMAIN txn[c]
                             THEN txn[CHOOSE c \in C : w \in DOMAIN txn[c]][w]
                             ELSE Recovered(w)
  <2>1. CASE \E c \in C : w \in DOMAIN txn[c]
    <3>1. PICK c \in C : c = CHOOSE b \in C : w \in DOMAIN txn[b]  BY <2>1
    <3>2. w \in DOMAIN txn[c]  BY <2>1, <3>1
    <3>. QED  BY <1>6, <2>1, <3>1, <3>2
  <2>2. CASE ~\E c \in C : w \in DOMAIN txn[c]  BY <1>5, <1>6, <2>2
  <2>. QED  BY <2>1, <2>2
<1>8. txn' = [c \in CPUs |-> Abstract!None] /\ windowCrash' = windowCrash
  BY <1>1 DEF Crash, None, Abstract!None, TypeOK
<1>9. Abstract!Crash(C)  BY <1>7, <1>8 DEF Abstract!Crash
<1>. QED  BY <1>9 DEF Abstract!Next

\* A crash during recovery is invisible, outside the window.
LEMMA CrashMountingRefines ==
    ASSUME IInv, IInv', Crash, mode = "mounting", ~windowCrash'
    PROVE  UNCHANGED Abstract!vars
<1>1. TypeOK /\ Mounting /\ Rollback /\ Rollback' /\ RestoresEntry  BY RecoveredValue DEF IInv
<1>2. rpc # "fence" /\ windowCrash' = windowCrash  BY <1>1 DEF Crash, TypeOK
<1>3. \A c \in CPUs : nvPtr'[c] = nvPtr[c] /\ \A i \in Slots : nvSlot'[c][i] = nvSlot[c][i]
  BY <1>1, <1>2, CrashLeaves DEF Mounting
<1>4. \A c \in CPUs : Logged(c)' = Logged(c) /\ Logged(c) \subseteq Slots
  BY <1>3 DEF Logged, Between
<1>5. ASSUME NEW w \in Words PROVE Recovered(w)' = Recovered(w)
  <2>1. CASE \E c \in CPUs : \E i \in Logged(c) : nvSlot[c][i].addr = w
    <3>1. PICK c \in CPUs : \E i \in Logged(c) : nvSlot[c][i].addr = w  BY <2>1
    <3>2. PICK i \in Logged(c) : nvSlot[c][i].addr = w  BY <3>1
    <3>3. i \in Logged(c)' /\ nvSlot'[c][i] = nvSlot[c][i]  BY <1>3, <1>4, <3>2
    <3>. QED  BY <1>1, <3>2, <3>3, StoreKept
  <2>2. CASE \A c \in CPUs : \A i \in Logged(c) : nvSlot[c][i].addr # w
    <3>1. word[w] = nvWord[w]
      <4>1. CASE rpc = "reset"
        <5>1. \A e \in Journal(nvPtr[cur], nvSlot[cur]) : e.addr # w
          BY <1>1, <2>2, <4>1, SMT DEF Mounting, Journal, Logged
        <5>. QED  BY <1>1, <4>1, <5>1, SMT DEF Mounting
      <4>. QED  BY <1>1, <1>2, <4>1 DEF Mounting, TypeOK
    <3>2. nvWord'[w] = nvWord[w]  BY <1>1, <3>1, CrashLeaves
    <3>3. \A c \in CPUs : \A i \in Logged(c)' : nvSlot'[c][i].addr # w  BY <1>3, <1>4, <2>2, SMT
    <3>. QED  BY <1>1, <2>2, <3>2, <3>3, StoreKept
  <2>. QED  BY <2>1, <2>2
<1>6. txn' = txn  BY <1>1 DEF Crash, Mounting
<1>. QED  BY <1>2, <1>5, <1>6 DEF Abstract!vars

\* So is every step of recovery.
LEMMA RecoveryRefines ==
    ASSUME IInv, IInv', Recovery
    PROVE  UNCHANGED Abstract!vars
<1>1. TypeOK /\ Rollback /\ Rollback' /\ mode = "mounting" /\ Mounting
  BY DEF IInv, Recovery, soft_init_next, undo_entries, reset_tail, fence_recovery, soft_init_done
<1>2. CASE soft_init_next \/ undo_entries \/ reset_tail \/ soft_init_done
  <2>1. UNCHANGED <<nvPtr, nvSlot, nvWord, txn, windowCrash>>
    BY <1>2 DEF soft_init_next, undo_entries, reset_tail, soft_init_done
  <2>. QED  BY <2>1, SameDurable DEF Abstract!vars
<1>3. CASE fence_recovery
  <2>1. PICK k \in CPUs : k = cur /\ rpc = "fence"  BY <1>1, <1>3 DEF fence_recovery, Mounting
  <2>2. UNCHANGED <<nvSlot, word, txn, windowCrash>> /\ nvWord' = word
    BY <1>3 DEF fence_recovery
  <2>3. nvPtr'[k] = ptr[k] /\ \A c \in CPUs \ {k} : nvPtr'[c] = nvPtr[c]
    BY <1>1, <1>3, <2>1 DEF fence_recovery, TypeOK
  <2>4. Logged(k)' = {}
    <3>1. ptr[k] \in Pairs /\ ptr[k].journal_head \in Slots  BY <1>1, <2>1 DEF TypeOK, Pairs
    <3>2. ptr[k].journal_head = ptr[k].journal_tail  BY <1>1, <2>1 DEF Mounting
    <3>. QED  BY <2>3, <3>1, <3>2, BetweenSame DEF Logged
  <2>5. \A c \in CPUs \ {k} : Logged(c)' = Logged(c)  BY <2>3 DEF Logged, Between
  <2>6. word = [w \in Words |->
          IF \E e \in Journal(nvPtr[k], nvSlot[k]) : e.addr = w
          THEN (CHOOSE e \in Journal(nvPtr[k], nvSlot[k]) : e.addr = w).value
          ELSE nvWord[w]]
    BY <1>1, <2>1, ZenonT(60) DEF Mounting
  <2>7. RestoresEntry  BY <1>1, RecoveredValue
  <2>8. Rollback' => RestoresEntry'  BY RecoveredValue, PTL
  <2>9. ASSUME NEW w \in Words PROVE Recovered(w)' = Recovered(w)
    <3>1. CASE \E c \in CPUs \ {k} : \E i \in Logged(c) : nvSlot[c][i].addr = w
      <4>1. PICK c \in CPUs \ {k} : \E i \in Logged(c) : nvSlot[c][i].addr = w  BY <3>1
      <4>2. PICK i \in Logged(c) : nvSlot[c][i].addr = w  BY <4>1
      <4>3. i \in Logged(c)' /\ nvSlot'[c][i] = nvSlot[c][i]  BY <2>2, <2>5, <4>2
      <4>. QED  BY <1>1, <4>2, <4>3, StoreKept
    <3>2. CASE ~\E c \in CPUs \ {k} : \E i \in Logged(c) : nvSlot[c][i].addr = w
      <4>1. \A c \in CPUs : \A i \in Logged(c)' : nvSlot'[c][i].addr # w
        BY <2>2, <2>4, <2>5, <3>2
      <4>2. Recovered(w)' = word[w]  BY <1>1, <2>2, <2>8, <4>1 DEF RestoresEntry
      <4>3. CASE \E i \in Logged(k) : nvSlot[k][i].addr = w
        <5>1. \E e \in Journal(nvPtr[k], nvSlot[k]) : e.addr = w
          BY <4>3 DEF Journal, Logged
        <5>2. PICK e \in Journal(nvPtr[k], nvSlot[k]) : e.addr = w /\ word[w] = e.value
          BY <2>6, <5>1
        <5>3. PICK i \in Logged(k) : e = nvSlot[k][i]  BY <5>2 DEF Journal, Logged
        <5>4. Recovered(w) = e.value  BY <2>7, <5>2, <5>3 DEF RestoresEntry
        <5>. QED  BY <4>2, <5>2, <5>4
      <4>4. CASE \A i \in Logged(k) : nvSlot[k][i].addr # w
        <5>1. \A e \in Journal(nvPtr[k], nvSlot[k]) : e.addr # w
          BY <4>4 DEF Journal, Logged
        <5>2. word[w] = nvWord[w]  BY <2>6, <5>1
        <5>3. Recovered(w) = nvWord[w]  BY <2>7, <3>2, <4>4 DEF RestoresEntry
        <5>. QED  BY <4>2, <5>2, <5>3
      <4>. QED  BY <4>3, <4>4
    <3>. QED  BY <3>1, <3>2
  <2>. QED  BY <2>2, <2>9 DEF Abstract!vars
<1>. QED  BY <1>2, <1>3 DEF Recovery

\* Transactions are atomic and durable for any number of CPUs, words and
\* crashes: the journal implements AtomicWords.
THEOREM Atomicity == Spec => AtomicUnlessWindow
<1>1. Init => Abstract!Init
  <2>. SUFFICES ASSUME Init PROVE Abstract!Init  OBVIOUS
  <2>1. IInv  BY InitIInv
  <2>2. TypeOK /\ Running /\ RestoresEntry /\ OwnWords
    BY <2>1, RecoveredValue, LoggedOwn DEF IInv, Init
  <2>3. \A c \in CPUs : txn[c] = None /\ DOMAIN txn[c] = {}  BY DEF Init, None
  <2>4. \A w \in Words : Recovered(w) = nvWord[w]  BY <2>2, <2>3 DEF RestoresEntry, OwnWords
  <2>5. [w \in Words |-> Recovered(w)] \in [Words -> Values]  BY <2>2, <2>4 DEF TypeOK
  <2>. QED  BY <2>5 DEF Init, Abstract!Init, None, Abstract!None
<1>2. IInv /\ IInv' /\ [Next]_vars => [Abstract!Next]_(Abstract!vars)
  <2>. SUFFICES ASSUME IInv, IInv', [Next]_vars PROVE [Abstract!Next]_(Abstract!vars)
    OBVIOUS
  <2>1. CASE windowCrash'  BY <2>1 DEF Abstract!Next, Abstract!Lose
  <2>2. CASE Crash /\ ~windowCrash'
    BY <2>2, CrashRunningRefines, CrashMountingRefines DEF IInv, TypeOK
  <2>3. CASE Recovery  BY <2>3, RecoveryRefines
  <2>4. ASSUME NEW c \in CPUs, NEW ws \in Transactions,
               NEW update \in [{ws[i] : i \in 1..Len(ws)} -> Values],
               create_transaction(c, ws, update)
        PROVE  [Abstract!Next]_(Abstract!vars)
    BY <2>4, CreateRefines
  <2>5. ASSUME NEW c \in CPUs,
               \/ nova_flush_journal_in_batch(c) \/ store_tail(c) \/ fence_tail(c)
               \/ update_words(c) \/ PERSISTENT_BARRIER(c) \/ store_head(c) \/ fence_head(c)
        PROVE  [Abstract!Next]_(Abstract!vars)
    <3>1. pc[c] # "idle"
      BY <2>5 DEF nova_flush_journal_in_batch, store_tail, fence_tail, update_words,
                  PERSISTENT_BARRIER, store_head, fence_head
    <3>2. mode = "running"  BY <3>1, <2>5 DEF IInv, TypeOK, Mounting
    <3>. QED  BY <2>5, <3>2, TxnRefines
  <2>6. CASE UNCHANGED vars  BY <2>6, SameDurable DEF vars, Abstract!vars
  <2>. QED  BY <2>1, <2>2, <2>3, <2>4, <2>5, <2>6 DEF Next, Transaction
<1>. QED  BY <1>1, <1>2, Invariant, PTL DEF Spec, AtomicUnlessWindow, Abstract!Spec
=============================================================================
