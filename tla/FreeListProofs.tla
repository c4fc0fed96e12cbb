--------------------------- MODULE FreeListProofs ---------------------------
(***************************************************************************)
(* The block allocator of FreeList for every number of CPUs, threads and   *)
(* range nodes, every device large enough for its lists and every request: *)
(* no block is handed out twice, nothing in use is refused when it is      *)
(* freed, the lists stay sound, and the allocator is a pool of blocks.     *)
(***************************************************************************)
EXTENDS FreeListSteps

USE Zenon

\* A thread that holds a lock over two steps holds it alone, and its list has a node.
LocksOK ==
    \A t \in Threads : pc[t] = "unaligned" =>
      /\ tree[cpuid[t]] # {}
      /\ \A u \in Threads : pc[u] = "unaligned" /\ cpuid[u] = cpuid[t] => u = t

\* Blocks lost from a tree still count as free.
CountsOK ==
    \A c \in CPUs :
      num_free_blocks[c] = Cardinality(FreeBlocks(c)) + Cardinality(lost \cap Region(c))

FInv ==
    /\ TypeOK
    /\ ListsOK
    /\ Partition
    /\ CountsOK
    /\ LocksOK
    /\ ~freeFailed

-----------------------------------------------------------------------------
(* Counting blocks.                                                         *)

\* The size of a run of blocks.
LEMMA IntervalCount ==
    ASSUME NEW x \in Nat, NEW y \in Nat, x <= y
    PROVE  IsFiniteSet(x..y) /\ Cardinality(x..y) = y - x + 1
  <1>1. x \in Int /\ y \in Int /\ ~(x > y)  BY SMT
  <1>2. IsFiniteSet(x..y) /\ Cardinality(x..y) = IF x > y THEN 0 ELSE y - x + 1  BY <1>1, FS_Interval
  <1> QED BY <1>1, <1>2

\* Blocks that are added to a set, or removed from it, count once.
LEMMA CountAdded ==
    ASSUME NEW F, IsFiniteSet(F), NEW x \in Nat, NEW y \in Nat, x <= y, (x..y) \cap F = {}
    PROVE  IsFiniteSet(F \cup (x..y)) /\ Cardinality(F \cup (x..y)) = Cardinality(F) + (y - x + 1)
  <1>1. IsFiniteSet(x..y) /\ Cardinality(x..y) = y - x + 1  BY IntervalCount
  <1>2. /\ IsFiniteSet(F \cup (x..y))
        /\ Cardinality(F \cup (x..y)) = Cardinality(F) + Cardinality(x..y) - Cardinality(F \cap (x..y))
    BY <1>1, FS_Union
  <1>3. F \cap (x..y) = {}  OBVIOUS
  <1>4. Cardinality(F \cap (x..y)) = 0  BY <1>3, FS_EmptySet
  <1>5. Cardinality(F) \in Nat  BY FS_CardinalityType
  <1> QED BY <1>1, <1>2, <1>4, <1>5, SMT

\* The size of a set without a run that was in it.
LEMMA CountRemoved ==
    ASSUME NEW F, IsFiniteSet(F), NEW x \in Nat, NEW y \in Nat, x <= y, x..y \subseteq F
    PROVE  /\ IsFiniteSet(F \ (x..y)) /\ Cardinality(F \ (x..y)) = Cardinality(F) - (y - x + 1)
           /\ Cardinality(F) \in Nat /\ y - x + 1 <= Cardinality(F)
  <1> DEFINE G == F \ (x..y)
  <1>1. G \in SUBSET F  OBVIOUS
  <1>2. IsFiniteSet(G)  BY <1>1, FS_Subset
  <1>3. (x..y) \cap G = {} /\ G \cup (x..y) = F  OBVIOUS
  <1>4. Cardinality(G \cup (x..y)) = Cardinality(G) + (y - x + 1)
    <2> HIDE DEF G
    <2> QED BY <1>2, <1>3, CountAdded
  <1>5. Cardinality(G) \in Nat /\ Cardinality(F) \in Nat  BY <1>2, FS_CardinalityType
  <1>6. Cardinality(F) = Cardinality(G) + (y - x + 1)  BY <1>3, <1>4
  <1> HIDE DEF G
  <1>7. Cardinality(G) = Cardinality(F) - (y - x + 1) /\ y - x + 1 <= Cardinality(F)
    BY <1>5, <1>6, SMT
  <1> QED BY <1>2, <1>5, <1>7 DEF G

\* The free and the lost blocks of a list can be counted.
LEMMA FreeFinite ==
    ASSUME ListsOK, NEW c \in CPUs
    PROVE  /\ IsFiniteSet(FreeBlocks(c)) /\ Cardinality(FreeBlocks(c)) \in Nat
           /\ IsFiniteSet(lost \cap Region(c)) /\ Cardinality(lost \cap Region(c)) \in Nat
  <1>1. S(c) \in Nat /\ E(c) \in Nat /\ S(c) <= E(c) /\ Region(c) = S(c)..E(c)  BY RegionTypes
  <1>2. IsFiniteSet(Region(c))  BY <1>1, IntervalCount
  <1>3. FreeBlocks(c) \in SUBSET Region(c)  BY ListFacts
  <1>4. (lost \cap Region(c)) \in SUBSET Region(c)  OBVIOUS
  <1>5. IsFiniteSet(FreeBlocks(c)) /\ IsFiniteSet(lost \cap Region(c))  BY <1>2, <1>3, <1>4, FS_Subset
  <1> QED BY <1>5, FS_CardinalityType

\* A run that a list loses is nobody's, and is in no other region.
LEMMA TookFacts ==
    ASSUME ListsOK, Partition, NEW c \in CPUs, NEW x, NEW y, Took(c, x, y)
    PROVE  /\ x \in Nat /\ y \in Nat /\ x <= y
           /\ x..y \subseteq FreeBlocks(c) /\ x..y \subseteq Region(c)
           /\ (x..y) \cap inuse = {} /\ (x..y) \cap lost = {} /\ (x..y) \cap leaked = {}
           /\ \A d \in CPUs : d # c => (x..y) \cap Region(d) = {}
           /\ FreeBlocks(c)' = FreeBlocks(c) \ (x..y)
           /\ \A d \in CPUs : d # c => FreeBlocks(d)' = FreeBlocks(d)
  <1>1. x..y \subseteq FreeBlocks(c)  BY DEF Took
  <1>2. x..y \subseteq Region(c)  BY <1>1, ListFacts
  <1>3. FreeBlocks(c) \cap (inuse \cup lost \cup leaked) = {}  BY DEF Partition
  <1>4. ASSUME NEW d \in CPUs, d # c PROVE (x..y) \cap Region(d) = {}
    <2>1. Region(c) \cap Region(d) = {}  BY <1>4, RegionsDiffer
    <2> QED BY <1>2, <2>1
  <1>5. (x..y) \cap inuse = {} /\ (x..y) \cap lost = {} /\ (x..y) \cap leaked = {}  BY <1>1, <1>3
  <1> QED BY <1>1, <1>2, <1>4, <1>5 DEF Took

\* The partition and the counts when a caller gets the run.
LEMMA TakenByCaller ==
    ASSUME FInv, NEW c \in CPUs, NEW x, NEW y, Took(c, x, y),
           inuse' = inuse \cup (x..y), UNCHANGED <<lost, leaked>>,
           num_free_blocks' = [num_free_blocks EXCEPT ![c] = @ - (y - x + 1)]
    PROVE  Partition' /\ CountsOK' /\ num_free_blocks' \in [CPUs -> Nat]
  <1> DEFINE X == x..y
  <1>0. ListsOK /\ Partition /\ ListsOK' /\ lost' = lost /\ leaked' = leaked  BY DEF FInv, Took
  <1>1. /\ x \in Nat /\ y \in Nat /\ x <= y
        /\ X \subseteq FreeBlocks(c) /\ X \subseteq Region(c)
        /\ X \cap inuse = {} /\ X \cap lost = {} /\ X \cap leaked = {}
        /\ \A d \in CPUs : d # c => X \cap Region(d) = {}
        /\ FreeBlocks(c)' = FreeBlocks(c) \ X
        /\ \A d \in CPUs : d # c => FreeBlocks(d)' = FreeBlocks(d)
    BY <1>0, TookFacts
  <1>2. inuse' = inuse \cup X  OBVIOUS
  <1>3. Partition'
    <2> HIDE DEF X
    <2>1. \A d \in CPUs : FreeBlocks(d)' \subseteq Region(d)
      <3> TAKE d \in CPUs
      <3>1. FreeBlocks(d) \subseteq Region(d)  BY <1>0 DEF Partition
      <3>2. FreeBlocks(d)' = FreeBlocks(d) \/ FreeBlocks(d)' = FreeBlocks(d) \ X  BY <1>1
      <3> QED BY <3>1, <3>2
    <2>2. \A d \in CPUs : Region(d) \subseteq FreeBlocks(d)' \cup inuse' \cup lost' \cup leaked'
      <3> TAKE d \in CPUs
      <3>1. Region(d) \subseteq FreeBlocks(d) \cup inuse \cup lost \cup leaked  BY <1>0 DEF Partition
      <3>2. FreeBlocks(d)' = FreeBlocks(d) \/ FreeBlocks(d)' = FreeBlocks(d) \ X  BY <1>1
      <3> QED BY <3>1, <3>2, <1>0, <1>2
    <2>3. inuse' \cup lost' \cup leaked' \subseteq UNION {Region(d) : d \in CPUs}
      <3>1. inuse \cup lost \cup leaked \subseteq UNION {Region(d) : d \in CPUs}  BY <1>0 DEF Partition
      <3>2. X \subseteq UNION {Region(d) : d \in CPUs}  BY <1>1
      <3> QED BY <3>1, <3>2, <1>0, <1>2
    <2>4. \A d \in CPUs : FreeBlocks(d)' \cap (inuse' \cup lost' \cup leaked') = {}
      <3> TAKE d \in CPUs
      <3>1. FreeBlocks(d) \cap (inuse \cup lost \cup leaked) = {} /\ FreeBlocks(d) \subseteq Region(d)
        BY <1>0 DEF Partition
      <3>2. CASE d = c
        <4>1. FreeBlocks(d)' = FreeBlocks(d) \ X  BY <3>2, <1>1
        <4> QED BY <3>1, <4>1, <1>0, <1>2
      <3>3. CASE d # c
        <4>1. FreeBlocks(d)' = FreeBlocks(d) /\ X \cap Region(d) = {}  BY <3>3, <1>1
        <4> QED BY <3>1, <4>1, <1>0, <1>2
      <3> QED BY <3>2, <3>3
    <2>5. inuse' \cap lost' = {} /\ inuse' \cap leaked' = {} /\ lost' \cap leaked' = {}
      BY <1>0, <1>1, <1>2 DEF Partition
    <2> QED BY <2>1, <2>2, <2>3, <2>4, <2>5 DEF Partition
  <1>4. num_free_blocks \in [CPUs -> Nat]  BY DEF FInv, TypeOK
  <1>5. ASSUME NEW d \in CPUs
        PROVE  /\ num_free_blocks'[d] = Cardinality(FreeBlocks(d)') + Cardinality(lost' \cap Region(d))
               /\ num_free_blocks'[d] \in Nat
    <2>1. /\ num_free_blocks[d] = Cardinality(FreeBlocks(d)) + Cardinality(lost \cap Region(d))
          /\ IsFiniteSet(FreeBlocks(d)) /\ Cardinality(FreeBlocks(d)) \in Nat
          /\ Cardinality(lost \cap Region(d)) \in Nat
      BY <1>0, FreeFinite DEF FInv, CountsOK
    <2>2. CASE d = c
      <3>1. num_free_blocks'[d] = num_free_blocks[d] - (y - x + 1)  BY <2>2, <1>4
      <3>2. /\ Cardinality(FreeBlocks(d) \ (x..y)) = Cardinality(FreeBlocks(d)) - (y - x + 1)
            /\ y - x + 1 <= Cardinality(FreeBlocks(d))
        BY <2>1, <2>2, <1>1, CountRemoved, ZenonT(60)
      <3>3. FreeBlocks(d)' = FreeBlocks(d) \ (x..y) /\ lost' = lost  BY <2>2, <1>0, <1>1
      <3>4. PICK F, k : F = FreeBlocks(d)' /\ k = num_free_blocks'[d]  OBVIOUS
      <3>5. k = num_free_blocks[d] - (y - x + 1) /\ F = FreeBlocks(d) \ (x..y)  BY <3>1, <3>3, <3>4
      <3>6. k = Cardinality(F) + Cardinality(lost \cap Region(d)) /\ k \in Nat
        BY <2>1, <3>2, <3>5, <1>1, SMT
      <3> QED BY <3>3, <3>4, <3>6
    <2>3. CASE d # c
      <3>1. num_free_blocks'[d] = num_free_blocks[d]  BY <2>3, <1>4
      <3>2. FreeBlocks(d)' = FreeBlocks(d) /\ lost' = lost  BY <2>3, <1>0, <1>1
      <3> QED BY <2>1, <3>1, <3>2, <1>4
    <2> QED BY <2>2, <2>3
  <1>6. CountsOK'  BY <1>5 DEF CountsOK
  <1>7. num_free_blocks' \in [CPUs -> Nat]
    <2>1. num_free_blocks[c] - (y - x + 1) \in Nat
      <3>1. num_free_blocks'[c] = num_free_blocks[c] - (y - x + 1)  BY <1>4
      <3> QED BY <1>5, <3>1
    <2> QED BY <1>4, <2>1
  <1> QED BY <1>3, <1>6, <1>7

\* The same when the run gets lost.
LEMMA TakenByNobody ==
    ASSUME FInv, NEW c \in CPUs, NEW x, NEW y, Took(c, x, y),
           lost' = lost \cup (x..y), UNCHANGED <<inuse, leaked, num_free_blocks>>
    PROVE  Partition' /\ CountsOK'
  <1> DEFINE X == x..y
  <1>0. /\ ListsOK /\ Partition /\ ListsOK' /\ inuse' = inuse /\ leaked' = leaked
        /\ num_free_blocks' = num_free_blocks
    BY DEF FInv, Took
  <1>1. /\ x \in Nat /\ y \in Nat /\ x <= y
        /\ X \subseteq FreeBlocks(c) /\ X \subseteq Region(c)
        /\ X \cap inuse = {} /\ X \cap lost = {} /\ X \cap leaked = {}
        /\ \A d \in CPUs : d # c => X \cap Region(d) = {}
        /\ FreeBlocks(c)' = FreeBlocks(c) \ X
        /\ \A d \in CPUs : d # c => FreeBlocks(d)' = FreeBlocks(d)
    BY <1>0, TookFacts
  <1>2. lost' = lost \cup X  OBVIOUS
  <1>3. Partition'
    <2> HIDE DEF X
    <2>1. \A d \in CPUs : FreeBlocks(d)' \subseteq Region(d)
      <3> TAKE d \in CPUs
      <3>1. FreeBlocks(d) \subseteq Region(d)  BY <1>0 DEF Partition
      <3>2. FreeBlocks(d)' = FreeBlocks(d) \/ FreeBlocks(d)' = FreeBlocks(d) \ X  BY <1>1
      <3> QED BY <3>1, <3>2
    <2>2. \A d \in CPUs : Region(d) \subseteq FreeBlocks(d)' \cup inuse' \cup lost' \cup leaked'
      <3> TAKE d \in CPUs
      <3>1. Region(d) \subseteq FreeBlocks(d) \cup inuse \cup lost \cup leaked  BY <1>0 DEF Partition
      <3>2. FreeBlocks(d)' = FreeBlocks(d) \/ FreeBlocks(d)' = FreeBlocks(d) \ X  BY <1>1
      <3> QED BY <3>1, <3>2, <1>0, <1>2
    <2>3. inuse' \cup lost' \cup leaked' \subseteq UNION {Region(d) : d \in CPUs}
      <3>1. inuse \cup lost \cup leaked \subseteq UNION {Region(d) : d \in CPUs}  BY <1>0 DEF Partition
      <3>2. X \subseteq UNION {Region(d) : d \in CPUs}  BY <1>1
      <3> QED BY <3>1, <3>2, <1>0, <1>2
    <2>4. \A d \in CPUs : FreeBlocks(d)' \cap (inuse' \cup lost' \cup leaked') = {}
      <3> TAKE d \in CPUs
      <3>1. FreeBlocks(d) \cap (inuse \cup lost \cup leaked) = {} /\ FreeBlocks(d) \subseteq Region(d)
        BY <1>0 DEF Partition
      <3>2. CASE d = c
        <4>1. FreeBlocks(d)' = FreeBlocks(d) \ X  BY <3>2, <1>1
        <4> QED BY <3>1, <4>1, <1>0, <1>2
      <3>3. CASE d # c
        <4>1. FreeBlocks(d)' = FreeBlocks(d) /\ X \cap Region(d) = {}  BY <3>3, <1>1
        <4> QED BY <3>1, <4>1, <1>0, <1>2
      <3> QED BY <3>2, <3>3
    <2>5. inuse' \cap lost' = {} /\ inuse' \cap leaked' = {} /\ lost' \cap leaked' = {}
      BY <1>0, <1>1, <1>2 DEF Partition
    <2> QED BY <2>1, <2>2, <2>3, <2>4, <2>5 DEF Partition
  <1>5. ASSUME NEW d \in CPUs
        PROVE  num_free_blocks'[d] = Cardinality(FreeBlocks(d)') + Cardinality(lost' \cap Region(d))
    <2>1. /\ num_free_blocks[d] = Cardinality(FreeBlocks(d)) + Cardinality(lost \cap Region(d))
          /\ IsFiniteSet(FreeBlocks(d)) /\ Cardinality(FreeBlocks(d)) \in Nat
          /\ IsFiniteSet(lost \cap Region(d)) /\ Cardinality(lost \cap Region(d)) \in Nat
      BY <1>0, FreeFinite DEF FInv, CountsOK
    <2>2. CASE d = c
      <3>1. /\ Cardinality(FreeBlocks(d) \ (x..y)) = Cardinality(FreeBlocks(d)) - (y - x + 1)
            /\ y - x + 1 <= Cardinality(FreeBlocks(d))
        BY <2>1, <2>2, <1>1, CountRemoved, ZenonT(60)
      <3>2. (x..y) \cap (lost \cap Region(d)) = {}  BY <1>1
      <3>3. Cardinality((lost \cap Region(d)) \cup (x..y)) = Cardinality(lost \cap Region(d)) + (y - x + 1)
        BY <2>1, <3>2, <1>1, CountAdded
      <3>4. lost' \cap Region(d) = (lost \cap Region(d)) \cup (x..y)  BY <2>2, <1>1, <1>2
      <3>5. FreeBlocks(d)' = FreeBlocks(d) \ (x..y)  BY <2>2, <1>1
      <3>6. num_free_blocks[d] =
              Cardinality(FreeBlocks(d) \ (x..y)) + Cardinality((lost \cap Region(d)) \cup (x..y))
        BY <2>1, <3>1, <3>3, <1>1, SMT
      <3> QED BY <3>4, <3>5, <3>6, <1>0
    <2>3. CASE d # c
      <3>1. lost' \cap Region(d) = lost \cap Region(d)  BY <2>3, <1>1, <1>2
      <3>2. FreeBlocks(d)' = FreeBlocks(d)  BY <2>3, <1>1
      <3> QED BY <2>1, <3>1, <3>2, <1>0
    <2> QED BY <2>2, <2>3
  <1>6. CountsOK'  BY <1>5 DEF CountsOK
  <1> QED BY <1>3, <1>6

\* The same when a caller gives the run back.
LEMMA GivenBack ==
    ASSUME FInv, NEW c \in CPUs, NEW x \in Nat, NEW y \in Nat, x <= y, Gave(c, x, y),
           x..y \subseteq inuse, x..y \subseteq Region(c),
           inuse' = inuse \ (x..y), UNCHANGED <<lost, leaked>>,
           num_free_blocks' = [num_free_blocks EXCEPT ![c] = @ + (y - x + 1)]
    PROVE  Partition' /\ CountsOK' /\ num_free_blocks' \in [CPUs -> Nat]
  <1> DEFINE X == x..y
  <1>0. ListsOK /\ Partition /\ ListsOK' /\ lost' = lost /\ leaked' = leaked  BY DEF FInv, Gave
  <1>1. /\ X \subseteq inuse /\ X \subseteq Region(c) /\ inuse' = inuse \ X
        /\ FreeBlocks(c)' = FreeBlocks(c) \cup X
        /\ \A d \in CPUs : d # c => FreeBlocks(d)' = FreeBlocks(d)
    BY DEF Gave
  <1>2. X \cap FreeBlocks(c) = {} /\ X \cap lost = {} /\ X \cap leaked = {}  BY <1>0, <1>1 DEF Partition
  <1>a. \A d \in CPUs : d # c => X \cap Region(d) = {}
    <2> TAKE d \in CPUs
    <2> HAVE d # c
    <2>1. Region(c) \cap Region(d) = {}  BY RegionsDiffer
    <2> QED BY <1>1, <2>1
  <1>3. Partition'
    <2> HIDE DEF X
    <2>1. \A d \in CPUs : FreeBlocks(d)' \subseteq Region(d)
      <3> TAKE d \in CPUs
      <3>1. FreeBlocks(d) \subseteq Region(d)  BY <1>0 DEF Partition
      <3>2. CASE d = c
        <4>1. FreeBlocks(d)' = FreeBlocks(d) \cup X /\ X \subseteq Region(d)  BY <3>2, <1>1
        <4> QED BY <3>1, <4>1
      <3>3. CASE d # c
        <4>1. FreeBlocks(d)' = FreeBlocks(d)  BY <3>3, <1>1
        <4> QED BY <3>1, <4>1
      <3> QED BY <3>2, <3>3
    <2>2. \A d \in CPUs : Region(d) \subseteq FreeBlocks(d)' \cup inuse' \cup lost' \cup leaked'
      <3> TAKE d \in CPUs
      <3>1. Region(d) \subseteq FreeBlocks(d) \cup inuse \cup lost \cup leaked  BY <1>0 DEF Partition
      <3>2. CASE d = c
        <4>1. FreeBlocks(d)' = FreeBlocks(d) \cup X  BY <3>2, <1>1
        <4> QED BY <3>1, <4>1, <1>0, <1>1
      <3>3. CASE d # c
        <4>1. FreeBlocks(d)' = FreeBlocks(d) /\ X \cap Region(d) = {}  BY <3>3, <1>1, <1>a
        <4> QED BY <3>1, <4>1, <1>0, <1>1
      <3> QED BY <3>2, <3>3
    <2>3. inuse' \cup lost' \cup leaked' \subseteq UNION {Region(d) : d \in CPUs}
      BY <1>0, <1>1 DEF Partition
    <2>4. \A d \in CPUs : FreeBlocks(d)' \cap (inuse' \cup lost' \cup leaked') = {}
      <3> TAKE d \in CPUs
      <3>1. FreeBlocks(d) \cap (inuse \cup lost \cup leaked) = {}  BY <1>0 DEF Partition
      <3>2. FreeBlocks(d)' = FreeBlocks(d) \/ FreeBlocks(d)' = FreeBlocks(d) \cup X  BY <1>1
      <3> QED BY <3>1, <3>2, <1>0, <1>1, <1>2
    <2>5. inuse' \cap lost' = {} /\ inuse' \cap leaked' = {} /\ lost' \cap leaked' = {}
      BY <1>0, <1>1 DEF Partition
    <2> QED BY <2>1, <2>2, <2>3, <2>4, <2>5 DEF Partition
  <1>4. num_free_blocks \in [CPUs -> Nat]  BY DEF FInv, TypeOK
  <1>5. ASSUME NEW d \in CPUs
        PROVE  num_free_blocks'[d] = Cardinality(FreeBlocks(d)') + Cardinality(lost' \cap Region(d))
    <2>1. /\ num_free_blocks[d] = Cardinality(FreeBlocks(d)) + Cardinality(lost \cap Region(d))
          /\ IsFiniteSet(FreeBlocks(d)) /\ Cardinality(FreeBlocks(d)) \in Nat
          /\ Cardinality(lost \cap Region(d)) \in Nat
      BY <1>0, FreeFinite DEF FInv, CountsOK
    <2>2. CASE d = c
      <3>1. num_free_blocks'[d] = num_free_blocks[d] + (y - x + 1)  BY <2>2, <1>4
      <3>2. Cardinality(FreeBlocks(d) \cup (x..y)) = Cardinality(FreeBlocks(d)) + (y - x + 1)
        BY <2>1, <2>2, <1>2, CountAdded, ZenonT(60)
      <3>3. FreeBlocks(d)' = FreeBlocks(d) \cup (x..y)  BY <2>2, <1>1
      <3>4. num_free_blocks[d] + (y - x + 1) =
              Cardinality(FreeBlocks(d) \cup (x..y)) + Cardinality(lost \cap Region(d))
        BY <2>1, <3>2, SMT
      <3> QED BY <3>1, <3>3, <3>4, <1>0
    <2>3. CASE d # c
      <3>1. num_free_blocks'[d] = num_free_blocks[d]  BY <2>3, <1>4
      <3>2. FreeBlocks(d)' = FreeBlocks(d)  BY <2>3, <1>1
      <3> QED BY <2>1, <3>1, <3>2, <1>0
    <2> QED BY <2>2, <2>3
  <1>6. CountsOK'  BY <1>5 DEF CountsOK
  <1>7. num_free_blocks' \in [CPUs -> Nat]
    <2>1. num_free_blocks[c] \in Nat  BY <1>4
    <2>2. num_free_blocks[c] + (y - x + 1) \in Nat  BY <2>1, SMT
    <2> QED BY <1>4, <2>2
  <1> QED BY <1>3, <1>6, <1>7

-----------------------------------------------------------------------------
(* The threads.                                                             *)

LocalTypes ==
    /\ pc \in [Threads -> {"idle", "retry", "scan", "unaligned"}]
    /\ req \in [Threads -> (UNION {Requests[t] : t \in Threads}) \cup {NoRequest}]
    /\ cpuid \in [Threads -> CPUs]
    /\ retried \in [Threads -> 0..2]
    /\ i \in [Threads -> CPUs]
    /\ most \in [Threads -> Nat]
    /\ failures \in 0..MaxFailures
    /\ disturbed \subseteq Threads

\* Blocks of the regions are natural numbers.
LEMMA BlocksNat ==
    ASSUME NEW X, X \subseteq UNION {Region(c) : c \in CPUs}
    PROVE  X \subseteq Nat
  <1>1. ASSUME NEW c \in CPUs PROVE Region(c) \subseteq Nat
    <2>1. S(c) \in Nat /\ E(c) \in Nat /\ Region(c) = S(c)..E(c)  BY RegionTypes
    <2> QED BY <2>1, SMT
  <1> QED BY <1>1

\* The parts of the invariant that the steps below are shown to keep are all of it.
LEMMA Together ==
    ASSUME ListsOK', Partition', CountsOK', LocksOK', freeFailed' = FALSE,
           num_free_blocks' \in [CPUs -> Nat], LocalTypes'
    PROVE  FInv'
  <1>1. inuse' \cup lost' \cup leaked' \subseteq UNION {Region(c) : c \in CPUs}  BY DEF Partition
  <1>2. inuse' \cup lost' \cup leaked' \subseteq Nat  BY <1>1, BlocksNat
  <1>3. inuse' \subseteq Nat /\ lost' \subseteq Nat /\ leaked' \subseteq Nat  BY <1>2
  <1>4. TypeOK'  BY <1>3 DEF TypeOK, ListsOK, LocalTypes
  <1> QED BY <1>4 DEF FInv

\* A request is for at least one block, at a list that exists.
LEMMA RequestFacts ==
    ASSUME FInv, NEW t \in Threads
    PROVE  /\ cpuid[t] \in CPUs /\ req[t].num \in Nat /\ req[t].num > 0
           /\ freeFailed = FALSE
  <1>1. /\ cpuid \in [Threads -> CPUs] /\ freeFailed = FALSE
        /\ req \in [Threads -> (UNION {Requests[u] : u \in Threads}) \cup {NoRequest}]
    BY DEF FInv, TypeOK
  <1>2. req[t] \in UNION {Requests[u] : u \in Threads} \/ req[t] = NoRequest
    <2> DEFINE R == (UNION {Requests[u] : u \in Threads}) \cup {NoRequest}
    <2>1. req[t] \in R
      <3>1. req \in [Threads -> R]  BY <1>1
      <3> HIDE DEF R
      <3> QED BY <3>1
    <2> QED BY <2>1
  <1>3. CASE req[t] = NoRequest  BY <1>1, <1>3, SMT DEF NoRequest
  <1>4. CASE req[t] \in UNION {Requests[u] : u \in Threads}
    <2>1. PICK u \in Threads : req[t] \in Requests[u]  BY <1>4
    <2>2. req[t] \in [cpuid : 0..(cpus - 1), num : Nat \ {0}, atype : {"LOG", "DATA"}, from_tail : BOOLEAN]
      BY <2>1, FreeListConstants
    <2>3. req[t].num \in Nat \ {0}  BY <2>2
    <2> QED BY <1>1, <2>3, SMT
  <1> QED BY <1>2, <1>3, <1>4

\* Thread t may work on its list: it has the lock, or takes it now.
Turn(t) == (pc[t] = "retry" /\ ~Locked(cpuid[t])) \/ pc[t] = "unaligned"

\* Nobody else holds the lock of the list that a thread works on.
LEMMA TurnAlone ==
    ASSUME FInv, NEW t \in Threads, Turn(t), NEW u \in Threads, u # t, pc[u] = "unaligned"
    PROVE  cpuid[u] # cpuid[t]
  BY DEF FInv, LocksOK, Turn, Locked

\* A thread that returns leaves its locals well typed.
LEMMA ReturnLocals ==
    ASSUME FInv, NEW t \in Threads, Return(t), failures' = failures, disturbed' \subseteq Threads
    PROVE  LocalTypes'
  <1>1. /\ pc \in [Threads -> {"idle", "retry", "scan", "unaligned"}]
        /\ req \in [Threads -> (UNION {Requests[u] : u \in Threads}) \cup {NoRequest}]
        /\ cpuid \in [Threads -> CPUs]
        /\ retried \in [Threads -> 0..2]
        /\ i \in [Threads -> CPUs]
        /\ most \in [Threads -> Nat]
        /\ failures \in 0..MaxFailures
    BY DEF FInv, TypeOK
  <1>2. 0 \in CPUs /\ 0 \in 0..2  BY FreeListConstants, SMT DEF CPUs
  <1>3. pc' \in [Threads -> {"idle", "retry", "scan", "unaligned"}]  BY <1>1 DEF Return
  <1>4. req' \in [Threads -> (UNION {Requests[u] : u \in Threads}) \cup {NoRequest}]
    <2> DEFINE R == (UNION {Requests[u] : u \in Threads}) \cup {NoRequest}
    <2>1. req \in [Threads -> R] /\ NoRequest \in R  BY <1>1
    <2> HIDE DEF R
    <2>2. req' \in [Threads -> R]  BY <2>1 DEF Return
    <2> QED BY <2>2 DEF R
  <1>5. cpuid' \in [Threads -> CPUs] /\ retried' \in [Threads -> 0..2]  BY <1>1, <1>2 DEF Return
  <1> QED BY <1>1, <1>3, <1>4, <1>5 DEF Return, LocalTypes

\* A thread that returns leaves the locks of the others as they were.
LEMMA ReturnLocks ==
    ASSUME FInv, NEW t \in Threads, Turn(t), Return(t),
           \A d \in CPUs : d # cpuid[t] => tree'[d] = tree[d]
    PROVE  LocksOK'
  <1>1. /\ pc \in [Threads -> {"idle", "retry", "scan", "unaligned"}] /\ cpuid \in [Threads -> CPUs]
        /\ LocksOK
    BY DEF FInv, TypeOK
  <1>2. pc'[t] = "idle" /\ \A u \in Threads : u # t => pc'[u] = pc[u] /\ cpuid'[u] = cpuid[u]
    BY <1>1 DEF Return
  <1>3. ASSUME NEW u \in Threads, pc'[u] = "unaligned"
        PROVE  /\ tree'[cpuid'[u]] # {}
               /\ \A v \in Threads : pc'[v] = "unaligned" /\ cpuid'[v] = cpuid'[u] => v = u
    <2>1. u # t  BY <1>2, <1>3
    <2>2. pc[u] = "unaligned" /\ cpuid'[u] = cpuid[u]  BY <2>1, <1>2, <1>3
    <2>3. tree[cpuid[u]] # {} /\ cpuid[u] \in CPUs  BY <2>2, <1>1 DEF LocksOK
    <2>4. cpuid[u] # cpuid[t]  BY <2>1, <2>2, TurnAlone
    <2>5. tree'[cpuid'[u]] # {}  BY <2>2, <2>3, <2>4
    <2>6. ASSUME NEW v \in Threads, pc'[v] = "unaligned", cpuid'[v] = cpuid'[u] PROVE v = u
      <3>1. v # t  BY <1>2, <2>6
      <3>2. pc[v] = "unaligned" /\ cpuid[v] = cpuid[u]  BY <3>1, <1>2, <2>2, <2>6
      <3> QED BY <3>2, <2>2, <1>1 DEF LocksOK
    <2> QED BY <2>5, <2>6
  <1> QED BY <1>3 DEF LocksOK

\* What an allocation that succeeds does.
Grants(t, b, n) ==
    /\ Turn(t)
    /\ b \in Nat /\ n \in Nat /\ n > 0
    /\ Took(cpuid[t], b, b + n - 1)
    /\ Granted(t, b, n)
    /\ \A d \in CPUs : d # cpuid[t] => tree'[d] = tree[d]
    /\ disturbed' = (disturbed \ {t}) \cup Others(t)
    /\ UNCHANGED <<failures, lost, leaked, freeFailed>>

\* An allocation that succeeds keeps the invariant.
LEMMA GrantStep ==
    ASSUME FInv, NEW t \in Threads, NEW b, NEW n, Grants(t, b, n)
    PROVE  FInv'
  <1> DEFINE c == cpuid[t]  y == b + n - 1
  <1>1. c \in CPUs /\ freeFailed = FALSE  BY RequestFacts
  <1>2. b \in Nat /\ n \in Nat /\ y - b + 1 = n  BY SMT DEF Grants
  <1>3. Took(c, b, y) /\ ListsOK'  BY DEF Grants, Took
  <1>4. /\ inuse' = inuse \cup (b..y) /\ UNCHANGED <<lost, leaked>>
        /\ num_free_blocks' = [num_free_blocks EXCEPT ![c] = @ - (y - b + 1)]
    BY <1>2 DEF Grants, Granted
  <1>5. Partition' /\ CountsOK' /\ num_free_blocks' \in [CPUs -> Nat]
    <2> HIDE DEF c, y
    <2> QED BY <1>1, <1>3, <1>4, TakenByCaller
  <1>6. LocksOK'  BY ReturnLocks DEF Grants, Granted
  <1>7. disturbed' \subseteq Threads  BY DEF Grants, Others, FInv, TypeOK
  <1>8. LocalTypes'  BY <1>7, ReturnLocals DEF Grants, Granted
  <1>9. freeFailed' = FALSE  BY <1>1 DEF Grants
  <1> QED BY <1>3, <1>5, <1>6, <1>8, <1>9, Together

-----------------------------------------------------------------------------
(* nova_alloc_superpage.                                                    *)

\* A remainder is less than its divisor.
LEMMA ModRange ==
    ASSUME NEW a \in Nat, NEW p \in Nat, p > 0
    PROVE  a % p \in Nat /\ a % p < p
  BY SMT

\* The walk of nova_alloc_superpage meets a suitable node if there is one.
LEMMA MetIsSuitable ==
    ASSUME ListsOK, NEW c \in CPUs, Suitable(c) # {}, NEW tail
    PROVE  Met(c, tail) \in Suitable(c)
  <1>1. Suitable(c) \subseteq tree[c]  BY DEF Suitable
  <1>2. \A n \in Suitable(c) : low[n] \in Nat /\ low[n] <= E(c)
    <2>1. \A n \in tree[c] : low[n] \in Nat /\ high[n] \in Nat /\ low[n] <= high[n] /\ high[n] <= E(c)
      BY ListFacts
    <2>2. E(c) \in Nat  BY RegionTypes
    <2>3. \A n \in tree[c] : low[n] \in Nat /\ low[n] <= E(c)  BY <2>1, <2>2, SMT
    <2> QED BY <1>1, <2>3
  <1>3. \E n \in Suitable(c) : \A m \in Suitable(c) :
          IF tail THEN low[m] <= low[n] ELSE low[n] <= low[m]
    <2>1. E(c) \in Int  BY RegionTypes
    <2>2. CASE tail
      <3>1. \E n \in Suitable(c) : \A m \in Suitable(c) : low[m] <= low[n]
        BY <1>2, <2>1, GreatestNode
      <3> QED BY <3>1, <2>2
    <2>3. CASE ~tail
      <3>1. \E n \in Suitable(c) : \A m \in Suitable(c) : low[n] <= low[m]
        BY <1>2, LeastNode
      <3> QED BY <3>1, <2>3
    <2> QED BY <2>2, <2>3
  <1> QED BY <1>3 DEF Met

\* The node found has room: for its left margin, and for at least one block after it.
SuperNode(t, n, k, m) ==
    /\ cpuid[t] \in CPUs /\ n \in tree[cpuid[t]] /\ Turn(t)
    /\ low[n] \in Nat /\ high[n] \in Nat
    /\ left_margin(n) = m /\ m \in Nat /\ m >= 1
    /\ AfterMargin(n) = high[n] - low[n] + 1 - m
    /\ k \in Nat /\ k >= 1 /\ k <= high[n] - low[n] + 1 - m

\* The aligned attempt works on such a node.
LEMMA SuperFacts ==
    ASSUME FInv, NEW t \in Threads, Superpage(t)
    PROVE  LET n == Met(cpuid[t], req[t].from_tail)
           IN  SuperNode(t, n, Best(n, req[t].num), left_margin(n))
  <1> DEFINE n == Met(cpuid[t], req[t].from_tail)
             P == PAGES_PER_2MB
             num == req[t].num
             a == AfterMargin(n)
  <1>1. cpuid[t] \in CPUs /\ num \in Nat /\ num > 0  BY RequestFacts
  <1>2. n \in Suitable(cpuid[t])  BY <1>1, MetIsSuitable DEF Superpage, FInv
  <1>3. n \in tree[cpuid[t]] /\ a >= P  BY <1>2 DEF Suitable
  <1>4. low[n] \in Nat /\ high[n] \in Nat  BY <1>1, <1>3, ListFacts DEF FInv
  <1>5. P \in Nat /\ P > 0  BY FreeListConstants, SMT
  <1>6. low[n] % P \in Nat /\ low[n] % P < P  BY <1>4, <1>5, ModRange
  <1>7. left_margin(n) \in Nat /\ left_margin(n) >= 1
    <2> HIDE DEF n
    <2>1. PICK r : r = low[n] % P  OBVIOUS
    <2>2. left_margin(n) = P - r  BY <2>1 DEF left_margin
    <2> QED BY <2>1, <2>2, <1>5, <1>6, SMT
  <1>8. a = high[n] - low[n] + 1 - left_margin(n)  BY DEF AfterMargin
  <1>9. a \in Nat
    <2> HIDE DEF n, a
    <2> QED BY <1>3, <1>4, <1>5, <1>7, <1>8, SMT
  <1>10. Best(n, num) \in Nat /\ Best(n, num) >= 1 /\ Best(n, num) <= a
    <2>1. PICK r : r = a % P  OBVIOUS
    <2>2. r \in Nat /\ r < P  BY <2>1, <1>5, <1>9, ModRange
    <2> HIDE DEF n
    <2>3. Best(n, num) = IF num <= a THEN num ELSE a - r  BY <2>1 DEF Best
    <2> HIDE DEF a, num
    <2> QED BY <2>2, <2>3, <1>1, <1>3, <1>5, <1>9, SMT
  <1>11. Turn(t)  BY DEF Superpage, Settled, Turn
  <1> HIDE DEF n, a, num
  <1>12. SuperNode(t, n, Best(n, num), left_margin(n))
    BY <1>1, <1>3, <1>4, <1>7, <1>8, <1>10, <1>11 DEF SuperNode, a
  <1> QED BY <1>12 DEF n, num

\* A change to one list's tree is none to the others'.
LEMMA TreeOthers ==
    ASSUME ListsOK, NEW c \in CPUs, NEW T2, tree' = [tree EXCEPT ![c] = T2]
    PROVE  \A d \in CPUs : d # c => tree'[d] = tree[d]
  BY DEF ListsOK

\* The aligned attempt that leaves a right margin.
LEMMA SplitGrants ==
    ASSUME FInv, NEW t \in Threads, superpage_split(t)
    PROVE  \E b, n : Grants(t, b, n)
  <1> DEFINE c == cpuid[t]
             curr == Met(c, req[t].from_tail)
             got == Best(curr, req[t].num)
             m == left_margin(curr)
             blocknr == low[curr] + m
             a == low[curr] + m - 1
  <1>0. Superpage(t)  BY DEF superpage_split
  <1>1. SuperNode(t, curr, got, m)  BY <1>0, SuperFacts
  <1>2. AfterMargin(curr) > got  BY DEF superpage_split
  <1>3. PICK node \in nova_alloc_blocknode :
          /\ SplitOff(curr, node, blocknr + got)
          /\ tree' = [tree EXCEPT ![c] = @ \cup {node}]
          /\ last_node' = [last_node EXCEPT ![c] = IF @ = curr THEN node ELSE @]
    BY DEF superpage_split
  <1>4. /\ num_blocknode' = [num_blocknode EXCEPT ![c] = @ + 1]
        /\ Granted(t, blocknr, got)
        /\ disturbed' = (disturbed \ {t}) \cup Others(t)
        /\ UNCHANGED <<first_node, failures, lost, leaked, freeFailed>>
    BY DEF superpage_split
  <1>5. NodeSplit(c, curr, node, a, blocknr + got)
    BY <1>3, <1>4 DEF NodeSplit, SplitOff
  <1>6. c \in CPUs /\ curr \in tree[c] /\ Turn(t) /\ ListsOK  BY <1>1 DEF SuperNode, FInv
  <1>7. /\ blocknr \in Nat /\ got \in Nat /\ got > 0 /\ a \in Nat /\ blocknr + got \in Nat
        /\ low[curr] <= a /\ a + 1 < blocknr + got /\ blocknr + got <= high[curr]
        /\ a + 1 = blocknr /\ (blocknr + got) - 1 = blocknr + got - 1
    <2> HIDE DEF c, curr, got, m
    <2> QED BY <1>1, <1>2, SMT DEF SuperNode
  <1>8. Took(c, blocknr, blocknr + got - 1)
    <2> HIDE DEF c, curr, got, blocknr, a
    <2>1. Took(c, a + 1, (blocknr + got) - 1)  BY <1>3, <1>5, <1>6, <1>7, SplitStep
    <2> QED BY <2>1, <1>7
  <1>9. \A d \in CPUs : d # c => tree'[d] = tree[d]  BY <1>3, <1>6, TreeOthers
  <1>10. Grants(t, blocknr, got)
    <2> HIDE DEF curr, got, blocknr, a
    <2> QED BY <1>4, <1>6, <1>7, <1>8, <1>9 DEF Grants
  <1> QED BY <1>10

\* The aligned attempt that takes the node up to its end.
LEMMA TailGrants ==
    ASSUME FInv, NEW t \in Threads, superpage_tail(t)
    PROVE  \E b, n : Grants(t, b, n)
  <1> DEFINE c == cpuid[t]
             curr == Met(c, req[t].from_tail)
             got == Best(curr, req[t].num)
             m == left_margin(curr)
             blocknr == low[curr] + m
             a == blocknr - 1
  <1>0. Superpage(t)  BY DEF superpage_tail
  <1>1. SuperNode(t, curr, got, m)  BY <1>0, SuperFacts
  <1>2. AfterMargin(curr) = got  BY DEF superpage_tail
  <1>3. /\ high' = [high EXCEPT ![curr] = a]
        /\ UNCHANGED <<tree, low, first_node, last_node, num_blocknode>>
    BY DEF superpage_tail
  <1>4. /\ Granted(t, blocknr, got)
        /\ disturbed' = (disturbed \ {t}) \cup Others(t)
        /\ UNCHANGED <<failures, lost, leaked, freeFailed>>
    BY <1>2 DEF superpage_tail
  <1>6. c \in CPUs /\ curr \in tree[c] /\ Turn(t) /\ ListsOK  BY <1>1 DEF SuperNode, FInv
  <1>7. /\ blocknr \in Nat /\ got \in Nat /\ got > 0 /\ a \in Nat
        /\ low[curr] <= a /\ a < high[curr]
        /\ a + 1 = blocknr /\ high[curr] = blocknr + got - 1
    <2> HIDE DEF c, curr, got, m
    <2> QED BY <1>1, <1>2, SMT DEF SuperNode
  <1>8. Took(c, blocknr, blocknr + got - 1)
    <2> HIDE DEF c, curr, got, blocknr, a
    <2>1. Took(c, a + 1, high[curr])  BY <1>3, <1>6, <1>7, CutHighStep
    <2> QED BY <2>1, <1>7
  <1>9. \A d \in CPUs : d # c => tree'[d] = tree[d]  BY <1>3
  <1>10. Grants(t, blocknr, got)
    <2> HIDE DEF curr, got, blocknr, a
    <2> QED BY <1>4, <1>6, <1>7, <1>8, <1>9 DEF Grants
  <1> QED BY <1>10

\* What an allocation does that found no node for the right margin.
Loses(t, x, y) ==
    /\ Turn(t)
    /\ Took(cpuid[t], x, y)
    /\ tree[cpuid[t]] # {}
    /\ lost' = lost \cup (x..y)
    /\ failures < MaxFailures /\ failures' = failures + 1
    /\ pc' = [pc EXCEPT ![t] = "unaligned"]
    /\ disturbed' = disturbed \cup Others(t)
    /\ UNCHANGED <<tree, num_free_blocks, req, cpuid, retried, i, most, inuse, leaked, freeFailed>>

\* The aligned attempt that finds no node for the right margin.
LEMMA EnomemLoses ==
    ASSUME FInv, NEW t \in Threads, superpage_enomem(t)
    PROVE  \E x, y : Loses(t, x, y)
  <1> DEFINE c == cpuid[t]
             curr == Met(c, req[t].from_tail)
             got == Best(curr, req[t].num)
             m == left_margin(curr)
             blocknr == low[curr] + m
             a == blocknr - 1
  <1>0. Superpage(t)  BY DEF superpage_enomem
  <1>1. SuperNode(t, curr, got, m)  BY <1>0, SuperFacts
  <1>3. /\ high' = [high EXCEPT ![curr] = a]
        /\ UNCHANGED <<tree, low, first_node, last_node, num_blocknode>>
    BY DEF superpage_enomem
  <1>4. /\ lost' = lost \cup (blocknr..high[curr])
        /\ failures < MaxFailures /\ failures' = failures + 1
        /\ pc' = [pc EXCEPT ![t] = "unaligned"]
        /\ disturbed' = disturbed \cup Others(t)
        /\ UNCHANGED <<tree, num_free_blocks, req, cpuid, retried, i, most, inuse, leaked, freeFailed>>
    BY DEF superpage_enomem
  <1>6. c \in CPUs /\ curr \in tree[c] /\ Turn(t) /\ ListsOK  BY <1>1 DEF SuperNode, FInv
  <1>7. a \in Nat /\ low[curr] <= a /\ a < high[curr] /\ a + 1 = blocknr
    <2> HIDE DEF c, curr, got, m
    <2> QED BY <1>1, SMT DEF SuperNode
  <1>8. Took(c, blocknr, high[curr])
    <2> HIDE DEF c, curr, got, blocknr, a
    <2>1. Took(c, a + 1, high[curr])  BY <1>3, <1>6, <1>7, CutHighStep
    <2> QED BY <2>1, <1>7
  <1>9. Loses(t, blocknr, high[curr])
    <2> HIDE DEF curr, blocknr, a
    <2> QED BY <1>4, <1>6, <1>8 DEF Loses
  <1> QED BY <1>9

\* Blocks that get lost that way keep the invariant.
LEMMA LoseStep ==
    ASSUME FInv, NEW t \in Threads, NEW x, NEW y, Loses(t, x, y)
    PROVE  FInv'
  <1> DEFINE c == cpuid[t]
  <1>1. c \in CPUs /\ freeFailed = FALSE  BY RequestFacts
  <1>2. Took(c, x, y) /\ ListsOK'  BY DEF Loses, Took
  <1>3. Partition' /\ CountsOK'  BY <1>1, <1>2, TakenByNobody DEF Loses
  <1>4. /\ pc \in [Threads -> {"idle", "retry", "scan", "unaligned"}] /\ cpuid \in [Threads -> CPUs]
        /\ LocksOK /\ failures \in 0..MaxFailures
    BY DEF FInv, TypeOK
  <1>5. /\ pc'[t] = "unaligned" /\ \A u \in Threads : u # t => pc'[u] = pc[u]
        /\ pc' \in [Threads -> {"idle", "retry", "scan", "unaligned"}]
        /\ cpuid' = cpuid /\ tree' = tree /\ tree[cpuid[t]] # {}
    BY <1>4 DEF Loses
  <1>6. LocksOK'
    <2>1. ASSUME NEW u \in Threads, NEW v \in Threads, pc'[u] = "unaligned", pc'[v] = "unaligned",
                 cpuid[u] = cpuid[v]
          PROVE  u = v
      <3>1. \A w \in Threads : w # t /\ pc[w] = "unaligned" => cpuid[w] # cpuid[t]
        BY TurnAlone DEF Loses
      <3>2. CASE u = t  BY <3>1, <3>2, <2>1, <1>5
      <3>3. CASE v = t  BY <3>1, <3>3, <2>1, <1>5
      <3>4. CASE u # t /\ v # t  BY <3>4, <2>1, <1>4, <1>5 DEF LocksOK
      <3> QED BY <3>2, <3>3, <3>4
    <2>2. ASSUME NEW u \in Threads, pc'[u] = "unaligned" PROVE tree[cpuid[u]] # {}
      BY <2>2, <1>4, <1>5 DEF LocksOK
    <2> QED BY <2>1, <2>2, <1>5 DEF LocksOK
  <1>7. failures' \in 0..MaxFailures
    <2>1. PICK k : k = failures'  OBVIOUS
    <2>2. k = failures + 1 /\ failures < MaxFailures  BY <2>1 DEF Loses
    <2>3. k \in 0..MaxFailures  BY <2>2, <1>4, FreeListConstants, SMT
    <2> QED BY <2>1, <2>3
  <1>8. LocalTypes'
    BY <1>5, <1>7 DEF LocalTypes, Loses, FInv, TypeOK, Others
  <1>9. num_free_blocks' \in [CPUs -> Nat] /\ freeFailed' = FALSE  BY <1>1 DEF Loses, FInv, TypeOK
  <1> QED BY <1>2, <1>3, <1>6, <1>8, <1>9, Together

-----------------------------------------------------------------------------
(* The unaligned attempt.                                                   *)

\* The node that the allocator dereferences without a search exists.
LEMMA EndNodeExists ==
    ASSUME FInv, NEW t \in Threads, Unaligned(t)
    PROVE  /\ cpuid[t] \in CPUs /\ EndNode(t) \in tree[cpuid[t]] /\ Turn(t) /\ ListsOK
           /\ low[EndNode(t)] \in Nat /\ high[EndNode(t)] \in Nat /\ low[EndNode(t)] <= high[EndNode(t)]
  <1> DEFINE c == cpuid[t]
  <1>1. c \in CPUs /\ ListsOK  BY RequestFacts DEF FInv
  <1>2. Sound(tree[c], low, high, first_node[c], last_node[c], S(c), E(c))  BY <1>1, ListFacts
  <1>3. tree[c] # {}
    <2>1. CASE pc[t] = "unaligned"  BY <2>1 DEF FInv, LocksOK
    <2>2. CASE pc[t] # "unaligned"
      <3>1. first_node[c] # NULL  BY <2>2 DEF Unaligned, CannotAlloc
      <3> QED BY <3>1, <1>2 DEF Sound
    <2> QED BY <2>1, <2>2
  <1>4. first_node[c] \in tree[c] /\ last_node[c] \in tree[c]  BY <1>2, <1>3 DEF Sound
  <1>5. EndNode(t) \in tree[c]  BY <1>4 DEF EndNode
  <1>6. Turn(t)  BY DEF Unaligned, Settled, Turn
  <1>7. low[EndNode(t)] \in Nat /\ high[EndNode(t)] \in Nat /\ low[EndNode(t)] <= high[EndNode(t)]
    BY <1>1, <1>5, ListFacts
  <1> QED BY <1>1, <1>5, <1>6, <1>7

\* The unaligned attempt that takes a whole node.
LEMMA WholeGrants ==
    ASSUME FInv, NEW t \in Threads, whole_node(t)
    PROVE  \E b, n : Grants(t, b, n)
  <1> DEFINE c == cpuid[t]
             curr == EndNode(t)
             n == high[curr] - low[curr] + 1
  <1>0. Unaligned(t)  BY DEF whole_node
  <1>1. /\ c \in CPUs /\ curr \in tree[c] /\ Turn(t) /\ ListsOK
        /\ low[curr] \in Nat /\ high[curr] \in Nat /\ low[curr] <= high[curr]
    BY <1>0, EndNodeExists
  <1>2. NodeTaken(c, curr)  BY DEF whole_node, NodeTaken
  <1>3. /\ Granted(t, low[curr], n)
        /\ disturbed' = (disturbed \ {t}) \cup Others(t)
        /\ UNCHANGED <<failures, lost, leaked, freeFailed>>
    BY DEF whole_node
  <1>4. Took(c, low[curr], high[curr])  BY <1>1, <1>2, TakeNodeStep
  <1>5. n \in Nat /\ n > 0 /\ low[curr] + n - 1 = high[curr]
    <2> HIDE DEF curr
    <2> QED BY <1>1, SMT
  <1>6. \A d \in CPUs : d # c => tree'[d] = tree[d]
    <2>1. tree' = [tree EXCEPT ![c] = @ \ {curr}]  BY <1>2 DEF NodeTaken
    <2> QED BY <1>1, <2>1, TreeOthers
  <1>7. Grants(t, low[curr], n)
    <2> HIDE DEF curr, n
    <2> QED BY <1>1, <1>3, <1>4, <1>5, <1>6 DEF Grants
  <1> QED BY <1>7

\* The unaligned attempt that takes a part of one.
LEMMA PartGrants ==
    ASSUME FInv, NEW t \in Threads, part_of_node(t)
    PROVE  \E b, n : Grants(t, b, n)
  <1> DEFINE c == cpuid[t]
             curr == EndNode(t)
             num == req[t].num
             b == IF req[t].from_tail THEN high[curr] + 1 - num ELSE low[curr]
  <1>0. Unaligned(t)  BY DEF part_of_node
  <1>1. /\ c \in CPUs /\ curr \in tree[c] /\ Turn(t) /\ ListsOK
        /\ low[curr] \in Nat /\ high[curr] \in Nat /\ low[curr] <= high[curr]
    BY <1>0, EndNodeExists
  <1>2. num \in Nat /\ num > 0  BY RequestFacts
  <1>3. num < high[curr] - low[curr] + 1  BY DEF part_of_node
  <1>4. /\ Granted(t, b, num)
        /\ disturbed' = (disturbed \ {t}) \cup Others(t)
        /\ UNCHANGED <<tree, first_node, last_node, num_blocknode>>
        /\ UNCHANGED <<failures, lost, leaked, freeFailed>>
        /\ TakeEnd(curr, num, req[t].from_tail)
    BY DEF part_of_node
  <1>5. b \in Nat /\ Took(c, b, b + num - 1)
    <2>1. CASE req[t].from_tail
      <3>1. b = high[curr] + 1 - num /\ low' = low /\ high' = [high EXCEPT ![curr] = high[curr] - num]
        BY <2>1, <1>4 DEF TakeEnd
      <3>2. /\ high[curr] - num \in Nat /\ low[curr] <= high[curr] - num /\ high[curr] - num < high[curr]
            /\ (high[curr] - num) + 1 = high[curr] + 1 - num /\ high[curr] + 1 - num \in Nat
            /\ (high[curr] + 1 - num) + num - 1 = high[curr]
        <4> HIDE DEF curr, num
        <4> QED BY <1>1, <1>2, <1>3, SMT
      <3> HIDE DEF curr, num, b
      <3>3. Took(c, (high[curr] - num) + 1, high[curr])  BY <1>1, <1>4, <3>1, <3>2, CutHighStep
      <3>4. b \in Nat /\ b = (high[curr] - num) + 1 /\ b + num - 1 = high[curr]  BY <3>1, <3>2
      <3> QED BY <3>3, <3>4
    <2>2. CASE ~req[t].from_tail
      <3>1. b = low[curr] /\ high' = high /\ low' = [low EXCEPT ![curr] = low[curr] + num]
        BY <2>2, <1>4 DEF TakeEnd
      <3>2. /\ low[curr] + num \in Nat /\ low[curr] < low[curr] + num /\ low[curr] + num <= high[curr]
        <4> HIDE DEF curr, num
        <4> QED BY <1>1, <1>2, <1>3, SMT
      <3> HIDE DEF curr, num, b
      <3>3. Took(c, low[curr], (low[curr] + num) - 1)  BY <1>1, <1>4, <3>1, <3>2, CutLowStep
      <3>4. b = low[curr]  BY <3>1
      <3>5. b + num - 1 = (low[curr] + num) - 1  BY <1>1, <1>2, <3>4, SMT
      <3>6. b \in Nat  BY <1>1, <3>4
      <3> QED BY <3>3, <3>4, <3>5, <3>6
    <2> QED BY <2>1, <2>2
  <1>6. \A d \in CPUs : d # c => tree'[d] = tree[d]  BY <1>4
  <1>7. Grants(t, b, num)
    <2> HIDE DEF curr, num, b
    <2> QED BY <1>1, <1>2, <1>4, <1>5, <1>6 DEF Grants
  <1> QED BY <1>7

-----------------------------------------------------------------------------
(* nova_free_blocks.                                                        *)

Frees(c, x, y) ==
    /\ c \in CPUs /\ x \in Nat /\ y \in Nat /\ x <= y
    /\ ~Locked(c)
    /\ x..y \subseteq inuse /\ x..y \subseteq Region(c)
    /\ Gave(c, x, y)
    /\ inuse' = inuse \ (x..y)
    /\ num_free_blocks' = [num_free_blocks EXCEPT ![c] = @ + (y - x + 1)]
    /\ \A d \in CPUs : d # c => tree'[d] = tree[d]
    /\ disturbed' \subseteq Threads
    /\ UNCHANGED <<locals, failures, lost, leaked, freeFailed>>

\* Blocks in use lie between the nodes of the list they belong to.
LEMMA InUseInGap ==
    ASSUME FInv, NEW x \in Nat, NEW y \in Nat, x <= y, x..y \subseteq inuse
    PROVE  /\ HomeList(x) \in CPUs /\ x..y \subseteq Region(HomeList(x))
           /\ S(HomeList(x)) <= x /\ y <= E(HomeList(x))
           /\ GapFor(HomeList(x), x, y)
  <1> DEFINE c == HomeList(x)
  <1>0. ListsOK /\ Partition  BY DEF FInv
  <1>1. x..y \subseteq UNION {Region(d) : d \in CPUs}  BY <1>0 DEF Partition
  <1>2. c \in CPUs /\ x..y \subseteq Region(c) /\ S(c) <= x /\ y <= E(c)  BY <1>1, RunInOneRegion
  <1>3. \A b \in x..y : b \notin Covered(tree[c], low, high)
    <2>1. FreeBlocks(c) \cap inuse = {}  BY <1>0, <1>2 DEF Partition
    <2>2. FreeBlocks(c) = Covered(tree[c], low, high)  BY FreeIsCovered
    <2> QED BY <2>1, <2>2
  <1>4. x \in Int  BY SMT
  <1>5. /\ IsPrev(tree[c], low, high, x, Preceding(c, x))
        /\ IsNext(tree[c], low, x, Following(c, x))
    BY <1>0, <1>2, <1>4, PrevNext
  <1>6. GapFor(c, x, y)
    <2> HIDE DEF c
    <2> QED BY <1>2, <1>3, <1>5 DEF GapFor, InGap
  <1> QED BY <1>2, <1>6

\* The search of a free slot finds one.
LEMMA SlotFound ==
    ASSUME ListsOK, NEW c \in CPUs, NEW x, NEW y, GapFor(c, x, y), NEW r \in SearchEnds(c, x)
    PROVE  ~nova_find_free_slot_fails(c, x, y, r)
  <1> DEFINE p == Preceding(c, x)  q == Following(c, x)
  <1>0. /\ Sound(tree[c], low, high, first_node[c], last_node[c], S(c), E(c))
        /\ \A n \in tree[c] : low[n] \in Nat /\ high[n] \in Nat /\ low[n] <= high[n]
    BY ListFacts
  <1>1. S(c) \in Int /\ E(c) \in Int  BY RegionTypes, SMT
  <1>2. Around(tree[c], low, high, x, y, p, q)
    <2>1. InGap(tree[c], low, high, S(c), E(c), x, y, p, q)  BY DEF GapFor
    <2> HIDE DEF p, q
    <2> QED BY <1>0, <1>1, <2>1, Gap
  <1>3. x \in Nat /\ y \in Nat /\ x <= y  BY DEF GapFor, InGap
  <1>4. \A m \in tree[c] : high[m] < x \/ y < low[m]  BY <1>2 DEF Around
  <1>5. \A m \in tree[c] : ~(low[m] <= x /\ x <= high[m]) /\ ~(high[m] >= x /\ low[m] <= y)
    BY <1>0, <1>3, <1>4, SMT
  <1>6. r # NULL => r \in tree[c]
    <2>1. p # NULL => p \in tree[c]  BY <1>2 DEF Around
    <2>2. q # NULL => q \in tree[c]  BY <1>2 DEF Around
    <2>3. r = NULL \/ r = p \/ r = q
      <3>1. CASE tree[c] = {}  BY <3>1 DEF SearchEnds
      <3>2. CASE tree[c] # {}
        <4>1. r \in {p, q} \ {NULL}  BY <3>2 DEF SearchEnds
        <4> QED BY <4>1
      <3> QED BY <3>1, <3>2
    <2> HIDE DEF p, q
    <2> QED BY <2>1, <2>2, <2>3, SMT
  <1> QED BY <1>5, <1>6 DEF nova_find_free_slot_fails

\* Inserting a range in one list leaves the trees of the others alone.
LEMMA AddRangeTree ==
    ASSUME ListsOK, NEW c \in CPUs, NEW x, NEW y, NEW w, AddRange(c, x, y, w)
    PROVE  \A d \in CPUs : d # c => tree'[d] = tree[d]
  <1>1. CASE fits_hole(c, x, y)
    <2>1. tree' = [tree EXCEPT ![c] = @ \ {Following(c, x)}]  BY <1>1 DEF fits_hole
    <2> QED BY <2>1, TreeOthers
  <1>2. CASE aligns_left(c, x, y) \/ aligns_right(c, x, y)  BY <1>2 DEF aligns_left, aligns_right
  <1>3. CASE in_the_middle(c, x, y, w)
    <2>1. tree' = [tree EXCEPT ![c] = @ \cup {w}]  BY <1>3 DEF in_the_middle
    <2> QED BY <2>1, TreeOthers
  <1> QED BY <1>1, <1>2, <1>3 DEF AddRange

\* nova_free_blocks succeeds on blocks that are in use.
LEMMA FreeFrees ==
    ASSUME FInv, NEW x \in inuse, NEW y \in x..(num_blocks - 1), nova_free_blocks(x, y)
    PROVE  Frees(HomeList(x), x, y)
  <1> DEFINE c == HomeList(x)
  <1>0. ListsOK /\ inuse \subseteq Nat /\ disturbed \subseteq Threads  BY DEF FInv, TypeOK
  <1>1. x \in Nat /\ y \in Nat /\ x <= y
    <2>1. x \in Nat  BY <1>0
    <2> QED BY <2>1, FreeListConstants, SMT
  <1>2. x..y \subseteq inuse /\ ~Locked(c) /\ inuse' = inuse \ (x..y)  BY DEF nova_free_blocks
  <1>3. c \in CPUs /\ x..y \subseteq Region(c) /\ S(c) <= x /\ y <= E(c) /\ GapFor(c, x, y)
    BY <1>1, <1>2, InUseInGap
  <1>4. PICK w \in nova_alloc_blocknode, r \in SearchEnds(c, x) :
          IF \/ x < block_start(sbi, c) \/ y > block_end(sbi, c)
             \/ nova_find_free_slot_fails(c, x, y, r)
          THEN /\ freeFailed' = TRUE
               /\ leaked' = leaked \cup (x..y)
               /\ UNCHANGED lists
          ELSE /\ AddRange(c, x, y, w)
               /\ num_free_blocks' = [num_free_blocks EXCEPT ![c] = @ + (y - x + 1)]
               /\ UNCHANGED <<freeFailed, leaked>>
    BY DEF nova_free_blocks
  <1>5. ~(x < block_start(sbi, c)) /\ ~(y > block_end(sbi, c))
    <2>1. S(c) \in Nat /\ E(c) \in Nat  BY <1>3, RegionTypes
    <2>2. ~(x < S(c)) /\ ~(y > E(c))
      <3> HIDE DEF c
      <3> QED BY <2>1, <1>1, <1>3, SMT
    <2> QED BY <2>2 DEF S, E
  <1>6. ~nova_find_free_slot_fails(c, x, y, r)  BY <1>0, <1>3, SlotFound
  <1>7. /\ AddRange(c, x, y, w)
        /\ num_free_blocks' = [num_free_blocks EXCEPT ![c] = @ + (y - x + 1)]
        /\ UNCHANGED <<freeFailed, leaked>>
    BY <1>4, <1>5, <1>6
  <1>8. Gave(c, x, y)  BY <1>0, <1>3, <1>7, AddRangeStep
  <1>9. \A d \in CPUs : d # c => tree'[d] = tree[d]  BY <1>0, <1>3, <1>7, AddRangeTree
  <1>10. UNCHANGED <<locals, failures, lost>> /\ disturbed' \subseteq Threads
    BY <1>0 DEF nova_free_blocks
  <1> HIDE DEF c
  <1>11. Frees(c, x, y)  BY <1>1, <1>2, <1>3, <1>7, <1>8, <1>9, <1>10 DEF Frees
  <1> QED BY <1>11 DEF c

\* Freeing keeps the invariant.
LEMMA FreeStep ==
    ASSUME FInv, NEW c, NEW x, NEW y, Frees(c, x, y)
    PROVE  FInv'
  <1>1. c \in CPUs /\ x \in Nat /\ y \in Nat /\ x <= y /\ Gave(c, x, y) /\ ListsOK'
    BY DEF Frees, Gave
  <1>2. Partition' /\ CountsOK' /\ num_free_blocks' \in [CPUs -> Nat]
    BY <1>1, GivenBack DEF Frees
  <1>3. pc' = pc /\ cpuid' = cpuid /\ \A d \in CPUs : d # c => tree'[d] = tree[d]
    BY DEF Frees, locals
  <1>4. LocksOK /\ cpuid \in [Threads -> CPUs] /\ freeFailed = FALSE  BY DEF FInv, TypeOK
  <1>5. LocksOK'
    <2>1. ASSUME NEW u \in Threads, pc[u] = "unaligned" PROVE tree'[cpuid[u]] # {}
      <3>1. cpuid[u] # c  BY <2>1 DEF Frees, Locked
      <3>2. cpuid[u] \in CPUs  BY <1>4
      <3> QED BY <3>1, <3>2, <2>1, <1>3, <1>4 DEF LocksOK
    <2> QED BY <2>1, <1>3, <1>4 DEF LocksOK
  <1>6. LocalTypes'  BY DEF Frees, locals, LocalTypes, FInv, TypeOK
  <1>7. freeFailed' = FALSE  BY <1>4 DEF Frees
  <1> QED BY <1>1, <1>2, <1>5, <1>6, <1>7, Together

-----------------------------------------------------------------------------
(* The steps that leave the lists alone.                                    *)

\* Lists that do not change stay sound.
LEMMA SameLists ==
    ASSUME FInv, UNCHANGED lists, lost' = lost
    PROVE  /\ ListsOK' /\ CountsOK' /\ num_free_blocks' \in [CPUs -> Nat]
           /\ \A c \in CPUs : FreeBlocks(c)' = FreeBlocks(c)
  <1>1. /\ tree' = tree /\ low' = low /\ high' = high /\ first_node' = first_node
        /\ last_node' = last_node /\ num_blocknode' = num_blocknode
        /\ num_free_blocks' = num_free_blocks
    BY DEF lists
  <1>2. \A c \in CPUs : FreeBlocks(c)' = FreeBlocks(c)  BY <1>1 DEF FreeBlocks
  <1>3. ListsOK'  BY <1>1 DEF FInv, ListsOK
  <1>4. CountsOK'  BY <1>1, <1>2 DEF FInv, CountsOK
  <1> QED BY <1>1, <1>2, <1>3, <1>4 DEF FInv, TypeOK

\* A step of thread t that changes only its locals and does not end with the lock held.
LEMMA LocalStep ==
    ASSUME FInv, NEW t \in Threads, LocalTypes', pc'[t] # "unaligned",
           \A u \in Threads : u # t => pc'[u] = pc[u] /\ cpuid'[u] = cpuid[u],
           UNCHANGED <<lists, inuse, lost, leaked, freeFailed>>
    PROVE  FInv'
  <1>1. /\ UNCHANGED lists /\ lost' = lost /\ inuse' = inuse /\ leaked' = leaked
        /\ freeFailed' = freeFailed
    OBVIOUS
  <1>2. /\ ListsOK' /\ CountsOK' /\ num_free_blocks' \in [CPUs -> Nat]
        /\ \A c \in CPUs : FreeBlocks(c)' = FreeBlocks(c)
    BY <1>1, SameLists
  <1>3. Partition'  BY <1>1, <1>2 DEF FInv, Partition
  <1>4. LocksOK'
    <2>1. tree' = tree  BY DEF lists
    <2>2. \A u \in Threads : pc'[u] = "unaligned" => pc[u] = "unaligned" /\ cpuid'[u] = cpuid[u]
      OBVIOUS
    <2>3. LocksOK  BY DEF FInv
    <2>4. ASSUME NEW u \in Threads, pc'[u] = "unaligned"
          PROVE  /\ tree'[cpuid'[u]] # {}
                 /\ \A v \in Threads : pc'[v] = "unaligned" /\ cpuid'[v] = cpuid'[u] => v = u
      <3>1. pc[u] = "unaligned" /\ cpuid'[u] = cpuid[u]  BY <2>2, <2>4
      <3>2. tree'[cpuid'[u]] # {}  BY <3>1, <2>1, <2>3 DEF LocksOK
      <3>3. ASSUME NEW v \in Threads, pc'[v] = "unaligned", cpuid'[v] = cpuid'[u] PROVE v = u
        <4>1. pc[v] = "unaligned" /\ cpuid[v] = cpuid[u]  BY <2>2, <3>1, <3>3
        <4> QED BY <4>1, <3>1, <2>3 DEF LocksOK
      <3> QED BY <3>2, <3>3
    <2> QED BY <2>4 DEF LocksOK
  <1>5. freeFailed' = FALSE  BY <1>1 DEF FInv, TypeOK
  <1> QED BY <1>2, <1>3, <1>4, <1>5, Together

\* Blocks that are not freed for want of a node keep the invariant.
LEMMA LeakStep ==
    ASSUME FInv, NEW x, NEW y, free_blocks_enomem(x, y)
    PROVE  FInv'
  <1>1. /\ UNCHANGED <<lists, locals, lost, freeFailed, disturbed>>
        /\ x..y \subseteq inuse /\ inuse' = inuse \ (x..y) /\ leaked' = leaked \cup (x..y)
        /\ failures < MaxFailures /\ failures' = failures + 1
    BY DEF free_blocks_enomem
  <1>2. /\ ListsOK' /\ CountsOK' /\ num_free_blocks' \in [CPUs -> Nat]
        /\ \A c \in CPUs : FreeBlocks(c)' = FreeBlocks(c)
    BY <1>1, SameLists
  <1>3. Partition'
    <2> DEFINE X == x..y
    <2>0. /\ X \subseteq inuse /\ inuse' = inuse \ X /\ leaked' = leaked \cup X /\ lost' = lost
          /\ Partition
      BY <1>1 DEF FInv
    <2> HIDE DEF X
    <2>1. inuse' \cup lost' \cup leaked' = inuse \cup lost \cup leaked  BY <2>0
    <2>2. \A c \in CPUs : FreeBlocks(c)' \subseteq Region(c)  BY <1>2, <2>0 DEF Partition
    <2>3. \A c \in CPUs : Region(c) \subseteq FreeBlocks(c)' \cup inuse' \cup lost' \cup leaked'
      <3> TAKE c \in CPUs
      <3>1. Region(c) \subseteq FreeBlocks(c) \cup inuse \cup lost \cup leaked  BY <2>0 DEF Partition
      <3>2. FreeBlocks(c)' = FreeBlocks(c)  BY <1>2
      <3> QED BY <3>1, <3>2, <2>0
    <2>4. \A c \in CPUs : FreeBlocks(c)' \cap (inuse' \cup lost' \cup leaked') = {}
      BY <1>2, <2>0, <2>1 DEF Partition
    <2>5. inuse' \cap lost' = {} /\ inuse' \cap leaked' = {} /\ lost' \cap leaked' = {}
      BY <2>0 DEF Partition
    <2>6. inuse' \cup lost' \cup leaked' \subseteq UNION {Region(c) : c \in CPUs}
      BY <2>0, <2>1 DEF Partition
    <2> QED BY <2>2, <2>3, <2>4, <2>5, <2>6 DEF Partition
  <1>4. LocksOK'  BY <1>1 DEF FInv, LocksOK, lists, locals
  <1>5. failures' \in 0..MaxFailures
    <2>1. failures \in 0..MaxFailures  BY DEF FInv, TypeOK
    <2>2. failures + 1 \in 0..MaxFailures  BY <2>1, <1>1, FreeListConstants, SMT
    <2> QED BY <2>2, <1>1
  <1>6. LocalTypes'  BY <1>1, <1>5 DEF LocalTypes, FInv, TypeOK, locals
  <1>7. freeFailed' = FALSE  BY <1>1 DEF FInv, TypeOK
  <1> QED BY <1>2, <1>3, <1>4, <1>6, <1>7, Together

\* The types of the locals.
LEMMA LocalFacts ==
    ASSUME FInv
    PROVE  /\ pc \in [Threads -> {"idle", "retry", "scan", "unaligned"}]
           /\ req \in [Threads -> (UNION {Requests[t] : t \in Threads}) \cup {NoRequest}]
           /\ cpuid \in [Threads -> CPUs] /\ retried \in [Threads -> 0..2]
           /\ i \in [Threads -> CPUs] /\ most \in [Threads -> Nat]
           /\ failures \in 0..MaxFailures /\ disturbed \subseteq Threads
           /\ num_free_blocks \in [CPUs -> Nat]
           /\ 0 \in CPUs /\ 0 \in Nat /\ 0 \in 0..2
  <1>1. 0 \in CPUs /\ 0 \in Nat /\ 0 \in 0..2  BY FreeListConstants, SMT DEF CPUs
  <1> QED BY <1>1 DEF FInv, TypeOK

\* A request arrives.
LEMMA NewBlocksStep ==
    ASSUME FInv, NEW t \in Threads, nova_new_blocks(t)
    PROVE  FInv'
  <1>1. PICK r \in Requests[t] :
          req' = [req EXCEPT ![t] = r] /\ cpuid' = [cpuid EXCEPT ![t] = r.cpuid]
    BY DEF nova_new_blocks
  <1>2. /\ retried' = [retried EXCEPT ![t] = 0] /\ pc' = [pc EXCEPT ![t] = "retry"]
        /\ UNCHANGED <<lists, i, most, failures, inuse, lost, leaked, freeFailed, disturbed>>
    BY DEF nova_new_blocks
  <1>3. r.cpuid \in CPUs
    <2>1. r \in [cpuid : 0..(cpus - 1), num : Nat \ {0}, atype : {"LOG", "DATA"}, from_tail : BOOLEAN]
      BY FreeListConstants
    <2> QED BY <2>1 DEF CPUs
  <1>4. cpuid' \in [Threads -> CPUs] /\ retried' \in [Threads -> 0..2]
    BY <1>1, <1>2, <1>3, LocalFacts
  <1>5. req' \in [Threads -> (UNION {Requests[u] : u \in Threads}) \cup {NoRequest}]
    <2> DEFINE R == (UNION {Requests[u] : u \in Threads}) \cup {NoRequest}
    <2>1. req \in [Threads -> R] /\ r \in R  BY LocalFacts
    <2> HIDE DEF R
    <2>2. req' \in [Threads -> R]  BY <2>1, <1>1
    <2> QED BY <2>2 DEF R
  <1>6. /\ pc' \in [Threads -> {"idle", "retry", "scan", "unaligned"}]
        /\ pc'[t] = "retry" /\ \A u \in Threads : u # t => pc'[u] = pc[u] /\ cpuid'[u] = cpuid[u]
    BY <1>1, <1>2, LocalFacts
  <1>7. LocalTypes'  BY <1>2, <1>4, <1>5, <1>6, LocalFacts DEF LocalTypes
  <1> QED BY <1>2, <1>6, <1>7, LocalStep

\* The list is short.
LEMMA RetryStep ==
    ASSUME FInv, NEW t \in Threads, retry(t)
    PROVE  FInv'
  <1>1. /\ retried' = [retried EXCEPT ![t] = @ + 1] /\ retried[t] < 2
        /\ cpuid' = [cpuid EXCEPT ![t] = 0] /\ i' = [i EXCEPT ![t] = 0]
        /\ most' = [most EXCEPT ![t] = 0] /\ pc' = [pc EXCEPT ![t] = "scan"]
        /\ UNCHANGED <<lists, req, failures, inuse, lost, leaked, freeFailed, disturbed>>
    BY DEF retry
  <1>2. retried[t] + 1 \in 0..2
    <2>1. retried[t] \in 0..2  BY LocalFacts
    <2> QED BY <2>1, <1>1, SMT
  <1>3. /\ cpuid' \in [Threads -> CPUs] /\ retried' \in [Threads -> 0..2]
        /\ i' \in [Threads -> CPUs] /\ most' \in [Threads -> Nat]
    BY <1>1, <1>2, LocalFacts
  <1>4. /\ pc' \in [Threads -> {"idle", "retry", "scan", "unaligned"}]
        /\ pc'[t] = "scan" /\ \A u \in Threads : u # t => pc'[u] = pc[u] /\ cpuid'[u] = cpuid[u]
    BY <1>1, LocalFacts
  <1>5. LocalTypes'  BY <1>1, <1>3, <1>4, LocalFacts DEF LocalTypes
  <1> QED BY <1>1, <1>4, <1>5, LocalStep

\* One iteration of the search for another list.
LEMMA ScanStep ==
    ASSUME FInv, NEW t \in Threads, nova_get_candidate_free_list(t)
    PROVE  FInv'
  <1> DEFINE better == num_free_blocks[i[t]] > most[t]
             k == IF better THEN i[t] ELSE cpuid[t]
             m == IF i[t] = cpus - 1 THEN 0 ELSE IF better THEN num_free_blocks[i[t]] ELSE most[t]
             j == IF i[t] = cpus - 1 THEN 0 ELSE i[t] + 1
             p == IF i[t] = cpus - 1 THEN "retry" ELSE pc[t]
  <1>1. /\ cpuid' = [cpuid EXCEPT ![t] = k] /\ most' = [most EXCEPT ![t] = m]
        /\ i' = [i EXCEPT ![t] = j] /\ pc' = [pc EXCEPT ![t] = p]
        /\ UNCHANGED <<lists, req, retried, failures, inuse, lost, leaked, freeFailed, disturbed>>
        /\ pc[t] = "scan"
    BY DEF nova_get_candidate_free_list
  <1>2. i[t] \in CPUs /\ cpuid[t] \in CPUs /\ most[t] \in Nat  BY LocalFacts
  <1>3. k \in CPUs /\ m \in Nat
    <2>1. num_free_blocks[i[t]] \in Nat  BY <1>2, LocalFacts
    <2> QED BY <1>2, <2>1, LocalFacts
  <1>4. j \in CPUs  BY <1>2, FreeListConstants, SMT DEF CPUs
  <1>5. p \in {"retry", "scan"}  BY <1>1
  <1> HIDE DEF k, m, j, p
  <1>6. /\ cpuid' \in [Threads -> CPUs] /\ i' \in [Threads -> CPUs] /\ most' \in [Threads -> Nat]
    BY <1>1, <1>3, <1>4, LocalFacts
  <1>7. /\ pc' \in [Threads -> {"idle", "retry", "scan", "unaligned"}]
        /\ pc'[t] = p /\ \A u \in Threads : u # t => pc'[u] = pc[u] /\ cpuid'[u] = cpuid[u]
    <2>1. p \in {"idle", "retry", "scan", "unaligned"}  BY <1>5
    <2> QED BY <1>1, <2>1, LocalFacts
  <1>8. LocalTypes'  BY <1>1, <1>6, <1>7, LocalFacts DEF LocalTypes
  <1>9. pc'[t] # "unaligned"  BY <1>5, <1>7
  <1> QED BY <1>1, <1>7, <1>8, <1>9, LocalStep

\* The allocation fails.
LEMMA NoSpaceStep ==
    ASSUME FInv, NEW t \in Threads, no_space(t)
    PROVE  FInv'
  <1>1. /\ Return(t) /\ disturbed' = disturbed \ {t}
        /\ UNCHANGED <<lists, failures, inuse, lost, leaked, freeFailed>>
    BY DEF no_space
  <1>2. LocalTypes'  BY <1>1, LocalFacts, ReturnLocals
  <1>3. pc'[t] = "idle" /\ \A u \in Threads : u # t => pc'[u] = pc[u] /\ cpuid'[u] = cpuid[u]
    BY <1>1, LocalFacts DEF Return
  <1> QED BY <1>1, <1>2, <1>3, LocalStep

-----------------------------------------------------------------------------
(* The invariant.                                                           *)

\* The lists of a new file system.
LEMMA InitFInv == Init => FInv
  <1> SUFFICES ASSUME Init PROVE FInv  OBVIOUS
  <1>1. PICK root \in [CPUs -> Nodes] :
          /\ \A b, c \in CPUs : b # c => root[b] # root[c]
          /\ tree = [c \in CPUs |-> {root[c]}]
          /\ low = [n \in Nodes |->
               IF \E c \in CPUs : root[c] = n
               THEN block_start(sbi, CHOOSE c \in CPUs : root[c] = n) ELSE 0]
          /\ high = [n \in Nodes |->
               IF \E c \in CPUs : root[c] = n
               THEN block_end(sbi, CHOOSE c \in CPUs : root[c] = n) ELSE 0]
          /\ first_node = root /\ last_node = root
    BY DEF Init
  <1>2. /\ num_free_blocks = [c \in CPUs |-> E(c) - S(c) + 1]
        /\ num_blocknode = [c \in CPUs |-> 1]
        /\ inuse = {} /\ lost = {} /\ leaked = {} /\ freeFailed = FALSE
    BY DEF Init, S, E
  <1>3. ASSUME NEW c \in CPUs
        PROVE  /\ root[c] \in Nodes /\ tree[c] = {root[c]}
               /\ low[root[c]] = S(c) /\ high[root[c]] = E(c)
    <2>1. root[c] \in Nodes  BY <1>1
    <2>2. (CHOOSE d \in CPUs : root[d] = root[c]) = c
      <3>1. \A d \in CPUs : root[d] = root[c] => d = c  BY <1>1
      <3> QED BY <3>1
    <2>3. \E d \in CPUs : root[d] = root[c]  OBVIOUS
    <2>4. low[root[c]] = block_start(sbi, CHOOSE d \in CPUs : root[d] = root[c])  BY <1>1, <2>1, <2>3
    <2>5. high[root[c]] = block_end(sbi, CHOOSE d \in CPUs : root[d] = root[c])  BY <1>1, <2>1, <2>3
    <2> QED BY <1>1, <2>1, <2>2, <2>4, <2>5 DEF S, E
  <1>4. low \in [Nodes -> Nat] /\ high \in [Nodes -> Nat]
    <2>1. ASSUME NEW n \in Nodes PROVE low[n] \in Nat /\ high[n] \in Nat
      <3>1. CASE \E c \in CPUs : root[c] = n
        <4>1. PICK c \in CPUs : root[c] = n  BY <3>1
        <4>2. S(c) \in Nat /\ E(c) \in Nat  BY RegionTypes
        <4> QED BY <4>1, <4>2, <1>3
      <3>2. CASE ~\E c \in CPUs : root[c] = n
        <4>1. low[n] = 0 /\ high[n] = 0  BY <3>2, <1>1
        <4> QED BY <4>1, SMT
      <3> QED BY <3>1, <3>2
    <2>2. low = [n \in Nodes |-> low[n]] /\ high = [n \in Nodes |-> high[n]]  BY <1>1
    <2> QED BY <2>1, <2>2
  <1>5. ASSUME NEW c \in CPUs
        PROVE  /\ Sound(tree[c], low, high, first_node[c], last_node[c], S(c), E(c))
               /\ IsFiniteSet(tree[c]) /\ num_blocknode[c] = Cardinality(tree[c])
               /\ FreeBlocks(c) = Region(c)
               /\ num_free_blocks[c] = Cardinality(Region(c)) /\ num_free_blocks[c] \in Nat
               /\ IsFiniteSet(Region(c))
    <2>1. S(c) \in Nat /\ E(c) \in Nat /\ S(c) <= E(c) /\ Region(c) = S(c)..E(c)  BY RegionTypes
    <2>2. tree[c] = {root[c]} /\ low[root[c]] = S(c) /\ high[root[c]] = E(c)  BY <1>3
    <2>3. first_node[c] = root[c] /\ last_node[c] = root[c]  BY <1>1
    <2>4. Sound(tree[c], low, high, first_node[c], last_node[c], S(c), E(c))
      <3>1. S(c) <= S(c) /\ E(c) <= E(c)  BY <2>1, SMT
      <3> QED BY <2>1, <2>2, <2>3, <3>1 DEF Sound
    <2>5. IsFiniteSet({root[c]}) /\ Cardinality({root[c]}) = 1  BY FS_Singleton
    <2>6. num_blocknode[c] = 1  BY <1>2
    <2>7. FreeBlocks(c) = Region(c)  BY <2>1, <2>2 DEF FreeBlocks
    <2>8. num_free_blocks[c] = E(c) - S(c) + 1  BY <1>2
    <2>9. IsFiniteSet(S(c)..E(c)) /\ Cardinality(S(c)..E(c)) = E(c) - S(c) + 1  BY <2>1, IntervalCount
    <2>10. E(c) - S(c) + 1 \in Nat  BY <2>1, SMT
    <2> QED BY <2>1, <2>2, <2>4, <2>5, <2>6, <2>7, <2>8, <2>9, <2>10
  <1>6. ListsOK
    <2>1. tree \in [CPUs -> SUBSET Nodes]  BY <1>1
    <2>2. first_node \in [CPUs -> Nodes \cup {NULL}] /\ last_node \in [CPUs -> Nodes \cup {NULL}]
      BY <1>1, SMT
    <2>3. num_blocknode \in [CPUs -> Nat]  BY <1>2, SMT
    <2>4. \A b, c \in CPUs : b # c => tree[b] \cap tree[c] = {}
      <3>1. ASSUME NEW b \in CPUs, NEW c \in CPUs, b # c PROVE tree[b] \cap tree[c] = {}
        <4>1. tree[b] = {root[b]} /\ tree[c] = {root[c]} /\ root[b] # root[c]  BY <1>1, <1>3, <3>1
        <4> QED BY <4>1
      <3> QED BY <3>1
    <2> QED BY <1>4, <1>5, <2>1, <2>2, <2>3, <2>4 DEF ListsOK
  <1>7. Partition
    BY <1>2, <1>5 DEF Partition
  <1>8. CountsOK
    <2>1. \A c \in CPUs : lost \cap Region(c) = {}  BY <1>2
    <2>2. Cardinality({}) = 0  BY FS_EmptySet
    <2>3. ASSUME NEW c \in CPUs
          PROVE  num_free_blocks[c] = Cardinality(FreeBlocks(c)) + Cardinality(lost \cap Region(c))
      <3>1. num_free_blocks[c] = Cardinality(FreeBlocks(c)) /\ num_free_blocks[c] \in Nat  BY <1>5
      <3>2. Cardinality(lost \cap Region(c)) = 0  BY <2>1, <2>2
      <3> QED BY <3>1, <3>2, SMT
    <2> QED BY <2>3 DEF CountsOK
  <1>9. LocalTypes
    <2>1. 0 \in CPUs /\ 0 \in Nat /\ 0 \in 0..2 /\ 0 \in 0..MaxFailures
      BY FreeListConstants, SMT DEF CPUs
    <2>2. /\ pc = [t \in Threads |-> "idle"] /\ req = [t \in Threads |-> NoRequest]
          /\ cpuid = [t \in Threads |-> 0] /\ retried = [t \in Threads |-> 0]
          /\ i = [t \in Threads |-> 0] /\ most = [t \in Threads |-> 0]
          /\ failures = 0 /\ disturbed = {}
      BY DEF Init
    <2> QED BY <2>1, <2>2 DEF LocalTypes
  <1>10. LocksOK
    <2>1. pc = [t \in Threads |-> "idle"]  BY DEF Init
    <2> QED BY <2>1 DEF LocksOK
  <1>11. num_free_blocks \in [CPUs -> Nat]
    <2>1. num_free_blocks = [c \in CPUs |-> num_free_blocks[c]]  BY <1>2
    <2> QED BY <1>5, <2>1
  <1>12. TypeOK  BY <1>2, <1>6, <1>9, <1>11 DEF TypeOK, ListsOK, LocalTypes
  <1> QED BY <1>2, <1>6, <1>7, <1>8, <1>10, <1>12 DEF FInv

\* Every step keeps the invariant.
LEMMA NextFInv == FInv /\ [Next]_vars => FInv'
  <1> SUFFICES ASSUME FInv, [Next]_vars PROVE FInv'  OBVIOUS
  <1>1. CASE UNCHANGED vars
    <2>1. /\ tree' = tree /\ low' = low /\ high' = high /\ first_node' = first_node
          /\ last_node' = last_node /\ num_free_blocks' = num_free_blocks
          /\ num_blocknode' = num_blocknode /\ pc' = pc /\ req' = req /\ cpuid' = cpuid
          /\ retried' = retried /\ i' = i /\ most' = most /\ failures' = failures
          /\ inuse' = inuse /\ lost' = lost /\ leaked' = leaked
          /\ freeFailed' = freeFailed /\ disturbed' = disturbed
      BY <1>1 DEF vars, lists, locals
    <2>2. UNCHANGED lists  BY <1>1 DEF vars
    <2>3. /\ ListsOK' /\ CountsOK' /\ \A c \in CPUs : FreeBlocks(c)' = FreeBlocks(c)
      BY <2>1, <2>2, SameLists
    <2>4. Partition'  BY <2>1, <2>3 DEF FInv, Partition
    <2>5. LocksOK'  BY <2>1 DEF FInv, LocksOK
    <2>6. TypeOK'  BY <2>1 DEF FInv, TypeOK
    <2> QED BY <2>1, <2>3, <2>4, <2>5, <2>6 DEF FInv
  <1>2. ASSUME NEW t \in Threads, nova_new_blocks(t) PROVE FInv'  BY <1>2, NewBlocksStep
  <1>3. ASSUME NEW t \in Threads, retry(t) PROVE FInv'  BY <1>3, RetryStep
  <1>4. ASSUME NEW t \in Threads, nova_get_candidate_free_list(t) PROVE FInv'  BY <1>4, ScanStep
  <1>5. ASSUME NEW t \in Threads, no_space(t) PROVE FInv'  BY <1>5, NoSpaceStep
  <1>6. ASSUME NEW t \in Threads, superpage_split(t) PROVE FInv'  BY <1>6, SplitGrants, GrantStep
  <1>7. ASSUME NEW t \in Threads, superpage_enomem(t) PROVE FInv'  BY <1>7, EnomemLoses, LoseStep
  <1>8. ASSUME NEW t \in Threads, superpage_tail(t) PROVE FInv'  BY <1>8, TailGrants, GrantStep
  <1>9. ASSUME NEW t \in Threads, whole_node(t) PROVE FInv'  BY <1>9, WholeGrants, GrantStep
  <1>10. ASSUME NEW t \in Threads, part_of_node(t) PROVE FInv'  BY <1>10, PartGrants, GrantStep
  <1>11. ASSUME NEW x \in inuse, NEW y \in x..(num_blocks - 1), nova_free_blocks(x, y) PROVE FInv'
    BY <1>11, FreeFrees, FreeStep
  <1>12. ASSUME NEW x \in inuse, NEW y \in x..(num_blocks - 1), free_blocks_enomem(x, y) PROVE FInv'
    BY <1>12, LeakStep
  <1> QED BY <1>1, <1>2, <1>3, <1>4, <1>5, <1>6, <1>7, <1>8, <1>9, <1>10, <1>11, <1>12
          DEF Next, Allocate, nova_alloc_superpage

\* The invariant holds in every reachable state.
LEMMA FInvHolds == Spec => []FInv
  BY InitFInv, NextFInv, PTL DEF Spec

\* Every block is free in exactly one node, held by one caller, or given up: no
\* order of allocations, retries and frees hands a block out twice.
THEOREM PartitionTheorem == Spec => []Partition
  <1>1. FInv => Partition  BY DEF FInv
  <1> QED BY <1>1, FInvHolds, PTL

\* nova_free_blocks takes back every run of blocks that is in use.
THEOREM FreeSucceedsTheorem == Spec => []FreeSucceeds
  <1>1. FInv => FreeSucceeds  BY DEF FInv, FreeSucceeds
  <1> QED BY <1>1, FInvHolds, PTL

\* The counters, the end pointers and the nodes of every list agree, and
\* neighbouring nodes are joined.
THEOREM ListsSoundTheorem == Spec => []ListsSound
  <1>1. FInv => ListsSound
    <2> SUFFICES ASSUME FInv PROVE ListsSound  OBVIOUS
    <2>1. TypeOK /\ ListsOK /\ CountsOK  BY DEF FInv
    <2>2. Counters  BY <2>1 DEF ListsOK, CountsOK, Counters
    <2>3. EndNodes
      <3>1. ASSUME NEW c \in CPUs
            PROVE  IF tree[c] = {} THEN first_node[c] = NULL /\ last_node[c] = NULL
                   ELSE /\ first_node[c] \in tree[c] /\ last_node[c] \in tree[c]
                        /\ \A n \in tree[c] : /\ low[first_node[c]] <= low[n]
                                              /\ high[n] <= high[last_node[c]]
        <4>1. Sound(tree[c], low, high, first_node[c], last_node[c], S(c), E(c))  BY <2>1, ListFacts
        <4> QED BY <4>1 DEF Sound
      <3> QED BY <3>1 DEF EndNodes
    <2>4. Coalesced
      <3>1. ASSUME NEW c \in CPUs
            PROVE  /\ \A n \in tree[c] : low[n] <= high[n]
                   /\ \A m, n \in tree[c] : m # n => high[m] + 1 < low[n] \/ high[n] + 1 < low[m]
        <4>1. Sound(tree[c], low, high, first_node[c], last_node[c], S(c), E(c))  BY <2>1, ListFacts
        <4> QED BY <4>1 DEF Sound
      <3>2. \A b, c \in CPUs : b # c => tree[b] \cap tree[c] = {}  BY <2>1 DEF ListsOK
      <3> QED BY <3>1, <3>2 DEF Coalesced
    <2> QED BY <2>1, <2>2, <2>3, <2>4 DEF ListsSound
  <1> QED BY <1>1, FInvHolds, PTL

-----------------------------------------------------------------------------
(* A request that fails.                                                    *)

\* What nova_get_candidate_free_list has found out, while no list changes: no list
\* that it has looked at has more blocks than the candidate.
ScanOK ==
    \A t \in Threads \ disturbed :
      /\ pc[t] = "scan" =>
           /\ most[t] <= num_free_blocks[cpuid[t]]
           /\ \A c \in CPUs : c < i[t] => num_free_blocks[c] <= most[t]
      /\ pc[t] = "retry" /\ retried[t] > 0 =>
           \A c \in CPUs : num_free_blocks[c] <= num_free_blocks[cpuid[t]]

\* Steps that disturb every request but the one they end.
LEMMA DisturbingStep ==
    ASSUME ScanOK, NEW T, \A t \in Threads : t \notin T => pc'[t] = "idle",
           T \subseteq disturbed'
    PROVE  ScanOK'
  <1> SUFFICES ASSUME NEW t \in Threads, t \notin disturbed'
               PROVE  pc'[t] # "scan" /\ pc'[t] # "retry"
    BY DEF ScanOK
  <1>1. pc'[t] = "idle"  OBVIOUS
  <1> QED BY <1>1

\* A step of the thread u that leaves the counters alone.
LEMMA QuietStep ==
    ASSUME ScanOK, NEW u, disturbed \ {u} \subseteq disturbed', num_free_blocks' = num_free_blocks,
           \A t \in Threads : t # u =>
             /\ pc'[t] = pc[t] /\ most'[t] = most[t] /\ cpuid'[t] = cpuid[t]
             /\ i'[t] = i[t] /\ retried'[t] = retried[t],
           u \in Threads \ disturbed' =>
             /\ pc'[u] = "scan" =>
                  /\ most'[u] <= num_free_blocks[cpuid'[u]]
                  /\ \A c \in CPUs : c < i'[u] => num_free_blocks[c] <= most'[u]
             /\ pc'[u] = "retry" /\ retried'[u] > 0 =>
                  \A c \in CPUs : num_free_blocks[c] <= num_free_blocks[cpuid'[u]]
    PROVE  ScanOK'
  <1> SUFFICES ASSUME NEW t \in Threads, t \notin disturbed'
               PROVE  /\ pc'[t] = "scan" =>
                           /\ most'[t] <= num_free_blocks[cpuid'[t]]
                           /\ \A c \in CPUs : c < i'[t] => num_free_blocks[c] <= most'[t]
                      /\ pc'[t] = "retry" /\ retried'[t] > 0 =>
                           \A c \in CPUs : num_free_blocks[c] <= num_free_blocks[cpuid'[t]]
    BY DEF ScanOK
  <1>1. CASE t = u  BY <1>1
  <1>2. CASE t # u
    <2>1. t \notin disturbed  BY <1>2
    <2> QED BY <1>2, <2>1 DEF ScanOK
  <1> QED BY <1>1, <1>2

\* One iteration of the search keeps the candidate the best so far.
LEMMA ScanStepOK ==
    ASSUME FInv, ScanOK, NEW u \in Threads, nova_get_candidate_free_list(u)
    PROVE  ScanOK'
  <1> DEFINE N == num_free_blocks
             k == IF N[i[u]] > most[u] THEN i[u] ELSE cpuid[u]
             m == IF N[i[u]] > most[u] THEN N[i[u]] ELSE most[u]
             last == i[u] = cpus - 1
  <1>1. /\ pc[u] = "scan"
        /\ cpuid' = [cpuid EXCEPT ![u] = k]
        /\ most' = [most EXCEPT ![u] = IF last THEN 0 ELSE m]
        /\ i' = [i EXCEPT ![u] = IF last THEN 0 ELSE i[u] + 1]
        /\ pc' = [pc EXCEPT ![u] = IF last THEN "retry" ELSE pc[u]]
        /\ disturbed' = disturbed /\ retried' = retried /\ num_free_blocks' = num_free_blocks
    BY DEF nova_get_candidate_free_list, lists
  <1>2. /\ i[u] \in CPUs /\ cpuid[u] \in CPUs /\ most[u] \in Nat
        /\ \A c \in CPUs : N[c] \in Nat
    BY LocalFacts
  <1>3. /\ cpuid'[u] = k /\ most'[u] = (IF last THEN 0 ELSE m)
        /\ i'[u] = (IF last THEN 0 ELSE i[u] + 1) /\ pc'[u] = (IF last THEN "retry" ELSE "scan")
    BY <1>1, LocalFacts
  <1>4. \A t \in Threads : t # u =>
             /\ pc'[t] = pc[t] /\ most'[t] = most[t] /\ cpuid'[t] = cpuid[t]
             /\ i'[t] = i[t] /\ retried'[t] = retried[t]
    BY <1>1, LocalFacts
  <1>5. ASSUME u \notin disturbed
        PROVE  /\ m <= N[k] /\ k \in CPUs /\ m \in Nat
               /\ \A c \in CPUs : c <= i[u] => N[c] <= m
    <2>1. most[u] <= N[cpuid[u]] /\ \A c \in CPUs : c < i[u] => N[c] <= most[u]
      BY <1>1, <1>5 DEF ScanOK
    <2>2. m <= N[k] /\ k \in CPUs /\ m \in Nat /\ N[i[u]] <= m /\ most[u] <= m
      <3>1. N[i[u]] \in Nat /\ N[cpuid[u]] \in Nat  BY <1>2
      <3>2. CASE N[i[u]] > most[u]
        <4>1. k = i[u] /\ m = N[i[u]]  BY <3>2
        <4> QED BY <4>1, <3>1, <3>2, <1>2, SMT
      <3>3. CASE ~(N[i[u]] > most[u])
        <4>1. k = cpuid[u] /\ m = most[u]  BY <3>3
        <4> QED BY <4>1, <3>1, <3>3, <2>1, <1>2, SMT
      <3> QED BY <3>2, <3>3
    <2>3. ASSUME NEW c \in CPUs, c <= i[u] PROVE N[c] <= m
      <3> HIDE DEF N, m, k
      <3>1. CASE c = i[u]  BY <3>1, <2>2
      <3>2. CASE c # i[u]
        <4>1. c < i[u]  BY <3>2, <2>3, <1>2, FreeListConstants, SMT DEF CPUs
        <4>2. N[c] <= most[u]  BY <4>1, <2>1
        <4>3. N[c] \in Nat  BY <1>2
        <4> QED BY <4>2, <4>3, <2>2, <1>2, SMT
      <3> QED BY <3>1, <3>2
    <2> QED BY <2>2, <2>3
  <1> HIDE DEF m, k
  <1>6. ASSUME u \notin disturbed, last, NEW c \in CPUs PROVE N[c] <= N[k]
    <2>1. c <= i[u]  BY <1>6, FreeListConstants, SMT DEF CPUs
    <2>2. N[c] <= m /\ m <= N[k] /\ m \in Nat /\ N[c] \in Nat /\ N[k] \in Nat  BY <2>1, <1>2, <1>5, <1>6
    <2> HIDE DEF N
    <2> QED BY <2>2, SMT
  <1>7. ASSUME u \notin disturbed, ~last, NEW c \in CPUs, c < i[u] + 1 PROVE N[c] <= m
    <2>1. c <= i[u]  BY <1>2, <1>7, FreeListConstants, SMT DEF CPUs
    <2> QED BY <2>1, <1>5, <1>7
  <1> HIDE DEF last
  <1>8. u \in Threads \ disturbed' =>
             /\ pc'[u] = "scan" =>
                  /\ most'[u] <= num_free_blocks[cpuid'[u]]
                  /\ \A c \in CPUs : c < i'[u] => num_free_blocks[c] <= most'[u]
             /\ pc'[u] = "retry" /\ retried'[u] > 0 =>
                  \A c \in CPUs : num_free_blocks[c] <= num_free_blocks[cpuid'[u]]
    <2> SUFFICES ASSUME u \notin disturbed
                 PROVE  /\ pc'[u] = "scan" =>
                             /\ most'[u] <= N[k]
                             /\ \A c \in CPUs : c < i'[u] => N[c] <= most'[u]
                        /\ pc'[u] = "retry" => \A c \in CPUs : N[c] <= N[k]
      BY <1>1, <1>3
    <2>1. CASE last  BY <2>1, <1>3, <1>6
    <2>2. CASE ~last  BY <2>2, <1>3, <1>5, <1>7
    <2> QED BY <2>1, <2>2
  <1>9. disturbed \ {u} \subseteq disturbed' /\ num_free_blocks' = num_free_blocks  BY <1>1
  <1> QED BY <1>4, <1>8, <1>9, QuietStep

\* Every step keeps what the searches have found out.
LEMMA NextScanOK == FInv /\ ScanOK /\ [Next]_vars => ScanOK'
  <1> SUFFICES ASSUME FInv, ScanOK, [Next]_vars PROVE ScanOK'  OBVIOUS
  <1>1. CASE UNCHANGED vars
    <2>1. /\ num_free_blocks' = num_free_blocks /\ pc' = pc /\ cpuid' = cpuid
          /\ retried' = retried /\ i' = i /\ most' = most /\ disturbed' = disturbed
      BY <1>1 DEF vars, lists, locals
    <2> QED BY <2>1 DEF ScanOK
  <1>2. ASSUME NEW u \in Threads, nova_new_blocks(u) PROVE ScanOK'
    <2>1. /\ \E r \in Requests[u] : cpuid' = [cpuid EXCEPT ![u] = r.cpuid]
          /\ retried' = [retried EXCEPT ![u] = 0] /\ pc' = [pc EXCEPT ![u] = "retry"]
          /\ i' = i /\ most' = most /\ disturbed' = disturbed /\ num_free_blocks' = num_free_blocks
      BY <1>2 DEF nova_new_blocks, lists
    <2>2. pc'[u] = "retry" /\ retried'[u] = 0  BY <2>1, LocalFacts
    <2>3. ~(retried'[u] > 0)  BY <2>2, SMT
    <2>4. \A t \in Threads : t # u =>
             /\ pc'[t] = pc[t] /\ most'[t] = most[t] /\ cpuid'[t] = cpuid[t]
             /\ i'[t] = i[t] /\ retried'[t] = retried[t]
      BY <2>1, LocalFacts
    <2>5. pc'[u] # "scan"  BY <2>2
    <2>6. disturbed \ {u} \subseteq disturbed' /\ num_free_blocks' = num_free_blocks  BY <2>1
    <2> QED BY <2>3, <2>4, <2>5, <2>6, QuietStep
  <1>3. ASSUME NEW u \in Threads, retry(u) PROVE ScanOK'
    <2>1. /\ retried' = [retried EXCEPT ![u] = @ + 1]
          /\ cpuid' = [cpuid EXCEPT ![u] = 0] /\ i' = [i EXCEPT ![u] = 0]
          /\ most' = [most EXCEPT ![u] = 0] /\ pc' = [pc EXCEPT ![u] = "scan"]
          /\ disturbed' = disturbed /\ num_free_blocks' = num_free_blocks
      BY <1>3 DEF retry, lists
    <2>2. pc'[u] = "scan" /\ most'[u] = 0 /\ i'[u] = 0 /\ cpuid'[u] = 0  BY <2>1, LocalFacts
    <2>3. \A t \in Threads : t # u =>
             /\ pc'[t] = pc[t] /\ most'[t] = most[t] /\ cpuid'[t] = cpuid[t]
             /\ i'[t] = i[t] /\ retried'[t] = retried[t]
      BY <2>1, LocalFacts
    <2>4. num_free_blocks[0] \in Nat  BY LocalFacts, ZenonT(60)
    <2>5. 0 <= num_free_blocks[0]  BY <2>4, SMT
    <2>6. \A c \in CPUs : ~(c < 0)  BY FreeListConstants, SMT DEF CPUs
    <2>7. most'[u] <= num_free_blocks[cpuid'[u]]  BY <2>2, <2>5
    <2>8. \A c \in CPUs : c < i'[u] => num_free_blocks[c] <= most'[u]  BY <2>2, <2>6
    <2>9. disturbed \ {u} \subseteq disturbed' /\ num_free_blocks' = num_free_blocks /\ pc'[u] # "retry"
      BY <2>1, <2>2
    <2> QED BY <2>3, <2>7, <2>8, <2>9, QuietStep
  <1>4. ASSUME NEW u \in Threads, nova_get_candidate_free_list(u) PROVE ScanOK'
    BY <1>4, ScanStepOK
  <1>5. ASSUME NEW u \in Threads, no_space(u) PROVE ScanOK'
    <2>1. Return(u) /\ disturbed' = disturbed \ {u} /\ num_free_blocks' = num_free_blocks
      BY <1>5 DEF no_space, lists
    <2>2. /\ pc'[u] = "idle"
          /\ \A t \in Threads : t # u =>
               /\ pc'[t] = pc[t] /\ most'[t] = most[t] /\ cpuid'[t] = cpuid[t]
               /\ i'[t] = i[t] /\ retried'[t] = retried[t]
      BY <2>1, LocalFacts DEF Return
    <2>3. pc'[u] # "scan" /\ pc'[u] # "retry"  BY <2>2
    <2> QED BY <2>1, <2>2, <2>3, QuietStep
  <1>6. ASSUME NEW u \in Threads, NEW b, NEW n, Grants(u, b, n) PROVE ScanOK'
    <2>1. pc' = [pc EXCEPT ![u] = "idle"] /\ disturbed' = (disturbed \ {u}) \cup Others(u)
      BY <1>6 DEF Grants, Granted, Return
    <2>2. ASSUME NEW t \in Threads, t \notin Others(u) PROVE pc'[t] = "idle"
      BY <2>1, <2>2, LocalFacts DEF Others
    <2> QED BY <2>1, <2>2, DisturbingStep
  <1>7. ASSUME NEW u \in Threads, superpage_enomem(u) PROVE ScanOK'
    <2>1. /\ pc' = [pc EXCEPT ![u] = "unaligned"] /\ disturbed' = disturbed \cup Others(u)
          /\ most' = most /\ cpuid' = cpuid /\ i' = i /\ retried' = retried
          /\ num_free_blocks' = num_free_blocks
      BY <1>7 DEF superpage_enomem
    <2>2. /\ pc'[u] = "unaligned"
          /\ \A t \in Threads : t # u =>
               /\ pc'[t] = pc[t] /\ most'[t] = most[t] /\ cpuid'[t] = cpuid[t]
               /\ i'[t] = i[t] /\ retried'[t] = retried[t]
      BY <2>1, LocalFacts
    <2>3. pc'[u] # "scan" /\ pc'[u] # "retry"  BY <2>2
    <2>4. disturbed \ {u} \subseteq disturbed'  BY <2>1
    <2> QED BY <2>1, <2>2, <2>3, <2>4, QuietStep
  <1>8. ASSUME NEW x, NEW y, nova_free_blocks(x, y) PROVE ScanOK'
    <2> DEFINE T == {u \in Threads : pc[u] # "idle"}
    <2>1. pc' = pc /\ disturbed' = disturbed \cup T  BY <1>8 DEF nova_free_blocks, locals
    <2>2. T \subseteq disturbed' /\ \A t \in Threads : t \notin T => pc'[t] = "idle"  BY <2>1
    <2> HIDE DEF T
    <2> QED BY <2>2, DisturbingStep
  <1>9. ASSUME NEW x, NEW y, free_blocks_enomem(x, y) PROVE ScanOK'
    <2>1. /\ num_free_blocks' = num_free_blocks /\ pc' = pc /\ cpuid' = cpuid
          /\ retried' = retried /\ i' = i /\ most' = most /\ disturbed' = disturbed
      BY <1>9 DEF free_blocks_enomem, lists, locals
    <2> QED BY <2>1 DEF ScanOK
  <1>10. ASSUME NEW u \in Threads,
                superpage_split(u) \/ superpage_tail(u) \/ whole_node(u) \/ part_of_node(u)
         PROVE  ScanOK'
    <2>1. \E b, n : Grants(u, b, n)  BY <1>10, SplitGrants, TailGrants, WholeGrants, PartGrants
    <2> QED BY <2>1, <1>6
  <1> QED BY <1>1, <1>2, <1>3, <1>4, <1>5, <1>7, <1>8, <1>9, <1>10
          DEF Next, Allocate, nova_alloc_superpage

\* A list that counts no block has none, and one without an end node has none either.
LEMMA CountsNothing ==
    ASSUME FInv, lost = {}, NEW c \in CPUs
    PROVE  /\ num_free_blocks[c] = 0 => tree[c] = {}
           /\ first_node[c] = NULL => tree[c] = {}
           /\ tree[c] = {} => num_free_blocks[c] = 0 /\ first_node[c] = NULL
  <1>1. ListsOK /\ CountsOK  BY DEF FInv
  <1>2. lost \cap Region(c) = {}  OBVIOUS
  <1>3. Cardinality(lost \cap Region(c)) = 0  BY <1>2, FS_EmptySet
  <1>4. IsFiniteSet(FreeBlocks(c)) /\ Cardinality(FreeBlocks(c)) \in Nat  BY <1>1, FreeFinite
  <1>5. num_free_blocks[c] = Cardinality(FreeBlocks(c)) + Cardinality(lost \cap Region(c))
    BY <1>1 DEF CountsOK
  <1>6. num_free_blocks[c] = Cardinality(FreeBlocks(c))  BY <1>3, <1>4, <1>5, SMT
  <1>7. /\ NULL \notin tree[c]
        /\ \A n \in tree[c] : low[n] \in Nat /\ high[n] \in Nat /\ low[n] <= high[n]
        /\ IF tree[c] = {} THEN first_node[c] = NULL ELSE first_node[c] \in tree[c]
    BY <1>1, ListFacts DEF Sound
  <1>8. ASSUME num_free_blocks[c] = 0, NEW n \in tree[c] PROVE FALSE
    <2>1. FreeBlocks(c) = {}  BY <1>4, <1>6, <1>8, FS_EmptySet
    <2>2. low[n] \in low[n]..high[n]  BY <1>7, SMT
    <2>3. low[n] \in FreeBlocks(c)  BY <2>2 DEF FreeBlocks
    <2> QED BY <2>1, <2>3
  <1>9. ASSUME tree[c] = {} PROVE num_free_blocks[c] = 0
    <2>1. FreeBlocks(c) = {}  BY <1>9 DEF FreeBlocks
    <2> QED BY <2>1, <1>6, FS_EmptySet
  <1> QED BY <1>7, <1>8, <1>9

\* A data request that fails without being disturbed has read all counters, and the
\* largest of them is 0: the device has no free block.
THEOREM NoSpaceTheorem == Spec => NoSpaceMeansFull
  <1> DEFINE Full == \A t \in Threads :
                       no_space(t) /\ req[t].atype = "DATA" /\ t \notin disturbed /\ lost = {}
                       => \A c \in CPUs : tree[c] = {}
  <1>1. Init => ScanOK  BY DEF Init, ScanOK
  <1>2. FInv /\ ScanOK /\ [Next]_vars => [Full]_vars
    <2> SUFFICES ASSUME FInv, ScanOK, NEW t \in Threads, no_space(t), req[t].atype = "DATA",
                        t \notin disturbed, lost = {}, NEW c \in CPUs
                 PROVE  tree[c] = {}
      OBVIOUS
    <2> DEFINE d == cpuid[t]
    <2>1. /\ pc[t] = "retry" /\ CannotAlloc(d, req[t])
          /\ not_enough_blocks(d, req[t]) => retried[t] >= 2
      BY DEF no_space, Settled
    <2>2. d \in CPUs  BY LocalFacts
    <2>3. first_node[d] = NULL \/ num_free_blocks[d] = 0
      <3>1. req[t].atype # "LOG"  OBVIOUS
      <3> QED BY <2>1, <3>1 DEF CannotAlloc
    <2>4. num_free_blocks[d] = 0 /\ first_node[d] = NULL
      <3> HIDE DEF d
      <3> QED BY <2>2, <2>3, CountsNothing
    <2>5. retried[t] >= 2  BY <2>1, <2>4 DEF not_enough_blocks
    <2>6. retried[t] \in 0..2  BY LocalFacts
    <2>7. retried[t] > 0  BY <2>5, <2>6, SMT
    <2>8. num_free_blocks[c] <= num_free_blocks[d]  BY <2>1, <2>7 DEF ScanOK
    <2>9. num_free_blocks[c] \in Nat  BY LocalFacts
    <2>10. num_free_blocks[c] = 0
      <3> HIDE DEF d
      <3> QED BY <2>4, <2>8, <2>9, SMT
    <2> QED BY <2>10, CountsNothing
  <1> HIDE DEF Full
  <1>3. Spec => [][Full]_vars  BY <1>1, <1>2, NextScanOK, FInvHolds, PTL DEF Spec
  <1> QED BY <1>3 DEF Full, NoSpaceMeansFull

-----------------------------------------------------------------------------
(* The allocator as a pool of blocks.                                       *)

AllBlocks == UNION {Region(c) : c \in CPUs}
AllFree == UNION {FreeBlocks(c) : c \in CPUs}

\* The ends of a run are in the set that holds the run.
LEMMA EndsIn ==
    ASSUME NEW x \in Nat, NEW y \in Nat, x <= y, NEW X, x..y \subseteq X
    PROVE  x \in X /\ y \in X
  <1>1. x \in x..y /\ y \in x..y  BY SMT
  <1> QED BY <1>1

\* What one list loses, the pool loses.
LEMMA TookFromAll ==
    ASSUME FInv, NEW c \in CPUs, NEW x, NEW y, Took(c, x, y)
    PROVE  /\ x \in AllBlocks /\ y \in AllBlocks
           /\ x..y \subseteq AllFree /\ AllFree' = AllFree \ (x..y)
           /\ (x..y) \cap inuse = {}
  <1> DEFINE X == x..y
  <1>0. ListsOK /\ Partition  BY DEF FInv
  <1>1. /\ x \in Nat /\ y \in Nat /\ x <= y
        /\ X \subseteq FreeBlocks(c) /\ X \subseteq Region(c)
        /\ \A d \in CPUs : d # c => X \cap Region(d) = {}
        /\ FreeBlocks(c)' = FreeBlocks(c) \ X
        /\ \A d \in CPUs : d # c => FreeBlocks(d)' = FreeBlocks(d)
        /\ X \cap inuse = {}
    BY <1>0, TookFacts
  <1>2. x \in Region(c) /\ y \in Region(c)  BY <1>1, EndsIn
  <1>3. x \in AllBlocks /\ y \in AllBlocks  BY <1>2 DEF AllBlocks
  <1> HIDE DEF X
  <1>4. X \subseteq AllFree  BY <1>1 DEF AllFree
  <1>5. ASSUME NEW d \in CPUs PROVE FreeBlocks(d)' = FreeBlocks(d) \ X
    <2>1. CASE d = c  BY <2>1, <1>1
    <2>2. CASE d # c
      <3>1. FreeBlocks(d) \subseteq Region(d) /\ X \cap Region(d) = {}  BY <2>2, <1>0, <1>1, ListFacts
      <3>2. FreeBlocks(d) = FreeBlocks(d) \ X  BY <3>1
      <3> QED BY <3>2, <2>2, <1>1
    <2> QED BY <2>1, <2>2
  <1>6. AllFree' = AllFree \ X  BY <1>5, ZenonT(60) DEF AllFree
  <1> QED BY <1>1, <1>3, <1>4, <1>6 DEF X

\* What one list gets back, the pool gets back.
LEMMA GaveToAll ==
    ASSUME NEW c \in CPUs, NEW x, NEW y, Gave(c, x, y)
    PROVE  AllFree' = AllFree \cup (x..y)
  <1> DEFINE X == x..y
  <1>1. /\ FreeBlocks(c)' = FreeBlocks(c) \cup X
        /\ \A d \in CPUs : d # c => FreeBlocks(d)' = FreeBlocks(d)
    BY DEF Gave
  <1> HIDE DEF X
  <1>2. AllFree' = AllFree \cup X
    <2>1. ASSUME NEW b \in AllFree' PROVE b \in AllFree \cup X
      <3>1. PICK d \in CPUs : b \in FreeBlocks(d)'  BY DEF AllFree
      <3>2. CASE d = c
        <4>1. b \in FreeBlocks(c) \cup X  BY <3>1, <3>2, <1>1
        <4> QED BY <4>1 DEF AllFree
      <3>3. CASE d # c
        <4>1. b \in FreeBlocks(d)  BY <3>1, <3>3, <1>1
        <4> QED BY <4>1 DEF AllFree
      <3> QED BY <3>2, <3>3
    <2>2. ASSUME NEW b \in X PROVE b \in AllFree'
      <3>1. b \in FreeBlocks(c)'  BY <1>1
      <3> QED BY <3>1 DEF AllFree
    <2>3. ASSUME NEW b \in AllFree PROVE b \in AllFree'
      <3>1. PICK d \in CPUs : b \in FreeBlocks(d)  BY DEF AllFree
      <3>2. b \in FreeBlocks(d)'
        <4>1. CASE d = c
          <5>1. b \in FreeBlocks(c)'  BY <3>1, <4>1, <1>1
          <5> QED BY <5>1, <4>1
        <4>2. CASE d # c  BY <3>1, <4>2, <1>1
        <4> QED BY <4>1, <4>2
      <3> QED BY <3>2 DEF AllFree
    <2> QED BY <2>1, <2>2, <2>3
  <1> QED BY <1>2 DEF X

\* An allocation that succeeds is one of the pool.
LEMMA GrantIsAllocate ==
    ASSUME FInv, NEW t \in Threads, NEW b, NEW n, Grants(t, b, n)
    PROVE  Pool!Allocate
  <1> DEFINE y == b + n - 1
  <1>1. cpuid[t] \in CPUs /\ Took(cpuid[t], b, y) /\ inuse' = inuse \cup (b..y)
    BY RequestFacts DEF Grants, Granted
  <1> HIDE DEF y
  <1>2. b \in AllBlocks /\ y \in AllBlocks /\ b..y \subseteq AllFree /\ AllFree' = AllFree \ (b..y)
    BY <1>1, TookFromAll
  <1> QED BY <1>1, <1>2 DEF Pool!Allocate, AllBlocks, AllFree

\* Blocks dropped from a tree are lost to the pool.
LEMMA LoseIsLose ==
    ASSUME FInv, NEW t \in Threads, NEW x, NEW y, Loses(t, x, y)
    PROVE  Pool!Lose
  <1>1. cpuid[t] \in CPUs /\ Took(cpuid[t], x, y) /\ inuse' = inuse
    BY RequestFacts DEF Loses
  <1>2. /\ x \in AllBlocks /\ y \in AllBlocks /\ x..y \subseteq AllFree
        /\ AllFree' = AllFree \ (x..y) /\ (x..y) \cap inuse = {}
    BY <1>1, TookFromAll
  <1>3. inuse' = inuse \ (x..y)  BY <1>1, <1>2
  <1> QED BY <1>2, <1>3 DEF Pool!Lose, AllBlocks, AllFree

\* A free is a release to the pool.
LEMMA FreeIsRelease ==
    ASSUME FInv, NEW c, NEW x, NEW y, Frees(c, x, y)
    PROVE  Pool!Release
  <1>1. /\ c \in CPUs /\ x \in Nat /\ y \in Nat /\ x <= y /\ Gave(c, x, y)
        /\ x..y \subseteq inuse /\ x..y \subseteq Region(c) /\ inuse' = inuse \ (x..y)
    BY DEF Frees
  <1>2. x \in Region(c) /\ y \in Region(c)  BY <1>1, EndsIn
  <1>3. x \in AllBlocks /\ y \in AllBlocks  BY <1>1, <1>2 DEF AllBlocks
  <1>4. AllFree' = AllFree \cup (x..y)  BY <1>1, GaveToAll
  <1> QED BY <1>1, <1>3, <1>4 DEF Pool!Release, AllBlocks, AllFree

\* Blocks that could not be freed are lost to the pool.
LEMMA LeakIsLose ==
    ASSUME FInv, NEW x \in inuse, NEW y \in x..(num_blocks - 1), free_blocks_enomem(x, y)
    PROVE  Pool!Lose
  <1>1. /\ x..y \subseteq inuse /\ inuse' = inuse \ (x..y) /\ UNCHANGED lists /\ lost' = lost
    BY DEF free_blocks_enomem
  <1>2. x \in Nat /\ y \in Nat /\ x <= y
    <2>1. x \in Nat  BY DEF FInv, TypeOK
    <2> QED BY <2>1, FreeListConstants, SMT
  <1>3. Partition  BY DEF FInv
  <1>4. inuse \subseteq AllBlocks /\ AllFree \cap inuse = {}
    <2>1. inuse \subseteq AllBlocks
      <3>1. inuse \cup lost \cup leaked \subseteq AllBlocks  BY <1>3 DEF Partition, AllBlocks
      <3> QED BY <3>1
    <2>2. \A c \in CPUs : FreeBlocks(c) \cap inuse = {}
      <3> TAKE c \in CPUs
      <3>1. FreeBlocks(c) \cap (inuse \cup lost \cup leaked) = {}  BY <1>3 DEF Partition
      <3> QED BY <3>1
    <2>3. AllFree \cap inuse = {}  BY <2>2 DEF AllFree
    <2> QED BY <2>1, <2>3
  <1>5. x..y \subseteq AllBlocks  BY <1>1, <1>4
  <1>6. x \in AllBlocks /\ y \in AllBlocks  BY <1>2, <1>5, EndsIn
  <1>7. AllFree' = AllFree
    <2>1. \A c \in CPUs : FreeBlocks(c)' = FreeBlocks(c)  BY <1>1, SameLists
    <2> QED BY <2>1 DEF AllFree
  <1>8. AllFree' = AllFree \ (x..y)  BY <1>1, <1>4, <1>7
  <1> QED BY <1>1, <1>6, <1>8 DEF Pool!Lose, AllBlocks, AllFree

\* Lists that do not change are the same pool.
LEMMA SamePool ==
    ASSUME FInv, UNCHANGED <<lists, inuse, lost>>
    PROVE  AllFree' = AllFree /\ inuse' = inuse
  <1>1. UNCHANGED lists /\ lost' = lost /\ inuse' = inuse  OBVIOUS
  <1>2. \A c \in CPUs : FreeBlocks(c)' = FreeBlocks(c)  BY <1>1, SameLists
  <1> QED BY <1>1, <1>2 DEF AllFree

\* The lists of all CPUs together behave as one pool: a caller is given a run of
\* blocks that were all free, and they become free again only when it frees them.
THEOREM PoolTheorem == Spec => BehavesAsPool
  <1>1. Init => Pool!Init
    <2> SUFFICES ASSUME Init PROVE Pool!Init  OBVIOUS
    <2>1. FInv /\ inuse = {} /\ lost = {} /\ leaked = {}  BY InitFInv DEF Init
    <2>2. ASSUME NEW c \in CPUs PROVE FreeBlocks(c) = Region(c)
      <3>1. FreeBlocks(c) \subseteq Region(c) /\ Region(c) \subseteq FreeBlocks(c) \cup inuse \cup lost \cup leaked
        BY <2>1 DEF FInv, Partition
      <3> QED BY <3>1, <2>1
    <2>3. AllFree = AllBlocks  BY <2>2 DEF AllFree, AllBlocks
    <2> QED BY <2>1, <2>3 DEF Pool!Init, AllFree, AllBlocks
  <1>2. FInv /\ [Next]_vars => [Pool!Next]_<<AllFree, inuse>>
    <2> SUFFICES ASSUME FInv, [Next]_vars PROVE Pool!Next \/ (AllFree' = AllFree /\ inuse' = inuse)
      OBVIOUS
    <2>1. CASE UNCHANGED vars
      <3>1. UNCHANGED <<lists, inuse, lost>>  BY <2>1 DEF vars
      <3> QED BY <3>1, SamePool
    <2>2. ASSUME NEW t \in Threads,
                 nova_new_blocks(t) \/ retry(t) \/ nova_get_candidate_free_list(t) \/ no_space(t)
          PROVE  AllFree' = AllFree /\ inuse' = inuse
      <3>1. UNCHANGED <<lists, inuse, lost>>
        BY <2>2 DEF nova_new_blocks, retry, nova_get_candidate_free_list, no_space
      <3> QED BY <3>1, SamePool
    <2>3. ASSUME NEW t \in Threads,
                 superpage_split(t) \/ superpage_tail(t) \/ whole_node(t) \/ part_of_node(t)
          PROVE  Pool!Next
      <3>1. \E b, n : Grants(t, b, n)  BY <2>3, SplitGrants, TailGrants, WholeGrants, PartGrants
      <3>2. Pool!Allocate  BY <3>1, GrantIsAllocate
      <3> QED BY <3>2 DEF Pool!Next
    <2>4. ASSUME NEW t \in Threads, superpage_enomem(t) PROVE Pool!Next
      BY <2>4, EnomemLoses, LoseIsLose DEF Pool!Next
    <2>5. ASSUME NEW x \in inuse, NEW y \in x..(num_blocks - 1), nova_free_blocks(x, y)
          PROVE  Pool!Next
      BY <2>5, FreeFrees, FreeIsRelease DEF Pool!Next
    <2>6. ASSUME NEW x \in inuse, NEW y \in x..(num_blocks - 1), free_blocks_enomem(x, y)
          PROVE  Pool!Next
      BY <2>6, LeakIsLose DEF Pool!Next
    <2> QED BY <2>1, <2>2, <2>3, <2>4, <2>5, <2>6 DEF Next, Allocate, nova_alloc_superpage
  <1> QED BY <1>1, <1>2, FInvHolds, PTL DEF Spec, BehavesAsPool, Pool!Spec, AllFree
=============================================================================
