-------------------------- MODULE InodeTableProofs --------------------------
(***************************************************************************)
(* The inode numbers of InodeTable, for every number of CPUs, threads and  *)
(* inodes: the ranges in use name the numbers that are taken, however the  *)
(* file system was mounted, no number has two owners, and an allocation    *)
(* fails only when the numbers of the CPU are used up.                     *)
(***************************************************************************)
EXTENDS InodeTable, WellFoundedInduction, TLAPS

USE Zenon

-----------------------------------------------------------------------------
(* The inductive invariant.                                                 *)

RangeNodes == [low : Nat, high : Nat]
Slots == [mode : BOOLEAN, valid : BOOLEAN, deleted : BOOLEAN, held : BOOLEAN]
Labels == {"idle", "map", "alloc", "new", "commit", "evict", "free"}
Top == MAX_INODE - 2

Types ==
    /\ inuse \in [CPUs -> SUBSET RangeNodes]
    /\ map_id \in CPUs
    /\ pages \in [CPUs -> Nat]
    /\ slot \in [Inos -> Slots] /\ dur \in [Inos -> Slots]
    /\ list.state \in {"none", "fresh", "stale"}
    /\ blocknode \in BOOLEAN
    /\ mode \in {"mounted", "saving", "down", "blockmap", "scan"}
    /\ scan \in [CPUs -> [count : Nat, i : Nat, low : Nat, high : Nat]]
    /\ pc \in [Threads -> Labels]
    /\ req \in [Threads -> [map : CPUs, ino : Nat]]
    /\ leaked \subseteq Inos

\* Ranges of numbers with gaps between them.
Ranges(R) ==
    /\ R \subseteq RangeNodes
    /\ \A r \in R : r.low <= r.high /\ r.high <= Top
    /\ \A r, s \in R : r # s => r.high + 1 < s.low \/ s.high + 1 < r.low

\* The reserved internal numbers of CPU c, and those of the numbers in own.
Taken(c, own) == (0..RangeHigh) \cup {k \in Internals : Ino(c, k) \in own}

Tree(c, R, own) == Ranges(R) /\ Covered(R) = Taken(c, own)

\* The slot of n is in a superpage of the table.
InTable(n) == Internal(n) < pages[Cpu(n)] * InodesPerPage

\* A slot that a name or a snapshot shows is durable, within the table, and what a
\* recovery takes to be in use; what shows it is durable.
SlotsOK ==
    \A n \in Inos :
      /\ dur[n].valid = slot[n].valid /\ dur[n].held = slot[n].held
      /\ n \in Live => /\ slot[n] = dur[n] /\ slot[n].mode /\ ~slot[n].deleted
                       /\ ~(slot[n].valid /\ slot[n].held)
                       /\ InTable(n)

\* Threads run while the file system is mounted.  The number a thread works on
\* has no other owner; that of a new inode has a slot, which is filled in time.
ThreadsOK ==
    /\ mode # "mounted" => \A t \in Threads : pc[t] = "idle"
    /\ \A t, u \in Busy : t # u => req[t].ino # req[u].ino
    /\ \A t \in Busy : req[t].ino \in Inos /\ req[t].ino \notin Live \cup leaked
    /\ \A t \in Threads : pc[t] \in {"new", "commit"} => InTable(req[t].ino)
    /\ \A t \in Threads : pc[t] = "commit" => slot[req[t].ino].mode /\ ~slot[req[t].ino].deleted
    /\ leaked \cap Live = {}

\* The ranges saved for CPU c.
Saved(c) == {r[2] : r \in {x \in list.ranges : x[1] = c}}

\* The ranges in use while the file system is mounted, and on the way through an
\* unmount and the next mount.  A list that is not the one of the last unmount is
\* known to be stale.
TreesOK ==
    /\ mode = "mounted" => \A c \in CPUs : Tree(c, inuse[c], Live \cup Working \cup leaked)
    /\ mode \in {"saving", "blockmap"} \/ blocknode =>
         (list.state = "fresh" => \A c \in CPUs : Tree(c, Saved(c), Live \cup leaked))
    /\ mode \in {"mounted", "scan"} => list.state # "fresh"
    /\ blocknode => mode = "down"
    /\ \A c \in CPUs : Ranges(inuse[c])

\* What a recovery knows of CPU c when p is the next slot: the ranges R and the run
\* low..high, not inserted yet, have what is taken before p; the run is behind R.
Before(c, own, p) == {k \in Taken(c, own) : k <= RangeHigh \/ k < p}
Run(low, high) == IF low = 0 THEN {} ELSE Internal(low)..Internal(high)
Scanned(c, R, low, high, p, own) ==
    /\ Covered(R) \cup Run(low, high) = Before(c, own, p)
    /\ low # 0 => \E a, b \in Internals : /\ low = Ino(c, a) /\ high = Ino(c, b)
                                          /\ a <= b /\ b < p /\ \A r \in R : r.high < a

\* The loop of failure_thread_func, at slot Position(c); a run ends with its superpage.
Position(c) == scan[c].count * InodesPerPage + scan[c].i
ScanOK(c) ==
    /\ scan[c].count <= pages[c] /\ scan[c].i < InodesPerPage
    /\ scan[c].count = pages[c] => scan[c].i = 0
    /\ scan[c].i = 0 => scan[c].low = 0
    /\ Scanned(c, inuse[c], scan[c].low, scan[c].high, Position(c), Live)

ScansOK ==
    /\ mode = "scan" => leaked = {} /\ \A c \in CPUs : ScanOK(c)
    /\ mode # "scan" => scan = [c \in CPUs |-> NoScan]

NoSpaceOK == nospace \in Seq(CPUs \X {0..Top})

IInv == Types /\ SlotsOK /\ ThreadsOK /\ TreesOK /\ ScansOK /\ NoSpaceOK

-----------------------------------------------------------------------------
(* Arithmetic.                                                              *)

\* Division of natural numbers.
LEMMA DivNat ==
    ASSUME NEW a \in Nat, NEW b \in Nat \ {0}
    PROVE  a \div b \in Nat /\ a % b \in 0..(b - 1) /\ a = b * (a \div b) + (a % b)
  BY SMT

LEMMA ProductNat ==
    ASSUME NEW p \in Nat, NEW c \in Nat
    PROVE  p * c \in Nat /\ p * c = c * p
  BY SMT

\* The multiples of p are p apart.
LEMMA ProductsApart ==
    ASSUME NEW p \in Nat, NEW c \in Nat, NEW d \in Nat, c < d
    PROVE  p * c + p <= p * d
  <1>1. PICK k \in Nat : d = c + 1 + k  BY SMT
  <1>2. p * d = p * c + p + p * k  BY <1>1, SMT
  <1>3. p * k \in Nat  BY ProductNat
  <1> QED BY <1>2, <1>3, ProductNat, SMT

\* A number is a multiple of p and a remainder in one way only.
LEMMA Quotient ==
    ASSUME NEW p \in Nat \ {0}, NEW c \in Nat, NEW r \in 0..(p - 1)
    PROVE  (p * c + r) \div p = c /\ (p * c + r) % p = r
  <1> DEFINE b == p * c + r
             q == b \div p
             m == b % p
  <1>1. p * c \in Nat /\ r \in Nat /\ r < p  BY ProductNat, SMT
  <1>2. b \in Nat  BY <1>1, SMT
  <1>3. q \in Nat /\ m \in 0..(p - 1) /\ b = p * q + m  BY <1>2, DivNat
  <1>4. p * q \in Nat  BY <1>3, ProductNat
  <1>5. b = p * c + r  OBVIOUS
  <1> HIDE DEF b, q, m
  <1>6. m \in Nat /\ m < p  BY <1>3, SMT
  <1>7. ~(q < c)
    <2>1. q < c => p * q + p <= p * c  BY <1>3, ProductsApart
    <2> QED BY <2>1, <1>1, <1>3, <1>4, <1>5, <1>6, SMT
  <1>8. ~(c < q)
    <2>1. c < q => p * c + p <= p * q  BY <1>3, ProductsApart
    <2> QED BY <2>1, <1>1, <1>3, <1>4, <1>5, <1>6, SMT
  <1>9. q = c  BY <1>3, <1>7, <1>8, SMT
  <1>10. m = r  BY <1>1, <1>3, <1>5, <1>6, <1>9, SMT
  <1> QED BY <1>9, <1>10 DEF b, q, m

\* A set of natural numbers that is not empty has a least element.
LEMMA LeastNat ==
    ASSUME NEW S, S \subseteq Nat, S # {}
    PROVE  \E x \in S : \A y \in S : x <= y
  <1>1. PICK x \in S : \A y \in S : ~(<<y, x>> \in OpToRel(<, Nat))
    BY NatLessThanWellFounded, WFMin
  <1>2. ASSUME NEW y \in S PROVE x <= y
    <2>1. <<y, x>> \in Nat \X Nat  OBVIOUS
    <2>2. ~(y < x)  BY <1>1, <2>1, SMT DEF OpToRel
    <2> QED BY <2>2, SMT
  <1> QED BY <1>2

-----------------------------------------------------------------------------
(* Numbers, and the internal numbers of a CPU.                              *)

\* The reserved range leaves numbers to give out (RangeHigh).
LEMMA RangeHighNat == RangeHigh \in Nat /\ RangeHigh <= Top /\ Top \in Nat
  <1> DEFINE q == NOVA_NORMAL_INODE_START \div cpus
             m == NOVA_NORMAL_INODE_START % cpus
  <1>1. /\ q \in Nat /\ m \in 0..(cpus - 1) /\ NOVA_NORMAL_INODE_START = cpus * q + m
        /\ NOVA_NORMAL_INODE_START \in Nat /\ cpus \in Nat \ {0}
        /\ MAX_INODE \in Nat /\ MAX_INODE >= NOVA_NORMAL_INODE_START + 2
    BY InodeTableConstants, DivNat
  <1>2. RangeHigh = q + (IF m = 0 THEN 0 ELSE 1)  BY DEF RangeHigh
  <1>3. cpus * q \in Nat /\ q <= cpus * q
    <2>1. 0 \in Nat /\ 0 < cpus /\ q * 0 = 0  BY <1>1, SMT
    <2>2. q * 0 + q <= q * cpus  BY <1>1, <2>1, ProductsApart
    <2>3. q * cpus = cpus * q /\ q * cpus \in Nat  BY <1>1, ProductNat
    <2> QED BY <2>1, <2>2, <2>3, <1>1, SMT
  <1> HIDE DEF q, m
  <1>4. RangeHigh \in Nat /\ RangeHigh <= NOVA_NORMAL_INODE_START  BY <1>1, <1>2, <1>3, SMT
  <1> QED BY <1>1, <1>4, SMT DEF Top

LEMMA InternalsNat ==
    /\ Internals \subseteq Nat
    /\ \A k \in Nat : k \in Internals <=> RangeHigh < k /\ k <= Top
  BY RangeHighNat, SMT DEF Internals, Top

LEMMA CPUsNat == cpus \in Nat \ {0} /\ CPUs \subseteq Nat /\ \A c \in CPUs : c < cpus /\ c \in 0..(cpus - 1)
  BY InodeTableConstants, SMT DEF CPUs

\* A CPU and an internal number make a number that tells both.
LEMMA InoTells ==
    ASSUME NEW c \in CPUs, NEW k \in Nat
    PROVE  Ino(c, k) \in Nat /\ Cpu(Ino(c, k)) = c /\ Internal(Ino(c, k)) = k
  <1>1. k * cpus \in Nat /\ k * cpus = cpus * k  BY CPUsNat, ProductNat
  <1>2. (cpus * k + c) \div cpus = k /\ (cpus * k + c) % cpus = c  BY CPUsNat, Quotient
  <1>3. Ino(c, k) = cpus * k + c  BY <1>1 DEF Ino
  <1>4. Ino(c, k) \in Nat  BY <1>1, <1>3, CPUsNat, SMT
  <1> QED BY <1>2, <1>3, <1>4 DEF Cpu, Internal

\* The numbers that are given out.
LEMMA InosTell ==
    ASSUME NEW n \in Inos
    PROVE  n \in Nat /\ Cpu(n) \in CPUs /\ Internal(n) \in Internals /\ n = Ino(Cpu(n), Internal(n))
  <1>1. PICK c \in CPUs, k \in Internals : n = Ino(c, k)  BY SMT DEF Inos
  <1>2. k \in Nat  BY InternalsNat
  <1> QED BY <1>1, <1>2, InoTells

LEMMA InoOf == ASSUME NEW c \in CPUs, NEW k \in Internals PROVE Ino(c, k) \in Inos
  BY SMT DEF Inos

\* Zero is no number of an inode, and the next internal number is cpus further on.
LEMMA InoNext ==
    ASSUME NEW c \in CPUs, NEW b \in Nat, NEW k \in Nat
    PROVE  /\ Ino(c, k) = Ino(c, b) + cpus <=> k = b + 1
           /\ k > 0 => Ino(c, k) # 0
  <1>1. Ino(c, b + 1) = Ino(c, b) + cpus
    <2>1. (b + 1) * cpus = b * cpus + cpus /\ b * cpus \in Nat  BY CPUsNat, ProductNat, SMT
    <2> QED BY <2>1, CPUsNat, SMT DEF Ino
  <1>2. b + 1 \in Nat  BY SMT
  <1>3. Internal(Ino(c, k)) = k /\ Internal(Ino(c, b + 1)) = b + 1  BY <1>2, InoTells
  <1>4. Internal(Ino(c, 0)) = 0 /\ Ino(c, 0) = c
    <2>1. 0 \in Nat /\ 0 * cpus = 0  BY CPUsNat, SMT
    <2> QED BY <2>1, CPUsNat, InoTells, SMT DEF Ino
  <1>5. k > 0 => Ino(c, k) # 0
    <2>1. SUFFICES ASSUME Ino(c, k) = 0 PROVE ~(k > 0)  OBVIOUS
    <2>2. Internal(0) = k  BY <2>1, <1>3
    <2>3. 0 \in Nat /\ cpus \in Nat \ {0}  BY CPUsNat
    <2>4. Internal(0) = 0
      <3>1. 0 \in 0..(cpus - 1) /\ cpus * 0 + 0 = 0  BY <2>3, SMT
      <3> QED BY <2>3, <3>1, Quotient DEF Internal
    <2> QED BY <2>2, <2>4, SMT
  <1> QED BY <1>1, <1>3, <1>5

-----------------------------------------------------------------------------
(* Sets of ranges: taking the number behind the first range, giving one     *)
(* back and inserting a run.                                                *)

LEMMA RangeFacts ==
    ASSUME NEW R, Ranges(R), NEW r \in R
    PROVE  r \in RangeNodes /\ r.low \in Nat /\ r.high \in Nat /\ r.low <= r.high /\ r.high <= Top
  <1>1. r \in RangeNodes /\ r.low <= r.high /\ r.high <= Top  BY DEF Ranges
  <1> QED BY <1>1, SMT DEF RangeNodes

\* Ranges that differ are apart.
LEMMA RangesApart ==
    ASSUME NEW R, Ranges(R), NEW r \in R, NEW s \in R, r # s
    PROVE  r.high + 1 < s.low \/ s.high + 1 < r.low
  BY DEF Ranges

LEMMA NodeFacts ==
    ASSUME NEW a \in Nat, NEW b \in Nat
    PROVE  RangeNode(a, b) \in RangeNodes /\ RangeNode(a, b).low = a /\ RangeNode(a, b).high = b
  BY SMT DEF RangeNode, RangeNodes

LEMMA CoveredBy ==
    ASSUME NEW R, Ranges(R), NEW b
    PROVE  b \in Covered(R) <=> b \in Nat /\ \E r \in R : r.low <= b /\ b <= r.high
  <1>1. b \in Covered(R) <=> \E r \in R : b \in r.low..r.high  BY DEF Covered
  <1>2. ASSUME NEW r \in R PROVE b \in r.low..r.high <=> b \in Nat /\ r.low <= b /\ b <= r.high
    BY RangeFacts, SMT
  <1> QED BY <1>1, <1>2

\* A set with one more range, which is apart from the others.
LEMMA AddRange ==
    ASSUME NEW R, Ranges(R), NEW a \in Nat, NEW b \in Nat, a <= b, b <= Top,
           \A r \in R : r.high + 1 < a \/ b + 1 < r.low
    PROVE  /\ Ranges(R \cup {RangeNode(a, b)})
           /\ Covered(R \cup {RangeNode(a, b)}) = Covered(R) \cup (a..b)
  <1> DEFINE n == RangeNode(a, b)
             R2 == R \cup {n}
  <1>1. n \in RangeNodes /\ n.low = a /\ n.high = b  BY NodeFacts
  <1> HIDE DEF n
  <1>2. Ranges(R2)
    <2>1. R2 \subseteq RangeNodes  BY <1>1, RangeFacts
    <2>2. \A r \in R2 : r.low <= r.high /\ r.high <= Top  BY <1>1, RangeFacts
    <2>3. ASSUME NEW r \in R2, NEW s \in R2, r # s PROVE r.high + 1 < s.low \/ s.high + 1 < r.low
      <3>1. CASE r = n  BY <1>1, <2>3, <3>1
      <3>2. CASE s = n  BY <1>1, <2>3, <3>2
      <3>3. CASE r \in R /\ s \in R  BY <2>3, <3>3, RangesApart
      <3> QED BY <3>1, <3>2, <3>3
    <2> QED BY <2>1, <2>2, <2>3 DEF Ranges
  <1>3. ASSUME NEW k PROVE k \in Covered(R2) <=> k \in Covered(R) \cup (a..b)
    <2>1. k \in Covered(R2) <=> k \in Nat /\ \E r \in R2 : r.low <= k /\ k <= r.high
      BY <1>2, CoveredBy
    <2>2. k \in Covered(R) <=> k \in Nat /\ \E r \in R : r.low <= k /\ k <= r.high
      BY CoveredBy
    <2>3. k \in a..b <=> k \in Nat /\ n.low <= k /\ k <= n.high  BY <1>1, SMT
    <2> QED BY <2>1, <2>2, <2>3
  <1> QED BY <1>2, <1>3 DEF n

\* A set with some ranges less.
LEMMA DropRanges ==
    ASSUME NEW R, Ranges(R), NEW D, D \subseteq R
    PROVE  Ranges(R \ D) /\ Covered(R) = Covered(R \ D) \cup Covered(D) /\ Ranges(D)
  <1>1. Ranges(R \ D) /\ Ranges(D)  BY DEF Ranges
  <1>2. ASSUME NEW k PROVE k \in Covered(R) <=> k \in Covered(R \ D) \cup Covered(D)
    BY <1>1, CoveredBy
  <1> QED BY <1>1, <1>2

LEMMA CoveredOne ==
    ASSUME NEW R, Ranges(R), NEW r \in R
    PROVE  Covered({r}) = r.low..r.high
  BY SMT DEF Covered

\* The first range is the one that begins with zero, and the number behind it is
\* free (FirstRange).
LEMMA FirstFacts ==
    ASSUME NEW R, Ranges(R), 0 \in Covered(R)
    PROVE  /\ FirstRange(R) \in R /\ FirstRange(R).low = 0
           /\ \A r \in R : r # FirstRange(R) => FirstRange(R).high + 1 < r.low
           /\ FirstRange(R).high \in Nat /\ FirstRange(R).high + 1 \in Nat
           /\ FirstRange(R).high + 1 \notin Covered(R)
  <1> DEFINE f == FirstRange(R)
  <1>1. PICK r \in R : r.low <= 0  BY CoveredBy
  <1>2. r.low = 0  BY <1>1, RangeFacts, SMT
  <1>3. f \in R /\ f.low = 0  BY <1>2 DEF FirstRange
  <1>4. f.high \in Nat  BY <1>3, RangeFacts
  <1> HIDE DEF f
  <1>5. f.high + 1 \in Nat  BY <1>4, SMT
  <1>6. ASSUME NEW s \in R, s # f PROVE f.high + 1 < s.low
    <2>1. f.high + 1 < s.low \/ s.high + 1 < f.low  BY <1>3, <1>6, RangesApart
    <2>2. s.high \in Nat  BY RangeFacts
    <2> QED BY <2>1, <2>2, <1>3, SMT
  <1>7. ASSUME f.high + 1 \in Covered(R) PROVE FALSE
    <2>1. PICK s \in R : s.low <= f.high + 1 /\ f.high + 1 <= s.high  BY <1>7, CoveredBy
    <2>2. s.low \in Nat /\ s.high \in Nat  BY RangeFacts
    <2>3. s # f  BY <2>1, <1>4, SMT
    <2>4. f.high + 1 < s.low  BY <2>3, <1>6
    <2> QED BY <2>1, <2>2, <2>4, <1>4, SMT
  <1> QED BY <1>3, <1>4, <1>5, <1>6, <1>7 DEF f

\* The range after the first, if there is one (NextRangeLow).
LEMMA NextFacts ==
    ASSUME NEW R, Ranges(R), 0 \in Covered(R)
    PROVE  \/ /\ R = {FirstRange(R)} /\ NextRangeLow(R) = MAX_INODE
           \/ \E g \in R : /\ g # FirstRange(R) /\ NextRangeLow(R) = g.low
                           /\ \A r \in R : r # FirstRange(R) => g.low <= r.low
  <1> DEFINE f == FirstRange(R)
             lows == {r.low : r \in R} \ {0}
  <1>1. f \in R /\ f.low = 0 /\ f.high \in Nat /\ \A r \in R : r # f => f.high + 1 < r.low
    BY FirstFacts
  <1>2. NextRangeLow(R) = IF lows = {} THEN MAX_INODE ELSE Min(lows)  BY DEF NextRangeLow
  <1> HIDE DEF f
  <1>3. ASSUME NEW r \in R, r # f PROVE r.low \in lows
    <2>1. f.high + 1 < r.low /\ r.low \in Nat  BY <1>1, <1>3, RangeFacts
    <2>2. r.low # 0  BY <2>1, <1>1, SMT
    <2> QED BY <2>2
  <1>4. ASSUME NEW x \in lows PROVE \E r \in R : r # f /\ x = r.low
    BY <1>1, <1>4
  <1>5. CASE lows = {}  BY <1>1, <1>2, <1>3, <1>5 DEF f
  <1>6. CASE lows # {}
    <2>1. lows \subseteq Nat  BY RangeFacts
    <2>2. PICK x \in lows : \A y \in lows : x <= y  BY <1>6, <2>1, LeastNat
    <2>3. Min(lows) \in lows /\ \A y \in lows : Min(lows) <= y
      BY <2>2 DEF Min
    <2>4. PICK g \in R : g # f /\ Min(lows) = g.low  BY <2>3, <1>4
    <2>5. \A r \in R : r # f => g.low <= r.low  BY <2>3, <2>4, <1>3
    <2> QED BY <1>2, <1>6, <2>4, <2>5 DEF f
  <1> QED BY <1>5, <1>6

\* nova_alloc_unused_inode takes the number behind the first range, which was free.
LEMMA AllocTakes ==
    ASSUME NEW R, Ranges(R), 0 \in Covered(R), CanAlloc(R)
    PROVE  /\ Ranges(nova_alloc_unused_inode(R))
           /\ Covered(nova_alloc_unused_inode(R)) = Covered(R) \cup {FirstRange(R).high + 1}
           /\ FirstRange(R).high + 1 <= Top
  <1> DEFINE f == FirstRange(R)
             new == f.high + 1
             next == {r \in R : r.low = f.high + 2}
             low == NextRangeLow(R)
  <1>1. /\ f \in R /\ f.low = 0 /\ f.high \in Nat /\ new \in Nat
        /\ \A r \in R : r # f => new < r.low
    BY FirstFacts
  <1>2. \/ R = {f} /\ low = MAX_INODE
        \/ \E g \in R : /\ g # f /\ low = g.low /\ \A r \in R : r # f => g.low <= r.low
    BY NextFacts
  <1>3. new < low - 1 \/ (low # MAX_INODE /\ new = low - 1)  BY DEF CanAlloc
  <1>4. nova_alloc_unused_inode(R) =
          IF next = {} THEN (R \ {f}) \cup {[f EXCEPT !.high = @ + 1]}
          ELSE (R \ ({f} \cup next)) \cup {RangeNode(0, (CHOOSE r \in next : TRUE).high)}
    BY DEF nova_alloc_unused_inode
  <1>5. f \in RangeNodes  BY <1>1, RangeFacts
  <1>6. [f EXCEPT !.high = @ + 1] = RangeNode(0, new)
    BY <1>1, <1>5, SMT DEF RangeNodes, RangeNode
  <1>7. Ranges(R \ {f}) /\ Covered(R) = Covered(R \ {f}) \cup (0..f.high)
    <2>0. {f} \subseteq R  BY <1>1
    <2>1. Ranges(R \ {f}) /\ Covered(R) = Covered(R \ {f}) \cup Covered({f})  BY <2>0, DropRanges
    <2> QED BY <2>1, <1>1, CoveredOne
  <1> HIDE DEF f, low
  <1>8. new <= Top
    <2>1. CASE R = {f} /\ low = MAX_INODE
      BY <1>1, <1>3, <2>1, InodeTableConstants, SMT DEF Top
    <2>2. CASE \E g \in R : g # f
      <3>1. PICK g \in R : g # f  BY <2>2
      <3>2. new < g.low /\ g.low \in Nat /\ g.high \in Nat /\ g.low <= g.high /\ g.high <= Top
        BY <3>1, <1>1, RangeFacts
      <3> QED BY <1>1, <3>2, RangeHighNat, SMT
    <2> QED BY <1>2, <2>1, <2>2
  <1>9. CASE next = {}
    <2>1. ASSUME NEW r \in R \ {f} PROVE r.high + 1 < 0 \/ new + 1 < r.low
      <3>1. new < r.low /\ r.low \in Nat /\ r.low # f.high + 2  BY <1>1, <1>9, RangeFacts
      <3> QED BY <1>1, <3>1, SMT
    <2>2. 0 \in Nat /\ 0 <= new /\ (0..f.high) \cup {new} = 0..new  BY <1>1, SMT
    <2>3. /\ Ranges((R \ {f}) \cup {RangeNode(0, new)})
          /\ Covered((R \ {f}) \cup {RangeNode(0, new)}) = Covered(R \ {f}) \cup (0..new)
      <3> DEFINE rest == R \ {f}
      <3>1. Ranges(rest) /\ \A r \in rest : r.high + 1 < 0 \/ new + 1 < r.low  BY <2>1, <1>7
      <3>2. 0 \in Nat /\ new \in Nat /\ 0 <= new /\ new <= Top  BY <2>2, <1>1, <1>8
      <3> HIDE DEF rest, new
      <3>3. /\ Ranges(rest \cup {RangeNode(0, new)})
            /\ Covered(rest \cup {RangeNode(0, new)}) = Covered(rest) \cup (0..new)
        BY ONLY <3>1, <3>2, AddRange, Zenon
      <3> QED BY <3>3 DEF rest
    <2>4. nova_alloc_unused_inode(R) = (R \ {f}) \cup {RangeNode(0, new)}  BY <1>4, <1>6, <1>9
    <2> HIDE DEF new
    <2>5. Covered(R \ {f}) \cup (0..new) = Covered(R) \cup {new}  BY <1>7, <2>2
    <2> QED BY <2>3, <2>4, <2>5, <1>8 DEF new, f
  <1>10. CASE next # {}
    <2> DEFINE g == CHOOSE r \in next : TRUE
    <2>1. g \in next  BY <1>10
    <2>2. g \in R /\ g.low = f.high + 2  BY <2>1
    <2> HIDE DEF g
    <2>3. g.low \in Nat /\ g.high \in Nat /\ g.low <= g.high /\ g.high <= Top  BY <2>2, RangeFacts
    <2>4. g # f  BY <2>2, <1>1, SMT
    <2>5. ASSUME NEW r \in R, r # f, r # g PROVE g.high + 1 < r.low
      <3>1. r.high + 1 < g.low \/ g.high + 1 < r.low  BY <2>2, <2>5, RangesApart
      <3>2. new < r.low /\ r.low \in Nat /\ r.high \in Nat /\ r.low <= r.high  BY <1>1, <2>5, RangeFacts
      <3> QED BY <3>1, <3>2, <2>2, <2>3, <1>1, SMT
    <2>6. next = {g}
      <3>1. ASSUME NEW r \in next, r # g PROVE FALSE
        <4>1. r \in R /\ r.low = f.high + 2  BY <3>1
        <4>2. r # f  BY <4>1, <1>1, SMT
        <4>3. g.high + 1 < r.low  BY <3>1, <4>1, <4>2, <2>5
        <4> QED BY <4>1, <4>3, <2>2, <2>3, <1>1, SMT
      <3> QED BY <3>1, <2>1
    <2> DEFINE rest == R \ ({f} \cup {g})
    <2>7. nova_alloc_unused_inode(R) = rest \cup {RangeNode(0, g.high)}
      BY <1>4, <1>10, <2>6 DEF g
    <2>8. Ranges(rest) /\ Covered(R) = Covered(rest) \cup ((0..f.high) \cup (g.low..g.high))
      <3>1. rest = (R \ {f}) \ {g} /\ g \in R \ {f}  BY <2>2, <2>4
      <3>2. Ranges((R \ {f}) \ {g}) /\ Covered(R \ {f}) = Covered((R \ {f}) \ {g}) \cup Covered({g})
        <4>1. {g} \subseteq R \ {f}  BY <3>1
        <4> QED BY <4>1, <1>7, DropRanges
      <3>3. Covered({g}) = g.low..g.high  BY <2>2, CoveredOne
      <3> QED BY <3>1, <3>2, <3>3, <1>7
    <2>9. 0 \in Nat /\ 0 <= g.high /\ \A r \in rest : r.high + 1 < 0 \/ g.high + 1 < r.low
      <3>1. 0 \in Nat /\ 0 <= g.high  BY <2>3, SMT
      <3> QED BY <3>1, <2>5
    <2>10. /\ Ranges(rest \cup {RangeNode(0, g.high)})
           /\ Covered(rest \cup {RangeNode(0, g.high)}) = Covered(rest) \cup (0..g.high)
      <3>1. Ranges(rest) /\ g.high \in Nat /\ g.high <= Top  BY <2>3, <2>8
      <3> HIDE DEF rest
      <3> QED BY ONLY <3>1, <2>9, AddRange, Zenon
    <2>11. 0..g.high = ((0..f.high) \cup (g.low..g.high)) \cup {new}  BY <2>2, <2>3, <1>1, SMT
    <2> HIDE DEF new, rest
    <2>12. Covered(rest) \cup (0..g.high) = Covered(R) \cup {new}  BY <2>8, <2>11
    <2> QED BY <2>7, <2>10, <2>12, <1>8 DEF new, f
  <1> QED BY <1>9, <1>10

\* It fails only when all numbers are taken.
LEMMA AllocFull ==
    ASSUME NEW R, Ranges(R), 0 \in Covered(R), ~CanAlloc(R)
    PROVE  Covered(R) = 0..Top
  <1> DEFINE f == FirstRange(R)
             low == NextRangeLow(R)
  <1>1. /\ f \in R /\ f.low = 0 /\ f.high \in Nat
        /\ \A r \in R : r # f => f.high + 1 < r.low
    BY FirstFacts
  <1>2. ~(f.high + 1 < low - 1 \/ (low # MAX_INODE /\ f.high + 1 = low - 1))  BY DEF CanAlloc
  <1>3. \/ R = {f} /\ low = MAX_INODE
        \/ \E g \in R : g # f /\ low = g.low
    BY NextFacts
  <1> HIDE DEF f, low
  <1>4. ASSUME NEW g \in R, g # f, low = g.low PROVE FALSE
    <2>1. f.high + 1 < g.low /\ g.low \in Nat /\ g.high \in Nat /\ g.low <= g.high /\ g.high <= Top
      BY <1>1, <1>4, RangeFacts
    <2> QED BY <2>1, <1>1, <1>2, <1>4, InodeTableConstants, SMT DEF Top
  <1>5. R = {f} /\ low = MAX_INODE  BY <1>3, <1>4
  <1>6. f.high <= Top  BY <1>1, RangeFacts
  <1>7. f.high = Top  BY <1>1, <1>2, <1>5, <1>6, InodeTableConstants, SMT DEF Top
  <1>8. Covered({f}) = f.low..f.high  BY <1>1, CoveredOne
  <1> QED BY <1>1, <1>5, <1>7, <1>8

\* nova_free_inuse_inode gives back the number, and no other (Remaining).
LEMMA FreeGives ==
    ASSUME NEW R, Ranges(R), NEW k \in Covered(R), NEW found, NEW rest,
           found = {r \in R : k \in r.low..r.high},
           rest = UNION {Remaining(r, k) : r \in found}
    PROVE  Ranges((R \ found) \cup rest) /\ Covered((R \ found) \cup rest) = Covered(R) \ {k}
  <1>1. PICK r \in R : k \in Nat /\ r.low <= k /\ k <= r.high  BY CoveredBy
  <1>2. r.low \in Nat /\ r.high \in Nat /\ r.low <= r.high /\ r.high <= Top  BY RangeFacts
  <1>3. \A s \in R : s # r => s.high + 1 < r.low \/ r.high + 1 < s.low  BY RangesApart
  <1>4. found = {r}
    <2>1. ASSUME NEW s \in found, s # r PROVE FALSE
      <3>1. s \in R /\ k \in s.low..s.high  BY <2>1
      <3>2. s.low \in Nat /\ s.high \in Nat  BY <3>1, RangeFacts
      <3>3. s.high + 1 < r.low \/ r.high + 1 < s.low  BY <2>1, <3>1, <1>3
      <3> QED BY <3>1, <3>2, <3>3, <1>1, <1>2, SMT
    <2>2. k \in r.low..r.high  BY <1>1, <1>2, SMT
    <2> QED BY <2>1, <2>2
  <1>5. rest = Remaining(r, k)
    <2>1. rest = UNION {Remaining(s, k) : s \in {r}}  BY <1>4
    <2> QED BY <2>1
  <1> DEFINE A == R \ {r}
             left == RangeNode(r.low, k - 1)
             right == RangeNode(k + 1, r.high)
             B == IF r.low < k THEN A \cup {left} ELSE A
             C == IF k < r.high THEN B \cup {right} ELSE B
  <1>6. Ranges(A) /\ Covered(R) = Covered(A) \cup (r.low..r.high)
    <2>1. {r} \subseteq R  OBVIOUS
    <2>2. Ranges(R \ {r}) /\ Covered(R) = Covered(R \ {r}) \cup Covered({r})  BY <2>1, DropRanges
    <2> QED BY <2>2, CoveredOne
  <1>7. \A s \in A : s.high + 1 < r.low \/ r.high + 1 < s.low  BY <1>3
  <1>8. \A s \in A : s.low \in Nat /\ s.high \in Nat  BY RangeFacts
  <1>9. k \notin Covered(A)
    <2>1. SUFFICES ASSUME NEW s \in A, s.low <= k /\ k <= s.high PROVE FALSE  BY <1>6, CoveredBy
    <2> QED BY <2>1, <1>1, <1>2, <1>7, <1>8, SMT
  <1> HIDE DEF A
  <1>10. Ranges(B) /\ Covered(B) = Covered(A) \cup (r.low..(k - 1))
    <2>1. CASE r.low < k
      <3>1. k - 1 \in Nat /\ r.low <= k - 1 /\ k - 1 <= Top  BY <1>1, <1>2, <2>1, RangeHighNat, SMT
      <3>2. ASSUME NEW s \in A PROVE s.high + 1 < r.low \/ (k - 1) + 1 < s.low
        BY <1>1, <1>2, <1>7, <1>8, SMT
      <3> DEFINE a == r.low
                 b == k - 1
      <3>3. /\ Ranges(A) /\ a \in Nat /\ b \in Nat /\ a <= b /\ b <= Top
            /\ \A s \in A : s.high + 1 < a \/ b + 1 < s.low
        BY <1>2, <1>6, <3>1, <3>2
      <3> HIDE DEF a, b
      <3>4. Ranges(A \cup {RangeNode(a, b)}) /\ Covered(A \cup {RangeNode(a, b)}) = Covered(A) \cup (a..b)
        BY ONLY <3>3, AddRange, Zenon
      <3> QED BY <3>4, <2>1 DEF a, b
    <2>2. CASE ~(r.low < k)
      <3>1. r.low..(k - 1) = {}  BY <1>1, <1>2, <2>2, SMT
      <3> QED BY <3>1, <2>2, <1>6
    <2> QED BY <2>1, <2>2
  <1>11. \A s \in B : s.high + 1 < k + 1 \/ r.high + 1 < s.low
    <2>1. ASSUME NEW s \in A PROVE s.high + 1 < k + 1 \/ r.high + 1 < s.low
      BY <1>1, <1>2, <1>7, <1>8, SMT
    <2>2. r.low < k => left.high + 1 < k + 1
      <3>1. SUFFICES ASSUME r.low < k PROVE left.high + 1 < k + 1  OBVIOUS
      <3>2. k - 1 \in Nat /\ (k - 1) + 1 < k + 1  BY <1>1, <1>2, <3>1, SMT
      <3> QED BY <1>2, <3>2, NodeFacts
    <2> HIDE DEF left
    <2> QED BY <2>1, <2>2
  <1> HIDE DEF B
  <1>12. Ranges(C) /\ Covered(C) = Covered(B) \cup ((k + 1)..r.high)
    <2>1. CASE k < r.high
      <3> DEFINE a == k + 1
                 b == r.high
      <3>1. /\ Ranges(B) /\ a \in Nat /\ b \in Nat /\ a <= b /\ b <= Top
            /\ \A s \in B : s.high + 1 < a \/ b + 1 < s.low
        <4>1. a \in Nat /\ a <= r.high  BY <1>1, <1>2, <2>1, SMT
        <4> QED BY <4>1, <1>2, <1>10, <1>11
      <3> HIDE DEF a, b
      <3>2. Ranges(B \cup {RangeNode(a, b)}) /\ Covered(B \cup {RangeNode(a, b)}) = Covered(B) \cup (a..b)
        BY ONLY <3>1, AddRange, Zenon
      <3> QED BY <3>2, <2>1 DEF a, b
    <2>2. CASE ~(k < r.high)
      <3>1. (k + 1)..r.high = {}  BY <1>1, <1>2, <2>2, SMT
      <3> QED BY <3>1, <2>2, <1>10
    <2> QED BY <2>1, <2>2
  <1>13. Covered(C) = Covered(R) \ {k}
    <2>1. r.low..r.high = (r.low..(k - 1)) \cup {k} \cup ((k + 1)..r.high)
          /\ k \notin r.low..(k - 1) /\ k \notin (k + 1)..r.high
      BY <1>1, <1>2, SMT
    <2> QED BY <2>1, <1>6, <1>9, <1>10, <1>12
  <1>14. (R \ found) \cup rest = C
    <2>1. rest = {s \in {left, right} : s.low <= s.high}  BY <1>5 DEF Remaining
    <2>2. left.low <= left.high <=> r.low < k
      <3>1. left.low = r.low /\ left.high = k - 1  BY SMT DEF RangeNode
      <3> QED BY <3>1, <1>1, <1>2, SMT
    <2>3. right.low <= right.high <=> k < r.high
      <3>1. right.low = k + 1 /\ right.high = r.high  BY SMT DEF RangeNode
      <3> QED BY <3>1, <1>1, <1>2, SMT
    <2> HIDE DEF left, right
    <2>4. R \ found = A  BY <1>4 DEF A
    <2> QED BY <2>1, <2>2, <2>3, <2>4 DEF B
  <1> QED BY <1>12, <1>13, <1>14

\* Where a set of ranges ends, by what it covers.
LEMMA EndOf ==
    ASSUME NEW R, Ranges(R), NEW a, \A x \in Covered(R) : x < a
    PROVE  \A r \in R : r.high < a
  <1>1. ASSUME NEW r \in R PROVE r.high \in Covered(R)
    <2>1. r.low \in Nat /\ r.high \in Nat /\ r.low <= r.high  BY RangeFacts
    <2>2. r.high <= r.high  BY <2>1, SMT
    <2> QED BY <2>1, <2>2, CoveredBy
  <1> QED BY <1>1

\* A run behind all ranges is added, joined with the last if that ends just before
\* (nova_failure_insert_inodetree).
LEMMA InsertAdds ==
    ASSUME NEW R, Ranges(R), NEW a \in Nat, NEW b \in Nat, a <= b, b <= Top,
           \A r \in R : r.high < a
    PROVE  /\ Ranges(nova_failure_insert_inodetree(R, a, b))
           /\ Covered(nova_failure_insert_inodetree(R, a, b)) = Covered(R) \cup (a..b)
  <1> DEFINE prev == {r \in R : r.high + 1 = a}
             next == {r \in R : r.low = b + 1}
             low == Min({a} \cup {r.low : r \in prev})
             high == Max({b} \cup {r.high : r \in next})
  <1>1. ASSUME NEW r \in R PROVE r.low \in Nat /\ r.high \in Nat /\ r.low <= r.high /\ r.high < a
    BY RangeFacts
  <1>2. ~\E r \in R : r.low <= b /\ a <= r.high  BY <1>1, SMT
  <1>3. next = {}
    <2>1. ASSUME NEW r \in R PROVE r.low # b + 1  BY <1>1, SMT
    <2> QED BY <2>1
  <1>4. high = b
    <2>1. {b} \cup {r.high : r \in next} = {b}  BY <1>3
    <2>2. b >= b  BY SMT
    <2>3. Max({b}) = b  BY <2>2, SMT DEF Max
    <2> QED BY <2>1, <2>3
  <1>5. nova_failure_insert_inodetree(R, a, b) = (R \ prev) \cup {RangeNode(low, b)}
    <2>1. nova_failure_insert_inodetree(R, a, b) = (R \ (prev \cup next)) \cup {RangeNode(low, high)}
      BY <1>2 DEF nova_failure_insert_inodetree
    <2> QED BY <2>1, <1>3, <1>4
  <1>6. CASE prev = {}
    <2>1. {a} \cup {r.low : r \in prev} = {a}  BY <1>6
    <2>2. a <= a  BY SMT
    <2>3. Min({a}) = a  BY <2>2, SMT DEF Min
    <2>4. low = a /\ R \ prev = R  BY <2>1, <2>3, <1>6
    <2>5. \A r \in R : r.high + 1 < a \/ b + 1 < r.low
      <3>1. ASSUME NEW r \in R PROVE r.high + 1 < a
        <4>1. r.high + 1 # a  BY <1>6
        <4> QED BY <4>1, <1>1, SMT
      <3> QED BY <3>1
    <2>6. Ranges(R \cup {RangeNode(a, b)}) /\ Covered(R \cup {RangeNode(a, b)}) = Covered(R) \cup (a..b)
      BY <2>5, AddRange
    <2> QED BY <1>5, <2>4, <2>6
  <1>7. CASE prev # {}
    <2>1. PICK p \in R : p.high + 1 = a  BY <1>7
    <2>2. p.low \in Nat /\ p.high \in Nat /\ p.low <= p.high  BY <1>1
    <2>3. prev = {p}
      <3>1. ASSUME NEW r \in prev, r # p PROVE FALSE
        <4>1. r \in R /\ r.high + 1 = a  BY <3>1
        <4>2. r.high + 1 < p.low \/ p.high + 1 < r.low  BY <3>1, <4>1, RangesApart
        <4>3. r.low \in Nat /\ r.high \in Nat /\ r.low <= r.high  BY <4>1, <1>1
        <4> QED BY <4>1, <4>2, <4>3, <2>1, <2>2, SMT
      <3> QED BY <3>1, <2>1
    <2>4. low = p.low
      <3>1. {a} \cup {r.low : r \in prev} = {a, p.low}  BY <2>3
      <3>2. p.low <= a /\ p.low <= p.low /\ ~(a <= p.low)  BY <2>1, <2>2, SMT
      <3>3. Min({a, p.low}) = p.low
        <4>1. \A x \in {a, p.low} : (\A y \in {a, p.low} : x <= y) <=> x = p.low  BY <3>2
        <4>2. Min({a, p.low}) = CHOOSE x \in {a, p.low} : \A y \in {a, p.low} : x <= y  BY DEF Min
        <4> QED BY <4>1, <4>2
      <3> QED BY <3>1, <3>3
    <2> DEFINE A == R \ {p}
    <2>5. Ranges(A) /\ Covered(R) = Covered(A) \cup (p.low..p.high)
      <3>1. {p} \subseteq R  OBVIOUS
      <3>2. Ranges(R \ {p}) /\ Covered(R) = Covered(R \ {p}) \cup Covered({p})  BY <3>1, DropRanges
      <3> QED BY <3>2, CoveredOne
    <2>6. p.low <= b /\ \A r \in A : r.high + 1 < p.low \/ b + 1 < r.low
      <3>1. p.low <= b  BY <2>1, <2>2, SMT
      <3>2. ASSUME NEW r \in A PROVE r.high + 1 < p.low
        <4>1. r.high + 1 < p.low \/ p.high + 1 < r.low  BY RangesApart
        <4>2. r.low \in Nat /\ r.high \in Nat /\ r.low <= r.high /\ r.high < a  BY <1>1
        <4> QED BY <4>1, <4>2, <2>1, <2>2, SMT
      <3> QED BY <3>1, <3>2
    <2>7. R \ prev = A  BY <2>3
    <2> HIDE DEF A, prev, low
    <2>8. /\ Ranges(A \cup {RangeNode(p.low, b)})
          /\ Covered(A \cup {RangeNode(p.low, b)}) = Covered(A) \cup (p.low..b)
      <3> DEFINE l == p.low
      <3>1. /\ Ranges(A) /\ l \in Nat /\ b \in Nat /\ l <= b /\ b <= Top
            /\ \A r \in A : r.high + 1 < l \/ b + 1 < r.low
        BY <2>2, <2>5, <2>6
      <3> HIDE DEF l
      <3>2. Ranges(A \cup {RangeNode(l, b)}) /\ Covered(A \cup {RangeNode(l, b)}) = Covered(A) \cup (l..b)
        BY ONLY <3>1, AddRange, Zenon
      <3> QED BY <3>2 DEF l
    <2>9. p.low..b = (p.low..p.high) \cup (a..b)  BY <2>1, <2>2, SMT
    <2> QED BY <1>5, <2>4, <2>5, <2>7, <2>8, <2>9
  <1> QED BY <1>6, <1>7

-----------------------------------------------------------------------------
(* Trees: the ranges of a CPU and the numbers that they stand for.          *)

\* Only the numbers of the CPU matter.
LEMMA TreeSame ==
    ASSUME NEW c, NEW R, NEW own, NEW own2, Tree(c, R, own),
           \A k \in Internals : Ino(c, k) \in own <=> Ino(c, k) \in own2
    PROVE  Tree(c, R, own2)
  <1>1. Taken(c, own) = Taken(c, own2)  BY DEF Taken
  <1> QED BY <1>1 DEF Tree

LEMMA TreeZero ==
    ASSUME NEW c, NEW R, NEW own, Tree(c, R, own)
    PROVE  Ranges(R) /\ 0 \in Covered(R)
  <1>1. 0 \in 0..RangeHigh  BY RangeHighNat, SMT
  <1> QED BY <1>1 DEF Tree, Taken

\* A number of another CPU comes or goes.
LEMMA TreeOther ==
    ASSUME NEW c \in CPUs, NEW R, NEW own, NEW n, Tree(c, R, own), Cpu(n) # c
    PROVE  Tree(c, R, own \cup {n}) /\ Tree(c, R, own \ {n})
  <1>1. ASSUME NEW k \in Internals PROVE Ino(c, k) # n
    <2>1. k \in Nat  BY InternalsNat
    <2> QED BY <2>1, InoTells
  <1>2. \A k \in Internals : Ino(c, k) \in own <=> Ino(c, k) \in own \cup {n}  BY <1>1
  <1>3. \A k \in Internals : Ino(c, k) \in own <=> Ino(c, k) \in own \ {n}  BY <1>1
  <1> QED BY <1>2, <1>3, TreeSame

\* A number is taken.
LEMMA TreeAlloc ==
    ASSUME NEW c \in CPUs, NEW R, NEW own, Tree(c, R, own), CanAlloc(R),
           NEW k, k = FirstRange(R).high + 1
    PROVE  /\ k \in Internals /\ Ino(c, k) \notin own
           /\ Tree(c, nova_alloc_unused_inode(R), own \cup {Ino(c, k)})
  <1>1. Ranges(R) /\ 0 \in Covered(R) /\ Covered(R) = Taken(c, own)  BY TreeZero DEF Tree
  <1>2. k \in Nat /\ k \notin Covered(R)  BY <1>1, FirstFacts
  <1>3. /\ Ranges(nova_alloc_unused_inode(R))
        /\ Covered(nova_alloc_unused_inode(R)) = Covered(R) \cup {k} /\ k <= Top
    BY <1>1, AllocTakes
  <1>4. k \in Internals
    <2>1. k \notin 0..RangeHigh  BY <1>1, <1>2 DEF Taken
    <2>2. RangeHigh < k  BY <2>1, <1>2, RangeHighNat, SMT
    <2> QED BY <2>2, <1>2, <1>3, InternalsNat
  <1>5. Ino(c, k) \notin own  BY <1>1, <1>2, <1>4 DEF Taken
  <1>6. ASSUME NEW j PROVE j \in Taken(c, own \cup {Ino(c, k)}) <=> j \in Taken(c, own) \cup {k}
    <2>1. ASSUME j \in Internals, Ino(c, j) = Ino(c, k) PROVE j = k
      <3>1. j \in Nat /\ k \in Nat  BY <1>2, <2>1, InternalsNat
      <3> QED BY <3>1, <2>1, InoTells
    <2> QED BY <2>1, <1>4 DEF Taken
  <1>7. Taken(c, own \cup {Ino(c, k)}) = Covered(nova_alloc_unused_inode(R))  BY <1>1, <1>3, <1>6
  <1> QED BY <1>3, <1>4, <1>5, <1>7 DEF Tree

\* A number is given back.
LEMMA TreeFree ==
    ASSUME NEW n \in Inos, NEW R, NEW own, Tree(Cpu(n), R, own), n \in own, NEW found, NEW rest,
           found = {r \in R : Internal(n) \in r.low..r.high},
           rest = UNION {Remaining(r, Internal(n)) : r \in found}
    PROVE  Tree(Cpu(n), (R \ found) \cup rest, own \ {n})
  <1> DEFINE c == Cpu(n)
             k == Internal(n)
  <1>1. c \in CPUs /\ k \in Internals /\ n = Ino(c, k)  BY InosTell
  <1>2. Ranges(R) /\ Covered(R) = Taken(c, own)  BY DEF Tree
  <1>3. found = {r \in R : k \in r.low..r.high} /\ rest = UNION {Remaining(r, k) : r \in found}
    OBVIOUS
  <1> HIDE DEF c, k
  <1>4. k \in Covered(R)  BY <1>1, <1>2 DEF Taken
  <1>5. Ranges((R \ found) \cup rest) /\ Covered((R \ found) \cup rest) = Covered(R) \ {k}
    BY <1>2, <1>3, <1>4, FreeGives
  <1>6. k \notin 0..RangeHigh
    <2>1. k \in Nat /\ RangeHigh < k  BY <1>1, InternalsNat
    <2> QED BY <2>1, RangeHighNat, SMT
  <1>7. ASSUME NEW j PROVE j \in Taken(c, own \ {n}) <=> j \in Taken(c, own) \ {k}
    <2>1. ASSUME j \in Internals, Ino(c, j) = n PROVE j = k
      <3>1. j \in Nat /\ k \in Nat  BY <1>1, <2>1, InternalsNat
      <3> QED BY <3>1, <2>1, <1>1, InoTells
    <2> QED BY <2>1, <1>1, <1>6 DEF Taken
  <1>8. Taken(c, own \ {n}) = Covered((R \ found) \cup rest)  BY <1>2, <1>5, <1>7
  <1> QED BY <1>5, <1>8 DEF Tree, c

-----------------------------------------------------------------------------
(* Threads: which numbers they work on after a step of one of them.         *)

BusyLabels == {"new", "commit", "evict", "free"}

\* Every other thread stays where it was.
LEMMA PcAfter ==
    ASSUME Types, NEW t \in Threads, NEW l, Goto(t, l)
    PROVE  pc'[t] = l /\ \A u \in Threads : u # t => pc'[u] = pc[u]
  BY DEF Types, Goto

LEMMA BusyBy == \A u \in Threads : u \in Busy <=> pc[u] \in BusyLabels
  BY DEF Busy, BusyLabels

LEMMA BusyByAfter == \A u \in Threads : u \in Busy' <=> pc'[u] \in BusyLabels
  BY DEF Busy, BusyLabels

LEMMA WorkingBy ==
    /\ \A x : x \in Working <=> \E u \in Busy : x = req[u].ino
    /\ \A x : x \in Working' <=> \E u \in Busy' : x = req'[u].ino
  BY DEF Working

\* A step of t that neither begins nor ends the work on a number; an error may
\* leave some numbers in use.
LEMMA ThreadsSame ==
    ASSUME Types, ThreadsOK, NEW t \in Threads, NEW l, Goto(t, l),
           mode = "mounted", mode' = mode, l # "new",
           pc[t] \in BusyLabels <=> l \in BusyLabels,
           \A u \in Busy : req'[u].ino = req[u].ino,
           Live' = Live, NEW X, leaked' = leaked \cup X, X \cap (Live \cup Working) = {},
           \A n \in Inos : InTable(n) => InTable(n)',
           \A u \in Busy : u # t => slot'[req[u].ino] = slot[req[u].ino],
           l = "commit" => /\ pc[t] = "new"
                           /\ slot'[req[t].ino].mode /\ ~slot'[req[t].ino].deleted
    PROVE  Busy' = Busy /\ Working' = Working /\ ThreadsOK'
  <1>1. pc'[t] = l /\ \A u \in Threads : u # t => pc'[u] = pc[u]  BY PcAfter
  <1>2. Busy' = Busy
    <2>1. \A u \in Threads : u \in Busy' <=> u \in Busy  BY <1>1, BusyBy, BusyByAfter
    <2>2. Busy \subseteq Threads /\ Busy' \subseteq Threads  BY DEF Busy
    <2> QED BY <2>1, <2>2
  <1>3. Working' = Working
    <2>1. ASSUME NEW x \in Working' PROVE x \in Working
      <3>1. PICK u \in Busy' : x = req'[u].ino  BY <2>1, WorkingBy
      <3>2. u \in Busy /\ x = req[u].ino  BY <3>1, <1>2
      <3> QED BY <3>2, WorkingBy
    <2>2. ASSUME NEW x \in Working PROVE x \in Working'
      <3>1. PICK u \in Busy : x = req[u].ino  BY <2>2, WorkingBy
      <3>2. u \in Busy' /\ x = req'[u].ino  BY <3>1, <1>2
      <3> QED BY <3>2, WorkingBy
    <2> QED BY <2>1, <2>2
  <1>4. /\ \A u, v \in Busy : u # v => req[u].ino # req[v].ino
        /\ \A u \in Busy : req[u].ino \in Inos /\ req[u].ino \notin Live \cup leaked
        /\ \A u \in Threads : pc[u] \in {"new", "commit"} => InTable(req[u].ino)
        /\ \A u \in Threads : pc[u] = "commit" => slot[req[u].ino].mode /\ ~slot[req[u].ino].deleted
        /\ leaked \cap Live = {}
    BY DEF ThreadsOK
  <1>5. ASSUME NEW u \in Busy', NEW v \in Busy', u # v PROVE req'[u].ino # req'[v].ino
    <2>1. u \in Busy /\ v \in Busy  BY <1>2
    <2>2. req'[u].ino = req[u].ino /\ req'[v].ino = req[v].ino  BY <2>1
    <2> QED BY <2>1, <2>2, <1>4, <1>5
  <1>6. ASSUME NEW u \in Busy' PROVE req'[u].ino \in Inos /\ req'[u].ino \notin Live' \cup leaked'
    <2>1. u \in Busy /\ req'[u].ino = req[u].ino /\ req[u].ino \in Working  BY <1>2 DEF Working
    <2>2. req[u].ino \in Inos /\ req[u].ino \notin Live \cup leaked  BY <2>1, <1>4
    <2>3. req[u].ino \notin X  BY <2>1
    <2> QED BY <2>1, <2>2, <2>3
  <1>7. ASSUME NEW u \in Threads, pc'[u] \in {"new", "commit"} PROVE InTable(req[u].ino)'
    <2>1. u \in Busy  BY <1>2, <1>7, BusyByAfter DEF BusyLabels
    <2>2. pc[u] \in {"new", "commit"}  BY <1>1, <1>7
    <2>3. InTable(req[u].ino) /\ req[u].ino \in Inos  BY <2>1, <2>2, <1>4
    <2>4. PICK n \in Inos : n = req[u].ino  BY <2>3
    <2>5. InTable(n)' /\ req'[u].ino = n  BY <2>1, <2>3, <2>4
    <2> QED BY <2>5 DEF InTable
  <1>8. ASSUME NEW u \in Threads, pc'[u] = "commit"
        PROVE  slot'[req'[u].ino].mode /\ ~slot'[req'[u].ino].deleted
    <2>1. u \in Busy  BY <1>2, <1>8, BusyByAfter DEF BusyLabels
    <2>2. CASE u = t  BY <2>1, <2>2, <1>1, <1>8
    <2>3. CASE u # t  BY <2>1, <2>3, <1>1, <1>4, <1>8
    <2> QED BY <2>2, <2>3
  <1>9. leaked' \cap Live' = {}  BY <1>4
  <1>10. ThreadsOK'  BY <1>5, <1>6, <1>7, <1>8, <1>9 DEF ThreadsOK
  <1> QED BY <1>2, <1>3, <1>10

\* A step with which t begins to work on number n.
LEMMA ThreadsMore ==
    ASSUME Types, ThreadsOK, NEW t \in Threads, NEW l, Goto(t, l),
           mode = "mounted", mode' = mode,
           pc[t] \notin BusyLabels, l \in BusyLabels, l # "commit",
           NEW n \in Inos, req'[t].ino = n, n \notin Working, n \notin Live' \cup leaked',
           \A u \in Busy : req'[u].ino = req[u].ino,
           Live' \subseteq Live, leaked' = leaked,
           \A m \in Inos : InTable(m) => InTable(m)',
           l = "new" => InTable(n)',
           \A u \in Busy : slot'[req[u].ino] = slot[req[u].ino]
    PROVE  Busy' = Busy \cup {t} /\ Working' = Working \cup {n} /\ ThreadsOK'
  <1>1. pc'[t] = l /\ \A u \in Threads : u # t => pc'[u] = pc[u]  BY PcAfter
  <1>2. Busy' = Busy \cup {t} /\ t \notin Busy
    <2>1. \A u \in Threads : u \in Busy' <=> u \in Busy \cup {t}  BY <1>1, BusyBy, BusyByAfter
    <2>2. Busy \subseteq Threads /\ Busy' \subseteq Threads  BY DEF Busy
    <2> QED BY <2>1, <2>2, BusyBy
  <1>3. Working' = Working \cup {n}
    <2>1. ASSUME NEW x \in Working' PROVE x \in Working \cup {n}
      <3>1. PICK u \in Busy' : x = req'[u].ino  BY <2>1, WorkingBy
      <3>2. u = t \/ (u \in Busy /\ x = req[u].ino)  BY <3>1, <1>2
      <3> QED BY <3>1, <3>2, WorkingBy
    <2>2. ASSUME NEW x \in Working PROVE x \in Working'
      <3>1. PICK u \in Busy : x = req[u].ino  BY <2>2, WorkingBy
      <3>2. u \in Busy' /\ x = req'[u].ino  BY <3>1, <1>2
      <3> QED BY <3>2, WorkingBy
    <2>3. n \in Working'  BY <1>2, WorkingBy
    <2> QED BY <2>1, <2>2, <2>3
  <1>4. /\ \A u, v \in Busy : u # v => req[u].ino # req[v].ino
        /\ \A u \in Busy : req[u].ino \in Inos /\ req[u].ino \notin Live \cup leaked
        /\ \A u \in Threads : pc[u] \in {"new", "commit"} => InTable(req[u].ino)
        /\ \A u \in Threads : pc[u] = "commit" => slot[req[u].ino].mode /\ ~slot[req[u].ino].deleted
        /\ leaked \cap Live = {}
    BY DEF ThreadsOK
  <1>5. \A u \in Busy : req[u].ino # n  BY WorkingBy
  <1>6. ASSUME NEW u \in Busy', NEW v \in Busy', u # v PROVE req'[u].ino # req'[v].ino
    <2>1. CASE u = t
      <3>1. v \in Busy  BY <1>2, <1>6, <2>1
      <3> QED BY <3>1, <2>1, <1>5
    <2>2. CASE v = t
      <3>1. u \in Busy  BY <1>2, <1>6, <2>2
      <3> QED BY <3>1, <2>2, <1>5
    <2>3. CASE u # t /\ v # t
      <3>1. u \in Busy /\ v \in Busy  BY <1>2, <2>3
      <3>2. req'[u].ino = req[u].ino /\ req'[v].ino = req[v].ino  BY <3>1
      <3> QED BY <3>1, <3>2, <1>4, <1>6
    <2> QED BY <2>1, <2>2, <2>3
  <1>7. ASSUME NEW u \in Busy' PROVE req'[u].ino \in Inos /\ req'[u].ino \notin Live' \cup leaked'
    <2>1. CASE u = t  BY <2>1
    <2>2. CASE u # t
      <3>1. u \in Busy /\ req'[u].ino = req[u].ino  BY <1>2, <2>2
      <3>2. req[u].ino \in Inos /\ req[u].ino \notin Live \cup leaked  BY <3>1, <1>4
      <3> QED BY <3>1, <3>2
    <2> QED BY <2>1, <2>2
  <1>8. ASSUME NEW u \in Threads, pc'[u] \in {"new", "commit"} PROVE InTable(req[u].ino)'
    <2>1. u \in Busy'  BY <1>8, BusyByAfter DEF BusyLabels
    <2>2. CASE u = t
      <3>1. l = "new"  BY <2>2, <1>1, <1>8
      <3> QED BY <3>1, <2>2 DEF InTable
    <2>3. CASE u # t
      <3>1. u \in Busy /\ pc[u] \in {"new", "commit"}  BY <2>1, <2>3, <1>1, <1>2, <1>8
      <3>2. InTable(req[u].ino) /\ req[u].ino \in Inos  BY <3>1, <1>4
      <3>3. PICK m \in Inos : m = req[u].ino  BY <3>2
      <3>4. InTable(m)' /\ req'[u].ino = m  BY <3>1, <3>2, <3>3
      <3> QED BY <3>4 DEF InTable
    <2> QED BY <2>2, <2>3
  <1>9. ASSUME NEW u \in Threads, pc'[u] = "commit"
        PROVE  slot'[req'[u].ino].mode /\ ~slot'[req'[u].ino].deleted
    <2>1. u \in Busy'  BY <1>9, BusyByAfter DEF BusyLabels
    <2>2. u # t  BY <1>1, <1>9
    <2>3. u \in Busy /\ pc[u] = "commit"  BY <2>1, <2>2, <1>1, <1>2, <1>9
    <2> QED BY <2>3, <1>4
  <1>10. leaked' \cap Live' = {}  BY <1>4
  <1>11. ThreadsOK'  BY <1>6, <1>7, <1>8, <1>9, <1>10 DEF ThreadsOK
  <1> QED BY <1>2, <1>3, <1>11

\* A step with which t ends its work on a number.
LEMMA ThreadsLess ==
    ASSUME Types, ThreadsOK, NEW t \in Threads, Goto(t, "idle"),
           mode = "mounted", mode' = mode, pc[t] \in BusyLabels, req' = req,
           NEW n, n = req[t].ino,
           Live' \cup leaked' \subseteq Live \cup leaked \cup {n}, leaked' \cap Live' = {},
           pages' = pages,
           \A u \in Busy : u # t => slot'[req[u].ino] = slot[req[u].ino]
    PROVE  Busy' = Busy \ {t} /\ Working' = Working \ {n} /\ ThreadsOK'
  <1>1. pc'[t] = "idle" /\ \A u \in Threads : u # t => pc'[u] = pc[u]  BY PcAfter
  <1>2. Busy' = Busy \ {t} /\ t \in Busy
    <2>1. \A u \in Threads : u \in Busy' <=> u \in Busy \ {t}  BY <1>1, BusyBy, BusyByAfter DEF BusyLabels
    <2>2. Busy \subseteq Threads /\ Busy' \subseteq Threads  BY DEF Busy
    <2> QED BY <2>1, <2>2, BusyBy
  <1>3. /\ \A u, v \in Busy : u # v => req[u].ino # req[v].ino
        /\ \A u \in Busy : req[u].ino \in Inos /\ req[u].ino \notin Live \cup leaked
        /\ \A u \in Threads : pc[u] \in {"new", "commit"} => InTable(req[u].ino)
        /\ \A u \in Threads : pc[u] = "commit" => slot[req[u].ino].mode /\ ~slot[req[u].ino].deleted
    BY DEF ThreadsOK
  <1>4. \A u \in Busy : u # t => req[u].ino # n  BY <1>2, <1>3
  <1>5. Working' = Working \ {n}
    <2>1. ASSUME NEW x \in Working' PROVE x \in Working \ {n}
      <3>1. PICK u \in Busy' : x = req'[u].ino  BY <2>1, WorkingBy
      <3>2. u \in Busy /\ u # t /\ x = req[u].ino  BY <3>1, <1>2
      <3> QED BY <3>2, <1>4, WorkingBy
    <2>2. ASSUME NEW x \in Working \ {n} PROVE x \in Working'
      <3>1. PICK u \in Busy : x = req[u].ino  BY <2>2, WorkingBy
      <3>2. u \in Busy' /\ x = req'[u].ino  BY <3>1, <2>2, <1>2
      <3> QED BY <3>2, WorkingBy
    <2> QED BY <2>1, <2>2
  <1>6. \A u, v \in Busy' : u # v => req'[u].ino # req'[v].ino  BY <1>2, <1>3
  <1>7. \A u \in Busy' : req'[u].ino \in Inos /\ req'[u].ino \notin Live' \cup leaked'
    BY <1>2, <1>3, <1>4
  <1>8. ASSUME NEW u \in Threads, pc'[u] \in {"new", "commit"} PROVE InTable(req[u].ino)'
    <2>1. u # t  BY <1>1, <1>8
    <2>2. InTable(req[u].ino)  BY <2>1, <1>1, <1>3, <1>8
    <2> QED BY <2>2 DEF InTable
  <1>9. ASSUME NEW u \in Threads, pc'[u] = "commit"
        PROVE  slot'[req'[u].ino].mode /\ ~slot'[req'[u].ino].deleted
    <2>1. u # t  BY <1>1, <1>9
    <2>2. u \in Busy /\ pc[u] = "commit"  BY <2>1, <1>1, <1>9, BusyBy DEF BusyLabels
    <2> QED BY <2>1, <2>2, <1>3
  <1>10. ThreadsOK'  BY <1>6, <1>7, <1>8, <1>9 DEF ThreadsOK
  <1> QED BY <1>2, <1>5, <1>10

-----------------------------------------------------------------------------
(* Slots.                                                                   *)

\* Superpages are only added, so a slot stays in the table.
LEMMA TableGrows ==
    ASSUME pages \in [CPUs -> Nat], pages' \in [CPUs -> Nat],
           \A c \in CPUs : pages[c] <= pages'[c]
    PROVE  \A n \in Inos : InTable(n) => InTable(n)'
  <1> SUFFICES ASSUME NEW n \in Inos, InTable(n) PROVE InTable(n)'
    OBVIOUS
  <1>1. Cpu(n) \in CPUs /\ Internal(n) \in Internals  BY InosTell
  <1>2. PICK k \in Nat : k = Internal(n)  BY <1>1, InternalsNat
  <1>3. PICK p \in Nat : p = pages[Cpu(n)]  BY <1>1
  <1>4. PICK q \in Nat : q = pages'[Cpu(n)]  BY <1>1
  <1>5. k < p * InodesPerPage /\ p <= q  BY <1>1, <1>2, <1>3, <1>4 DEF InTable
  <1>6. InodesPerPage \in Nat  BY InodeTableConstants
  <1>7. p * InodesPerPage <= q * InodesPerPage
    <2>1. p * InodesPerPage = InodesPerPage * p /\ q * InodesPerPage = InodesPerPage * q
          /\ InodesPerPage * p \in Nat /\ InodesPerPage * q \in Nat
      BY <1>6, ProductNat
    <2>2. p < q => InodesPerPage * p + InodesPerPage <= InodesPerPage * q  BY <1>6, ProductsApart
    <2>3. p = q \/ p < q  BY <1>5, SMT
    <2> QED BY <2>1, <2>2, <2>3, <1>6, SMT
  <1>8. p * InodesPerPage \in Nat /\ q * InodesPerPage \in Nat  BY <1>6, ProductNat
  <1>9. k < q * InodesPerPage  BY <1>5, <1>7, <1>8, SMT
  <1> QED BY <1>2, <1>4, <1>9 DEF InTable

\* The slots are as they were.
LEMMA SlotsKept ==
    ASSUME SlotsOK, slot' = slot, dur' = dur, \A n \in Inos : InTable(n) => InTable(n)'
    PROVE  Live' = Live /\ SlotsOK'
  <1>1. Live' = Live  BY DEF Live
  <1>2. ASSUME NEW n \in Inos
        PROVE  /\ dur'[n].valid = slot'[n].valid /\ dur'[n].held = slot'[n].held
               /\ n \in Live' => /\ slot'[n] = dur'[n] /\ slot'[n].mode /\ ~slot'[n].deleted
                                 /\ ~(slot'[n].valid /\ slot'[n].held) /\ InTable(n)'
    BY <1>1 DEF SlotsOK
  <1> QED BY <1>1, <1>2 DEF SlotsOK

\* Slot n becomes s, of which d is durable.
LEMMA SlotSet ==
    ASSUME Types, SlotsOK, NEW n \in Inos, NEW s \in Slots, NEW d \in Slots,
           slot' = [slot EXCEPT ![n] = s], dur' = [dur EXCEPT ![n] = d], pages' = pages,
           d.valid = s.valid, d.held = s.held,
           s.valid \/ s.held => s = d /\ s.mode /\ ~s.deleted /\ ~(s.valid /\ s.held) /\ InTable(n)
    PROVE  /\ slot' \in [Inos -> Slots] /\ dur' \in [Inos -> Slots]
           /\ SlotsOK'
           /\ s.valid \/ s.held => Live' = Live \cup {n}
           /\ ~(s.valid \/ s.held) => Live' = Live \ {n}
           /\ slot'[n] = s
           /\ \A m \in Inos : m # n => slot'[m] = slot[m]
           /\ \A m \in Inos : InTable(m) => InTable(m)'
  <1>1. /\ slot'[n] = s /\ dur'[n] = d
        /\ \A m \in Inos : m # n => slot'[m] = slot[m] /\ dur'[m] = dur[m]
        /\ slot' \in [Inos -> Slots] /\ dur' \in [Inos -> Slots]
    BY DEF Types
  <1>2. \A m : m \in Live' <=> m \in Inos /\ (slot'[m].valid \/ slot'[m].held)  BY DEF Live
  <1>3. \A m : m \in Live <=> m \in Inos /\ (slot[m].valid \/ slot[m].held)  BY DEF Live
  <1>4. \A m \in Inos : m # n => (m \in Live' <=> m \in Live)  BY <1>1, <1>2, <1>3
  <1>5. n \in Live' <=> s.valid \/ s.held  BY <1>1, <1>2
  <1>6. Live \subseteq Inos /\ Live' \subseteq Inos  BY DEF Live
  <1>7. \A m \in Inos : InTable(m) => InTable(m)'  BY DEF InTable
  <1>8. ASSUME NEW m \in Inos
        PROVE  /\ dur'[m].valid = slot'[m].valid /\ dur'[m].held = slot'[m].held
               /\ m \in Live' => /\ slot'[m] = dur'[m] /\ slot'[m].mode /\ ~slot'[m].deleted
                                 /\ ~(slot'[m].valid /\ slot'[m].held) /\ InTable(m)'
    <2>1. CASE m = n  BY <2>1, <1>1, <1>5, <1>7
    <2>2. CASE m # n
      <3>1. slot'[m] = slot[m] /\ dur'[m] = dur[m] /\ (m \in Live' <=> m \in Live)  BY <2>2, <1>1, <1>4
      <3>2. /\ dur[m].valid = slot[m].valid /\ dur[m].held = slot[m].held
            /\ m \in Live => /\ slot[m] = dur[m] /\ slot[m].mode /\ ~slot[m].deleted
                             /\ ~(slot[m].valid /\ slot[m].held) /\ InTable(m)
        BY DEF SlotsOK
      <3> QED BY <3>1, <3>2, <1>7
    <2> QED BY <2>1, <2>2
  <1>9. SlotsOK'  BY <1>8 DEF SlotsOK
  <1> QED BY <1>1, <1>4, <1>5, <1>6, <1>7, <1>9

\* A step of a thread while the file system is mounted: of trees and scans, only
\* the ranges in use need a look.
LEMMA MountedStep ==
    ASSUME IInv, mode = "mounted", UNCHANGED <<list, blocknode, mode, scan>>,
           \A c \in CPUs : Tree(c, inuse'[c], Live' \cup Working' \cup leaked')
    PROVE  TreesOK' /\ ScansOK'
  <1>1. blocknode = FALSE
    <2>1. blocknode \in BOOLEAN /\ (blocknode => mode = "down")  BY DEF IInv, Types, TreesOK
    <2> QED BY <2>1
  <1>2. \A c \in CPUs : Ranges(inuse'[c])  BY DEF Tree
  <1>3. TreesOK'
    <2>1. list.state # "fresh"  BY DEF IInv, TreesOK
    <2> QED BY <1>1, <1>2, <2>1 DEF TreesOK
  <1>4. ScansOK'  BY DEF IInv, ScansOK
  <1> QED BY <1>3, <1>4

-----------------------------------------------------------------------------
(* Creating an inode.                                                       *)

\* What a thread can rely on.
LEMMA Mounted ==
    ASSUME IInv, NEW t \in Threads, mode = "mounted" \/ pc[t] # "idle"
    PROVE  /\ mode = "mounted"
           /\ \A c \in CPUs : Tree(c, inuse[c], Live \cup Working \cup leaked)
           /\ pc[t] \in BusyLabels => /\ req[t].ino \in Inos /\ req[t].ino \in Working
                                      /\ req[t].ino \notin Live \cup leaked
                                      /\ \A u \in Busy : u # t => req[u].ino # req[t].ino /\ req[u].ino \in Inos
           /\ req[t].map \in CPUs
           /\ Working \subseteq Inos /\ Live \subseteq Inos /\ leaked \subseteq Inos
           /\ leaked \cap Live = {} /\ Working \cap (Live \cup leaked) = {}
  <1>1. mode = "mounted"  BY DEF IInv, ThreadsOK
  <1>2. \A c \in CPUs : Tree(c, inuse[c], Live \cup Working \cup leaked)  BY <1>1 DEF IInv, TreesOK
  <1>3. /\ \A u, v \in Busy : u # v => req[u].ino # req[v].ino
        /\ \A u \in Busy : req[u].ino \in Inos /\ req[u].ino \notin Live \cup leaked
        /\ leaked \cap Live = {}
    BY DEF IInv, ThreadsOK
  <1>4. pc[t] \in BusyLabels => t \in Busy  BY BusyBy
  <1>5. req[t].map \in CPUs /\ leaked \subseteq Inos  BY DEF IInv, Types
  <1>6. Working \subseteq Inos /\ Working \cap (Live \cup leaked) = {}
    <2>1. ASSUME NEW x \in Working PROVE x \in Inos /\ x \notin Live \cup leaked
      <3>1. PICK u \in Busy : x = req[u].ino  BY <2>1, WorkingBy
      <3> QED BY <3>1, <1>3
    <2> QED BY <2>1
  <1>7. Live \subseteq Inos  BY DEF Live
  <1>8. pc[t] \in BusyLabels => /\ req[t].ino \in Inos /\ req[t].ino \in Working
                                /\ req[t].ino \notin Live \cup leaked
                                /\ \A u \in Busy : u # t => req[u].ino # req[t].ino /\ req[u].ino \in Inos
    BY <1>3, <1>4, WorkingBy
  <1> QED BY <1>1, <1>2, <1>3, <1>5, <1>6, <1>7, <1>8

\* Steps that change no slot, no number and no range.
LEMMA QuietStep ==
    ASSUME IInv, NEW t \in Threads, mode = "mounted" \/ pc[t] # "idle",
           NEW l \in Labels, Goto(t, l), pc[t] \notin BusyLabels, l \notin BusyLabels,
           map_id' \in CPUs, req' \in [Threads -> [map : CPUs, ino : Nat]],
           \A u \in Threads : req'[u].ino = req[u].ino, NoSpaceOK',
           UNCHANGED <<inuse, pages, slot, dur, list, blocknode, mode, scan, leaked>>
    PROVE  IInv'
  <1>1. /\ mode = "mounted" /\ \A c \in CPUs : Tree(c, inuse[c], Live \cup Working \cup leaked)
    BY Mounted
  <1>2. \A n \in Inos : InTable(n) => InTable(n)'  BY DEF InTable
  <1>3. Live' = Live /\ SlotsOK'  BY <1>2, SlotsKept DEF IInv
  <1>4. Busy' = Busy /\ Working' = Working /\ ThreadsOK'
    <2>1. l # "new" /\ l # "commit"  BY DEF BusyLabels
    <2>2. \A u \in Busy : req'[u].ino = req[u].ino  BY DEF Busy
    <2>3. leaked' = leaked \cup {} /\ {} \cap (Live \cup Working) = {}  OBVIOUS
    <2>4. Types /\ ThreadsOK  BY DEF IInv
    <2> QED BY <1>1, <1>2, <1>3, <2>1, <2>2, <2>3, <2>4, ThreadsSame
  <1>5. Types'
    <2>1. pc' \in [Threads -> Labels]  BY DEF IInv, Types, Goto
    <2> QED BY <2>1 DEF IInv, Types
  <1>6. TreesOK' /\ ScansOK'
    <2>1. \A c \in CPUs : Tree(c, inuse'[c], Live' \cup Working' \cup leaked')  BY <1>1, <1>3, <1>4
    <2> QED BY <1>1, <2>1, MountedStep
  <1> QED BY <1>3, <1>4, <1>5, <1>6 DEF IInv

LEMMA ReadMapStep == ASSUME IInv, NEW t \in Threads, read_map_id(t) PROVE IInv'
  <1>1. /\ mode = "mounted" /\ pc[t] = "idle" /\ req' = [req EXCEPT ![t].map = map_id] /\ Goto(t, "map")
        /\ UNCHANGED <<inuse, map_id, pages, slot, dur, list, blocknode, mode, scan, leaked, nospace>>
    BY DEF read_map_id
  <1>2. map_id \in CPUs /\ req \in [Threads -> [map : CPUs, ino : Nat]] /\ NoSpaceOK  BY DEF IInv, Types
  <1>3. req' \in [Threads -> [map : CPUs, ino : Nat]] /\ \A u \in Threads : req'[u].ino = req[u].ino
    BY <1>1, <1>2, SMT
  <1>4. "map" \in Labels /\ "map" \notin BusyLabels /\ "idle" \notin BusyLabels  BY DEF Labels, BusyLabels
  <1>5. NoSpaceOK'  BY <1>1, <1>2 DEF NoSpaceOK
  <1> QED BY <1>1, <1>2, <1>3, <1>4, <1>5, QuietStep

LEMMA StoreMapStep == ASSUME IInv, NEW t \in Threads, store_map_id(t) PROVE IInv'
  <1>1. /\ pc[t] = "map" /\ \E m \in {req[t].map, map_id} : map_id' = (m + 1) % cpus
        /\ Goto(t, "alloc")
        /\ UNCHANGED <<inuse, pages, slot, dur, list, blocknode, mode, scan, req, leaked, nospace>>
    BY DEF store_map_id
  <1>2. map_id \in CPUs /\ req \in [Threads -> [map : CPUs, ino : Nat]] /\ NoSpaceOK  BY DEF IInv, Types
  <1>3. map_id' \in CPUs
    <2>1. PICK m \in CPUs : map_id' = (m + 1) % cpus  BY <1>1, <1>2
    <2>2. m + 1 \in Nat /\ cpus \in Nat \ {0}  BY CPUsNat, SMT
    <2>3. (m + 1) % cpus \in CPUs  BY <2>2, DivNat DEF CPUs
    <2> QED BY <2>1, <2>3
  <1>4. "alloc" \in Labels /\ "alloc" \notin BusyLabels /\ "map" \notin BusyLabels  BY DEF Labels, BusyLabels
  <1>5. NoSpaceOK'  BY <1>1, <1>2 DEF NoSpaceOK
  <1> QED BY <1>1, <1>2, <1>3, <1>4, <1>5, QuietStep

\* The larger of two numbers.
LEMMA MaxOfTwo ==
    ASSUME NEW a \in Nat, NEW b \in Nat
    PROVE  Max({a, b}) \in Nat /\ a <= Max({a, b}) /\ b <= Max({a, b})
  <1>1. \E x \in {a, b} : \A y \in {a, b} : x >= y
    <2>1. CASE a >= b
      <3>1. \A y \in {a, b} : a >= y  BY <2>1, SMT
      <3> QED BY <3>1
    <2>2. CASE ~(a >= b)
      <3>1. \A y \in {a, b} : b >= y  BY <2>2, SMT
      <3> QED BY <3>1
    <2> QED BY <2>1, <2>2
  <1>2. Max({a, b}) \in {a, b} /\ \A y \in {a, b} : Max({a, b}) >= y  BY <1>1 DEF Max
  <1>3. PICK m \in Nat : m = Max({a, b}) /\ m >= a /\ m >= b  BY <1>2
  <1>4. a <= m /\ b <= m  BY <1>3, SMT
  <1> QED BY <1>3, <1>4

\* The table has the slot of internal number k once it has superpage k / InodesPerPage.
LEMMA SlotInTable ==
    ASSUME NEW k \in Nat, NEW q \in Nat, k \div InodesPerPage + 1 <= q
    PROVE  k < q * InodesPerPage
  <1>1. InodesPerPage \in Nat \ {0}  BY InodeTableConstants
  <1>2. PICK d \in Nat : d = k \div InodesPerPage  BY <1>1, DivNat
  <1>3. PICK m \in 0..(InodesPerPage - 1) : k = InodesPerPage * d + m  BY <1>1, <1>2, DivNat
  <1>4. InodesPerPage * d \in Nat /\ InodesPerPage * q \in Nat /\ q * InodesPerPage = InodesPerPage * q
    BY <1>1, ProductNat
  <1>5. d + 1 <= q  BY <1>2
  <1>6. d < q  BY <1>5, SMT
  <1>7. InodesPerPage * d + InodesPerPage <= InodesPerPage * q  BY <1>1, <1>6, ProductsApart
  <1> QED BY <1>1, <1>3, <1>4, <1>7, SMT

\* The trees of all CPUs when the one of c takes number k.
LEMMA AllocTrees ==
    ASSUME NEW c \in CPUs, NEW own, inuse \in [CPUs -> SUBSET RangeNodes],
           \A d \in CPUs : Tree(d, inuse[d], own), CanAlloc(inuse[c]),
           NEW k, k = FirstRange(inuse[c]).high + 1,
           inuse' = [inuse EXCEPT ![c] = nova_alloc_unused_inode(@)]
    PROVE  /\ k \in Internals /\ Ino(c, k) \in Inos /\ Ino(c, k) \notin own
           /\ inuse' \in [CPUs -> SUBSET RangeNodes]
           /\ \A d \in CPUs : Tree(d, inuse'[d], own \cup {Ino(c, k)})
  <1>1. /\ k \in Internals /\ Ino(c, k) \notin own
        /\ Tree(c, nova_alloc_unused_inode(inuse[c]), own \cup {Ino(c, k)})
    BY TreeAlloc
  <1>2. Cpu(Ino(c, k)) = c /\ Ino(c, k) \in Inos
    <2>1. k \in Nat  BY <1>1, InternalsNat
    <2> QED BY <2>1, <1>1, InoTells, InoOf
  <1>3. nova_alloc_unused_inode(inuse[c]) \in SUBSET RangeNodes  BY <1>1 DEF Tree, Ranges
  <1>4. /\ inuse'[c] = nova_alloc_unused_inode(inuse[c]) /\ \A d \in CPUs : d # c => inuse'[d] = inuse[d]
        /\ inuse' \in [CPUs -> SUBSET RangeNodes]
    BY <1>3
  <1>5. ASSUME NEW d \in CPUs PROVE Tree(d, inuse'[d], own \cup {Ino(c, k)})
    <2>1. CASE d = c  BY <2>1, <1>1, <1>4
    <2>2. CASE d # c
      <3>1. Tree(d, inuse[d], own) /\ Cpu(Ino(c, k)) # d /\ inuse'[d] = inuse[d]  BY <2>2, <1>2, <1>4
      <3> QED BY <3>1, TreeOther
    <2> QED BY <2>1, <2>2
  <1> QED BY <1>1, <1>2, <1>4, <1>5

\* The number is taken and its slot is in the table.
LEMMA NewNumberStep ==
    ASSUME IInv, NEW t \in Threads, pc[t] = "alloc", NEW c \in CPUs, c = req[t].map, CanAlloc(inuse[c]),
           NEW k, k = FirstRange(inuse[c]).high + 1,
           inuse' = [inuse EXCEPT ![c] = nova_alloc_unused_inode(@)],
           pages' = [pages EXCEPT ![c] = Max({@, k \div InodesPerPage + 1})],
           req' = [req EXCEPT ![t].ino = Ino(c, k)], Goto(t, "new"),
           UNCHANGED <<map_id, slot, dur, list, blocknode, mode, scan, leaked, nospace>>
    PROVE  IInv'
  <1>1. /\ mode = "mounted" /\ \A d \in CPUs : Tree(d, inuse[d], Live \cup Working \cup leaked)
        /\ leaked \cap Live = {}
    BY Mounted
  <1>2. Types /\ SlotsOK /\ ThreadsOK  BY DEF IInv
  <1>3. /\ inuse \in [CPUs -> SUBSET RangeNodes] /\ pages \in [CPUs -> Nat]
        /\ req \in [Threads -> [map : CPUs, ino : Nat]] /\ pc \in [Threads -> Labels]
    BY <1>2 DEF Types
  <1> DEFINE n == Ino(c, k)
  <1>4. /\ k \in Internals /\ n \in Inos /\ n \notin Live \cup Working \cup leaked
        /\ inuse' \in [CPUs -> SUBSET RangeNodes]
        /\ \A d \in CPUs : Tree(d, inuse'[d], (Live \cup Working \cup leaked) \cup {n})
    <2> DEFINE own == Live \cup Working \cup leaked
    <2>1. /\ c \in CPUs /\ inuse \in [CPUs -> SUBSET RangeNodes] /\ \A d \in CPUs : Tree(d, inuse[d], own)
          /\ CanAlloc(inuse[c]) /\ k = FirstRange(inuse[c]).high + 1
          /\ inuse' = [inuse EXCEPT ![c] = nova_alloc_unused_inode(@)]
      BY <1>1, <1>3
    <2> HIDE DEF own
    <2>2. /\ k \in Internals /\ Ino(c, k) \in Inos /\ Ino(c, k) \notin own
          /\ inuse' \in [CPUs -> SUBSET RangeNodes]
          /\ \A d \in CPUs : Tree(d, inuse'[d], own \cup {Ino(c, k)})
      BY ONLY <2>1, AllocTrees, Zenon
    <2> QED BY <2>2 DEF own
  <1>5. k \in Nat /\ n \in Nat /\ Cpu(n) = c /\ Internal(n) = k  BY <1>4, InternalsNat, InoTells
  <1> HIDE DEF n
  <1>6. k \div InodesPerPage + 1 \in Nat
    <2>1. InodesPerPage \in Nat \ {0}  BY InodeTableConstants
    <2>2. PICK d \in Nat : d = k \div InodesPerPage  BY <2>1, <1>5, DivNat
    <2>3. d + 1 \in Nat  BY SMT
    <2> QED BY <2>2, <2>3
  <1>7. PICK p \in Nat : p = k \div InodesPerPage + 1  BY <1>6
  <1>8. /\ pages' \in [CPUs -> Nat] /\ p <= pages'[c] /\ \A d \in CPUs : pages[d] <= pages'[d]
    <2>1. pages' = [pages EXCEPT ![c] = Max({pages[c], p})]  BY <1>7
    <2>2. pages[c] \in Nat  BY <1>3
    <2>3. Max({pages[c], p}) \in Nat /\ pages[c] <= Max({pages[c], p}) /\ p <= Max({pages[c], p})
      BY <2>2, MaxOfTwo
    <2>4. \A d \in CPUs : d # c => pages'[d] = pages[d]  BY <2>1, <1>3
    <2>5. pages'[c] = Max({pages[c], p})  BY <2>1, <1>3
    <2>6. \A d \in CPUs : pages[d] <= pages[d]
      <3>1. ASSUME NEW d \in CPUs PROVE pages[d] <= pages[d]
        <4>1. pages[d] \in Nat  BY <1>3
        <4> QED BY <4>1, SMT
      <3> QED BY <3>1
    <2>7. pages' \in [CPUs -> Nat]  BY <2>1, <2>3, <1>3
    <2> QED BY <2>3, <2>4, <2>5, <2>6, <2>7
  <1>9. \A m \in Inos : InTable(m) => InTable(m)'  BY <1>3, <1>8, TableGrows
  <1>10. InTable(n)'
    <2>1. PICK q \in Nat : q = pages'[c]  BY <1>8
    <2>2. k \div InodesPerPage + 1 <= q  BY <2>1, <1>7, <1>8
    <2>3. k < q * InodesPerPage  BY <2>2, <1>5, SlotInTable
    <2>4. Internal(n) < pages'[Cpu(n)] * InodesPerPage  BY <2>1, <2>3, <1>5
    <2> QED BY <2>4 DEF InTable, n
  <1>11. Live' = Live /\ SlotsOK'  BY <1>2, <1>9, SlotsKept
  <1>12. /\ req' \in [Threads -> [map : CPUs, ino : Nat]] /\ req'[t].ino = n
         /\ \A u \in Threads : u # t => req'[u] = req[u]
    <2>1. req' = [req EXCEPT ![t].ino = n]  BY DEF n
    <2> QED BY <2>1, <1>3, <1>5, SMT
  <1>13. Busy' = Busy \cup {t} /\ Working' = Working \cup {n} /\ ThreadsOK'
    <2>1. "new" \in BusyLabels /\ pc[t] \notin BusyLabels /\ "new" # "commit"  BY DEF BusyLabels
    <2>2. t \notin Busy /\ Busy \subseteq Threads  BY <2>1, BusyBy DEF Busy
    <2>3. \A u \in Busy : req'[u].ino = req[u].ino  BY <2>2, <1>12
    <2>4. n \notin Working /\ n \notin Live' \cup leaked' /\ Live' \subseteq Live  BY <1>4, <1>11
    <2> QED BY <1>1, <1>2, <1>4, <1>9, <1>10, <1>12, <2>1, <2>3, <2>4, ThreadsMore
  <1>14. Types'
    <2>1. pc' \in [Threads -> Labels]  BY <1>3 DEF Goto, Labels
    <2> QED BY <2>1, <1>2, <1>4, <1>8, <1>12 DEF Types
  <1>15. TreesOK' /\ ScansOK'
    <2>1. Live' \cup Working' \cup leaked' = (Live \cup Working \cup leaked) \cup {n}  BY <1>11, <1>13
    <2>2. \A d \in CPUs : Tree(d, inuse'[d], Live' \cup Working' \cup leaked')  BY <1>4, <2>1
    <2> QED BY <1>1, <2>2, MountedStep
  <1>16. NoSpaceOK'  BY DEF IInv, NoSpaceOK
  <1> QED BY <1>11, <1>13, <1>14, <1>15, <1>16 DEF IInv

\* The number is taken, and stays so: there is no superpage for its slot.
LEMMA LostNumberStep ==
    ASSUME IInv, NEW t \in Threads, pc[t] = "alloc", NEW c \in CPUs, CanAlloc(inuse[c]),
           NEW k, k = FirstRange(inuse[c]).high + 1,
           inuse' = [inuse EXCEPT ![c] = nova_alloc_unused_inode(@)],
           leaked' = leaked \cup {Ino(c, k)}, Goto(t, "idle"),
           UNCHANGED <<map_id, pages, slot, dur, list, blocknode, mode, scan, req, nospace>>
    PROVE  IInv'
  <1>1. mode = "mounted" /\ \A d \in CPUs : Tree(d, inuse[d], Live \cup Working \cup leaked)
    BY Mounted
  <1>2. Types /\ SlotsOK /\ ThreadsOK  BY DEF IInv
  <1>3. inuse \in [CPUs -> SUBSET RangeNodes] /\ pc \in [Threads -> Labels] /\ leaked \subseteq Inos
    BY <1>2 DEF Types
  <1> DEFINE n == Ino(c, k)
  <1>4. /\ n \in Inos /\ n \notin Live \cup Working \cup leaked
        /\ inuse' \in [CPUs -> SUBSET RangeNodes]
        /\ \A d \in CPUs : Tree(d, inuse'[d], (Live \cup Working \cup leaked) \cup {n})
    <2> DEFINE own == Live \cup Working \cup leaked
    <2>1. /\ c \in CPUs /\ inuse \in [CPUs -> SUBSET RangeNodes] /\ \A d \in CPUs : Tree(d, inuse[d], own)
          /\ CanAlloc(inuse[c]) /\ k = FirstRange(inuse[c]).high + 1
          /\ inuse' = [inuse EXCEPT ![c] = nova_alloc_unused_inode(@)]
      BY <1>1, <1>3
    <2> HIDE DEF own
    <2>2. /\ Ino(c, k) \in Inos /\ Ino(c, k) \notin own
          /\ inuse' \in [CPUs -> SUBSET RangeNodes]
          /\ \A d \in CPUs : Tree(d, inuse'[d], own \cup {Ino(c, k)})
      BY ONLY <2>1, AllocTrees, Zenon
    <2> QED BY <2>2 DEF own
  <1>5. leaked' = leaked \cup {n}  OBVIOUS
  <1> HIDE DEF n
  <1>6. \A m \in Inos : InTable(m) => InTable(m)'  BY DEF InTable
  <1>7. Live' = Live /\ SlotsOK'  BY <1>2, <1>6, SlotsKept
  <1>8. Busy' = Busy /\ Working' = Working /\ ThreadsOK'
    <2>1. pc[t] \notin BusyLabels /\ "idle" \notin BusyLabels /\ "idle" # "new" /\ "idle" # "commit"
      BY DEF BusyLabels
    <2>2. {n} \cap (Live \cup Working) = {}  BY <1>4
    <2>3. \A u \in Busy : req'[u].ino = req[u].ino  OBVIOUS
    <2> QED BY <1>1, <1>2, <1>5, <1>6, <1>7, <2>1, <2>2, <2>3, ThreadsSame
  <1>9. Types'
    <2>1. pc' \in [Threads -> Labels]  BY <1>3 DEF Goto, Labels
    <2> QED BY <2>1, <1>2, <1>3, <1>4, <1>5 DEF Types
  <1>10. TreesOK' /\ ScansOK'
    <2>1. Live' \cup Working' \cup leaked' = (Live \cup Working \cup leaked) \cup {n}  BY <1>5, <1>7, <1>8
    <2>2. \A d \in CPUs : Tree(d, inuse'[d], Live' \cup Working' \cup leaked')  BY <1>4, <2>1
    <2> QED BY <1>1, <2>2, MountedStep
  <1>11. NoSpaceOK'  BY DEF IInv, NoSpaceOK
  <1> QED BY <1>7, <1>8, <1>9, <1>10, <1>11 DEF IInv

LEMMA NewStep == ASSUME IInv, NEW t \in Threads, nova_new_nova_inode(t) PROVE IInv'
  <1>1. PICK c \in CPUs : c = req[t].map  BY DEF IInv, Types
  <1> DEFINE k == FirstRange(inuse[c]).high + 1
  <1>2. /\ pc[t] = "alloc"
        /\ IF CanAlloc(inuse[c])
           THEN /\ inuse' = [inuse EXCEPT ![c] = nova_alloc_unused_inode(@)]
                /\ \/ /\ pages' = [pages EXCEPT ![c] = Max({@, k \div InodesPerPage + 1})]
                      /\ req' = [req EXCEPT ![t].ino = Ino(c, k)] /\ Goto(t, "new") /\ UNCHANGED leaked
                   \/ /\ leaked' = leaked \cup {Ino(c, k)} /\ Goto(t, "idle") /\ UNCHANGED <<pages, req>>
                /\ UNCHANGED nospace
           ELSE /\ nospace' = Append(nospace, <<c, Covered(inuse[c])>>)
                /\ Goto(t, "idle") /\ UNCHANGED <<inuse, pages, req, leaked>>
        /\ UNCHANGED <<map_id, slot, dur, list, blocknode, mode, scan>>
    BY <1>1 DEF nova_new_nova_inode
  <1>3. PICK j : j = k  OBVIOUS
  <1> HIDE DEF k
  <1>4. CASE CanAlloc(inuse[c])
    <2>1. CASE Goto(t, "new") /\ UNCHANGED leaked /\ req' = [req EXCEPT ![t].ino = Ino(c, k)]
               /\ pages' = [pages EXCEPT ![c] = Max({@, k \div InodesPerPage + 1})]
      <3>1. j = FirstRange(inuse[c]).high + 1  BY <1>3 DEF k
      <3>2. /\ inuse' = [inuse EXCEPT ![c] = nova_alloc_unused_inode(@)]
            /\ pages' = [pages EXCEPT ![c] = Max({@, j \div InodesPerPage + 1})]
            /\ req' = [req EXCEPT ![t].ino = Ino(c, j)] /\ Goto(t, "new")
            /\ UNCHANGED <<map_id, slot, dur, list, blocknode, mode, scan, leaked, nospace>>
        BY <1>2, <1>3, <1>4, <2>1
      <3> QED BY <1>1, <1>2, <1>4, <3>1, <3>2, NewNumberStep
    <2>2. CASE leaked' = leaked \cup {Ino(c, k)} /\ Goto(t, "idle") /\ UNCHANGED <<pages, req>>
      <3>1. j = FirstRange(inuse[c]).high + 1  BY <1>3 DEF k
      <3>2. /\ inuse' = [inuse EXCEPT ![c] = nova_alloc_unused_inode(@)]
            /\ leaked' = leaked \cup {Ino(c, j)} /\ Goto(t, "idle")
            /\ UNCHANGED <<map_id, pages, slot, dur, list, blocknode, mode, scan, req, nospace>>
        BY <1>2, <1>3, <1>4, <2>2
      <3> QED BY <1>2, <1>4, <3>1, <3>2, LostNumberStep
    <2> QED BY <1>2, <1>4, <2>1, <2>2
  <1>5. CASE ~CanAlloc(inuse[c])
    <2>1. /\ nospace' = Append(nospace, <<c, Covered(inuse[c])>>) /\ Goto(t, "idle")
          /\ UNCHANGED <<inuse, map_id, pages, slot, dur, list, blocknode, mode, scan, req, leaked>>
      BY <1>2, <1>5
    <2>2. Tree(c, inuse[c], Live \cup Working \cup leaked)  BY <1>2, Mounted
    <2>3. Covered(inuse[c]) = 0..Top
      <3>1. Ranges(inuse[c]) /\ 0 \in Covered(inuse[c])  BY <2>2, TreeZero
      <3> QED BY <3>1, <1>5, AllocFull
    <2>4. NoSpaceOK'
      <3>1. nospace \in Seq(CPUs \X {0..Top})  BY DEF IInv, NoSpaceOK
      <3>2. <<c, Covered(inuse[c])>> \in CPUs \X {0..Top}  BY <2>3
      <3>3. PICK e \in CPUs \X {0..Top} : e = <<c, Covered(inuse[c])>>  BY <3>2
      <3>4. Append(nospace, e) \in Seq(CPUs \X {0..Top})  BY <3>1, SMT
      <3> QED BY <2>1, <3>3, <3>4 DEF NoSpaceOK
    <2>5. map_id' \in CPUs /\ req' \in [Threads -> [map : CPUs, ino : Nat]]  BY <2>1 DEF IInv, Types
    <2>6. "idle" \in Labels /\ "idle" \notin BusyLabels /\ "alloc" \notin BusyLabels  BY DEF Labels, BusyLabels
    <2>7. \A u \in Threads : req'[u].ino = req[u].ino  BY <2>1
    <2> QED BY <1>2, <2>1, <2>4, <2>5, <2>6, <2>7, QuietStep
  <1> QED BY <1>4, <1>5

\* The fields of a slot that is written.
LEMMA SlotFields ==
    ASSUME NEW s \in Slots
    PROVE  LET filled == [s EXCEPT !.mode = TRUE, !.deleted = FALSE]
               named == [s EXCEPT !.valid = TRUE]
               released == [s EXCEPT !.held = FALSE]
               marked == [s EXCEPT !.deleted = TRUE]
           IN  /\ filled \in Slots /\ named \in Slots /\ released \in Slots /\ marked \in Slots
               /\ filled.mode = TRUE /\ filled.deleted = FALSE /\ filled.valid = s.valid /\ filled.held = s.held
               /\ named.valid = TRUE /\ named.mode = s.mode /\ named.deleted = s.deleted /\ named.held = s.held
               /\ released.held = FALSE /\ released.valid = s.valid /\ released.mode = s.mode
               /\ released.deleted = s.deleted
               /\ marked.valid = s.valid /\ marked.held = s.held
  BY DEF Slots

\* A step that writes the slot of the number that t works on, which nothing shows yet.
LEMMA OwnSlotStep ==
    ASSUME IInv, NEW t \in Threads, pc[t] \in BusyLabels, NEW n, n = req[t].ino,
           NEW l \in BusyLabels, Goto(t, l), l # "new",
           NEW s \in Slots, NEW d \in Slots,
           slot' = [slot EXCEPT ![n] = s], dur' = [dur EXCEPT ![n] = d],
           ~s.valid, ~s.held, ~d.valid, ~d.held,
           l = "commit" => pc[t] = "new" /\ s.mode /\ ~s.deleted,
           UNCHANGED <<inuse, map_id, pages, list, blocknode, mode, scan, req, leaked, nospace>>
    PROVE  IInv'
  <1>1. /\ mode = "mounted" /\ \A c \in CPUs : Tree(c, inuse[c], Live \cup Working \cup leaked)
        /\ n \in Inos /\ n \notin Live \cup leaked
        /\ \A u \in Busy : u # t => req[u].ino # n /\ req[u].ino \in Inos
    <2>1. pc[t] # "idle"  BY DEF BusyLabels
    <2> QED BY <2>1, Mounted
  <1>2. Types /\ SlotsOK /\ ThreadsOK  BY DEF IInv
  <1>3. /\ slot' \in [Inos -> Slots] /\ dur' \in [Inos -> Slots] /\ SlotsOK'
        /\ Live' = Live \ {n} /\ slot'[n] = s
        /\ \A m \in Inos : m # n => slot'[m] = slot[m]
        /\ \A m \in Inos : InTable(m) => InTable(m)'
    <2>1. d.valid = s.valid /\ d.held = s.held  BY SMT DEF Slots
    <2> QED BY <1>1, <1>2, <2>1, SlotSet
  <1>4. Live' = Live
    <2>1. n \notin Live  BY <1>1
    <2>2. Live \ {n} = Live  BY <2>1
    <2> QED BY <2>2, <1>3
  <1>5. Busy' = Busy /\ Working' = Working /\ ThreadsOK'
    <2>1. \A u \in Busy : u # t => slot'[req[u].ino] = slot[req[u].ino]  BY <1>1, <1>3
    <2>2. leaked' = leaked \cup {} /\ {} \cap (Live \cup Working) = {}  OBVIOUS
    <2>3. \A u \in Busy : req'[u].ino = req[u].ino  OBVIOUS
    <2>4. l = "commit" => pc[t] = "new" /\ slot'[req[t].ino].mode /\ ~slot'[req[t].ino].deleted
      BY <1>3
    <2>5. /\ t \in Threads /\ Goto(t, l) /\ l # "new" /\ (pc[t] \in BusyLabels <=> l \in BusyLabels)
          /\ mode = "mounted" /\ mode' = mode
      BY <1>1
    <2>6. \A m \in Inos : InTable(m) => InTable(m)'  BY <1>3
    <2> QED BY ONLY <1>2, <1>4, <2>1, <2>2, <2>3, <2>4, <2>5, <2>6, ThreadsSame, Zenon
  <1>6. Types'
    <2>1. pc' \in [Threads -> Labels]
      <3>1. l \in Labels  BY DEF BusyLabels, Labels
      <3> QED BY <1>2, <3>1 DEF Types, Goto
    <2> QED BY <2>1, <1>2, <1>3 DEF Types
  <1>7. TreesOK' /\ ScansOK'
    <2>1. \A c \in CPUs : Tree(c, inuse'[c], Live' \cup Working' \cup leaked')  BY <1>1, <1>4, <1>5
    <2> QED BY <1>1, <2>1, MountedStep
  <1>8. NoSpaceOK'  BY DEF IInv, NoSpaceOK
  <1> QED BY <1>3, <1>5, <1>6, <1>7, <1>8 DEF IInv

\* What nothing shows has neither mark, in the slot or in what is durable of it.
LEMMA Unseen ==
    ASSUME IInv, NEW n \in Inos, n \notin Live
    PROVE  /\ slot[n] \in Slots /\ dur[n] \in Slots
           /\ ~slot[n].valid /\ ~slot[n].held /\ ~dur[n].valid /\ ~dur[n].held
  <1>1. slot[n] \in Slots /\ dur[n] \in Slots  BY DEF IInv, Types
  <1>2. ~slot[n].valid /\ ~slot[n].held  BY DEF Live
  <1>3. dur[n].valid = slot[n].valid /\ dur[n].held = slot[n].held  BY DEF IInv, SlotsOK
  <1> QED BY <1>1, <1>2, <1>3

LEMMA NewInodeStep == ASSUME IInv, NEW t \in Threads, nova_new_vfs_inode(t) PROVE IInv'
  <1>1. /\ pc[t] = "new" /\ Goto(t, "commit")
        /\ slot' = [slot EXCEPT ![req[t].ino] = [@ EXCEPT !.mode = TRUE, !.deleted = FALSE]]
        /\ UNCHANGED <<inuse, map_id, pages, dur, list, blocknode, mode, scan, req, leaked, nospace>>
    BY DEF nova_new_vfs_inode
  <1>2. pc[t] \in BusyLabels /\ pc[t] # "idle" /\ "commit" \in BusyLabels /\ "commit" # "new"
    BY <1>1 DEF BusyLabels
  <1>3. PICK n \in Inos : n = req[t].ino /\ n \notin Live  BY <1>2, Mounted
  <1>4. /\ slot[n] \in Slots /\ dur[n] \in Slots
        /\ ~slot[n].valid /\ ~slot[n].held /\ ~dur[n].valid /\ ~dur[n].held
    BY <1>3, Unseen
  <1>5. PICK s : s = [slot[n] EXCEPT !.mode = TRUE, !.deleted = FALSE]  OBVIOUS
  <1>6. s \in Slots /\ s.mode /\ ~s.deleted /\ ~s.valid /\ ~s.held
    BY <1>4, <1>5, SlotFields
  <1>7. slot' = [slot EXCEPT ![n] = s]  BY <1>1, <1>3, <1>5
  <1>8. PICK d \in Slots : d = dur[n] /\ ~d.valid /\ ~d.held  BY <1>4
  <1>9. dur' = [dur EXCEPT ![n] = d]
    <2>1. dur \in [Inos -> Slots]  BY DEF IInv, Types
    <2> QED BY <2>1, <1>1, <1>8
  <1>10. /\ IInv /\ t \in Threads /\ pc[t] \in BusyLabels /\ n = req[t].ino /\ Goto(t, "commit")
         /\ pc[t] = "new" /\ s \in Slots /\ d \in Slots /\ ~s.valid /\ ~s.held /\ ~d.valid /\ ~d.held
         /\ s.mode /\ ~s.deleted
         /\ UNCHANGED <<inuse, map_id, pages, list, blocknode, mode, scan, req, leaked, nospace>>
    BY <1>1, <1>2, <1>3, <1>6, <1>8
  <1> QED BY ONLY <1>2, <1>7, <1>9, <1>10, OwnSlotStep, Zenon

LEMMA FreeResourceStep == ASSUME IInv, NEW t \in Threads, nova_free_inode_resource(t) PROVE IInv'
  <1>1. /\ pc[t] = "evict" /\ Goto(t, "free")
        /\ slot' = [slot EXCEPT ![req[t].ino].deleted = TRUE]
        /\ dur' = [dur EXCEPT ![req[t].ino] = slot'[req[t].ino]]
        /\ UNCHANGED <<inuse, map_id, pages, list, blocknode, mode, scan, req, leaked, nospace>>
    BY DEF nova_free_inode_resource
  <1>2. pc[t] \in BusyLabels /\ pc[t] # "idle" /\ "free" \in BusyLabels /\ "free" # "new" /\ "free" # "commit"
    BY <1>1 DEF BusyLabels
  <1>3. PICK n \in Inos : n = req[t].ino /\ n \notin Live  BY <1>2, Mounted
  <1>4. slot[n] \in Slots /\ ~slot[n].valid /\ ~slot[n].held  BY <1>3, Unseen
  <1>5. PICK s : s = [slot[n] EXCEPT !.deleted = TRUE]  OBVIOUS
  <1>6. s \in Slots /\ ~s.valid /\ ~s.held
    BY <1>4, <1>5, SlotFields
  <1>7. slot' = [slot EXCEPT ![n] = s]  BY <1>1, <1>3, <1>5
  <1>8. dur' = [dur EXCEPT ![n] = s]
    <2>1. slot \in [Inos -> Slots]  BY DEF IInv, Types
    <2>2. slot'[n] = s  BY <2>1, <1>7
    <2> QED BY <2>2, <1>1, <1>3
  <1>9. /\ IInv /\ t \in Threads /\ pc[t] \in BusyLabels /\ n = req[t].ino /\ Goto(t, "free")
        /\ s \in Slots /\ ~s.valid /\ ~s.held
        /\ UNCHANGED <<inuse, map_id, pages, list, blocknode, mode, scan, req, leaked, nospace>>
    BY <1>1, <1>2, <1>3, <1>6
  <1> QED BY ONLY <1>2, <1>7, <1>8, <1>9, OwnSlotStep, Zenon

\* A step with which t hands its number over: the slots and the lost numbers have it,
\* and the ranges are as they were; or it is given back, and they are without it.
LEMMA HandOver ==
    ASSUME IInv, NEW t \in Threads, pc[t] \in BusyLabels, NEW n, n = req[t].ino, Goto(t, "idle"),
           inuse' \in [CPUs -> SUBSET RangeNodes], slot' \in [Inos -> Slots], dur' \in [Inos -> Slots], SlotsOK',
           \A m \in Inos : m # n => slot'[m] = slot[m],
           \/ inuse' = inuse /\ Live' \cup leaked' = Live \cup leaked \cup {n}
           \/ /\ Live' \cup leaked' = Live \cup leaked
              /\ \A c \in CPUs : Tree(c, inuse'[c], (Live \cup Working \cup leaked) \ {n}),
           leaked' \subseteq Inos, leaked' \cap Live' = {},
           UNCHANGED <<map_id, pages, list, blocknode, mode, scan, req, nospace>>
    PROVE  IInv'
  <1>1. /\ mode = "mounted" /\ \A c \in CPUs : Tree(c, inuse[c], Live \cup Working \cup leaked)
        /\ n \in Inos /\ n \in Working /\ n \notin Live \cup leaked
        /\ \A u \in Busy : u # t => req[u].ino # n /\ req[u].ino \in Inos
    <2>1. pc[t] # "idle"  BY DEF BusyLabels
    <2> QED BY <2>1, Mounted
  <1>2. Types /\ ThreadsOK  BY DEF IInv
  <1>3. Busy' = Busy \ {t} /\ Working' = Working \ {n} /\ ThreadsOK'
    <2>1. \A u \in Busy : u # t => slot'[req[u].ino] = slot[req[u].ino]  BY <1>1
    <2>2. Live' \cup leaked' \subseteq Live \cup leaked \cup {n}  OBVIOUS
    <2>3. /\ t \in Threads /\ Goto(t, "idle") /\ mode = "mounted" /\ mode' = mode
          /\ pc[t] \in BusyLabels /\ req' = req /\ n = req[t].ino /\ leaked' \cap Live' = {} /\ pages' = pages
      BY <1>1
    <2> QED BY ONLY <1>2, <2>1, <2>2, <2>3, ThreadsLess, Zenon
  <1>4. Types'
    <2>1. pc' \in [Threads -> Labels]  BY <1>2 DEF Types, Goto, Labels
    <2> QED BY <2>1, <1>2 DEF Types
  <1>5. \A c \in CPUs : Tree(c, inuse'[c], Live' \cup Working' \cup leaked')
    <2>1. CASE inuse' = inuse /\ Live' \cup leaked' = Live \cup leaked \cup {n}
      <3>1. Live' \cup Working' \cup leaked' = Live \cup Working \cup leaked
        <4>1. (Live' \cup leaked') \cup Working' = (Live \cup leaked \cup {n}) \cup (Working \ {n})
          BY <2>1, <1>3
        <4>2. (Live \cup leaked \cup {n}) \cup (Working \ {n}) = Live \cup Working \cup leaked
          BY <1>1
        <4>3. (Live' \cup leaked') \cup Working' = Live' \cup Working' \cup leaked'  OBVIOUS
        <4> QED BY <4>1, <4>2, <4>3
      <3> QED BY <3>1, <2>1, <1>1
    <2>2. CASE /\ Live' \cup leaked' = Live \cup leaked
               /\ \A c \in CPUs : Tree(c, inuse'[c], (Live \cup Working \cup leaked) \ {n})
      <3>1. Live' \cup Working' \cup leaked' = (Live \cup Working \cup leaked) \ {n}
        <4>1. (Live' \cup leaked') \cup Working' = (Live \cup leaked) \cup (Working \ {n})
          BY <2>2, <1>3
        <4>2. (Live \cup leaked) \cup (Working \ {n}) = (Live \cup Working \cup leaked) \ {n}
          BY <1>1
        <4>3. (Live' \cup leaked') \cup Working' = Live' \cup Working' \cup leaked'  OBVIOUS
        <4> QED BY <4>1, <4>2, <4>3
      <3> QED BY <3>1, <2>2
    <2> QED BY <2>1, <2>2
  <1>6. TreesOK' /\ ScansOK'  BY <1>1, <1>5, MountedStep
  <1>7. NoSpaceOK'  BY DEF IInv, NoSpaceOK
  <1> QED BY <1>3, <1>4, <1>6, <1>7 DEF IInv

LEMMA CommitStep ==
    ASSUME IInv, NEW t \in Threads, nova_lite_transaction_for_new_inode(t) PROVE IInv'
  <1>1. /\ pc[t] = "commit" /\ Goto(t, "idle")
        /\ slot' = [slot EXCEPT ![req[t].ino].valid = TRUE]
        /\ dur' = [dur EXCEPT ![req[t].ino] = slot'[req[t].ino]]
        /\ UNCHANGED <<inuse, map_id, pages, list, blocknode, mode, scan, req, leaked, nospace>>
    BY DEF nova_lite_transaction_for_new_inode
  <1>2. pc[t] \in BusyLabels /\ pc[t] # "idle"  BY <1>1 DEF BusyLabels
  <1>3. PICK n \in Inos : n = req[t].ino /\ n \notin Live \cup leaked  BY <1>2, Mounted
  <1>4. slot[n] \in Slots /\ ~slot[n].valid /\ ~slot[n].held  BY <1>3, Unseen
  <1>5. InTable(n) /\ slot[n].mode /\ ~slot[n].deleted  BY <1>1, <1>3 DEF IInv, ThreadsOK
  <1>6. PICK s : s = [slot[n] EXCEPT !.valid = TRUE]  OBVIOUS
  <1>7. s \in Slots /\ s.valid /\ ~s.held /\ s.mode /\ ~s.deleted
    <2>1. /\ s \in Slots /\ s.valid = TRUE /\ s.held = slot[n].held
          /\ s.mode = slot[n].mode /\ s.deleted = slot[n].deleted
      BY <1>4, <1>6, SlotFields
    <2> QED BY <2>1, <1>4, <1>5
  <1>8. Types /\ SlotsOK /\ slot \in [Inos -> Slots] /\ inuse \in [CPUs -> SUBSET RangeNodes]
        /\ leaked \subseteq Inos /\ leaked \cap Live = {}
    BY DEF IInv, Types, ThreadsOK
  <1>9. slot' = [slot EXCEPT ![n] = s]  BY <1>1, <1>3, <1>6
  <1>10. dur' = [dur EXCEPT ![n] = s]
    <2>1. slot'[n] = s  BY <1>8, <1>9
    <2> QED BY <2>1, <1>1, <1>3
  <1>11. pages' = pages /\ t \in Threads /\ Goto(t, "idle") /\ IInv /\ inuse' = inuse  BY <1>1
  <1>12. /\ slot' \in [Inos -> Slots] /\ dur' \in [Inos -> Slots] /\ SlotsOK'
         /\ Live' = Live \cup {n} /\ \A m \in Inos : m # n => slot'[m] = slot[m]
    BY ONLY <1>3, <1>5, <1>7, <1>8, <1>9, <1>10, <1>11, SlotSet, Zenon
  <1>13. /\ Live' \cup leaked' = Live \cup leaked \cup {n} /\ leaked' \subseteq Inos /\ leaked' \cap Live' = {}
    <2>1. leaked' = leaked /\ n \notin leaked  BY <1>1, <1>3
    <2>2. (Live \cup {n}) \cup leaked = Live \cup leaked \cup {n}  OBVIOUS
    <2>3. leaked \cap (Live \cup {n}) = {}  BY <2>1, <1>8
    <2> QED BY <2>1, <2>2, <2>3, <1>8, <1>12
  <1>14. /\ pc[t] \in BusyLabels /\ n = req[t].ino /\ inuse' \in [CPUs -> SUBSET RangeNodes]
         /\ UNCHANGED <<map_id, pages, list, blocknode, mode, scan, req, nospace>>
    BY <1>1, <1>2, <1>3, <1>8
  <1> QED BY ONLY <1>11, <1>12, <1>13, <1>14, HandOver, Zenon

LEMMA CreateFailsStep == ASSUME IInv, NEW t \in Threads, create_fails(t) PROVE IInv'
  <1>1. /\ pc[t] \in {"new", "commit"} /\ leaked' = leaked \cup {req[t].ino} /\ Goto(t, "idle")
        /\ UNCHANGED <<inuse, map_id, pages, slot, dur, list, blocknode, mode, scan, req, nospace>>
    BY DEF create_fails
  <1>2. pc[t] \in BusyLabels /\ pc[t] # "idle"  BY <1>1 DEF BusyLabels
  <1>3. PICK n \in Inos : n = req[t].ino /\ n \notin Live \cup leaked  BY <1>2, Mounted
  <1>4. /\ SlotsOK /\ slot \in [Inos -> Slots] /\ dur \in [Inos -> Slots]
        /\ inuse \in [CPUs -> SUBSET RangeNodes] /\ leaked \subseteq Inos /\ leaked \cap Live = {}
    BY DEF IInv, Types, ThreadsOK
  <1>5. \A m \in Inos : InTable(m) => InTable(m)'  BY <1>1 DEF InTable
  <1>6. Live' = Live /\ SlotsOK'  BY <1>1, <1>4, <1>5, SlotsKept
  <1>7. Live' \cup leaked' = Live \cup leaked \cup {n} /\ leaked' \subseteq Inos /\ leaked' \cap Live' = {}
    <2>1. leaked' = leaked \cup {n}  BY <1>1, <1>3
    <2>2. Live \cup (leaked \cup {n}) = Live \cup leaked \cup {n}  OBVIOUS
    <2>3. (leaked \cup {n}) \cap Live = {}  BY <1>3, <1>4
    <2> QED BY <2>1, <2>2, <2>3, <1>4, <1>6
  <1>8. /\ IInv /\ t \in Threads /\ pc[t] \in BusyLabels /\ n = req[t].ino /\ Goto(t, "idle")
        /\ inuse' \in [CPUs -> SUBSET RangeNodes] /\ slot' \in [Inos -> Slots] /\ dur' \in [Inos -> Slots]
        /\ SlotsOK' /\ (\A m \in Inos : m # n => slot'[m] = slot[m]) /\ inuse' = inuse
        /\ UNCHANGED <<map_id, pages, list, blocknode, mode, scan, req, nospace>>
    BY <1>1, <1>2, <1>3, <1>4, <1>6
  <1> QED BY ONLY <1>7, <1>8, HandOver, Zenon

-----------------------------------------------------------------------------
(* Removing an inode.                                                       *)

\* The slot of n, which a name or a snapshot shows, is written and shown no more: t
\* works on the number from now on.
LEMMA TakeOver ==
    ASSUME IInv, mode = "mounted", NEW t \in Threads, pc[t] = "idle", NEW n \in Inos, n \in Live,
           NEW s \in Slots, slot' = [slot EXCEPT ![n] = s], dur' = [dur EXCEPT ![n] = s],
           ~s.valid, ~s.held, req' = [req EXCEPT ![t].ino = n], Goto(t, "evict"),
           UNCHANGED <<inuse, map_id, pages, list, blocknode, mode, scan, leaked, nospace>>
    PROVE  IInv'
  <1>1. /\ \A c \in CPUs : Tree(c, inuse[c], Live \cup Working \cup leaked)
        /\ leaked \cap Live = {} /\ Working \cap (Live \cup leaked) = {} /\ Working \subseteq Inos
    BY Mounted
  <1>2. Types /\ SlotsOK /\ ThreadsOK  BY DEF IInv
  <1>3. /\ slot' \in [Inos -> Slots] /\ dur' \in [Inos -> Slots] /\ SlotsOK'
        /\ Live' = Live \ {n}
        /\ \A m \in Inos : m # n => slot'[m] = slot[m]
        /\ \A m \in Inos : InTable(m) => InTable(m)'
    BY <1>2, SlotSet
  <1>4. /\ req' \in [Threads -> [map : CPUs, ino : Nat]] /\ req'[t].ino = n
        /\ \A u \in Threads : u # t => req'[u] = req[u]
    <2>1. req \in [Threads -> [map : CPUs, ino : Nat]] /\ n \in Nat  BY <1>2, InosTell DEF Types
    <2> QED BY <2>1, SMT
  <1>5. Busy' = Busy \cup {t} /\ Working' = Working \cup {n} /\ ThreadsOK'
    <2>1. "evict" \in BusyLabels /\ pc[t] \notin BusyLabels /\ "evict" # "commit" /\ "evict" # "new"
      BY DEF BusyLabels
    <2>2. t \notin Busy /\ Busy \subseteq Threads  BY <2>1, BusyBy DEF Busy
    <2>3. \A u \in Busy : req'[u].ino = req[u].ino  BY <2>2, <1>4
    <2>4. n \notin Working /\ n \notin Live' \cup leaked' /\ Live' \subseteq Live /\ leaked' = leaked
      BY <1>1, <1>3
    <2>5. ASSUME NEW u \in Busy PROVE slot'[req[u].ino] = slot[req[u].ino]
      <3>1. req[u].ino \in Working  BY WorkingBy
      <3>2. req[u].ino \in Inos /\ req[u].ino # n  BY <3>1, <2>4, <1>1
      <3> QED BY <3>2, <1>3
    <2>6. /\ t \in Threads /\ Goto(t, "evict") /\ mode = "mounted" /\ mode' = mode /\ n \in Inos
          /\ req'[t].ino = n /\ \A m \in Inos : InTable(m) => InTable(m)'
      BY <1>3, <1>4
    <2> QED BY <1>2, <2>1, <2>3, <2>4, <2>5, <2>6, ThreadsMore
  <1>6. Types'
    <2>1. pc' \in [Threads -> Labels]  BY <1>2 DEF Types, Goto, Labels
    <2> QED BY <2>1, <1>2, <1>3, <1>4 DEF Types
  <1>7. TreesOK' /\ ScansOK'
    <2>1. Live' \cup Working' \cup leaked' = Live \cup Working \cup leaked
      <3>1. (Live \ {n}) \cup (Working \cup {n}) \cup leaked = Live \cup Working \cup leaked  OBVIOUS
      <3> QED BY <3>1, <1>3, <1>5
    <2>2. \A c \in CPUs : Tree(c, inuse'[c], Live' \cup Working' \cup leaked')  BY <1>1, <2>1
    <2> QED BY <2>2, MountedStep
  <1>8. NoSpaceOK'  BY DEF IInv, NoSpaceOK
  <1> QED BY <1>3, <1>5, <1>6, <1>7, <1>8 DEF IInv

\* A snapshot shows the inode when no name does any more.
LEMMA KeepStep ==
    ASSUME IInv, mode = "mounted", NEW t \in Threads, pc[t] = "idle", NEW n \in Inos, n \in Live,
           NEW s \in Slots, slot' = [slot EXCEPT ![n] = s], dur' = [dur EXCEPT ![n] = s],
           ~s.valid, s.held, s.mode, ~s.deleted, req' = [req EXCEPT ![t].ino = n], Goto(t, "idle"),
           UNCHANGED <<inuse, map_id, pages, list, blocknode, mode, scan, leaked, nospace>>
    PROVE  IInv'
  <1>1. /\ \A c \in CPUs : Tree(c, inuse[c], Live \cup Working \cup leaked)
        /\ Working \cap (Live \cup leaked) = {} /\ Working \subseteq Inos
    BY Mounted
  <1>2. Types /\ SlotsOK /\ ThreadsOK  BY DEF IInv
  <1>3. InTable(n)  BY <1>2 DEF SlotsOK
  <1>4. /\ slot' \in [Inos -> Slots] /\ dur' \in [Inos -> Slots] /\ SlotsOK'
        /\ Live' = Live \cup {n}
        /\ \A m \in Inos : m # n => slot'[m] = slot[m]
        /\ \A m \in Inos : InTable(m) => InTable(m)'
    BY <1>2, <1>3, SlotSet
  <1>5. Live' = Live
    <2>1. Live \cup {n} = Live  OBVIOUS
    <2> QED BY <2>1, <1>4
  <1>6. /\ req' \in [Threads -> [map : CPUs, ino : Nat]]
        /\ \A u \in Threads : u # t => req'[u] = req[u]
    <2>1. req \in [Threads -> [map : CPUs, ino : Nat]] /\ n \in Nat  BY <1>2, InosTell DEF Types
    <2> QED BY <2>1, SMT
  <1>7. Busy' = Busy /\ Working' = Working /\ ThreadsOK'
    <2>1. pc[t] \notin BusyLabels /\ "idle" \notin BusyLabels /\ "idle" # "new" /\ "idle" # "commit"
      BY DEF BusyLabels
    <2>2. t \notin Busy /\ Busy \subseteq Threads  BY <2>1, BusyBy DEF Busy
    <2>3. \A u \in Busy : req'[u].ino = req[u].ino  BY <2>2, <1>6
    <2>4. ASSUME NEW u \in Busy PROVE slot'[req[u].ino] = slot[req[u].ino]
      <3>1. req[u].ino \in Working  BY WorkingBy
      <3>2. req[u].ino \in Inos /\ req[u].ino # n  BY <3>1, <1>1
      <3> QED BY <3>2, <1>4
    <2>5. leaked' = leaked \cup {} /\ {} \cap (Live \cup Working) = {}  OBVIOUS
    <2>6. /\ t \in Threads /\ Goto(t, "idle") /\ mode = "mounted" /\ mode' = mode
          /\ \A m \in Inos : InTable(m) => InTable(m)'
      BY <1>4
    <2> QED BY ONLY <1>2, <1>5, <2>1, <2>3, <2>4, <2>5, <2>6, ThreadsSame, Zenon
  <1>8. Types'
    <2>1. pc' \in [Threads -> Labels]  BY <1>2 DEF Types, Goto, Labels
    <2> QED BY <2>1, <1>2, <1>4, <1>6 DEF Types
  <1>9. TreesOK' /\ ScansOK'
    <2>1. \A c \in CPUs : Tree(c, inuse'[c], Live' \cup Working' \cup leaked')  BY <1>1, <1>5, <1>7
    <2> QED BY <2>1, MountedStep
  <1>10. NoSpaceOK'  BY DEF IInv, NoSpaceOK
  <1> QED BY <1>4, <1>7, <1>8, <1>9, <1>10 DEF IInv

\* A slot that a name or a snapshot shows.
LEMMA Seen ==
    ASSUME IInv, NEW n \in Inos, slot[n].valid \/ slot[n].held
    PROVE  /\ n \in Live /\ slot[n] \in Slots /\ slot[n].mode /\ ~slot[n].deleted
           /\ ~(slot[n].valid /\ slot[n].held)
  <1>1. n \in Live  BY DEF Live
  <1>2. slot[n] \in Slots  BY DEF IInv, Types
  <1> QED BY <1>1, <1>2 DEF IInv, SlotsOK

LEMMA InvalidateStep == ASSUME IInv, NEW t \in Threads, invalidate(t) PROVE IInv'
  <1>1. PICK n \in Inos, held \in BOOLEAN :
          /\ slot[n].valid
          /\ slot' = [slot EXCEPT ![n] = [@ EXCEPT !.valid = FALSE, !.held = held]]
          /\ dur' = [dur EXCEPT ![n] = slot'[n]]
          /\ req' = [req EXCEPT ![t].ino = n]
          /\ Goto(t, IF held THEN "idle" ELSE "evict")
    BY DEF invalidate
  <1>2. /\ mode = "mounted" /\ pc[t] = "idle"
        /\ UNCHANGED <<inuse, map_id, pages, list, blocknode, mode, scan, leaked, nospace>>
    BY DEF invalidate
  <1>3. n \in Live /\ slot[n] \in Slots /\ slot[n].mode /\ ~slot[n].deleted  BY <1>1, Seen
  <1>4. PICK s : s = [slot[n] EXCEPT !.valid = FALSE, !.held = held]  OBVIOUS
  <1>5. /\ s \in Slots /\ s.valid = FALSE /\ s.held = held
        /\ s.mode = slot[n].mode /\ s.deleted = slot[n].deleted
    <2>1. slot[n] \in Slots /\ held \in BOOLEAN  BY <1>3
    <2> QED BY ONLY <1>4, <2>1, Zenon DEF Slots
  <1>6. slot' = [slot EXCEPT ![n] = s]  BY <1>1, <1>4
  <1>7. dur' = [dur EXCEPT ![n] = s]
    <2>1. slot \in [Inos -> Slots]  BY DEF IInv, Types
    <2>2. slot'[n] = s  BY <2>1, <1>6
    <2> QED BY <2>2, <1>1
  <1>8. ~s.valid /\ s.mode /\ ~s.deleted /\ s \in Slots  BY <1>3, <1>5
  <1>9. IInv /\ t \in Threads /\ n \in Inos /\ n \in Live /\ req' = [req EXCEPT ![t].ino = n]  BY <1>1, <1>3
  <1>10. CASE held
    <2>1. s.held /\ Goto(t, "idle")  BY <1>1, <1>5, <1>10
    <2> QED BY ONLY <1>2, <1>6, <1>7, <1>8, <1>9, <2>1, KeepStep, Zenon
  <1>11. CASE ~held
    <2>1. ~s.held /\ Goto(t, "evict")  BY <1>1, <1>5, <1>11
    <2> QED BY ONLY <1>2, <1>6, <1>7, <1>8, <1>9, <2>1, TakeOver, Zenon
  <1> QED BY <1>10, <1>11

LEMMA DeadInodeStep == ASSUME IInv, NEW t \in Threads, nova_delete_dead_inode(t) PROVE IInv'
  <1>1. PICK n \in Inos :
          /\ slot[n].held
          /\ slot' = [slot EXCEPT ![n].held = FALSE]
          /\ dur' = [dur EXCEPT ![n] = slot'[n]]
          /\ req' = [req EXCEPT ![t].ino = n]
    BY DEF nova_delete_dead_inode
  <1>2. /\ mode = "mounted" /\ pc[t] = "idle" /\ Goto(t, "evict")
        /\ UNCHANGED <<inuse, map_id, pages, list, blocknode, mode, scan, leaked, nospace>>
    BY DEF nova_delete_dead_inode
  <1>3. n \in Live /\ slot[n] \in Slots /\ ~slot[n].valid  BY <1>1, Seen
  <1>4. PICK s : s = [slot[n] EXCEPT !.held = FALSE]  OBVIOUS
  <1>5. s \in Slots /\ s.valid = slot[n].valid /\ s.held = FALSE
    BY <1>3, <1>4, SlotFields
  <1>6. slot' = [slot EXCEPT ![n] = s]  BY <1>1, <1>4
  <1>7. dur' = [dur EXCEPT ![n] = s]
    <2>1. slot \in [Inos -> Slots]  BY DEF IInv, Types
    <2>2. slot'[n] = s  BY <2>1, <1>6
    <2> QED BY <2>2, <1>1
  <1>8. ~s.valid /\ ~s.held /\ s \in Slots  BY <1>3, <1>5
  <1>9. IInv /\ t \in Threads /\ n \in Inos /\ n \in Live /\ req' = [req EXCEPT ![t].ino = n]  BY <1>1, <1>3
  <1> QED BY ONLY <1>2, <1>6, <1>7, <1>8, <1>9, TakeOver, Zenon

LEMMA FreeNumberStep == ASSUME IInv, NEW t \in Threads, nova_free_inuse_inode(t) PROVE IInv'
  <1>1. pc[t] = "free"  BY DEF nova_free_inuse_inode
  <1>2. pc[t] \in BusyLabels /\ pc[t] # "idle"  BY <1>1 DEF BusyLabels
  <1> DEFINE n == req[t].ino
             c == Cpu(n)
             own == Live \cup Working \cup leaked
             found == {r \in inuse[c] : Internal(n) \in r.low..r.high}
             rest == UNION {Remaining(r, Internal(n)) : r \in found}
  <1>3. n \in Inos /\ n = req[t].ino /\ n \in Working /\ n \notin Live \cup leaked  BY <1>2, Mounted
  <1>4. c \in CPUs /\ c = Cpu(n)  BY <1>3, InosTell
  <1>5. /\ \/ inuse' = [inuse EXCEPT ![c] = (@ \ found) \cup rest] /\ UNCHANGED leaked
           \/ leaked' = leaked \cup {n} /\ UNCHANGED inuse
        /\ Goto(t, "idle")
        /\ UNCHANGED <<map_id, pages, slot, dur, list, blocknode, mode, scan, req, nospace>>
    BY DEF nova_free_inuse_inode
  <1> HIDE DEF n, c
  <1>6. /\ SlotsOK /\ slot \in [Inos -> Slots] /\ dur \in [Inos -> Slots]
        /\ inuse \in [CPUs -> SUBSET RangeNodes] /\ leaked \subseteq Inos /\ leaked \cap Live = {}
    BY DEF IInv, Types, ThreadsOK
  <1>7. \A d \in CPUs : Tree(d, inuse[d], own)  BY <1>2, Mounted
  <1>8. \A m \in Inos : InTable(m) => InTable(m)'  BY <1>5 DEF InTable
  <1>9. Live' = Live /\ SlotsOK'  BY <1>5, <1>6, <1>8, SlotsKept
  <1>10. /\ IInv /\ t \in Threads /\ pc[t] \in BusyLabels /\ n = req[t].ino /\ Goto(t, "idle")
         /\ slot' \in [Inos -> Slots] /\ dur' \in [Inos -> Slots] /\ SlotsOK'
         /\ (\A m \in Inos : m # n => slot'[m] = slot[m])
         /\ UNCHANGED <<map_id, pages, list, blocknode, mode, scan, req, nospace>>
    BY <1>2, <1>3, <1>5, <1>6, <1>9
  <1>11. CASE inuse' = [inuse EXCEPT ![c] = (@ \ found) \cup rest] /\ UNCHANGED leaked
    <2>1. Tree(c, (inuse[c] \ found) \cup rest, own \ {n})
      <3>1. Tree(Cpu(n), inuse[c], own) /\ n \in own  BY <1>3, <1>4, <1>7
      <3> HIDE DEF own
      <3>2. Tree(Cpu(n), (inuse[c] \ found) \cup rest, own \ {n})  BY <1>3, <3>1, TreeFree
      <3> QED BY <3>2, <1>4
    <2> HIDE DEF found, rest
    <2>2. (inuse[c] \ found) \cup rest \in SUBSET RangeNodes  BY <2>1 DEF Tree, Ranges
    <2>3. /\ inuse' \in [CPUs -> SUBSET RangeNodes]
          /\ inuse'[c] = (inuse[c] \ found) \cup rest
          /\ \A d \in CPUs : d # c => inuse'[d] = inuse[d]
      BY <2>2, <1>4, <1>6, <1>11
    <2>4. ASSUME NEW d \in CPUs PROVE Tree(d, inuse'[d], own \ {n})
      <3>1. CASE d = c  BY <3>1, <2>1, <2>3
      <3>2. CASE d # c
        <4>1. Tree(d, inuse[d], own) /\ Cpu(n) # d /\ inuse'[d] = inuse[d]  BY <3>2, <1>4, <1>7, <2>3
        <4> HIDE DEF own
        <4> QED BY <4>1, TreeOther
      <3> QED BY <3>1, <3>2
    <2>5. Live' \cup leaked' = Live \cup leaked /\ leaked' \subseteq Inos /\ leaked' \cap Live' = {}
      BY <1>6, <1>9, <1>11
    <2>6. inuse' \in [CPUs -> SUBSET RangeNodes]  BY <2>3
    <2> QED BY ONLY <1>10, <2>4, <2>5, <2>6, HandOver, Zenon DEF own
  <1>12. CASE leaked' = leaked \cup {n} /\ UNCHANGED inuse
    <2>1. Live' \cup leaked' = Live \cup leaked \cup {n} /\ leaked' \subseteq Inos /\ leaked' \cap Live' = {}
      <3>1. Live \cup (leaked \cup {n}) = Live \cup leaked \cup {n}  OBVIOUS
      <3>2. (leaked \cup {n}) \cap Live = {}  BY <1>3, <1>6
      <3> QED BY <3>1, <3>2, <1>3, <1>6, <1>9, <1>12
    <2>2. inuse' \in [CPUs -> SUBSET RangeNodes] /\ inuse' = inuse  BY <1>6, <1>12
    <2> QED BY ONLY <1>10, <2>1, <2>2, HandOver, Zenon
  <1> QED BY <1>5, <1>11, <1>12

-----------------------------------------------------------------------------
(* Unmounting and mounting.                                                 *)

\* No thread is at work.
LEMMA AllIdle ==
    ASSUME \A t \in Threads : pc'[t] = "idle", leaked' \cap Live' = {}
    PROVE  Busy' = {} /\ Working' = {} /\ ThreadsOK'
  <1>1. Busy' = {}  BY DEF Busy
  <1>2. Working' = {}  BY <1>1 DEF Working
  <1> QED BY <1>1, <1>2 DEF ThreadsOK

LEMMA NoRanges == Ranges({})
  BY DEF Ranges

\* The saved ranges of a CPU are those it had.
LEMMA SavedRanges ==
    ASSUME NEW f, NEW c \in CPUs, NEW all, all = UNION {{<<d, s>> : s \in f[d]} : d \in CPUs}
    PROVE  {r[2] : r \in {x \in all : x[1] = c}} = f[c]
  <1> DEFINE mine == {r[2] : r \in {x \in all : x[1] = c}}
  <1>1. ASSUME NEW r \in f[c] PROVE r \in mine
    <2>1. <<c, r>> \in all
      <3>1. <<c, r>> \in {<<c, s>> : s \in f[c]}  BY <1>1
      <3>2. {<<c, s>> : s \in f[c]} \in {{<<d, s>> : s \in f[d]} : d \in CPUs}  OBVIOUS
      <3> QED BY <3>1, <3>2
    <2>2. <<c, r>>[1] = c /\ <<c, r>>[2] = r  BY SMT
    <2> QED BY <2>1, <2>2
  <1>2. ASSUME NEW r \in mine PROVE r \in f[c]
    <2>1. PICK x \in all : x[1] = c /\ r = x[2]  BY <1>2
    <2>2. PICK d \in CPUs : \E s \in f[d] : x = <<d, s>>  BY <2>1
    <2>3. PICK s \in f[d] : x = <<d, s>>  BY <2>2
    <2>4. <<d, s>>[1] = d /\ <<d, s>>[2] = s  BY SMT
    <2> QED BY <2>1, <2>3, <2>4
  <1> QED BY <1>1, <1>2

\* What is in DRAM starts empty.
LEMMA Forgotten ==
    ASSUME Forget, leaked' \cap Live' = {}, mode' # "mounted", mode' # "scan"
    PROVE  /\ inuse' \in [CPUs -> SUBSET RangeNodes] /\ map_id' \in CPUs
           /\ scan' \in [CPUs -> [count : Nat, i : Nat, low : Nat, high : Nat]]
           /\ pc' \in [Threads -> Labels] /\ req' \in [Threads -> [map : CPUs, ino : Nat]]
           /\ \A c \in CPUs : Ranges(inuse'[c])
           /\ ThreadsOK' /\ ScansOK'
  <1>1. /\ inuse' = [c \in CPUs |-> {}] /\ map_id' = 0 /\ scan' = [c \in CPUs |-> NoScan]
        /\ pc' = [t \in Threads |-> "idle"] /\ req' = [t \in Threads |-> NoRequest]
    BY DEF Forget
  <1>2. 0 \in CPUs /\ 0 \in Nat
    BY CPUsNat, SMT DEF CPUs
  <1>3. inuse' \in [CPUs -> SUBSET RangeNodes] /\ \A c \in CPUs : Ranges(inuse'[c])  BY <1>1, NoRanges
  <1>4. NoScan \in [count : Nat, i : Nat, low : Nat, high : Nat]  BY <1>2 DEF NoScan
  <1>5. NoRequest \in [map : CPUs, ino : Nat]  BY <1>2 DEF NoRequest
  <1>6. "idle" \in Labels  BY DEF Labels
  <1>7. \A t \in Threads : pc'[t] = "idle"  BY <1>1
  <1>8. ThreadsOK'  BY <1>7, AllIdle
  <1>9. ScansOK'  BY <1>1 DEF ScansOK
  <1>10. scan' \in [CPUs -> [count : Nat, i : Nat, low : Nat, high : Nat]]  BY <1>1, <1>4
  <1>11. req' \in [Threads -> [map : CPUs, ino : Nat]] /\ pc' \in [Threads -> Labels]  BY <1>1, <1>5, <1>6
  <1> QED BY <1>1, <1>2, <1>3, <1>8, <1>9, <1>10, <1>11

LEMMA SaveListStep == ASSUME IInv, nova_save_inode_list_to_log PROVE IInv'
  <1>1. /\ mode = "mounted" /\ (\A t \in Threads : pc[t] = "idle") /\ dur' = slot /\ Forget
        /\ UNCHANGED <<pages, slot, blocknode, leaked, nospace>>
    BY DEF nova_save_inode_list_to_log
  <1>2. /\ mode' = "saving"
        /\ \/ list' = [state |-> "fresh", ranges |-> UNION {{<<c, r>> : r \in inuse[c]} : c \in CPUs}]
           \/ UNCHANGED list
    BY DEF nova_save_inode_list_to_log
  <1>3. Types /\ SlotsOK /\ ThreadsOK /\ TreesOK  BY DEF IInv
  <1>4. blocknode = FALSE
    <2>1. blocknode \in BOOLEAN /\ (blocknode => mode = "down")  BY <1>3 DEF Types, TreesOK
    <2> QED BY <1>1, <2>1
  <1>5. Live' = Live /\ SlotsOK'
    <2>1. Live' = Live  BY <1>1 DEF Live
    <2>2. ASSUME NEW n \in Inos
          PROVE  /\ dur'[n].valid = slot'[n].valid /\ dur'[n].held = slot'[n].held
                 /\ n \in Live' => /\ slot'[n] = dur'[n] /\ slot'[n].mode /\ ~slot'[n].deleted
                                   /\ ~(slot'[n].valid /\ slot'[n].held) /\ InTable(n)'
      <3>1. n \in Live => slot[n].mode /\ ~slot[n].deleted /\ ~(slot[n].valid /\ slot[n].held) /\ InTable(n)
        BY <1>3 DEF SlotsOK
      <3>2. InTable(n) => InTable(n)'  BY <1>1 DEF InTable
      <3> QED BY <2>1, <3>1, <3>2, <1>1
    <2> QED BY <2>1, <2>2 DEF SlotsOK
  <1>6. leaked' \cap Live' = {}  BY <1>1, <1>3, <1>5 DEF ThreadsOK
  <1>7. mode' # "mounted" /\ mode' # "scan" /\ mode' \in {"mounted", "saving", "down", "blockmap", "scan"}
    BY <1>2
  <1>8. /\ inuse' \in [CPUs -> SUBSET RangeNodes] /\ map_id' \in CPUs
        /\ scan' \in [CPUs -> [count : Nat, i : Nat, low : Nat, high : Nat]]
        /\ pc' \in [Threads -> Labels] /\ req' \in [Threads -> [map : CPUs, ino : Nat]]
        /\ \A c \in CPUs : Ranges(inuse'[c])
        /\ ThreadsOK' /\ ScansOK'
    BY <1>1, <1>6, <1>7, Forgotten
  <1>9. Types'
    <2>1. list'.state \in {"none", "fresh", "stale"}
      <3>1. list.state \in {"none", "fresh", "stale"}  BY <1>3 DEF Types
      <3>2. list' = list \/ list'.state = "fresh"  BY <1>2, SMT
      <3> QED BY <3>1, <3>2
    <2> QED BY <2>1, <1>1, <1>3, <1>7, <1>8 DEF Types
  <1>10. TreesOK'
    <2>1. ASSUME list'.state = "fresh" PROVE \A c \in CPUs : Tree(c, Saved(c)', Live' \cup leaked')
      <3>1. list' = [state |-> "fresh", ranges |-> UNION {{<<c, r>> : r \in inuse[c]} : c \in CPUs}]
        <4>1. list.state # "fresh"  BY <1>1, <1>3 DEF TreesOK
        <4> QED BY <1>2, <2>1, <4>1
      <3>2. list'.state = "fresh" /\ list'.ranges = UNION {{<<c, r>> : r \in inuse[c]} : c \in CPUs}
        BY <3>1
      <3>3. ASSUME NEW c \in CPUs PROVE Saved(c)' = inuse[c]
        BY <3>2, SavedRanges DEF Saved
      <3>4. Working = {}
        <4>1. Busy = {}  BY <1>1 DEF Busy
        <4> QED BY <4>1 DEF Working
      <3>5. \A c \in CPUs : Tree(c, inuse[c], Live \cup Working \cup leaked)  BY <1>1, <1>3 DEF TreesOK
      <3>6. Live' \cup leaked' = Live \cup Working \cup leaked  BY <1>1, <1>5, <3>4
      <3> QED BY <3>2, <3>3, <3>5, <3>6
    <2>2. ~blocknode' /\ mode' = "saving"  BY <1>1, <1>2, <1>4
    <2> QED BY <2>1, <2>2, <1>8 DEF TreesOK
  <1>11. NoSpaceOK'  BY <1>1 DEF IInv, NoSpaceOK
  <1> QED BY <1>5, <1>8, <1>9, <1>10, <1>11 DEF IInv

\* A step of the mount: no thread moves, and the slots stay as they are.
LEMMA MountStep ==
    ASSUME IInv, mode # "mounted", leaked' \subseteq leaked,
           UNCHANGED <<map_id, pages, slot, dur, pc, req, nospace>>
    PROVE  /\ Live' = Live /\ Working' = {} /\ SlotsOK' /\ ThreadsOK' /\ NoSpaceOK'
           /\ map_id' \in CPUs /\ pages' \in [CPUs -> Nat]
           /\ slot' \in [Inos -> Slots] /\ dur' \in [Inos -> Slots]
           /\ pc' \in [Threads -> Labels] /\ req' \in [Threads -> [map : CPUs, ino : Nat]]
           /\ leaked' \subseteq Inos
  <1>1. (\A t \in Threads : pc[t] = "idle") /\ leaked \cap Live = {} /\ SlotsOK /\ Types
    BY DEF IInv, ThreadsOK
  <1>2. \A n \in Inos : InTable(n) => InTable(n)'  BY DEF InTable
  <1>3. Live' = Live /\ SlotsOK'  BY <1>1, <1>2, SlotsKept
  <1>4. (\A t \in Threads : pc'[t] = "idle") /\ leaked' \cap Live' = {}  BY <1>1, <1>3
  <1>5. Working' = {} /\ ThreadsOK'  BY <1>4, AllIdle
  <1>6. NoSpaceOK'  BY DEF IInv, NoSpaceOK
  <1> QED BY <1>1, <1>3, <1>5, <1>6 DEF Types

LEMMA SaveBlocksStep == ASSUME IInv, nova_save_blocknode_mappings_to_log PROVE IInv'
  <1>1. /\ mode = "saving" /\ (blocknode' = TRUE \/ blocknode' = blocknode) /\ mode' = "down"
        /\ UNCHANGED <<inuse, map_id, pages, slot, dur, list, scan, pc, req, leaked, nospace>>
    BY DEF nova_save_blocknode_mappings_to_log
  <1>2. /\ Live' = Live /\ SlotsOK' /\ ThreadsOK' /\ NoSpaceOK'
    BY <1>1, MountStep
  <1>3. Types'  BY <1>1 DEF IInv, Types
  <1>4. \A c \in CPUs : Saved(c)' = Saved(c)  BY <1>1 DEF Saved
  <1>5. TreesOK'
    <2>1. /\ list.state = "fresh" => (\A c \in CPUs : Tree(c, Saved(c), Live \cup leaked))
          /\ \A c \in CPUs : Ranges(inuse[c])
      BY <1>1 DEF IInv, TreesOK
    <2>2. list'.state = "fresh" => \A c \in CPUs : Tree(c, Saved(c)', Live' \cup leaked')
      BY <2>1, <1>1, <1>2, <1>4
    <2> QED BY <2>1, <2>2, <1>1 DEF TreesOK
  <1>6. ScansOK'  BY <1>1 DEF IInv, ScansOK
  <1> QED BY <1>2, <1>3, <1>5, <1>6 DEF IInv

LEMMA InitBlockmapStep == ASSUME IInv, nova_init_blockmap_from_inode PROVE IInv'
  <1>1. /\ mode = "down" /\ blocknode /\ blocknode' = FALSE /\ mode' = "blockmap"
        /\ UNCHANGED <<inuse, map_id, pages, slot, dur, list, scan, pc, req, leaked, nospace>>
    BY DEF nova_init_blockmap_from_inode
  <1>2. /\ Live' = Live /\ SlotsOK' /\ ThreadsOK' /\ NoSpaceOK'
    BY <1>1, MountStep
  <1>3. Types'  BY <1>1 DEF IInv, Types
  <1>4. \A c \in CPUs : Saved(c)' = Saved(c)  BY <1>1 DEF Saved
  <1>5. TreesOK'
    <2>1. /\ list.state = "fresh" => (\A c \in CPUs : Tree(c, Saved(c), Live \cup leaked))
          /\ \A c \in CPUs : Ranges(inuse[c])
      BY <1>1 DEF IInv, TreesOK
    <2>2. list'.state = "fresh" => \A c \in CPUs : Tree(c, Saved(c)', Live' \cup leaked')
      BY <2>1, <1>1, <1>2, <1>4
    <2> QED BY <2>1, <2>2, <1>1 DEF TreesOK
  <1>6. ScansOK'  BY <1>1 DEF IInv, ScansOK
  <1> QED BY <1>2, <1>3, <1>5, <1>6 DEF IInv

\* A list that is there and not stale is the one of the last unmount.
LEMMA InitListStep == ASSUME IInv, nova_init_inode_list_from_inode PROVE IInv' \/ misled'
  <1> SUFFICES ASSUME ~misled' PROVE IInv'
    OBVIOUS
  <1>1. /\ mode = "blockmap" /\ mode' = "mounted" /\ list' = NoList
        /\ list.state # "none" /\ misled' = (misled \/ list.state = "stale")
        /\ inuse' = [c \in CPUs |-> Saved(c)]
        /\ UNCHANGED <<map_id, pages, slot, dur, blocknode, scan, pc, req, leaked, nospace>>
    BY DEF nova_init_inode_list_from_inode, Saved
  <1>2. /\ Live' = Live /\ Working' = {} /\ SlotsOK' /\ ThreadsOK' /\ NoSpaceOK'
    BY <1>1, MountStep
  <1>3. list.state = "fresh" /\ \A c \in CPUs : Tree(c, Saved(c), Live \cup leaked)
    <2>1. list.state \in {"none", "fresh", "stale"}  BY DEF IInv, Types
    <2>2. list.state = "fresh"  BY <1>1, <2>1
    <2> QED BY <1>1, <2>2 DEF IInv, TreesOK
  <1>4. \A c \in CPUs : inuse'[c] = Saved(c)  BY <1>1
  <1>5. \A c \in CPUs : Tree(c, inuse'[c], Live' \cup Working' \cup leaked')
    <2>1. Live' \cup Working' \cup leaked' = Live \cup leaked  BY <1>1, <1>2
    <2> QED BY <2>1, <1>3, <1>4
  <1>6. inuse' \in [CPUs -> SUBSET RangeNodes]
    <2>1. \A c \in CPUs : Saved(c) \in SUBSET RangeNodes  BY <1>3 DEF Tree, Ranges
    <2> QED BY <1>1, <2>1
  <1>7. Types'
    <2>1. list'.state \in {"none", "fresh", "stale"}  BY <1>1 DEF NoList
    <2> QED BY <2>1, <1>1, <1>6 DEF IInv, Types
  <1>8. blocknode = FALSE
    <2>1. blocknode \in BOOLEAN /\ (blocknode => mode = "down")  BY DEF IInv, Types, TreesOK
    <2> QED BY <1>1, <2>1
  <1>9. TreesOK'
    <2>1. \A c \in CPUs : Ranges(inuse'[c])  BY <1>5 DEF Tree
    <2>2. list'.state # "fresh"  BY <1>1 DEF NoList
    <2> QED BY <2>1, <2>2, <1>1, <1>5, <1>8 DEF TreesOK
  <1>10. ScansOK'  BY <1>1 DEF IInv, ScansOK
  <1> QED BY <1>2, <1>7, <1>9, <1>10 DEF IInv

LEMMA CrashStep == ASSUME IInv, Crash PROVE IInv'
  <1>1. /\ mode # "down" /\ mode' = "down" /\ dur' = slot' /\ Forget
        /\ UNCHANGED <<pages, list, blocknode, leaked, nospace>>
    BY DEF Crash
  <1>2. PICK kept \in SUBSET {n \in Inos : slot[n] # dur[n]} :
          slot' = [n \in Inos |-> IF n \in kept THEN slot[n] ELSE dur[n]]
    BY DEF Crash
  <1>3. Types /\ SlotsOK /\ ThreadsOK /\ TreesOK  BY DEF IInv
  <1>4. \A n \in Inos : slot'[n] = slot[n] \/ slot'[n] = dur[n]  BY <1>2
  <1>5. slot' \in [Inos -> Slots]
    <2>1. \A n \in Inos : slot[n] \in Slots /\ dur[n] \in Slots  BY <1>3 DEF Types
    <2> QED BY <2>1, <1>2
  <1>6. \A n \in Inos : slot'[n].valid = slot[n].valid /\ slot'[n].held = slot[n].held
    <2>1. \A n \in Inos : dur[n].valid = slot[n].valid /\ dur[n].held = slot[n].held  BY <1>3 DEF SlotsOK
    <2> QED BY <2>1, <1>4
  <1>7. Live' = Live
    <2>1. ASSUME NEW n \in Inos PROVE n \in Live' <=> n \in Live
      <3>1. n \in Live' <=> slot'[n].valid \/ slot'[n].held  BY DEF Live
      <3>2. n \in Live <=> slot[n].valid \/ slot[n].held  BY DEF Live
      <3> QED BY <3>1, <3>2, <1>6
    <2>2. Live \subseteq Inos /\ Live' \subseteq Inos  BY DEF Live
    <2> QED BY <2>1, <2>2
  <1>8. SlotsOK'
    <2>1. ASSUME NEW n \in Inos
          PROVE  /\ dur'[n].valid = slot'[n].valid /\ dur'[n].held = slot'[n].held
                 /\ n \in Live' => /\ slot'[n] = dur'[n] /\ slot'[n].mode /\ ~slot'[n].deleted
                                   /\ ~(slot'[n].valid /\ slot'[n].held) /\ InTable(n)'
      <3>1. n \in Live => /\ slot[n] = dur[n] /\ slot[n].mode /\ ~slot[n].deleted
                          /\ ~(slot[n].valid /\ slot[n].held) /\ InTable(n)
        BY <1>3 DEF SlotsOK
      <3>2. InTable(n) => InTable(n)'  BY <1>1 DEF InTable
      <3>3. n \in Live => slot'[n] = slot[n]  BY <3>1, <1>4
      <3> QED BY <3>1, <3>2, <3>3, <1>1, <1>7
    <2> QED BY <2>1 DEF SlotsOK
  <1>9. leaked' \cap Live' = {}  BY <1>1, <1>3, <1>7 DEF ThreadsOK
  <1>10. /\ inuse' \in [CPUs -> SUBSET RangeNodes] /\ map_id' \in CPUs
         /\ scan' \in [CPUs -> [count : Nat, i : Nat, low : Nat, high : Nat]]
         /\ pc' \in [Threads -> Labels] /\ req' \in [Threads -> [map : CPUs, ino : Nat]]
         /\ \A c \in CPUs : Ranges(inuse'[c])
         /\ ThreadsOK' /\ ScansOK'
    BY <1>1, <1>9, Forgotten
  <1>11. Types'  BY <1>1, <1>3, <1>5, <1>10 DEF Types
  <1>12. TreesOK'
    <2>1. ~blocknode'  BY <1>1, <1>3 DEF TreesOK
    <2> QED BY <2>1, <1>1, <1>10 DEF TreesOK
  <1>13. NoSpaceOK'  BY <1>1 DEF IInv, NoSpaceOK
  <1> QED BY <1>8, <1>10, <1>11, <1>12, <1>13 DEF IInv

-----------------------------------------------------------------------------
(* Recovery after a failure.                                                *)

\* One slot further on nothing more is taken, or the number of the slot.
LEMMA BeforeSlot ==
    ASSUME NEW c \in CPUs, NEW own, NEW p \in Nat, NEW k
    PROVE  k \in Before(c, own, p + 1) <=> k \in Before(c, own, p) \/ (k = p /\ p \in Taken(c, own))
  <1>1. ASSUME k \in Taken(c, own) PROVE k \in Nat
    BY <1>1, RangeHighNat, InternalsNat, SMT DEF Taken
  <1>2. ASSUME k \in Taken(c, own) PROVE k < p + 1 <=> k < p \/ k = p
    BY <1>1, <1>2, SMT
  <1> QED BY <1>2 DEF Before

LEMMA BeforeTaken ==
    ASSUME NEW c \in CPUs, NEW own, NEW p \in Nat, p \in Internals, Ino(c, p) \in own
    PROVE  Before(c, own, p + 1) = Before(c, own, p) \cup {p}
  <1>1. p \in Taken(c, own)  BY DEF Taken
  <1>2. \A k : k \in Before(c, own, p + 1) <=> k \in Before(c, own, p) \cup {p}  BY <1>1, BeforeSlot
  <1> QED BY <1>2

LEMMA BeforeFree ==
    ASSUME NEW c \in CPUs, NEW own, NEW p \in Nat, ~(p \in Internals /\ Ino(c, p) \in own)
    PROVE  Before(c, own, p + 1) = Before(c, own, p)
  <1>1. p \in Taken(c, own) => p \in Before(c, own, p)
    <2>1. ASSUME p \in Taken(c, own) PROVE p <= RangeHigh
      <3>1. p \in 0..RangeHigh  BY <2>1 DEF Taken
      <3> QED BY <3>1, RangeHighNat, SMT
    <2> QED BY <2>1 DEF Before
  <1>2. \A k : k \in Before(c, own, p + 1) <=> k \in Before(c, own, p)  BY <1>1, BeforeSlot
  <1> QED BY <1>2

\* The numbers before a slot behind the reserved ones.
LEMMA BeforeBelow ==
    ASSUME NEW c \in CPUs, NEW own, NEW p \in Internals, NEW k \in Before(c, own, p)
    PROVE  k < p
  <1>1. p \in Nat /\ RangeHigh < p  BY InternalsNat
  <1>2. k \in Nat /\ (k <= RangeHigh \/ k < p)
    BY RangeHighNat, InternalsNat, SMT DEF Before, Taken
  <1> QED BY <1>1, <1>2, RangeHighNat, SMT

\* The run goes into the tree (InsertRun).
LEMMA RunEnds ==
    ASSUME NEW c \in CPUs, NEW R, Ranges(R), NEW low, NEW high, NEW p, NEW own,
           Scanned(c, R, low, high, p, own), low # 0,
           NEW run, run.low = low, run.high = high
    PROVE  Ranges(InsertRun(R, run)) /\ Scanned(c, InsertRun(R, run), 0, 0, p, own)
  <1>1. PICK a \in Internals, b \in Internals :
          /\ low = Ino(c, a) /\ high = Ino(c, b) /\ a <= b /\ b < p /\ \A r \in R : r.high < a
    BY DEF Scanned
  <1>2. a \in Nat /\ b \in Nat /\ b <= Top  BY InternalsNat
  <1>3. Internal(low) = a /\ Internal(high) = b  BY <1>1, <1>2, InoTells
  <1>4. InsertRun(R, run) = nova_failure_insert_inodetree(R, a, b)  BY <1>3 DEF InsertRun
  <1>5. /\ Ranges(nova_failure_insert_inodetree(R, a, b))
        /\ Covered(nova_failure_insert_inodetree(R, a, b)) = Covered(R) \cup (a..b)
    BY <1>1, <1>2, InsertAdds
  <1>6. Covered(R) \cup Run(low, high) = Before(c, own, p)  BY DEF Scanned
  <1>7. Run(low, high) = a..b  BY <1>3 DEF Run
  <1>8. Run(0, 0) = {}  BY DEF Run
  <1>9. Scanned(c, InsertRun(R, run), 0, 0, p, own)
    <2>1. Covered(InsertRun(R, run)) \cup Run(0, 0) = Before(c, own, p)
      BY <1>4, <1>5, <1>6, <1>7, <1>8
    <2> QED BY <2>1 DEF Scanned
  <1> QED BY <1>4, <1>5, <1>9

\* A run begins.
LEMMA RunBegins ==
    ASSUME NEW c \in CPUs, NEW R, Ranges(R), NEW high, NEW p \in Internals, NEW own,
           Scanned(c, R, 0, high, p, own), Ino(c, p) \in own
    PROVE  Scanned(c, R, Ino(c, p), Ino(c, p), p + 1, own)
  <1>1. p \in Nat /\ RangeHigh < p  BY InternalsNat
  <1>2. Covered(R) = Before(c, own, p)
    <2>1. Covered(R) \cup Run(0, high) = Before(c, own, p)  BY DEF Scanned
    <2>2. Run(0, high) = {}  BY DEF Run
    <2> QED BY <2>1, <2>2
  <1>3. \A x \in Covered(R) : x < p  BY <1>2, BeforeBelow
  <1>4. \A r \in R : r.high < p  BY <1>3, EndOf
  <1>5. Internal(Ino(c, p)) = p /\ Ino(c, p) # 0
    <2>1. p > 0  BY <1>1, RangeHighNat, SMT
    <2> QED BY <2>1, <1>1, InoTells, InoNext
  <1>6. Run(Ino(c, p), Ino(c, p)) = {p}
    <2>1. p..p = {p}  BY <1>1, SMT
    <2> QED BY <2>1, <1>5 DEF Run
  <1>7. Before(c, own, p + 1) = Before(c, own, p) \cup {p}  BY <1>1, BeforeTaken
  <1>8. p <= p /\ p < p + 1  BY <1>1, SMT
  <1> QED BY <1>2, <1>4, <1>6, <1>7, <1>8 DEF Scanned

\* The slot of an inode (nova_failure_update_inodetree).
LEMMA ScanFinds ==
    ASSUME NEW c \in CPUs, NEW R, Ranges(R), NEW low, NEW high, NEW p \in Internals, NEW own,
           Scanned(c, R, low, high, p, own), NEW n, n = Ino(c, p), n \in own,
           NEW old, old = [low |-> low, high |-> high],
           NEW run, run = nova_failure_update_inodetree(old, n),
           NEW R2, R2 = TreeBefore(R, old, n)
    PROVE  Ranges(R2) /\ Scanned(c, R2, run.low, run.high, p + 1, own)
  <1>1. p \in Nat /\ RangeHigh < p  BY InternalsNat
  <1>2. old.low = low /\ old.high = high  OBVIOUS
  <1>3. run.low = (IF Joins(old, n) THEN low ELSE n) /\ run.high = n
    BY <1>2 DEF nova_failure_update_inodetree
  <1>4. CASE low = 0
    <2>1. ~Joins(old, n) /\ R2 = R  BY <1>2, <1>4 DEF Joins, TreeBefore
    <2>2. Scanned(c, R, n, n, p + 1, own)  BY <1>4, RunBegins
    <2> QED BY <2>1, <2>2, <1>3
  <1>5. CASE low # 0 /\ ~Joins(old, n)
    <2>1. R2 = InsertRun(R, old)  BY <1>2, <1>5 DEF TreeBefore
    <2>2. Ranges(InsertRun(R, old)) /\ Scanned(c, InsertRun(R, old), 0, 0, p, own)
      BY <1>2, <1>5, RunEnds
    <2>3. Scanned(c, R2, n, n, p + 1, own)  BY <2>1, <2>2, RunBegins
    <2> QED BY <2>1, <2>2, <2>3, <1>3, <1>5
  <1>6. CASE low # 0 /\ Joins(old, n)
    <2>1. R2 = R /\ n = high + cpus  BY <1>2, <1>6 DEF TreeBefore, Joins
    <2>2. PICK a \in Internals, b \in Internals :
            /\ low = Ino(c, a) /\ high = Ino(c, b) /\ a <= b /\ b < p /\ \A r \in R : r.high < a
      BY <1>6 DEF Scanned
    <2>3. a \in Nat /\ b \in Nat  BY InternalsNat
    <2>4. p = b + 1
      <3>1. Ino(c, p) = Ino(c, b) + cpus  BY <2>1, <2>2
      <3> QED BY <3>1, <1>1, <2>3, InoNext
    <2>5. Internal(low) = a /\ Internal(high) = b /\ Internal(n) = p  BY <1>1, <2>2, <2>3, InoTells
    <2>6. Run(low, high) = a..b /\ Run(low, n) = a..p  BY <1>6, <2>5 DEF Run
    <2>7. a..p = (a..b) \cup {p} /\ a <= p /\ p < p + 1  BY <2>2, <2>3, <2>4, SMT
    <2>8. Covered(R) \cup Run(low, high) = Before(c, own, p)  BY DEF Scanned
    <2>9. Before(c, own, p + 1) = Before(c, own, p) \cup {p}  BY <1>1, BeforeTaken
    <2>10. Covered(R) \cup Run(low, n) = Before(c, own, p + 1)
      <3>1. Covered(R) \cup ((a..b) \cup {p}) = (Covered(R) \cup (a..b)) \cup {p}  OBVIOUS
      <3> QED BY <3>1, <2>6, <2>7, <2>8, <2>9
    <2>11. Scanned(c, R, low, n, p + 1, own)  BY <2>2, <2>7, <2>10 DEF Scanned
    <2> QED BY <2>1, <2>11, <1>3, <1>6
  <1> QED BY <1>4, <1>5, <1>6

\* Any other slot.
LEMMA ScanPasses ==
    ASSUME NEW c \in CPUs, NEW R, NEW low, NEW high, NEW p \in Nat, NEW own,
           Scanned(c, R, low, high, p, own), ~(p \in Internals /\ Ino(c, p) \in own)
    PROVE  Scanned(c, R, low, high, p + 1, own)
  <1>1. Before(c, own, p + 1) = Before(c, own, p)  BY BeforeFree
  <1>2. \A b \in Internals : b < p => b < p + 1
    <2>1. ASSUME NEW b \in Internals, b < p PROVE b < p + 1
      <3>1. b \in Nat  BY InternalsNat
      <3> QED BY <3>1, <2>1, SMT
    <2> QED BY <2>1
  <1>3. Covered(R) \cup Run(low, high) = Before(c, own, p + 1)  BY <1>1 DEF Scanned
  <1>4. ASSUME low # 0
        PROVE  \E a, b \in Internals : /\ low = Ino(c, a) /\ high = Ino(c, b)
                                       /\ a <= b /\ b < p + 1 /\ \A r \in R : r.high < a
    <2>1. PICK a \in Internals, b \in Internals :
            /\ low = Ino(c, a) /\ high = Ino(c, b) /\ a <= b /\ b < p /\ \A r \in R : r.high < a
      BY <1>4 DEF Scanned
    <2> QED BY <2>1, <1>2
  <1> QED BY <1>3, <1>4 DEF Scanned

\* The range that every tree starts with.
LEMMA ReservedRange ==
    /\ Ranges({Reserved}) /\ Covered({Reserved}) = 0..RangeHigh
    /\ \A c \in CPUs : \A own : Before(c, own, 0) = 0..RangeHigh
  <1>1. Reserved \in RangeNodes /\ Reserved.low = 0 /\ Reserved.high = RangeHigh /\ 0 \in Nat
    BY RangeHighNat, NodeFacts DEF Reserved
  <1>2. Ranges({Reserved})
    <2>1. 0 <= RangeHigh /\ RangeHigh <= Top  BY RangeHighNat, SMT
    <2> QED BY <1>1, <2>1 DEF Ranges
  <1>3. Covered({Reserved}) = 0..RangeHigh
    <2>1. Reserved \in {Reserved}  OBVIOUS
    <2>2. Covered({Reserved}) = Reserved.low..Reserved.high  BY <1>2, <2>1, CoveredOne
    <2> QED BY <2>2, <1>1
  <1>4. ASSUME NEW c \in CPUs, NEW own PROVE Before(c, own, 0) = 0..RangeHigh
    <2>1. ASSUME NEW k \in Internals PROVE ~(k <= RangeHigh \/ k < 0)
      <3>1. k \in Nat /\ RangeHigh < k  BY InternalsNat
      <3> QED BY <3>1, RangeHighNat, SMT
    <2>2. ASSUME NEW k \in 0..RangeHigh PROVE k <= RangeHigh
      BY RangeHighNat, SMT
    <2> QED BY <2>1, <2>2 DEF Before, Taken
  <1> QED BY <1>2, <1>3, <1>4

LEMMA FailureRecoveryStep == ASSUME IInv, nova_failure_recovery PROVE IInv'
  <1>1. /\ \/ mode = "down" /\ ~blocknode
           \/ mode = "blockmap" /\ list.state = "none"
        /\ inuse' = [c \in CPUs |-> {Reserved}] /\ mode' = "scan" /\ leaked' = {}
        /\ UNCHANGED <<map_id, pages, slot, dur, blocknode, scan, pc, req, nospace>>
        /\ list' = IF list.state = "none" THEN list ELSE [state |-> "stale", ranges |-> list.ranges]
    BY DEF nova_failure_recovery
  <1>2. mode # "mounted" /\ mode # "scan" /\ leaked' \subseteq leaked  BY <1>1
  <1>3. /\ Live' = Live /\ SlotsOK' /\ ThreadsOK' /\ NoSpaceOK' /\ pages' \in [CPUs -> Nat]
    BY <1>1, <1>2, MountStep
  <1>4. \A c \in CPUs : inuse'[c] = {Reserved} /\ Ranges(inuse'[c])  BY <1>1, ReservedRange
  <1>5. inuse' \in [CPUs -> SUBSET RangeNodes]
    <2>1. {Reserved} \in SUBSET RangeNodes  BY ReservedRange DEF Ranges
    <2> QED BY <2>1, <1>1
  <1>6. Types'
    <2>1. list'.state \in {"none", "fresh", "stale"}
      <3>1. list' = list \/ list'.state = "stale"  BY <1>1, SMT
      <3>2. list.state \in {"none", "fresh", "stale"}  BY DEF IInv, Types
      <3> QED BY <3>1, <3>2
    <2>2. Types /\ leaked' \subseteq Inos  BY <1>1 DEF IInv
    <2> QED BY <2>1, <2>2, <1>1, <1>5 DEF Types
  <1>7. ~blocknode
    <2>1. blocknode => mode = "down"  BY DEF IInv, TreesOK
    <2> QED BY <2>1, <1>1
  <1>8. TreesOK'
    <2>1. list'.state # "fresh"
      <3>1. list.state = "none" => list' = list  BY <1>1
      <3>2. list.state # "none" => list'.state = "stale"  BY <1>1
      <3> QED BY <3>1, <3>2
    <2> QED BY <1>1, <1>4, <1>7, <2>1 DEF TreesOK
  <1>9. ASSUME NEW c \in CPUs PROVE ScanOK(c)'
    <2>1. scan = [d \in CPUs |-> NoScan]  BY <1>2 DEF IInv, ScansOK
    <2>2. scan'[c] = NoScan  BY <2>1, <1>1
    <2>3. scan'[c].count = 0 /\ scan'[c].i = 0 /\ scan'[c].low = 0 /\ scan'[c].high = 0
      <3>1. NoScan.count = 0 /\ NoScan.i = 0 /\ NoScan.low = 0 /\ NoScan.high = 0  BY SMT DEF NoScan
      <3> QED BY <2>2, <3>1
    <2>4. InodesPerPage \in Nat \ {0}  BY InodeTableConstants
    <2>5. 0 < InodesPerPage /\ 0 * InodesPerPage + 0 = 0  BY <2>4, SMT
    <2>6. Position(c)' = 0  BY <2>3, <2>5 DEF Position
    <2>7. 0 <= pages'[c]
      <3>1. pages'[c] \in Nat  BY <1>3
      <3>2. PICK q \in Nat : q = pages'[c]  BY <3>1
      <3>3. 0 <= q  BY SMT
      <3> QED BY <3>2, <3>3
    <2>8. Scanned(c, {Reserved}, 0, 0, 0, Live')
      <3>1. Run(0, 0) = {}  BY DEF Run
      <3>2. Covered({Reserved}) = 0..RangeHigh /\ Before(c, Live', 0) = 0..RangeHigh  BY ReservedRange
      <3> QED BY <3>1, <3>2 DEF Scanned
    <2>9. Scanned(c, inuse'[c], scan'[c].low, scan'[c].high, Position(c)', Live')
      BY <2>3, <2>6, <2>8, <1>4
    <2> QED BY <2>3, <2>5, <2>7, <2>9 DEF ScanOK
  <1>10. ScansOK'  BY <1>1, <1>9 DEF ScansOK
  <1> QED BY <1>3, <1>6, <1>8, <1>10 DEF IInv

LEMMA WaitStep == ASSUME IInv, wait_to_finish PROVE IInv'
  <1>1. /\ mode = "scan" /\ (\A c \in CPUs : scan[c].count = pages[c]) /\ mode' = "mounted"
        /\ scan' = [c \in CPUs |-> NoScan]
        /\ UNCHANGED <<inuse, map_id, pages, slot, dur, list, blocknode, pc, req, leaked, nospace>>
    BY DEF wait_to_finish
  <1>2. mode # "mounted" /\ leaked' \subseteq leaked  BY <1>1
  <1>3. /\ Live' = Live /\ Working' = {} /\ SlotsOK' /\ ThreadsOK' /\ NoSpaceOK'
    BY <1>1, <1>2, MountStep
  <1>4. leaked = {} /\ \A c \in CPUs : ScanOK(c)  BY <1>1 DEF IInv, ScansOK
  <1>5. /\ SlotsOK /\ Types /\ (\A c \in CPUs : Ranges(inuse[c])) /\ (blocknode => mode = "down")
        /\ pages \in [CPUs -> Nat]
    BY DEF IInv, TreesOK, Types
  <1>6. ASSUME NEW c \in CPUs PROVE Tree(c, inuse[c], Live)
    <2>1. /\ scan[c].i = 0 /\ scan[c].low = 0
          /\ Scanned(c, inuse[c], scan[c].low, scan[c].high, Position(c), Live)
      BY <1>1, <1>4 DEF ScanOK
    <2>2. PICK p \in Nat : p = pages[c]  BY <1>5
    <2>3. InodesPerPage \in Nat  BY InodeTableConstants
    <2>4. Position(c) = p * InodesPerPage
      <3>1. Position(c) = p * InodesPerPage + 0  BY <1>1, <2>1, <2>2 DEF Position
      <3>2. p * InodesPerPage \in Nat  BY <2>3, ProductNat
      <3>3. p * InodesPerPage + 0 = p * InodesPerPage  BY <3>2, SMT
      <3> QED BY <3>1, <3>3
    <2>5. Covered(inuse[c]) = Before(c, Live, p * InodesPerPage)
      <3>1. Covered(inuse[c]) \cup Run(scan[c].low, scan[c].high) = Before(c, Live, Position(c))
        BY <2>1 DEF Scanned
      <3>2. Run(scan[c].low, scan[c].high) = {}  BY <2>1 DEF Run
      <3> QED BY <3>1, <3>2, <2>4
    <2>6. ASSUME NEW k \in Internals, Ino(c, k) \in Live PROVE k < p * InodesPerPage
      <3>1. k \in Nat /\ Ino(c, k) \in Inos  BY InternalsNat, InoOf
      <3>2. InTable(Ino(c, k))  BY <2>6, <3>1, <1>5 DEF SlotsOK
      <3>3. Internal(Ino(c, k)) = k /\ Cpu(Ino(c, k)) = c  BY <3>1, InoTells
      <3> QED BY <3>2, <3>3, <2>2 DEF InTable
    <2>7. ASSUME NEW k \in 0..RangeHigh PROVE k <= RangeHigh  BY RangeHighNat, SMT
    <2>8. Before(c, Live, p * InodesPerPage) = Taken(c, Live)
      <3>1. ASSUME NEW k \in Taken(c, Live) PROVE k <= RangeHigh \/ k < p * InodesPerPage
        BY <2>6, <2>7 DEF Taken
      <3> QED BY <3>1 DEF Before
    <2> QED BY <2>5, <2>8, <1>5 DEF Tree
  <1>7. \A c \in CPUs : Tree(c, inuse'[c], Live' \cup Working' \cup leaked')
    <2>1. Live' \cup Working' \cup leaked' = Live  BY <1>1, <1>3, <1>4
    <2> QED BY <2>1, <1>1, <1>6
  <1>8. ~blocknode  BY <1>1, <1>5
  <1>9. TreesOK'
    <2>1. list.state # "fresh"  BY <1>1 DEF IInv, TreesOK
    <2> QED BY <1>1, <1>5, <1>7, <1>8, <2>1 DEF TreesOK
  <1>10. NoScan \in [count : Nat, i : Nat, low : Nat, high : Nat]
    <2>1. 0 \in Nat  OBVIOUS
    <2> QED BY <2>1 DEF NoScan
  <1>11. scan' \in [CPUs -> [count : Nat, i : Nat, low : Nat, high : Nat]]  BY <1>1, <1>10
  <1>12. Types'  BY <1>1, <1>5, <1>11 DEF Types
  <1>13. ScansOK'  BY <1>1 DEF ScansOK
  <1> QED BY <1>3, <1>9, <1>12, <1>13 DEF IInv

\* What the thread takes for an inode in use is one that a name or a snapshot shows.
LEMMA AliveIsLive ==
    ASSUME IInv, NEW c \in CPUs, NEW p \in Nat, NEW n, n = Ino(c, p)
    PROVE  /\ n \in Inos /\ Alive(slot[n]) <=> n \in Live
           /\ n \in Inos <=> p \in Internals
  <1>1. n \in Inos <=> p \in Internals
    <2>1. ASSUME n \in Inos PROVE p \in Internals
      <3>1. Internal(n) \in Internals  BY <2>1, InosTell
      <3>2. Internal(n) = p  BY InoTells
      <3> QED BY <3>1, <3>2
    <2>2. ASSUME p \in Internals PROVE n \in Inos  BY <2>2, InoOf
    <2> QED BY <2>1, <2>2
  <1>2. n \in Live => n \in Inos /\ slot[n].mode /\ ~slot[n].deleted /\ (slot[n].valid \/ slot[n].held)
    BY DEF IInv, SlotsOK, Live
  <1>3. n \in Inos /\ Alive(slot[n]) <=> n \in Live  BY <1>2 DEF Live, Alive
  <1> QED BY <1>1, <1>3

\* A slot that is not in use is marked; this shows nothing and hides nothing.
LEMMA MarkSlot ==
    ASSUME IInv, NEW n, n \notin Live, pages' = pages,
           slot' = (IF n \in Inos /\ slot[n].mode THEN [slot EXCEPT ![n].deleted = TRUE] ELSE slot),
           dur' = dur
    PROVE  /\ slot' \in [Inos -> Slots] /\ SlotsOK' /\ Live' = Live
  <1>1. Types /\ SlotsOK /\ slot \in [Inos -> Slots] /\ dur \in [Inos -> Slots]  BY DEF IInv, Types
  <1>2. CASE n \in Inos /\ slot[n].mode
    <2>1. /\ slot[n] \in Slots /\ dur[n] \in Slots
          /\ ~slot[n].valid /\ ~slot[n].held /\ ~dur[n].valid /\ ~dur[n].held
      BY <1>2, Unseen
    <2>2. PICK s : s = [slot[n] EXCEPT !.deleted = TRUE]  OBVIOUS
    <2>3. s \in Slots /\ s.valid = slot[n].valid /\ s.held = slot[n].held  BY <2>1, <2>2, SlotFields
    <2>4. PICK d \in Slots : d = dur[n]  BY <2>1
    <2>5. slot' = [slot EXCEPT ![n] = s]  BY <1>2, <2>2
    <2>6. dur' = [dur EXCEPT ![n] = d]  BY <1>1, <2>4
    <2>7. d.valid = dur[n].valid /\ d.held = dur[n].held  BY <2>4
    <2>8. ~s.valid /\ ~s.held /\ d.valid = s.valid /\ d.held = s.held
      <3>1. dur[n].valid = slot[n].valid /\ dur[n].held = slot[n].held  BY <1>1, <1>2 DEF SlotsOK
      <3> QED BY <2>1, <2>3, <2>7, <3>1
    <2>9. n \in Inos /\ s \in Slots /\ d \in Slots /\ pages' = pages  BY <1>2, <2>3
    <2>10. slot' \in [Inos -> Slots] /\ SlotsOK' /\ Live' = Live \ {n}
      BY ONLY <1>1, <2>5, <2>6, <2>8, <2>9, SlotSet, Zenon
    <2>11. Live \ {n} = Live  OBVIOUS
    <2> QED BY <2>10, <2>11
  <1>3. CASE ~(n \in Inos /\ slot[n].mode)
    <2>1. slot' = slot  BY <1>3
    <2>2. \A m \in Inos : InTable(m) => InTable(m)'  BY DEF InTable
    <2> QED BY <1>1, <2>1, <2>2, SlotsKept
  <1> QED BY <1>2, <1>3

\* Where the thread is after the slot.
LEMMA NextPosition ==
    ASSUME NEW count \in Nat, NEW i \in Nat, i < InodesPerPage
    PROVE  /\ count * InodesPerPage + i \in Nat /\ i + 1 \in Nat /\ count + 1 \in Nat
           /\ count * InodesPerPage + (i + 1) = (count * InodesPerPage + i) + 1
           /\ ~(i + 1 < InodesPerPage) =>
                (count + 1) * InodesPerPage + 0 = (count * InodesPerPage + i) + 1
  <1>1. InodesPerPage \in Nat \ {0}  BY InodeTableConstants
  <1>2. count * InodesPerPage \in Nat  BY <1>1, ProductNat
  <1>3. (count + 1) * InodesPerPage = count * InodesPerPage + InodesPerPage  BY <1>1, SMT
  <1>4. i + 1 \in Nat /\ count + 1 \in Nat /\ count * InodesPerPage + i \in Nat
        /\ count * InodesPerPage + (i + 1) = (count * InodesPerPage + i) + 1
    BY <1>2, SMT
  <1>5. ASSUME ~(i + 1 < InodesPerPage) PROVE i + 1 = InodesPerPage  BY <1>1, <1>5, SMT
  <1>6. ASSUME i + 1 = InodesPerPage
        PROVE  (count + 1) * InodesPerPage + 0 = (count * InodesPerPage + i) + 1
    BY <1>1, <1>2, <1>3, <1>6, SMT
  <1> QED BY <1>4, <1>5, <1>6

\* The tree and the run after one slot, before the end of the superpage is looked at.
LEMMA ScanOne ==
    ASSUME IInv, NEW c \in CPUs, NEW p \in Nat, NEW n, n = Ino(c, p), NEW low \in Nat, NEW high \in Nat,
           Scanned(c, inuse[c], low, high, p, Live), NEW alive, alive = (n \in Inos /\ Alive(slot[n])),
           NEW old, old = [low |-> low, high |-> high],
           NEW run, run = (IF alive THEN nova_failure_update_inodetree(old, n) ELSE old),
           NEW R, R = (IF alive THEN TreeBefore(inuse[c], old, n) ELSE inuse[c])
    PROVE  /\ Ranges(R) /\ run.low \in Nat /\ run.high \in Nat
           /\ Scanned(c, R, run.low, run.high, p + 1, Live)
  <1>1. Ranges(inuse[c])  BY DEF IInv, TreesOK
  <1>2. (alive <=> n \in Live) /\ (n \in Inos <=> p \in Internals)  BY AliveIsLive
  <1>3. n \in Nat  BY InoTells
  <1>4. old.low = low /\ old.high = high  OBVIOUS
  <1>5. CASE alive
    <2>1. n \in Live /\ p \in Internals  BY <1>2, <1>5
    <2>2. PICK run2 : run2 = nova_failure_update_inodetree(old, n)  OBVIOUS
    <2>3. PICK R2 : R2 = TreeBefore(inuse[c], old, n)  OBVIOUS
    <2>4. run = run2 /\ R = R2  BY <1>5, <2>2, <2>3
    <2>5. Ranges(R2) /\ Scanned(c, R2, run2.low, run2.high, p + 1, Live)
      BY <1>1, <2>1, <2>2, <2>3, ScanFinds
    <2>6. run2.low \in Nat /\ run2.high \in Nat
      <3>1. run2.low = (IF Joins(old, n) THEN low ELSE n) /\ run2.high = n
        BY <2>2, <1>4 DEF nova_failure_update_inodetree
      <3> QED BY <3>1, <1>3
    <2> QED BY <2>4, <2>5, <2>6
  <1>6. CASE ~alive
    <2>1. ~(p \in Internals /\ Ino(c, p) \in Live)  BY <1>2, <1>6
    <2>2. Scanned(c, inuse[c], low, high, p + 1, Live)  BY <2>1, ScanPasses
    <2> QED BY <2>2, <1>1, <1>4, <1>6
  <1> QED BY <1>5, <1>6

LEMMA ScanStep == ASSUME IInv, NEW c \in CPUs, failure_thread_func(c) PROVE IInv'
  <1> DEFINE s == scan[c]
             n == Ino(c, s.count * InodesPerPage + s.i)
             old == [low |-> s.low, high |-> s.high]
             alive == n \in Inos /\ Alive(slot[n])
             run == IF alive THEN nova_failure_update_inodetree(old, n) ELSE old
             ranges == IF alive THEN TreeBefore(inuse[c], old, n) ELSE inuse[c]
             last == IF run.low = 0 THEN ranges ELSE InsertRun(ranges, run)
  <1>1. /\ mode = "scan" /\ s.count < pages[c]
        /\ slot' = IF n \in Inos /\ ~alive /\ slot[n].mode THEN [slot EXCEPT ![n].deleted = TRUE] ELSE slot
        /\ IF s.i + 1 < InodesPerPage
           THEN /\ scan' = [scan EXCEPT ![c] = [count |-> s.count, i |-> s.i + 1, low |-> run.low, high |-> run.high]]
                /\ inuse' = [inuse EXCEPT ![c] = ranges]
           ELSE /\ scan' = [scan EXCEPT ![c] = [count |-> s.count + 1, i |-> 0, low |-> 0, high |-> 0]]
                /\ inuse' = [inuse EXCEPT ![c] = last]
        /\ UNCHANGED <<map_id, pages, dur, list, blocknode, mode, pc, req, leaked, nospace>>
    BY DEF failure_thread_func
  <1>2. /\ Types /\ SlotsOK /\ ThreadsOK /\ leaked = {} /\ (\A d \in CPUs : ScanOK(d))
        /\ (\A d \in CPUs : Ranges(inuse[d])) /\ (blocknode => mode = "down") /\ list.state # "fresh"
    BY <1>1 DEF IInv, ScansOK, TreesOK
  <1>3. /\ inuse \in [CPUs -> SUBSET RangeNodes] /\ pages \in [CPUs -> Nat]
        /\ scan \in [CPUs -> [count : Nat, i : Nat, low : Nat, high : Nat]]
    BY <1>2 DEF Types
  <1>4. s.count \in Nat /\ s.i \in Nat /\ s.low \in Nat /\ s.high \in Nat
    <2>1. s \in [count : Nat, i : Nat, low : Nat, high : Nat]  BY <1>3
    <2> HIDE DEF s
    <2> QED BY <2>1
  <1>5. s.i < InodesPerPage /\ Scanned(c, inuse[c], s.low, s.high, Position(c), Live)
    BY <1>2 DEF ScanOK
  <1>6. Position(c) = s.count * InodesPerPage + s.i  BY DEF Position
  <1>7. PICK p \in Nat : p = s.count * InodesPerPage + s.i  BY <1>4, <1>5, NextPosition
  <1>8. /\ Ranges(ranges) /\ run.low \in Nat /\ run.high \in Nat
        /\ Scanned(c, ranges, run.low, run.high, p + 1, Live)
    <2>1. PICK m : m = Ino(c, p)  OBVIOUS
    <2>2. n = m  BY <2>1, <1>7
    <2>3. PICK low \in Nat : low = s.low  BY <1>4
    <2>4. PICK high \in Nat : high = s.high  BY <1>4
    <2>5. PICK o : o = [low |-> low, high |-> high]  OBVIOUS
    <2>6. old = o  BY <2>3, <2>4, <2>5
    <2>7. PICK a : a = (m \in Inos /\ Alive(slot[m]))  OBVIOUS
    <2>8. alive <=> a  BY <2>2, <2>7
    <2>9. PICK r : r = (IF a THEN nova_failure_update_inodetree(o, m) ELSE o)  OBVIOUS
    <2>10. PICK R : R = (IF a THEN TreeBefore(inuse[c], o, m) ELSE inuse[c])  OBVIOUS
    <2>11. Scanned(c, inuse[c], low, high, p, Live)  BY <1>5, <1>6, <1>7, <2>3, <2>4
    <2>12. Ranges(R) /\ r.low \in Nat /\ r.high \in Nat /\ Scanned(c, R, r.low, r.high, p + 1, Live)
      BY <2>1, <2>5, <2>7, <2>9, <2>10, <2>11, ScanOne
    <2>13. run = r /\ ranges = R
      <3> HIDE DEF s, n, old, alive
      <3> QED BY <2>2, <2>6, <2>8, <2>9, <2>10
    <2> QED BY <2>12, <2>13
  <1>9. alive <=> n \in Live
    <2>1. n = Ino(c, p)  BY <1>7
    <2> HIDE DEF n
    <2> QED BY <2>1, AliveIsLive
  <1>10. slot' \in [Inos -> Slots] /\ SlotsOK' /\ Live' = Live
    <2>1. CASE alive
      <3>1. slot' = slot  BY <1>1, <2>1
      <3>2. \A m \in Inos : InTable(m) => InTable(m)'  BY <1>1 DEF InTable
      <3>3. Live' = Live /\ SlotsOK'  BY <1>1, <1>2, <3>1, <3>2, SlotsKept
      <3> QED BY <3>1, <3>3, <1>2 DEF Types
    <2>2. CASE ~alive
      <3>1. n \notin Live  BY <1>9, <2>2
      <3>2. slot' = (IF n \in Inos /\ slot[n].mode THEN [slot EXCEPT ![n].deleted = TRUE] ELSE slot)
        BY <1>1, <2>2
      <3>3. pages' = pages /\ dur' = dur  BY <1>1
      <3> HIDE DEF n
      <3> QED BY <3>1, <3>2, <3>3, MarkSlot
    <2> QED BY <2>1, <2>2
  <1>11. Working' = {} /\ ThreadsOK'
    <2>1. (\A t \in Threads : pc'[t] = "idle") /\ leaked' \cap Live' = {}  BY <1>1, <1>2 DEF ThreadsOK
    <2> QED BY <2>1, AllIdle
  <1> HIDE DEF run, ranges, alive, n, old
  <1>12. Ranges(last) /\ Scanned(c, last, 0, 0, p + 1, Live)
    <2>1. CASE run.low = 0
      <3>1. Scanned(c, ranges, 0, run.high, p + 1, Live)  BY <1>8, <2>1
      <3>2. Run(0, run.high) = {} /\ Run(0, 0) = {}  BY DEF Run
      <3>3. Scanned(c, ranges, 0, 0, p + 1, Live)  BY <3>1, <3>2 DEF Scanned
      <3> QED BY <3>3, <2>1, <1>8
    <2>2. CASE run.low # 0
      <3>1. PICK q : q = p + 1  OBVIOUS
      <3>2. Scanned(c, ranges, run.low, run.high, q, Live) /\ Ranges(ranges)  BY <3>1, <1>8
      <3>3. Ranges(InsertRun(ranges, run)) /\ Scanned(c, InsertRun(ranges, run), 0, 0, q, Live)
        BY <3>2, <2>2, RunEnds
      <3> QED BY <3>1, <3>3, <2>2
    <2> QED BY <2>1, <2>2
  <1>13. ASSUME NEW e \in [count : Nat, i : Nat, low : Nat, high : Nat], NEW R,
                scan' = [scan EXCEPT ![c] = e], inuse' = [inuse EXCEPT ![c] = R], Ranges(R),
                e.count <= pages[c], e.i < InodesPerPage, e.count = pages[c] => e.i = 0,
                e.i = 0 => e.low = 0, e.count * InodesPerPage + e.i = p + 1,
                Scanned(c, R, e.low, e.high, p + 1, Live)
         PROVE  IInv'
    <2>1. /\ scan'[c] = e /\ inuse'[c] = R
          /\ \A d \in CPUs : d # c => scan'[d] = scan[d] /\ inuse'[d] = inuse[d]
      BY <1>3, <1>13
    <2>2. R \in SUBSET RangeNodes  BY <1>13 DEF Ranges
    <2>3. /\ inuse' \in [CPUs -> SUBSET RangeNodes]
          /\ scan' \in [CPUs -> [count : Nat, i : Nat, low : Nat, high : Nat]]
      BY <2>2, <1>3, <1>13
    <2>4. Types'  BY <2>3, <1>1, <1>2, <1>10 DEF Types
    <2>5. \A d \in CPUs : Ranges(inuse'[d])  BY <2>1, <1>2, <1>13
    <2>6. TreesOK'  BY <2>5, <1>1, <1>2 DEF TreesOK
    <2>7. ASSUME NEW d \in CPUs PROVE ScanOK(d)'
      <3>1. CASE d = c
        <4>1. Position(c)' = p + 1  BY <2>1, <1>13 DEF Position
        <4>2. Scanned(c, inuse'[c], scan'[c].low, scan'[c].high, Position(c)', Live')
          BY <2>1, <4>1, <1>10, <1>13
        <4> QED BY <3>1, <2>1, <4>2, <1>1, <1>13 DEF ScanOK
      <3>2. CASE d # c
        <4>1. Position(d)' = Position(d)  BY <2>1, <3>2 DEF Position
        <4>2. scan'[d] = scan[d] /\ inuse'[d] = inuse[d] /\ pages'[d] = pages[d]  BY <2>1, <3>2, <1>1
        <4>3. ScanOK(d)  BY <1>2
        <4> QED BY <4>1, <4>2, <4>3, <1>10 DEF ScanOK
      <3> QED BY <3>1, <3>2
    <2>8. ScansOK'  BY <2>7, <1>1, <1>2 DEF ScansOK
    <2>9. NoSpaceOK'  BY <1>1 DEF IInv, NoSpaceOK
    <2> QED BY <2>4, <2>6, <2>8, <2>9, <1>10, <1>11 DEF IInv
  <1>14. CASE s.i + 1 < InodesPerPage
    <2>1. PICK e : e = [count |-> s.count, i |-> s.i + 1, low |-> run.low, high |-> run.high]  OBVIOUS
    <2>2. e.count = s.count /\ e.i = s.i + 1 /\ e.low = run.low /\ e.high = run.high  BY <2>1
    <2>3. /\ s.i + 1 \in Nat /\ s.count * InodesPerPage + (s.i + 1) = p + 1  BY <1>4, <1>5, <1>7, NextPosition
    <2>4. e \in [count : Nat, i : Nat, low : Nat, high : Nat]  BY <2>1, <2>3, <1>4, <1>8
    <2>5. s.count <= pages[c] /\ s.count # pages[c] /\ s.i + 1 # 0
      <3>1. PICK q \in Nat : q = pages[c]  BY <1>3
      <3>2. s.count < q  BY <1>1, <3>1
      <3> HIDE DEF s
      <3>3. s.count <= q /\ s.count # q /\ s.i + 1 # 0  BY <3>2, <1>4, SMT
      <3> QED BY <3>1, <3>3
    <2>6. scan' = [scan EXCEPT ![c] = e] /\ inuse' = [inuse EXCEPT ![c] = ranges]  BY <1>1, <1>14, <2>1
    <2> HIDE DEF s
    <2>7. /\ e.count <= pages[c] /\ e.i < InodesPerPage /\ (e.count = pages[c] => e.i = 0)
          /\ (e.i = 0 => e.low = 0) /\ e.count * InodesPerPage + e.i = p + 1
          /\ Scanned(c, ranges, e.low, e.high, p + 1, Live)
      BY <2>2, <2>3, <2>5, <1>8, <1>14
    <2> QED BY <2>4, <2>6, <2>7, <1>8, <1>13
  <1>15. CASE ~(s.i + 1 < InodesPerPage)
    <2>1. PICK e : e = [count |-> s.count + 1, i |-> 0, low |-> 0, high |-> 0]  OBVIOUS
    <2>2. e.count = s.count + 1 /\ e.i = 0 /\ e.low = 0 /\ e.high = 0  BY <2>1
    <2>3. s.count + 1 \in Nat /\ (s.count + 1) * InodesPerPage + 0 = p + 1  BY <1>4, <1>5, <1>7, <1>15, NextPosition
    <2>4. e \in [count : Nat, i : Nat, low : Nat, high : Nat]
      <3>1. 0 \in Nat  OBVIOUS
      <3> QED BY <2>1, <2>3, <3>1
    <2>5. s.count + 1 <= pages[c]
      <3>1. PICK q \in Nat : q = pages[c]  BY <1>3
      <3>2. s.count < q  BY <1>1, <3>1
      <3> HIDE DEF s
      <3>3. s.count + 1 <= q  BY <3>2, <1>4, SMT
      <3> QED BY <3>1, <3>3
    <2>6. scan' = [scan EXCEPT ![c] = e] /\ inuse' = [inuse EXCEPT ![c] = last]  BY <1>1, <1>15, <2>1
    <2>7. 0 < InodesPerPage  BY InodeTableConstants, SMT
    <2> HIDE DEF s, last
    <2>8. /\ e.count <= pages[c] /\ e.i < InodesPerPage /\ (e.count = pages[c] => e.i = 0)
          /\ (e.i = 0 => e.low = 0) /\ e.count * InodesPerPage + e.i = p + 1
          /\ Scanned(c, last, e.low, e.high, p + 1, Live)
      BY <2>2, <2>3, <2>5, <2>7, <1>12
    <2> QED BY <2>4, <2>6, <2>8, <1>12, <1>13
  <1> QED BY <1>14, <1>15

-----------------------------------------------------------------------------
(* The theorems.                                                            *)

LEMMA InitIInv == Init => IInv
  <1> SUFFICES ASSUME Init PROVE IInv
    OBVIOUS
  <1>1. /\ inuse = [c \in CPUs |-> {Reserved}] /\ map_id = 0 /\ pages = [c \in CPUs |-> 1]
        /\ slot = [n \in Inos |-> EmptySlot] /\ dur = slot /\ list = NoList /\ blocknode = FALSE
        /\ mode = "mounted" /\ scan = [c \in CPUs |-> NoScan]
        /\ pc = [t \in Threads |-> "idle"] /\ req = [t \in Threads |-> NoRequest]
        /\ leaked = {} /\ nospace = << >>
    BY DEF Init
  <1>2. 0 \in CPUs /\ 0 \in Nat /\ 1 \in Nat  BY CPUsNat, SMT DEF CPUs
  <1>3. EmptySlot \in Slots /\ EmptySlot.valid = FALSE /\ EmptySlot.held = FALSE
    BY DEF EmptySlot, Slots
  <1>4. Types
    <2>1. {Reserved} \in SUBSET RangeNodes  BY ReservedRange DEF Ranges
    <2>2. NoScan \in [count : Nat, i : Nat, low : Nat, high : Nat]  BY <1>2 DEF NoScan
    <2>3. NoRequest \in [map : CPUs, ino : Nat]  BY <1>2 DEF NoRequest
    <2>4. "idle" \in Labels  BY DEF Labels
    <2>5. NoList.state \in {"none", "fresh", "stale"}  BY DEF NoList
    <2>6. inuse \in [CPUs -> SUBSET RangeNodes] /\ pages \in [CPUs -> Nat]  BY <1>1, <1>2, <2>1
    <2>7. slot \in [Inos -> Slots] /\ dur \in [Inos -> Slots]  BY <1>1, <1>3
    <2>8. scan \in [CPUs -> [count : Nat, i : Nat, low : Nat, high : Nat]]  BY <1>1, <2>2
    <2>9. pc \in [Threads -> Labels] /\ req \in [Threads -> [map : CPUs, ino : Nat]]  BY <1>1, <2>3, <2>4
    <2> QED BY <1>1, <1>2, <2>5, <2>6, <2>7, <2>8, <2>9 DEF Types
  <1>5. Live = {}
    <2>1. ASSUME NEW n \in Inos PROVE ~slot[n].valid /\ ~slot[n].held
      <3>1. slot[n] = EmptySlot  BY <1>1
      <3> QED BY <3>1, <1>3
    <2> QED BY <2>1 DEF Live
  <1>6. SlotsOK  BY <1>1, <1>5 DEF SlotsOK
  <1>7. Busy = {} /\ Working = {}
    <2>1. Busy = {}  BY <1>1 DEF Busy
    <2> QED BY <2>1 DEF Working
  <1>8. ThreadsOK  BY <1>1, <1>5, <1>7 DEF ThreadsOK
  <1>9. TreesOK
    <2>1. ASSUME NEW c \in CPUs PROVE Tree(c, inuse[c], Live \cup Working \cup leaked)
      <3>1. inuse[c] = {Reserved}  BY <1>1
      <3>2. Live \cup Working \cup leaked = {}  BY <1>1, <1>5, <1>7
      <3>3. Taken(c, {}) = 0..RangeHigh  BY DEF Taken
      <3>4. Tree(c, {Reserved}, {})  BY <3>3, ReservedRange DEF Tree
      <3> QED BY <3>1, <3>2, <3>4
    <2>2. \A c \in CPUs : Ranges(inuse[c])  BY <2>1 DEF Tree
    <2>3. list.state # "fresh"  BY <1>1 DEF NoList
    <2> QED BY <2>1, <2>2, <2>3, <1>1 DEF TreesOK
  <1>10. ScansOK  BY <1>1 DEF ScansOK
  <1>11. NoSpaceOK
    <2>1. << >> \in Seq(CPUs \X {0..Top})  BY SMT
    <2> QED BY <2>1, <1>1 DEF NoSpaceOK
  <1> QED BY <1>4, <1>6, <1>8, <1>9, <1>10, <1>11 DEF IInv

LEMMA NextIInv == IInv /\ [Next]_vars => misled' \/ IInv'
  <1> SUFFICES ASSUME IInv, [Next]_vars PROVE misled' \/ IInv'
    OBVIOUS
  <1>1. ASSUME NEW t \in Threads,
               \/ read_map_id(t) \/ store_map_id(t) \/ nova_new_nova_inode(t) \/ nova_new_vfs_inode(t)
               \/ nova_lite_transaction_for_new_inode(t) \/ create_fails(t)
               \/ invalidate(t) \/ nova_delete_dead_inode(t) \/ nova_free_inode_resource(t)
               \/ nova_free_inuse_inode(t)
        PROVE  IInv'
    BY <1>1, ReadMapStep, StoreMapStep, NewStep, NewInodeStep, CommitStep, CreateFailsStep,
       InvalidateStep, DeadInodeStep, FreeResourceStep, FreeNumberStep
  <1>2. CASE nova_save_inode_list_to_log  BY <1>2, SaveListStep
  <1>3. CASE nova_save_blocknode_mappings_to_log  BY <1>3, SaveBlocksStep
  <1>4. CASE nova_init_blockmap_from_inode  BY <1>4, InitBlockmapStep
  <1>5. CASE nova_init_inode_list_from_inode  BY <1>5, InitListStep
  <1>6. CASE nova_failure_recovery  BY <1>6, FailureRecoveryStep
  <1>7. ASSUME NEW c \in CPUs, failure_thread_func(c) PROVE IInv'  BY <1>7, ScanStep
  <1>8. CASE wait_to_finish  BY <1>8, WaitStep
  <1>9. CASE Crash  BY <1>9, CrashStep
  <1>10. CASE UNCHANGED vars
    <2>1. UNCHANGED <<inuse, map_id, pages, slot, dur, list, blocknode, mode, scan, pc, req, leaked, nospace>>
      BY <1>10 DEF vars
    <2>2. Live' = Live /\ Busy' = Busy /\ Working' = Working  BY <2>1 DEF Live, Busy, Working
    <2>3. Types'  BY <2>1 DEF IInv, Types
    <2>4. SlotsOK'  BY <2>1, <2>2 DEF IInv, SlotsOK, InTable
    <2>5. ThreadsOK'  BY <2>1, <2>2 DEF IInv, ThreadsOK, InTable
    <2>6. TreesOK'  BY <2>1, <2>2 DEF IInv, TreesOK, Saved
    <2>7. ScansOK'
      <3>1. ASSUME NEW c \in CPUs, ScanOK(c) PROVE ScanOK(c)'  BY <2>1, <2>2, <3>1 DEF ScanOK, Position
      <3> QED BY <2>1, <3>1 DEF IInv, ScansOK
    <2>8. NoSpaceOK'  BY <2>1 DEF IInv, NoSpaceOK
    <2> QED BY <2>3, <2>4, <2>5, <2>6, <2>7, <2>8 DEF IInv
  <1> QED BY <1>1, <1>2, <1>3, <1>4, <1>5, <1>6, <1>7, <1>8, <1>9, <1>10 DEF Next

\* A mount that was misled is remembered.
LEMMA MisledStays == misled /\ [Next]_vars => misled'
  <1> SUFFICES ASSUME misled, [Next]_vars PROVE misled'
    OBVIOUS
  <1>1. ASSUME NEW t \in Threads,
               \/ read_map_id(t) \/ store_map_id(t) \/ nova_new_nova_inode(t) \/ nova_new_vfs_inode(t)
               \/ nova_lite_transaction_for_new_inode(t) \/ create_fails(t)
               \/ invalidate(t) \/ nova_delete_dead_inode(t) \/ nova_free_inode_resource(t)
               \/ nova_free_inuse_inode(t)
        PROVE  misled' = misled
    BY <1>1 DEF read_map_id, store_map_id, nova_new_nova_inode, nova_new_vfs_inode,
       nova_lite_transaction_for_new_inode, create_fails, invalidate, nova_delete_dead_inode,
       nova_free_inode_resource, nova_free_inuse_inode
  <1>2. CASE nova_init_inode_list_from_inode  BY <1>2 DEF nova_init_inode_list_from_inode
  <1>3. CASE nova_save_inode_list_to_log \/ nova_save_blocknode_mappings_to_log
    BY <1>3 DEF nova_save_inode_list_to_log, nova_save_blocknode_mappings_to_log
  <1>4. CASE nova_init_blockmap_from_inode \/ nova_failure_recovery \/ wait_to_finish \/ Crash
    BY <1>4 DEF nova_init_blockmap_from_inode, nova_failure_recovery, wait_to_finish, Crash
  <1>5. ASSUME NEW c \in CPUs, failure_thread_func(c) PROVE misled' = misled
    BY <1>5 DEF failure_thread_func
  <1>6. CASE UNCHANGED vars  BY <1>6 DEF vars
  <1> QED BY <1>1, <1>2, <1>3, <1>4, <1>5, <1>6 DEF Next

LEMMA Inductive == Spec => [](misled \/ IInv)
  <1>1. Init => IInv  BY InitIInv
  <1>2. IInv /\ [Next]_vars => misled' \/ IInv'  BY NextIInv
  <1>3. misled /\ [Next]_vars => misled'  BY MisledStays
  <1> QED BY <1>1, <1>2, <1>3, PTL DEF Spec

\* The internal numbers of own on CPU c, as the properties write them.
LEMMA TakenNumbers ==
    ASSUME NEW c \in CPUs, NEW own \in SUBSET Inos
    PROVE  Taken(c, own) = Covered({Reserved}) \cup {Internal(n) : n \in {m \in own : Cpu(m) = c}}
  <1>1. \A k \in Internals : k \in Nat  BY InternalsNat
  <1>2. ASSUME NEW k \in Internals, Ino(c, k) \in own
        PROVE  k \in {Internal(n) : n \in {m \in own : Cpu(m) = c}}
    <2>1. Cpu(Ino(c, k)) = c /\ Internal(Ino(c, k)) = k  BY <1>1, InoTells
    <2> QED BY <2>1, <1>2
  <1>3. ASSUME NEW n \in own, Cpu(n) = c
        PROVE  Internal(n) \in Internals /\ Ino(c, Internal(n)) = n
    <2>1. n \in Inos  OBVIOUS
    <2> QED BY <2>1, <1>3, InosTell
  <1> QED BY <1>2, <1>3, ReservedRange DEF Taken

\* The ranges in use name the numbers that are taken, in every state in which the
\* file system is mounted, after any unmounts, crashes and recoveries, until a mount
\* reads a list that is not of the last unmount (nova_alloc_unused_inode,
\* nova_free_inuse_inode, failure_thread_func).
THEOREM NumbersExactHolds == Spec => []NumbersExact
  <1>1. ASSUME misled \/ IInv, ~misled PROVE NumbersExact
    <2>0. IInv  BY <1>1
    <2>1. /\ Types /\ \A c \in CPUs : Ranges(inuse[c])
          /\ mode = "mounted" => \A c \in CPUs : Tree(c, inuse[c], Live \cup Working \cup leaked)
      BY <2>0 DEF IInv, TreesOK
    <2>2. ASSUME NEW c \in CPUs, NEW r \in inuse[c] PROVE r.low \in 0..r.high /\ r.high \in 0..(MAX_INODE - 2)
      <3>1. r \in RangeNodes /\ r.low <= r.high /\ r.high <= Top  BY <2>1 DEF Ranges
      <3>2. MAX_INODE \in Nat  BY InodeTableConstants
      <3>3. r.low \in Nat /\ r.high \in Nat  BY <3>1 DEF RangeNodes
      <3> QED BY <3>1, <3>2, <3>3, SMT DEF Top
    <2>3. TypeOK  BY <2>1, <2>2 DEF Types, TypeOK, Slots
    <2>4. Live \cup Working \cup leaked \subseteq Inos
      <3>1. \A t \in Busy : req[t].ino \in Inos  BY <2>0 DEF IInv, ThreadsOK
      <3>2. Working \subseteq Inos  BY <3>1 DEF Working
      <3>3. leaked \subseteq Inos /\ Live \subseteq Inos  BY <2>1 DEF Types, Live
      <3> QED BY <3>2, <3>3
    <2>5. ASSUME NEW c \in CPUs, mode = "mounted"
          PROVE  Covered(inuse[c]) =
                   Covered({Reserved}) \cup {Internal(n) : n \in {m \in Live \cup Working \cup leaked : Cpu(m) = c}}
      <3>1. PICK own \in SUBSET Inos : own = Live \cup Working \cup leaked  BY <2>4
      <3>2. Covered(inuse[c]) = Taken(c, own)  BY <2>1, <2>5, <3>1 DEF Tree
      <3>3. Taken(c, own) = Covered({Reserved}) \cup {Internal(n) : n \in {m \in own : Cpu(m) = c}}
        BY TakenNumbers
      <3> QED BY <3>1, <3>2, <3>3
    <2> QED BY <2>3, <2>5 DEF NumbersExact
  <1>2. misled => NumbersExact  BY DEF NumbersExact
  <1> QED BY <1>1, <1>2, Inductive, PTL

\* No inode number has two owners: two threads that create or remove inodes
\* (nova_new_nova_inode, nova_evict_inode) never have the same one, nor one that a
\* name, a snapshot or an earlier error holds.
THEOREM NumbersUniqueHolds == Spec => []NumbersUnique
  <1>1. misled \/ IInv => NumbersUnique  BY DEF IInv, ThreadsOK, NumbersUnique
  <1> QED BY <1>1, Inductive, PTL

\* The ranges of a CPU keep gaps between them, and nova_alloc_unused_inode, which
\* looks at the first two, fails only when every number of the CPU is in use.
THEOREM NoSpaceMeansFullHolds == Spec => []NoSpaceMeansFull
  <1>1. ASSUME misled \/ IInv, ~misled PROVE NoSpaceMeansFull
    <2>0. IInv  BY <1>1
    <2>1. \A c \in CPUs : \A r, s \in inuse[c] : r # s => r.high + 1 < s.low \/ s.high + 1 < r.low
      BY <2>0 DEF IInv, TreesOK, Ranges
    <2>2. \A k \in DOMAIN nospace : nospace[k] \in CPUs \X {0..Top}
      <3>1. nospace \in Seq(CPUs \X {0..Top})  BY <2>0 DEF IInv, NoSpaceOK
      <3>2. DOMAIN nospace = 1..Len(nospace)  BY <3>1, SMT
      <3> QED BY <3>1, <3>2, SMT
    <2>3. ASSUME NEW k \in DOMAIN nospace PROVE nospace[k][2] = 0..(MAX_INODE - 2)
      <3>1. nospace[k] \in CPUs \X {0..Top}  BY <2>2
      <3>2. nospace[k][2] \in {0..Top}  BY <3>1
      <3> QED BY <3>2 DEF Top
    <2> QED BY <2>1, <2>3 DEF NoSpaceMeansFull
  <1>2. misled => NoSpaceMeansFull  BY DEF NoSpaceMeansFull
  <1> QED BY <1>1, <1>2, Inductive, PTL

=============================================================================
