------------------------- MODULE BlockLayoutProofs -------------------------
(***************************************************************************)
(* The layout of BlockLayout for every device, number of CPUs and size of  *)
(* blocks and checksums: the regions of the lists are apart.  First the    *)
(* arithmetic of BlockGeometry: the regions follow one another, and a      *)
(* block's number tells the list whose region it is in.                    *)
(***************************************************************************)
EXTENDS BlockLayout, TLAPS

Geometries == [num_blocks : Nat, cpus : Nat \ {0}]

\* Division of natural numbers.
LEMMA DivNat ==
    ASSUME NEW a \in Nat, NEW b \in Nat \ {0}
    PROVE  a \div b \in Nat /\ a % b \in 0..(b - 1) /\ a = b * (a \div b) + (a % b)
  BY SMT

\* A rounded quotient (num_csum_blocks, num_parity_blocks) is a number of blocks.
LEMMA CeilDivNat ==
    ASSUME NEW a \in Nat, NEW b \in Nat \ {0}
    PROVE  CeilDiv(a, b) \in Nat
  BY DivNat, SMT DEF CeilDiv

\* Products are numbers, and those of numbers that differ are a factor apart.
LEMMA ProductNat ==
    ASSUME NEW p \in Nat, NEW c \in Nat
    PROVE  p * c \in Nat
  BY SMT

\* The multiples of p are p apart.
LEMMA ProductsApart ==
    ASSUME NEW p \in Nat, NEW c \in Nat, NEW d \in Nat, c < d
    PROVE  p * c + p <= p * d
  <1>1. PICK k \in Nat : d = c + 1 + k  BY SMT
  <1>2. p * d = p * c + p + p * k  BY <1>1, SMT
  <1>3. p * k \in Nat  BY ProductNat
  <1> QED BY <1>2, <1>3, ProductNat, SMT

\* A number between two neighbouring multiples of p has the lower one's quotient.
LEMMA Quotient ==
    ASSUME NEW p \in Nat \ {0}, NEW c \in Nat, NEW b \in Nat, p * c <= b, b < p * c + p
    PROVE  b \div p = c
  <1> DEFINE q == b \div p
  <1>1. q \in Nat /\ b % p \in 0..(p - 1) /\ b = p * q + (b % p)  BY DivNat, Zenon
  <1>2. p * q <= b /\ b < p * q + p /\ p * q \in Nat  BY <1>1, ProductNat, SMT
  <1>3. ~(q < c)  BY <1>1, <1>2, ProductsApart, ProductNat, SMT
  <1>4. ~(c < q)  BY <1>1, <1>2, ProductsApart, ProductNat, SMT
  <1> QED BY <1>1, <1>3, <1>4, SMT

\* Products distribute over a sum.
LEMMA Distributed ==
    ASSUME NEW p \in Nat, NEW c \in Nat, NEW d \in Nat
    PROVE  p * (c * (d + 1)) = (p * c) * d + p * c
  <1>1. c * (d + 1) = c * d + c /\ c * d \in Nat  BY ProductNat, SMT
  <1>2. p * (c * d + c) = p * (c * d) + p * c  BY <1>1, SMT
  <1>3. p * (c * d) = (p * c) * d  BY SMT
  <1> QED BY <1>1, <1>2, <1>3

\* Products are ordered as their second factors are.
LEMMA ProductsOrdered ==
    ASSUME NEW p \in Nat, NEW c \in Nat, NEW d \in Nat
    PROVE  /\ c <= d => p * c <= p * d
           /\ p # 0 /\ p * c < p * d => c < d
           /\ p # 0 /\ p * c <= p * d => c <= d
  <1>1. p * c \in Nat /\ p * d \in Nat  BY ProductNat
  <1>2. c < d => p * c + p <= p * d  BY ProductsApart
  <1>3. d < c => p * d + p <= p * c  BY ProductsApart
  <1>4. c = d => p * c = p * d  OBVIOUS
  <1> QED BY <1>1, <1>2, <1>3, <1>4, SMT

\* A number below a multiple of p has a smaller quotient.
LEMMA QuotientBelow ==
    ASSUME NEW p \in Nat \ {0}, NEW c \in Nat, NEW b \in Nat, b < p * c
    PROVE  b \div p \in Nat /\ b \div p < c
  <1> DEFINE q == b \div p
  <1>1. q \in Nat /\ b % p \in 0..(p - 1) /\ b = p * q + (b % p)  BY DivNat, Zenon
  <1>2. p * q <= b /\ p * q \in Nat /\ p * c \in Nat  BY <1>1, ProductNat, SMT
  <1>3. p * q < p * c  BY <1>2, SMT
  <1> QED BY <1>1, <1>3, ProductsOrdered

\* A rounded quotient covers the number.
LEMMA CeilCovers ==
    ASSUME NEW a \in Nat, NEW b \in Nat \ {0}
    PROVE  a <= b * CeilDiv(a, b)
  <1> DEFINE q == a \div b
             r == a % b
  <1>1. q \in Nat /\ r \in 0..(b - 1) /\ a = b * q + r  BY DivNat, Zenon
  <1>2. CeilDiv(a, b) = q + (IF r = 0 THEN 0 ELSE 1)  BY DEF CeilDiv
  <1> HIDE DEF q, r
  <1>3. b * q \in Nat  BY <1>1, ProductNat
  <1>4. b * (q + 1) = b * q + b  BY <1>1, SMT
  <1>5. CASE r = 0  BY <1>1, <1>2, <1>3, <1>5, SMT
  <1>6. CASE r # 0
    <2>1. CeilDiv(a, b) = q + 1  BY <1>2, <1>6
    <2> QED BY <2>1, <1>1, <1>3, <1>4, SMT
  <1> QED BY <1>5, <1>6

-----------------------------------------------------------------------------
\* What nova_init_free_list computes for a list are numbers.
LEMMA GeometryTypes ==
    ASSUME NEW s \in Geometries
    PROVE  /\ per_list_blocks(s) \in Nat
           /\ num_csum_blocks(s) \in Nat /\ num_parity_blocks(s) \in Nat
  <1>1. s.num_blocks \in Nat /\ s.cpus \in Nat \ {0}  BY DEF Geometries
  <1>2. s.num_blocks * StripesPerBlock * NOVA_DATA_CSUM_LEN \in Nat
    <2>1. s.num_blocks * StripesPerBlock \in Nat  BY <1>1, GeometryConstants, ProductNat
    <2> QED BY <2>1, GeometryConstants, ProductNat
  <1>3. data_csum_blocks(s) \in Nat  BY <1>2, GeometryConstants, DivNat, Zenon DEF data_csum_blocks
  <1>4. StripesPerBlock + 1 \in Nat \ {0}  BY GeometryConstants, SMT
  <1>5. parity_blocks(s) \in Nat  BY <1>1, <1>4, CeilDivNat DEF parity_blocks
  <1> QED
    BY <1>1, <1>3, <1>5, DivNat, CeilDivNat, Zenon DEF per_list_blocks, num_csum_blocks, num_parity_blocks

\* The region of list c lies in the c-th part of the device.
LEMMA RegionWithin ==
    ASSUME NEW s \in Geometries, NEW c \in 0..(s.cpus - 1)
    PROVE  /\ per_list_blocks(s) * c \in Nat
           /\ FirstBlock(s, c) \in Nat /\ LastBlock(s, c) \in Int
           /\ block_start(s, c) \in Nat /\ block_end(s, c) \in Int
           /\ per_list_blocks(s) * c <= FirstBlock(s, c)
           /\ LastBlock(s, c) < per_list_blocks(s) * c + per_list_blocks(s)
           /\ block_start(s, c) = FirstBlock(s, c) + num_csum_blocks(s) + num_parity_blocks(s)
           /\ block_end(s, c) = LastBlock(s, c) - num_csum_blocks(s)
  <1>1. s.cpus \in Nat \ {0}  BY DEF Geometries
  <1>2. c \in Nat  BY <1>1, SMT
  <1> DEFINE p == per_list_blocks(s)
             x == p * c
             ncs == num_csum_blocks(s)
             nps == num_parity_blocks(s)
  <1>3. p \in Nat /\ ncs \in Nat /\ nps \in Nat  BY GeometryTypes
  <1>4. x \in Nat  BY <1>2, <1>3, ProductNat
  <1>5. /\ FirstBlock(s, c) = x + (IF c = 0 THEN head_reserved_blocks ELSE 0)
        /\ LastBlock(s, c) = x + p - 1 - (IF c = s.cpus - 1 THEN tail_reserved_blocks ELSE 0)
    BY DEF FirstBlock, LastBlock
  <1>6. /\ block_start(s, c) = FirstBlock(s, c) + ncs + nps
        /\ block_end(s, c) = LastBlock(s, c) - ncs
    BY DEF block_start, block_end
  <1> HIDE DEF p, x, ncs, nps
  <1>7. /\ FirstBlock(s, c) \in Nat /\ LastBlock(s, c) \in Int
        /\ x <= FirstBlock(s, c) /\ LastBlock(s, c) < x + p
    BY <1>3, <1>4, <1>5, GeometryConstants, SMT
  <1>8. block_start(s, c) \in Nat /\ block_end(s, c) \in Int
    BY <1>3, <1>6, <1>7, SMT
  <1> QED BY <1>4, <1>6, <1>7, <1>8 DEF p, x, ncs, nps

\* The blocks of an earlier list, its checksums included, are before those of a
\* later one.
LEMMA RegionsInOrder ==
    ASSUME NEW s \in Geometries, NEW c \in 0..(s.cpus - 1), NEW d \in 0..(s.cpus - 1), c < d
    PROVE  LastBlock(s, c) < FirstBlock(s, d) /\ block_end(s, c) + num_csum_blocks(s) < block_start(s, d)
  <1>1. s.cpus \in Nat \ {0}  BY DEF Geometries
  <1>2. c \in Nat /\ d \in Nat  BY <1>1, SMT
  <1> DEFINE p == per_list_blocks(s)
             x == p * c
             y == p * d
             ncs == num_csum_blocks(s)
             nps == num_parity_blocks(s)
  <1>3. p \in Nat /\ ncs \in Nat /\ nps \in Nat  BY GeometryTypes
  <1>4. x + p <= y  BY <1>2, <1>3, ProductsApart
  <1>5. /\ x \in Nat /\ LastBlock(s, c) \in Int /\ LastBlock(s, c) < x + p
        /\ block_end(s, c) = LastBlock(s, c) - ncs
    BY RegionWithin
  <1>6. /\ y \in Nat /\ FirstBlock(s, d) \in Nat /\ y <= FirstBlock(s, d)
        /\ block_start(s, d) = FirstBlock(s, d) + ncs + nps
    BY RegionWithin
  <1> HIDE DEF p, x, y, ncs, nps
  <1>7. LastBlock(s, c) < FirstBlock(s, d) /\ block_end(s, c) + ncs < block_start(s, d)
    BY <1>3, <1>4, <1>5, <1>6, SMT
  <1> QED BY <1>7 DEF ncs

\* nova_free_blocks finds the list of a block by dividing (HomeList).
LEMMA HomeOfBlock ==
    ASSUME NEW s \in Geometries, NEW c \in 0..(s.cpus - 1),
           NEW b \in block_start(s, c)..block_end(s, c)
    PROVE  b \div per_list_blocks(s) = c
  <1>1. s.cpus \in Nat \ {0}  BY DEF Geometries
  <1>2. c \in Nat  BY <1>1, SMT
  <1> DEFINE p == per_list_blocks(s)
             x == p * c
             ncs == num_csum_blocks(s)
             nps == num_parity_blocks(s)
  <1>3. p \in Nat /\ ncs \in Nat /\ nps \in Nat  BY GeometryTypes
  <1>4. /\ x \in Nat /\ FirstBlock(s, c) \in Nat /\ LastBlock(s, c) \in Int
        /\ x <= FirstBlock(s, c) /\ LastBlock(s, c) < x + p
        /\ block_start(s, c) = FirstBlock(s, c) + ncs + nps
        /\ block_end(s, c) = LastBlock(s, c) - ncs
    BY RegionWithin
  <1> HIDE DEF p, x, ncs, nps
  <1>5. b \in Nat /\ x <= b /\ b < x + p  BY <1>3, <1>4, SMT
  <1>6. p \in Nat \ {0}  BY <1>3, <1>4, <1>5, SMT
  <1> QED BY <1>2, <1>5, <1>6, Quotient DEF p, x

\* The lists share the device.
LEMMA ListsShare ==
    ASSUME NEW s \in Geometries
    PROVE  s.cpus * per_list_blocks(s) <= s.num_blocks
  <1>1. s.num_blocks \in Nat /\ s.cpus \in Nat \ {0}  BY DEF Geometries
  <1>2. /\ per_list_blocks(s) \in Nat /\ s.num_blocks % s.cpus \in 0..(s.cpus - 1)
        /\ s.num_blocks = s.cpus * per_list_blocks(s) + (s.num_blocks % s.cpus)
    BY <1>1, DivNat, Zenon DEF per_list_blocks
  <1>3. s.cpus * per_list_blocks(s) \in Nat  BY <1>1, <1>2, ProductNat
  <1> QED BY <1>1, <1>2, <1>3, SMT

\* The parity blocks of a list have room for a stripe of every other block.
LEMMA ParityFits ==
    ASSUME NEW s \in Geometries
    PROVE  per_list_blocks(s) <= (StripesPerBlock + 1) * num_parity_blocks(s)
  <1> DEFINE N == s.num_blocks
             C == s.cpus
             p == per_list_blocks(s)
             P == parity_blocks(s)
             n == num_parity_blocks(s)
             T == StripesPerBlock + 1
  <1>1. N \in Nat /\ C \in Nat \ {0} /\ p \in Nat /\ n \in Nat  BY GeometryTypes DEF Geometries
  <1>2. T \in Nat \ {0}  BY GeometryConstants, SMT
  <1>3. P \in Nat  BY <1>1, <1>2, CeilDivNat DEF parity_blocks
  <1>4. N <= T * P  BY <1>1, <1>2, CeilCovers DEF parity_blocks
  <1>5. P <= C * n  BY <1>1, <1>3, CeilCovers DEF num_parity_blocks
  <1>6. C * p <= N  BY ListsShare
  <1> HIDE DEF N, C, p, P, n, T
  <1>7. C * n \in Nat /\ T * P \in Nat /\ C * p \in Nat /\ T * n \in Nat /\ T * (C * n) \in Nat
    BY <1>1, <1>2, <1>3, ProductNat
  <1>8. T * P <= T * (C * n)  BY <1>2, <1>3, <1>5, <1>7, ProductsOrdered
  <1>9. T * (C * n) = C * (T * n)  BY <1>1, <1>2, SMT
  <1>10. C * p <= C * (T * n)  BY <1>1, <1>4, <1>6, <1>7, <1>8, <1>9, SMT
  <1>11. p <= T * n  BY <1>1, <1>7, <1>10, ProductsOrdered
  <1> QED BY <1>11 DEF p, T, n

\* On a device of at least K * (K - 1) blocks, where the checksums of K blocks
\* fill one, the checksum blocks of a list have room for all its other blocks.
LEMMA CsumFits ==
    ASSUME NEW s \in Geometries, NEW K \in Nat,
           BlockSize = (StripesPerBlock * NOVA_DATA_CSUM_LEN) * K,
           s.num_blocks >= K * (K - 1)
    PROVE  per_list_blocks(s) <= (K + 1) * num_csum_blocks(s)
  <1> DEFINE N == s.num_blocks
             C == s.cpus
             p == per_list_blocks(s)
             m == data_csum_blocks(s)
             n == num_csum_blocks(s)
             w == StripesPerBlock * NOVA_DATA_CSUM_LEN
             x == N * StripesPerBlock * NOVA_DATA_CSUM_LEN
  <1>1. N \in Nat /\ C \in Nat \ {0} /\ p \in Nat /\ n \in Nat  BY GeometryTypes DEF Geometries
  <1>2. w \in Nat /\ w # 0 /\ K # 0
    <2>1. w \in Nat  BY GeometryConstants, ProductNat
    <2>2. BlockSize \in Nat \ {0} /\ BlockSize = w * K  BY GeometryConstants
    <2> HIDE DEF w
    <2> QED BY <2>1, <2>2, SMT
  <1>3. x = w * N
    BY <1>1, GeometryConstants, SMT
  <1>4. x \in Nat  BY <1>1, <1>2, <1>3, ProductNat
  <1>5. m \in Nat /\ x % BlockSize \in 0..(BlockSize - 1) /\ x = BlockSize * m + (x % BlockSize)
    BY <1>4, GeometryConstants, DivNat, Zenon DEF data_csum_blocks
  <1>6. m <= C * n  BY <1>1, <1>5, CeilCovers DEF num_csum_blocks
  <1>7. C * p <= N  BY ListsShare
  <1>8. BlockSize = w * K /\ BlockSize \in Nat /\ N >= K * (K - 1)  BY GeometryConstants
  <1> HIDE DEF N, C, p, m, n, w, x
  <1>9. K * m \in Nat /\ K * (m + 1) \in Nat /\ BlockSize * m \in Nat /\ C * n \in Nat
    BY <1>1, <1>5, <1>8, ProductNat, SMT
  <1>10. N < K * (m + 1)
    <2>1. w * (K * (m + 1)) = (w * K) * m + w * K  BY <1>2, <1>5, Distributed
    <2>2. w * N < w * (K * (m + 1))  BY <2>1, <1>3, <1>4, <1>5, <1>8, <1>9, SMT
    <2> QED BY <2>2, <1>1, <1>2, <1>9, ProductsOrdered
  <1>11. K - 1 <= m
    <2>1. K - 1 \in Nat /\ K * (K - 1) \in Nat /\ m + 1 \in Nat  BY <1>2, <1>5, ProductNat, SMT
    <2>2. K * (K - 1) < K * (m + 1)  BY <2>1, <1>1, <1>8, <1>9, <1>10, SMT
    <2>3. K - 1 < m + 1  BY <2>1, <2>2, <1>2, ProductsOrdered
    <2> QED BY <2>1, <2>3, <1>5, SMT
  <1>12. N <= (K + 1) * m
    <2>1. K * (m + 1) = K * m + K /\ (K + 1) * m = K * m + m  BY <1>5, SMT
    <2> QED BY <2>1, <1>1, <1>5, <1>9, <1>10, <1>11, SMT
  <1>13. (K + 1) * m <= (K + 1) * (C * n)
    <2>1. K + 1 \in Nat  BY SMT
    <2> QED BY <2>1, <1>5, <1>6, <1>9, ProductsOrdered
  <1>14. (K + 1) * (C * n) = C * ((K + 1) * n)  BY <1>1, SMT
  <1>15. (K + 1) * n \in Nat /\ C * p \in Nat /\ C * ((K + 1) * n) \in Nat /\ (K + 1) * m \in Nat
    <2>1. K + 1 \in Nat  BY SMT
    <2> QED BY <2>1, <1>1, <1>5, ProductNat
  <1>16. C * p <= C * ((K + 1) * n)  BY <1>1, <1>7, <1>12, <1>13, <1>14, <1>15, SMT
  <1>17. p <= (K + 1) * n  BY <1>1, <1>15, <1>16, ProductsOrdered
  <1> QED BY <1>17 DEF p, n

-----------------------------------------------------------------------------
(* The loop of nova_init_blockmap.                                          *)

\* What list c has been given when it is laid out.
LaidOut(c) ==
    /\ free_lists[c].block_start = block_start(sbi, c)
    /\ free_lists[c].block_end = block_end(sbi, c)
    /\ free_lists[c].csum_start = FirstBlock(sbi, c)
    /\ free_lists[c].parity_start = FirstBlock(sbi, c) + num_csum_blocks(sbi)
    /\ free_lists[c].replica_csum_start = LastBlock(sbi, c) + 1 - num_csum_blocks(sbi)
    /\ free_lists[c].num_csum_blocks = num_csum_blocks(sbi)
    /\ free_lists[c].num_parity_blocks = num_parity_blocks(sbi)

\* The loop of nova_init_blockmap: the lists before i are laid out.
LInv ==
    /\ TypeOK
    /\ DOMAIN free_lists = Lists
    /\ pc = "format" => i = 0
    /\ pc = "lists" => i < sbi.cpus
    /\ pc = "mounted" => i = sbi.cpus
    /\ \A c \in Lists : c < i => LaidOut(c)

\* The invariant holds before a list is laid out.
LEMMA InitLInv == Init => LInv
  <1> SUFFICES ASSUME Init PROVE LInv  OBVIOUS
  <1>1. sbi.cpus \in 1..MaxCpus /\ sbi \in [num_blocks : Sizes, cpus : 1..MaxCpus]  BY DEF Init
  <1>2. \A c \in Lists : free_lists[c] = Zeroed  BY DEF Init
  <1>3. Zeroed.num_free_blocks = 0  BY DEF Zeroed
  <1>4. TypeOK  BY <1>1, <1>2, <1>3, LayoutConstants, SMT DEF Init, TypeOK
  <1> QED BY <1>1, <1>4, LayoutConstants, SMT DEF Init, LInv, Lists

\* Every step of the mount keeps the invariant.
LEMMA NextLInv == LInv /\ [Next]_vars => LInv'
  <1> SUFFICES ASSUME LInv, [Next]_vars PROVE LInv'  OBVIOUS
  <1>1. CASE UNCHANGED vars
    BY <1>1 DEF vars, LInv, TypeOK, Lists, LaidOut
  <1>2. CASE nova_init
    <2>1. UNCHANGED <<sbi, i, free_lists>> /\ pc = "format" /\ pc' \in {"lists", "failed"}
      BY <1>2 DEF nova_init
    <2>2. sbi.cpus \in 1..MaxCpus  BY DEF LInv, TypeOK
    <2>3. i = 0 /\ i < sbi.cpus  BY <2>1, <2>2, LayoutConstants, SMT DEF LInv
    <2> QED BY <2>1, <2>3 DEF LInv, TypeOK, Lists, LaidOut
  <1>3. CASE nova_init_blockmap
    <2> DEFINE l == nova_init_free_list(sbi, i)
               n == (l.block_end - l.block_start + 1) % ULONG
               r == [f \in DOMAIN Zeroed |-> IF f = "num_free_blocks" THEN n ELSE l[f]]
    <2>1. /\ pc = "lists" /\ sbi' = sbi /\ i' = i + 1
          /\ pc' = IF i + 1 = sbi.cpus THEN "mounted" ELSE "lists"
          /\ free_lists' = [free_lists EXCEPT ![i] = r]
      BY <1>3 DEF nova_init_blockmap
    <2>2. /\ sbi.cpus \in 1..MaxCpus /\ sbi.num_blocks \in Sizes /\ i \in 0..sbi.cpus /\ i < sbi.cpus
          /\ sbi \in Geometries
      <3>1. /\ sbi.cpus \in 1..MaxCpus /\ sbi.num_blocks \in Sizes /\ i \in 0..sbi.cpus
            /\ i < sbi.cpus /\ sbi = [num_blocks |-> sbi.num_blocks, cpus |-> sbi.cpus]
        BY <2>1 DEF LInv, TypeOK
      <3>2. sbi.cpus \in Nat \ {0} /\ sbi.num_blocks \in Nat  BY <3>1, LayoutConstants, SMT
      <3> QED BY <3>1, <3>2 DEF Geometries
    <2>3. i \in Lists /\ i + 1 \in 0..sbi.cpus  BY <2>2, LayoutConstants, SMT DEF Lists
    <2>4. DOMAIN Zeroed = {"block_start", "block_end", "csum_start", "replica_csum_start",
                           "num_csum_blocks", "parity_start", "replica_parity_start",
                           "num_parity_blocks", "num_free_blocks"}
      BY DEF Zeroed
    <2>5. n \in 0..(ULONG - 1)
      <3>1. l.block_end = block_end(sbi, i) /\ l.block_start = block_start(sbi, i)
        BY DEF nova_init_free_list
      <3>2. block_end(sbi, i) \in Int /\ block_start(sbi, i) \in Nat
        BY <2>2, <2>3, RegionWithin DEF Lists
      <3>3. l.block_end - l.block_start + 1 \in Int  BY <3>1, <3>2, SMT
      <3> QED BY <3>3, LayoutConstants, SMT
    <2> HIDE DEF n
    <2>6. DOMAIN r = DOMAIN Zeroed  OBVIOUS
    <2>7. r.num_free_blocks = n  BY <2>4
    <2>8. /\ r.block_start = block_start(sbi, i)
          /\ r.block_end = block_end(sbi, i)
          /\ r.csum_start = FirstBlock(sbi, i)
          /\ r.parity_start = FirstBlock(sbi, i) + num_csum_blocks(sbi)
          /\ r.replica_csum_start = LastBlock(sbi, i) + 1 - num_csum_blocks(sbi)
          /\ r.num_csum_blocks = num_csum_blocks(sbi)
          /\ r.num_parity_blocks = num_parity_blocks(sbi)
      BY <2>4 DEF nova_init_free_list
    <2> HIDE DEF r
    <2>9. /\ Lists' = Lists /\ DOMAIN free_lists = Lists
          /\ DOMAIN free_lists' = Lists /\ free_lists'[i] = r
          /\ \A c \in Lists : c # i => free_lists'[c] = free_lists[c]
      BY <2>1, <2>3 DEF LInv, Lists
    <2>10. TypeOK'
      <3>1. \A c \in Lists : /\ DOMAIN free_lists'[c] = DOMAIN Zeroed
                             /\ free_lists'[c].num_free_blocks \in 0..(ULONG - 1)
        BY <2>5, <2>6, <2>7, <2>9 DEF LInv, TypeOK
      <3>2. pc' \in {"format", "lists", "mounted", "failed"}  BY <2>1
      <3>3. sbi' \in [num_blocks : Sizes, cpus : 1..MaxCpus] /\ i' \in 0..sbi'.cpus
        BY <2>1, <2>3 DEF LInv, TypeOK
      <3> QED BY <3>1, <3>2, <3>3, <2>9, Zenon DEF TypeOK
    <2>11. /\ pc' # "format" /\ (pc' = "lists" => i' < sbi'.cpus) /\ (pc' = "mounted" => i' = sbi'.cpus)
      BY <2>1, <2>2, LayoutConstants, SMT
    <2>12. ASSUME NEW c \in Lists, c < i' PROVE LaidOut(c)'
      <3>1. CASE c = i  BY <3>1, <2>1, <2>8, <2>9 DEF LaidOut
      <3>2. CASE c # i
        <4>1. c < i  BY <3>2, <2>1, <2>2, <2>12, LayoutConstants, SMT DEF Lists
        <4>2. LaidOut(c)  BY <4>1 DEF LInv
        <4> QED BY <4>2, <3>2, <2>1, <2>9 DEF LaidOut
      <3> QED BY <3>1, <3>2
    <2> QED BY <2>9, <2>10, <2>11, <2>12 DEF LInv
  <1> QED BY <1>1, <1>2, <1>3 DEF Next

\* The regions of a list one after the other, from its first block to its last.
LEMMA RegionBounds ==
    ASSUME LInv, Usable, NEW c \in Lists
    PROVE  /\ Regions(c)[1] = FirstBlock(sbi, c)..(FirstBlock(sbi, c) + num_csum_blocks(sbi) - 1)
           /\ Regions(c)[2] = (FirstBlock(sbi, c) + num_csum_blocks(sbi))..(block_start(sbi, c) - 1)
           /\ Regions(c)[3] = block_start(sbi, c)..block_end(sbi, c)
           /\ Regions(c)[4] = (block_end(sbi, c) + 1)..LastBlock(sbi, c)
           /\ sbi \in Geometries /\ c \in 0..(sbi.cpus - 1)
           /\ block_start(sbi, c) <= block_end(sbi, c)
  <1>0. sbi.cpus \in 1..MaxCpus /\ sbi.num_blocks \in Sizes
        /\ sbi = [num_blocks |-> sbi.num_blocks, cpus |-> sbi.cpus]
    BY DEF LInv, TypeOK
  <1>1. sbi \in Geometries /\ c \in 0..(sbi.cpus - 1) /\ c < i
    <2>1. sbi.cpus \in Nat \ {0} /\ sbi.num_blocks \in Nat  BY <1>0, LayoutConstants, SMT
    <2>2. i = sbi.cpus  BY DEF LInv, Usable
    <2> QED BY <1>0, <2>1, <2>2, SMT DEF Geometries, Lists
  <1>2. LaidOut(c)  BY <1>1 DEF LInv, Lists
  <1>3. /\ FirstBlock(sbi, c) \in Nat /\ LastBlock(sbi, c) \in Int
        /\ num_csum_blocks(sbi) \in Nat /\ num_parity_blocks(sbi) \in Nat
        /\ block_start(sbi, c) = FirstBlock(sbi, c) + num_csum_blocks(sbi) + num_parity_blocks(sbi)
        /\ block_end(sbi, c) = LastBlock(sbi, c) - num_csum_blocks(sbi)
    BY <1>1, RegionWithin, GeometryTypes
  <1>4. Regions(c) = <<Blocks(FirstBlock(sbi, c), num_csum_blocks(sbi)),
                       Blocks(FirstBlock(sbi, c) + num_csum_blocks(sbi), num_parity_blocks(sbi)),
                       block_start(sbi, c)..block_end(sbi, c),
                       Blocks(LastBlock(sbi, c) + 1 - num_csum_blocks(sbi), num_csum_blocks(sbi))>>
    BY <1>2 DEF Regions, LaidOut
  <1>5. FirstBlock(sbi, c) + num_csum_blocks(sbi) + num_parity_blocks(sbi) - 1 = block_start(sbi, c) - 1
    BY <1>3, SMT
  <1>6. LastBlock(sbi, c) + 1 - num_csum_blocks(sbi) = block_end(sbi, c) + 1  BY <1>3, SMT
  <1>7. block_end(sbi, c) + 1 + num_csum_blocks(sbi) - 1 = LastBlock(sbi, c)  BY <1>3, SMT
  <1>8. Regions(c)[1] = FirstBlock(sbi, c)..(FirstBlock(sbi, c) + num_csum_blocks(sbi) - 1)
    BY <1>4 DEF Blocks
  <1>9. Regions(c)[2] = (FirstBlock(sbi, c) + num_csum_blocks(sbi))..(block_start(sbi, c) - 1)
    BY <1>4, <1>5 DEF Blocks
  <1>10. Regions(c)[3] = block_start(sbi, c)..block_end(sbi, c)  BY <1>4
  <1>11. Regions(c)[4] = (block_end(sbi, c) + 1)..LastBlock(sbi, c)  BY <1>4, <1>6, <1>7 DEF Blocks
  <1>12. block_start(sbi, c) <= block_end(sbi, c)  BY <1>2 DEF Usable, LaidOut
  <1> QED BY <1>1, <1>8, <1>9, <1>10, <1>11, <1>12

\* All regions of a list lie between its first and its last block, which are not
\* reserved.
LEMMA RegionsInside ==
    ASSUME LInv, Usable, NEW c \in Lists, NEW k \in 1..4, NEW b \in Regions(c)[k]
    PROVE  /\ b \in Int /\ FirstBlock(sbi, c) <= b /\ b <= LastBlock(sbi, c)
           /\ head_reserved_blocks <= b /\ b < sbi.num_blocks - tail_reserved_blocks
  <1> DEFINE p == per_list_blocks(sbi)
             ncs == num_csum_blocks(sbi)
             nps == num_parity_blocks(sbi)
             N == sbi.num_blocks
             C == sbi.cpus
  <1>1. sbi \in Geometries /\ c \in 0..(C - 1)  BY RegionBounds
  <1>2. N \in Nat /\ C \in Nat \ {0} /\ p \in Nat /\ ncs \in Nat /\ nps \in Nat
    BY <1>1, GeometryTypes DEF Geometries
  <1>3. 0 \in 0..(C - 1) /\ (C - 1) \in 0..(C - 1) /\ 0 \in Lists /\ (C - 1) \in Lists
    BY <1>2, SMT DEF Lists
  <1>4. ASSUME NEW d \in Lists
        PROVE  /\ FirstBlock(sbi, d) \in Nat /\ LastBlock(sbi, d) \in Int
               /\ block_start(sbi, d) = FirstBlock(sbi, d) + ncs + nps
               /\ block_end(sbi, d) = LastBlock(sbi, d) - ncs
               /\ block_start(sbi, d) <= block_end(sbi, d)
    BY <1>1, RegionWithin, RegionBounds DEF Lists
  <1>5. k = 1 \/ k = 2 \/ k = 3 \/ k = 4  BY SMT
  <1>6. b \in Int /\ FirstBlock(sbi, c) <= b /\ b <= LastBlock(sbi, c)
    <2>1. CASE k = 1
      <3>1. b \in FirstBlock(sbi, c)..(FirstBlock(sbi, c) + ncs - 1)  BY <2>1, RegionBounds, Zenon
      <3> QED BY <3>1, <1>2, <1>4, SMT
    <2>2. CASE k = 2
      <3>1. b \in (FirstBlock(sbi, c) + ncs)..(block_start(sbi, c) - 1)  BY <2>2, RegionBounds, Zenon
      <3> QED BY <3>1, <1>2, <1>4, SMT
    <2>3. CASE k = 3
      <3>1. b \in block_start(sbi, c)..block_end(sbi, c)  BY <2>3, RegionBounds, Zenon
      <3> QED BY <3>1, <1>2, <1>4, SMT
    <2>4. CASE k = 4
      <3>1. b \in (block_end(sbi, c) + 1)..LastBlock(sbi, c)  BY <2>4, RegionBounds, Zenon
      <3> QED BY <3>1, <1>2, <1>4, SMT
    <2> QED BY <1>5, <2>1, <2>2, <2>3, <2>4
  <1>7. head_reserved_blocks <= FirstBlock(sbi, c)
    <2>1. FirstBlock(sbi, 0) = p * 0 + head_reserved_blocks  BY DEF FirstBlock
    <2>2. p * 0 = 0  BY <1>2, SMT
    <2>3. CASE c = 0  BY <2>1, <2>2, <2>3, <1>4, GeometryConstants, SMT
    <2>4. CASE c # 0
      <3>1. 0 < c  BY <2>4, <1>1, <1>2, SMT
      <3>2. LastBlock(sbi, 0) < FirstBlock(sbi, c)  BY <3>1, <1>1, <1>3, RegionsInOrder
      <3>3. FirstBlock(sbi, 0) <= LastBlock(sbi, 0)  BY <1>2, <1>3, <1>4, SMT
      <3> QED BY <2>1, <2>2, <3>2, <3>3, <1>3, <1>4, GeometryConstants, SMT
    <2> QED BY <2>3, <2>4
  <1>8. LastBlock(sbi, c) < N - tail_reserved_blocks
    <2> DEFINE x == p * (C - 1)
    <2>1. LastBlock(sbi, C - 1) = x + p - 1 - tail_reserved_blocks
      BY DEF LastBlock
    <2>2. x + p = p * C /\ x \in Nat
      <3>1. C - 1 \in Nat  BY <1>2, SMT
      <3> QED BY <3>1, <1>2, ProductNat, SMT
    <2>3. p * C <= N /\ p * C \in Nat
      <3>1. p = N \div C  BY DEF per_list_blocks
      <3>2. N = C * p + (N % C) /\ N % C \in 0..(C - 1)  BY <1>2, <3>1, DivNat, Zenon
      <3>3. C * p = p * C  BY <1>2, SMT
      <3>4. p * C \in Nat  BY <1>2, ProductNat
      <3> QED BY <3>2, <3>3, <3>4, <1>2, SMT
    <2>4. LastBlock(sbi, C - 1) < N - tail_reserved_blocks
      <3> HIDE DEF x, p
      <3> QED BY <2>1, <2>2, <2>3, <1>2, GeometryConstants, SMT
    <2>5. CASE c = C - 1  BY <2>4, <2>5
    <2>6. CASE c # C - 1
      <3>1. c < C - 1  BY <2>6, <1>1, <1>2, SMT
      <3>2. LastBlock(sbi, c) < FirstBlock(sbi, C - 1)  BY <3>1, <1>1, <1>3, RegionsInOrder
      <3>3. FirstBlock(sbi, C - 1) <= LastBlock(sbi, C - 1)  BY <1>2, <1>3, <1>4, SMT
      <3> QED BY <2>4, <3>2, <3>3, <1>2, <1>3, <1>4, GeometryConstants, SMT
    <2> QED BY <2>5, <2>6
  <1> QED BY <1>2, <1>4, <1>6, <1>7, <1>8, GeometryConstants, SMT

\* No two regions of a layout share a block.
LEMMA RegionsDisjoint ==
    ASSUME LInv, Usable, NEW b \in Lists, NEW c \in Lists, NEW p \in 1..4, NEW q \in 1..4,
           <<b, p>> # <<c, q>>
    PROVE  Regions(b)[p] \cap Regions(c)[q] = {}
  <1> SUFFICES ASSUME NEW x \in Regions(b)[p], x \in Regions(c)[q] PROVE FALSE  OBVIOUS
  <1>1. sbi \in Geometries /\ b \in 0..(sbi.cpus - 1) /\ c \in 0..(sbi.cpus - 1) /\ b \in Int /\ c \in Int
    BY RegionBounds, SMT
  <1>2. /\ FirstBlock(sbi, b) \in Nat /\ LastBlock(sbi, b) \in Int
        /\ FirstBlock(sbi, c) \in Nat /\ LastBlock(sbi, c) \in Int
        /\ block_start(sbi, b) = FirstBlock(sbi, b) + num_csum_blocks(sbi) + num_parity_blocks(sbi)
        /\ block_end(sbi, b) = LastBlock(sbi, b) - num_csum_blocks(sbi)
        /\ num_csum_blocks(sbi) \in Nat /\ num_parity_blocks(sbi) \in Nat
    BY <1>1, RegionWithin, GeometryTypes
  <1>3. /\ x \in Int /\ FirstBlock(sbi, b) <= x /\ x <= LastBlock(sbi, b)
        /\ FirstBlock(sbi, c) <= x /\ x <= LastBlock(sbi, c)
    BY RegionsInside
  <1>4. CASE b < c
    <2>1. LastBlock(sbi, b) < FirstBlock(sbi, c)  BY <1>1, <1>4, RegionsInOrder
    <2> QED BY <2>1, <1>2, <1>3, SMT
  <1>5. CASE c < b
    <2>1. LastBlock(sbi, c) < FirstBlock(sbi, b)  BY <1>1, <1>5, RegionsInOrder
    <2> QED BY <2>1, <1>2, <1>3, SMT
  <1>6. CASE b = c
    <2>1. p # q  BY <1>6
    <2>2. p \in {1, 2, 3, 4} /\ q \in {1, 2, 3, 4}  BY SMT
    <2>3. block_start(sbi, b) <= block_end(sbi, b)  BY RegionBounds
    <2> DEFINE In(k) == \/ k = 1 /\ x < FirstBlock(sbi, b) + num_csum_blocks(sbi)
                        \/ k = 2 /\ FirstBlock(sbi, b) + num_csum_blocks(sbi) <= x /\ x < block_start(sbi, b)
                        \/ k = 3 /\ block_start(sbi, b) <= x /\ x <= block_end(sbi, b)
                        \/ k = 4 /\ block_end(sbi, b) < x
    <2>4. ASSUME NEW k \in {1, 2, 3, 4}, x \in Regions(b)[k] PROVE In(k)
      <3>1. CASE k = 1
        <4>1. x \in FirstBlock(sbi, b)..(FirstBlock(sbi, b) + num_csum_blocks(sbi) - 1)
          BY <2>4, <3>1, RegionBounds, Zenon
        <4> QED BY <3>1, <4>1, <1>2, <1>3, SMT
      <3>2. CASE k = 2
        <4>1. x \in (FirstBlock(sbi, b) + num_csum_blocks(sbi))..(block_start(sbi, b) - 1)
          BY <2>4, <3>2, RegionBounds, Zenon
        <4> QED BY <3>2, <4>1, <1>2, <1>3, SMT
      <3>3. CASE k = 3
        <4>1. x \in block_start(sbi, b)..block_end(sbi, b)  BY <2>4, <3>3, RegionBounds, Zenon
        <4> QED BY <3>3, <4>1, <1>2, <1>3, SMT
      <3>4. CASE k = 4
        <4>1. x \in (block_end(sbi, b) + 1)..LastBlock(sbi, b)  BY <2>4, <3>4, RegionBounds, Zenon
        <4> QED BY <3>4, <4>1, <1>2, <1>3, SMTT(40)
      <3> QED BY <3>1, <3>2, <3>3, <3>4
    <2>5. In(p) /\ In(q)  BY <2>2, <2>4, <1>6
    <2> QED BY <2>1, <2>2, <2>3, <2>5, <1>2, <1>3, SMT
  <1> QED BY <1>1, <1>4, <1>5, <1>6, SMT

-----------------------------------------------------------------------------
\* Whatever the device and the number of CPUs, the regions that
\* nova_init_free_list and nova_init_blockmap carve out share no block with one
\* another or with the reserved blocks, when every list has a block.
THEOREM RegionsApartTheorem == Spec => []RegionsApart
  <1>1. LInv => RegionsApart
    <2> SUFFICES ASSUME LInv PROVE RegionsApart  OBVIOUS
    <2>1. TypeOK  BY DEF LInv
    <2>2. ASSUME Usable, NEW b \in Lists, NEW c \in Lists, NEW p \in 1..4, NEW q \in 1..4
          PROVE  /\ <<b, p>> # <<c, q>> => Regions(b)[p] \cap Regions(c)[q] = {}
                 /\ Regions(b)[p] \subseteq head_reserved_blocks..(sbi.num_blocks - tail_reserved_blocks - 1)
      <3>1. <<b, p>> # <<c, q>> => Regions(b)[p] \cap Regions(c)[q] = {}
        BY <2>2, RegionsDisjoint
      <3>2. sbi.num_blocks \in Nat  BY LayoutConstants, Zenon DEF LInv, TypeOK
      <3>3. ASSUME NEW x \in Regions(b)[p]
            PROVE  x \in head_reserved_blocks..(sbi.num_blocks - tail_reserved_blocks - 1)
        <4>1. /\ x \in Int /\ head_reserved_blocks <= x
              /\ x < sbi.num_blocks - tail_reserved_blocks
          BY <2>2, RegionsInside
        <4> QED BY <4>1, <3>2, GeometryConstants, SMT
      <3> QED BY <3>1, <3>3
    <2> QED BY <2>1, <2>2 DEF RegionsApart
  <1> QED BY <1>1, InitLInv, NextLInv, PTL DEF Spec

-----------------------------------------------------------------------------
(* Where checksums and parity of a block are.                               *)

\* A block that list c hands out, seen from the start of the list's part of the
\* device.
LEMMA BlockOfList ==
    ASSUME LInv, Usable, NEW c \in Lists,
           NEW b \in free_lists[c].block_start..free_lists[c].block_end
    PROVE  /\ sbi \in Geometries /\ LaidOut(c) /\ c \in Nat /\ c < sbi.cpus /\ sbi.cpus \in Nat
           /\ per_list_blocks(sbi) \in Nat \ {0} /\ b \in Nat
           /\ b \div per_list_blocks(sbi) = c
           /\ per_list_blocks(sbi) * c + num_csum_blocks(sbi) + num_parity_blocks(sbi) <= block_start(sbi, c)
           /\ block_start(sbi, c) \in Nat /\ FirstBlock(sbi, c) \in Nat
           /\ block_start(sbi, c) <= b
           /\ b < per_list_blocks(sbi) * c + per_list_blocks(sbi) - num_csum_blocks(sbi)
           /\ block_start(sbi, c) <= block_end(sbi, c)
           /\ LastBlock(sbi, c) + 1 - num_csum_blocks(sbi) = block_end(sbi, c) + 1
  <1> DEFINE p == per_list_blocks(sbi)
             x == p * c
             n == num_csum_blocks(sbi)
             q == num_parity_blocks(sbi)
  <1>1. sbi \in Geometries /\ c \in 0..(sbi.cpus - 1) /\ block_start(sbi, c) <= block_end(sbi, c)
    BY RegionBounds
  <1>2. sbi.cpus \in Nat \ {0}  BY <1>1 DEF Geometries
  <1>3. c \in Nat /\ c < sbi.cpus  BY <1>1, <1>2, SMT
  <1>4. LaidOut(c)
    <2>1. i = sbi.cpus  BY DEF LInv, Usable
    <2> QED BY <2>1, <1>3 DEF LInv
  <1>5. b \in block_start(sbi, c)..block_end(sbi, c)  BY <1>4 DEF LaidOut
  <1>6. b \div p = c  BY <1>1, <1>5, HomeOfBlock
  <1>7. p \in Nat /\ n \in Nat /\ q \in Nat  BY <1>1, GeometryTypes
  <1>8. /\ x \in Nat /\ FirstBlock(sbi, c) \in Nat /\ LastBlock(sbi, c) \in Int
        /\ block_start(sbi, c) \in Nat /\ block_end(sbi, c) \in Int
        /\ x <= FirstBlock(sbi, c) /\ LastBlock(sbi, c) < x + p
        /\ block_start(sbi, c) = FirstBlock(sbi, c) + n + q
        /\ block_end(sbi, c) = LastBlock(sbi, c) - n
    BY <1>1, RegionWithin
  <1> HIDE DEF p, x, n, q
  <1>9. /\ b \in Nat /\ block_start(sbi, c) <= b /\ b < x + p - n
        /\ x + n + q <= block_start(sbi, c) /\ p # 0
        /\ LastBlock(sbi, c) + 1 - n = block_end(sbi, c) + 1
    BY <1>5, <1>7, <1>8, SMT
  <1> QED BY <1>1, <1>2, <1>3, <1>4, <1>6, <1>7, <1>8, <1>9 DEF p, x, n, q

\* Where nova_get_parity_addr puts the stripe of a block.
LEMMA ParityPlace ==
    ASSUME LInv, Usable, NEW c \in Lists,
           NEW b \in free_lists[c].block_start..free_lists[c].block_end
    PROVE  LET n == b - free_lists[c].block_start
               size == BlockSize \div StripesPerBlock
           IN  /\ n \in Nat /\ size \in Nat /\ free_lists[c].parity_start \in Nat
               /\ nova_get_parity_addr(b) = free_lists[c].parity_start * BlockSize + n * size
               /\ n * size < BlockSize * free_lists[c].num_parity_blocks
               /\ free_lists[c].num_parity_blocks \in Nat
  <1> DEFINE p == per_list_blocks(sbi)
             x == p * c
             ncs == num_csum_blocks(sbi)
             nps == num_parity_blocks(sbi)
             st == block_start(sbi, c)
             n == b - st
             S == StripesPerBlock
             size == BlockSize \div S
  <1>1. /\ sbi \in Geometries /\ LaidOut(c) /\ c \in Nat /\ c < sbi.cpus /\ sbi.cpus \in Nat
        /\ p \in Nat /\ b \in Nat /\ b \div p = c /\ x + ncs + nps <= st /\ st \in Nat
        /\ FirstBlock(sbi, c) \in Nat /\ st <= b /\ b < x + p - ncs
    BY BlockOfList
  <1>2. ncs \in Nat /\ nps \in Nat /\ x \in Nat  BY <1>1, GeometryTypes, ProductNat
  <1>3. p <= (S + 1) * nps  BY <1>1, ParityFits
  <1>4. S \in Nat \ {0} /\ BlockSize \in Nat \ {0}  BY GeometryConstants
  <1>5. /\ free_lists[c].block_start = st /\ free_lists[c].num_parity_blocks = nps
        /\ free_lists[c].parity_start = FirstBlock(sbi, c) + ncs
    BY <1>1 DEF LaidOut
  <1>6. size \in Nat /\ S * size \in Nat /\ S * size <= BlockSize
    <2>1. /\ size \in Nat /\ BlockSize % S \in 0..(S - 1)
          /\ BlockSize = S * size + (BlockSize % S)
      BY <1>4, DivNat, Zenon
    <2>2. S * size \in Nat  BY <2>1, <1>4, ProductNat
    <2> QED BY <2>1, <2>2, <1>4, SMT
  <1>7. n \in Nat /\ n < S * nps /\ S * nps \in Nat
    <2>1. (S + 1) * nps = S * nps + nps /\ S * nps \in Nat  BY <1>2, <1>4, ProductNat, SMTT(40)
    <2> HIDE DEF p, x, ncs, nps, st, S
    <2> QED BY <2>1, <1>1, <1>2, <1>3, SMT
  <1>8. n \div S \in Nat /\ n \div S < nps  BY <1>2, <1>4, <1>7, QuotientBelow
  <1>9. ~(c >= sbi.cpus \/ n \div S >= nps)  BY <1>1, <1>2, <1>8, SMT
  <1>10. nova_get_parity_addr(b) = free_lists[c].parity_start * BlockSize + n * size
    BY <1>1, <1>5, <1>9 DEF nova_get_parity_addr
  <1>11. n * size < BlockSize * nps
    <2> HIDE DEF size, n, S, nps
    <2>1. n + 1 \in Nat /\ n + 1 <= S * nps  BY <1>2, <1>7, SMT
    <2>2. size * (n + 1) <= size * (S * nps)  BY <2>1, <1>6, <1>7, ProductsOrdered
    <2>3. size * (S * nps) = nps * (S * size)  BY <1>2, <1>4, <1>6, SMT
    <2>4. nps * (S * size) <= nps * BlockSize  BY <1>2, <1>4, <1>6, ProductsOrdered
    <2>5. size * (n + 1) = n * size + size /\ nps * BlockSize = BlockSize * nps
      BY <1>2, <1>4, <1>6, <1>7, SMT
    <2>6. n * size \in Nat /\ BlockSize * nps \in Nat /\ nps * (S * size) \in Nat
      BY <1>2, <1>4, <1>6, <1>7, ProductNat
    <2>7. CASE size = 0
      <3>1. n * size = 0 /\ nps # 0  BY <2>7, <1>2, <1>4, <1>7, SMT
      <3>2. BlockSize * nps # 0  BY <3>1, <1>2, <1>4, SMT
      <3> QED BY <3>1, <3>2, <2>6, SMT
    <2>8. CASE size # 0  BY <2>2, <2>3, <2>4, <2>5, <2>6, <2>8, <1>6, SMT
    <2> QED BY <2>7, <2>8
  <1>12. free_lists[c].parity_start \in Nat  BY <1>1, <1>2, <1>5, SMT
  <1> QED BY <1>2, <1>5, <1>6, <1>7, <1>10, <1>11, <1>12

\* The parity stripes of a list's blocks lie in its parity blocks, one after the
\* other.
LEMMA ParityHolds == LInv => ParityStored
  <1> SUFFICES ASSUME LInv, Usable, NEW c \in Lists
               PROVE  LET l    == free_lists[c]
                          Addr == [b \in l.block_start..l.block_end |-> nova_get_parity_addr(b)]
                      IN  /\ \A b \in DOMAIN Addr : Addr[b] \div BlockSize
                                                      \in Blocks(l.parity_start, l.num_parity_blocks)
                          /\ \A b \in DOMAIN Addr : b + 1 \in DOMAIN Addr =>
                               Addr[b] + BlockSize \div StripesPerBlock <= Addr[b + 1]
    BY Zenon DEF ParityStored
  <1> DEFINE l == free_lists[c]
             Addr == [b \in l.block_start..l.block_end |-> nova_get_parity_addr(b)]
             size == BlockSize \div StripesPerBlock
             P == l.parity_start
             np == l.num_parity_blocks
  <1>1. ASSUME NEW b \in l.block_start..l.block_end
        PROVE  /\ b - l.block_start \in Nat /\ size \in Nat /\ P \in Nat /\ np \in Nat
               /\ Addr[b] = P * BlockSize + (b - l.block_start) * size
               /\ (b - l.block_start) * size < BlockSize * np
    BY ParityPlace
  <1>2. BlockSize \in Nat \ {0}  BY GeometryConstants
  <1>3. ASSUME NEW b \in l.block_start..l.block_end
        PROVE  Addr[b] \div BlockSize \in Blocks(P, np)
    <2> DEFINE y == (b - l.block_start) * size
               q == y \div BlockSize
    <2>1. y \in Nat /\ P \in Nat /\ np \in Nat /\ Addr[b] = P * BlockSize + y /\ y < BlockSize * np
      BY <1>1, ProductNat
    <2> HIDE DEF y, P, np, Addr
    <2>2. q \in Nat /\ q < np  BY <2>1, <1>2, QuotientBelow
    <2>3. y % BlockSize \in 0..(BlockSize - 1) /\ y = BlockSize * q + (y % BlockSize)
      BY <2>1, <1>2, DivNat
    <2>4. BlockSize * (P + q) = P * BlockSize + BlockSize * q /\ BlockSize * q \in Nat
          /\ P * BlockSize \in Nat /\ P + q \in Nat
      BY <2>1, <2>2, <1>2, ProductNat, SMT
    <2> HIDE DEF q
    <2>5. /\ Addr[b] \in Nat /\ BlockSize * (P + q) <= Addr[b]
          /\ Addr[b] < BlockSize * (P + q) + BlockSize
      BY <2>1, <2>2, <2>3, <2>4, <1>2, SMT
    <2>6. Addr[b] \div BlockSize = P + q  BY <2>4, <2>5, <1>2, Quotient, Zenon
    <2>7. P + q \in P..(P + np - 1)  BY <2>1, <2>2, SMT
    <2> QED BY <2>6, <2>7 DEF Blocks
  <1>4. ASSUME NEW b \in l.block_start..l.block_end, b + 1 \in l.block_start..l.block_end
        PROVE  Addr[b] + size <= Addr[b + 1]
    <2> DEFINE n == b - l.block_start
               n2 == (b + 1) - l.block_start
    <2>1. /\ n \in Nat /\ size \in Nat /\ P \in Nat
          /\ Addr[b] = P * BlockSize + n * size
      BY <1>1, Zenon
    <2>2. n2 \in Nat /\ Addr[b + 1] = P * BlockSize + n2 * size  BY <1>1, <1>4, Zenon
    <2>3. b \in Int /\ l.block_start \in Int
      <3>1. LaidOut(c) /\ block_start(sbi, c) \in Nat /\ b \in Nat  BY BlockOfList
      <3> QED BY <3>1, SMTT(40) DEF LaidOut
    <2>4. n2 = n + 1  BY <2>3, SMT
    <2> HIDE DEF n, n2, size, P, Addr
    <2>5. n2 * size = n * size + size /\ n * size \in Nat /\ P * BlockSize \in Nat
      BY <2>1, <2>2, <2>4, <1>2, ProductNat, SMT
    <2> QED BY <2>1, <2>2, <2>5, SMT
  <1>5. DOMAIN Addr = l.block_start..l.block_end  OBVIOUS
  <1> HIDE DEF Addr
  <1> QED BY <1>3, <1>4, <1>5, Zenon DEF Addr

\* The checksums of a stripe lie in the checksum blocks of the list.
LEMMA CsumHolds ==
    LInv /\ sbi.num_blocks >= BlocksPerCsumBlock * (BlocksPerCsumBlock - 1) => CsumStored
  <1> SUFFICES ASSUME LInv, sbi.num_blocks >= BlocksPerCsumBlock * (BlocksPerCsumBlock - 1), Usable,
                      NEW c \in Lists,
                      NEW b \in free_lists[c].block_start..free_lists[c].block_end,
                      NEW k \in 0..(StripesPerBlock - 1), NEW replica \in BOOLEAN
               PROVE  nova_get_data_csum_addr(b * StripesPerBlock + k, replica) # NULL
    BY DEF CsumStored
  <1> DEFINE p == per_list_blocks(sbi)
             x == p * c
             ncs == num_csum_blocks(sbi)
             S == StripesPerBlock
             L == NOVA_DATA_CSUM_LEN
             K == BlocksPerCsumBlock
             nr == b * S + k
             strp == nr - c * p * S
             first == IF replica THEN free_lists[c].replica_csum_start ELSE free_lists[c].csum_start
  <1>1. /\ sbi \in Geometries /\ LaidOut(c) /\ c \in Nat /\ c < sbi.cpus /\ sbi.cpus \in Nat
        /\ p \in Nat \ {0} /\ b \in Nat /\ b \div p = c
        /\ x + ncs + num_parity_blocks(sbi) <= block_start(sbi, c)
        /\ block_start(sbi, c) \in Nat /\ FirstBlock(sbi, c) \in Nat
        /\ block_start(sbi, c) <= b /\ b < x + p - ncs
        /\ block_start(sbi, c) <= block_end(sbi, c)
        /\ LastBlock(sbi, c) + 1 - ncs = block_end(sbi, c) + 1
    BY BlockOfList
  <1>2. ncs \in Nat /\ num_parity_blocks(sbi) \in Nat /\ x \in Nat /\ block_end(sbi, c) \in Int
    <2>1. c \in 0..(sbi.cpus - 1)  BY <1>1, SMT
    <2> QED BY <2>1, <1>1, GeometryTypes, ProductNat, RegionWithin
  <1>3. S \in Nat \ {0} /\ L \in Nat \ {0} /\ BlockSize \in Nat \ {0} /\ k \in Nat /\ k < S
    BY GeometryConstants, SMT
  <1>4. K \in Nat /\ BlockSize = (S * L) * K
    <2> DEFINE w == S * L
    <2>1. w \in Nat \ {0}
      <3>1. w \in Nat  BY <1>3, ProductNat
      <3>2. w # 0  BY <1>3, SMT
      <3> QED BY <3>1, <3>2
    <2>2. BlockSize % w = 0 /\ K = BlockSize \div w  BY CsumsFillBlock DEF BlocksPerCsumBlock
    <2>3. K \in Nat /\ BlockSize = w * K + (BlockSize % w)  BY <2>1, <2>2, <1>3, DivNat, Zenon
    <2>4. w * K \in Nat  BY <2>1, <2>3, ProductNat
    <2> HIDE DEF w
    <2>5. BlockSize = w * K  BY <2>2, <2>3, <2>4, SMT
    <2> QED BY <2>3, <2>5 DEF w
  <1>5. p <= (K + 1) * ncs
    <2> HIDE DEF K
    <2>1. sbi.num_blocks >= K * (K - 1)  BY DEF K
    <2> QED BY <2>1, <1>1, <1>4, CsumFits
  <1>6. /\ free_lists[c].csum_start = FirstBlock(sbi, c) /\ free_lists[c].num_csum_blocks = ncs
        /\ free_lists[c].replica_csum_start = LastBlock(sbi, c) + 1 - ncs
    BY <1>1 DEF LaidOut
  <1> HIDE DEF p, x, ncs, S, L, K
  <1>7. nr \in Nat /\ nr \div S = b /\ nr = S * b + k
    <2>1. b * S = S * b /\ S * b \in Nat  BY <1>1, <1>3, ProductNat, SMT
    <2>2. nr \in Nat /\ S * b <= nr /\ nr < S * b + S /\ nr = S * b + k  BY <2>1, <1>3, SMT
    <2> HIDE DEF nr
    <2> QED BY <2>2, <1>1, <1>3, Quotient
  <1>8. strp \in Nat /\ L * strp < BlockSize * ncs
    <2> DEFINE d == b - x
    <2>1. d \in Nat /\ d + 1 + ncs <= p  BY <1>1, <1>2, SMT
    <2>2. strp = S * d + k
      <3>1. c * p * S = S * x  BY <1>1, <1>3, SMT DEF x
      <3>2. S * b = S * x + S * d
        <4>1. b = x + d  BY <1>1, <1>2, SMT
        <4> HIDE DEF d
        <4> QED BY <4>1, <2>1, <1>2, <1>3, SMT
      <3>3. S * x \in Nat /\ S * d \in Nat  BY <2>1, <1>2, <1>3, ProductNat
      <3> QED BY <3>1, <3>2, <3>3, <1>3, <1>7, SMT
    <2> HIDE DEF d, strp
    <2>3. d + 1 <= K * ncs /\ K * ncs \in Nat
      <3>1. (K + 1) * ncs = K * ncs + ncs /\ K * ncs \in Nat  BY <1>2, <1>4, ProductNat, SMT
      <3> QED BY <3>1, <2>1, <1>1, <1>2, <1>5, SMT
    <2>4. strp \in Nat /\ strp + 1 <= S * (d + 1) /\ S * (d + 1) \in Nat
      <3>1. S * (d + 1) = S * d + S /\ S * d \in Nat  BY <2>1, <1>3, ProductNat, SMT
      <3> QED BY <3>1, <2>2, <1>3, SMT
    <2>5. S * (d + 1) <= S * (K * ncs) /\ S * (K * ncs) \in Nat
      <3>1. d + 1 \in Nat  BY <2>1, SMT
      <3> QED BY <3>1, <2>3, <1>3, ProductsOrdered, ProductNat
    <2>6. strp + 1 \in Nat /\ strp + 1 <= S * (K * ncs)  BY <2>4, <2>5, SMT
    <2>7. L * (strp + 1) <= L * (S * (K * ncs))  BY <2>5, <2>6, <1>3, ProductsOrdered
    <2>8. L * (S * (K * ncs)) = BlockSize * ncs
      <3>1. K * ncs \in Nat  BY <2>3
      <3>2. L * (S * (K * ncs)) = (S * L) * (K * ncs)  BY <3>1, <1>3, SMT
      <3>3. S * L \in Nat  BY <1>3, ProductNat
      <3>4. (S * L) * (K * ncs) = ((S * L) * K) * ncs  BY <3>3, <1>2, <1>4, SMT
      <3> QED BY <3>2, <3>4, <1>4
    <2>9. L * (strp + 1) = L * strp + L /\ L * strp \in Nat /\ BlockSize * ncs \in Nat
      BY <2>4, <1>2, <1>3, ProductNat, SMT
    <2> QED BY <2>4, <2>7, <2>8, <2>9, <1>3, SMTT(40)
  <1>9. (L * strp) \div BlockSize < ncs /\ (L * strp) \div BlockSize \in Nat /\ L * strp \in Nat
    <2> HIDE DEF strp
    <2>1. L * strp \in Nat  BY <1>3, <1>8, ProductNat
    <2> QED BY <2>1, <1>2, <1>3, <1>8, QuotientBelow
  <1>10. ~(c >= sbi.cpus \/ (L * strp) \div BlockSize >= ncs)
    <2> HIDE DEF strp
    <2> QED BY <1>1, <1>2, <1>9, SMT
  <1>11. first \in Nat
    <2>1. free_lists[c].replica_csum_start \in Nat  BY <1>1, <1>2, <1>6, SMTT(40)
    <2> QED BY <2>1, <1>1, <1>6
  <1>12. nova_get_data_csum_addr(nr, replica) = first * BlockSize + L * strp
    <2>1. (nr \div S) \div p = c  BY <1>1, <1>7
    <2> HIDE DEF nr
    <2> QED BY <2>1, <1>6, <1>10 DEF nova_get_data_csum_addr, p, S, L
  <1>13. first * BlockSize \in Nat  BY <1>3, <1>11, ProductNat
  <1>14. first * BlockSize + L * strp # NULL
    <2> HIDE DEF strp, first
    <2> QED BY <1>9, <1>13, SMT DEF NULL
  <1> QED BY <1>12, <1>14 DEF S

\* Whatever the device, every block that can be allocated has a place for its
\* parity, and every stripe of it one for each of its two checksums unless the
\* device is tiny (nova_get_parity_addr, nova_get_data_csum_addr).
THEOREM ProtectionTheorem == Spec => []ProtectionStored
  <1>1. LInv => ProtectionStored  BY ParityHolds, CsumHolds DEF ProtectionStored
  <1> QED BY <1>1, InitLInv, NextLInv, PTL DEF Spec
=============================================================================
