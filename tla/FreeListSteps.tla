--------------------------- MODULE FreeListSteps ---------------------------
(***************************************************************************)
(* What each change that balloc.c makes to a free list does to the list    *)
(* and to the blocks it holds.  The first part is about ranges alone: what *)
(* cutting, splitting, removing, adding, extending and joining range nodes *)
(* does to the blocks they cover and to the end nodes, where a list is     *)
(* given by its nodes T, the functions lo and hi that give their ranges,   *)
(* its first and its last node f and l, and the region s..e it is confined *)
(* to.  The second part is about the operations: each takes one run of     *)
(* blocks from one list (Took) or gives one back (Gave).                   *)
(***************************************************************************)
EXTENDS FreeList, FiniteSetTheorems, TLAPS

USE Zenon

-----------------------------------------------------------------------------
(* Ranges.                                                                  *)

Sound(T, lo, hi, f, l, s, e) ==
    /\ \A n \in T : lo[n] \in Nat /\ hi[n] \in Nat /\ s <= lo[n] /\ lo[n] <= hi[n] /\ hi[n] <= e
    /\ \A m, n \in T : m # n => hi[m] + 1 < lo[n] \/ hi[n] + 1 < lo[m]
    /\ T = {} => f = NULL /\ l = NULL
    /\ T # {} => f \in T /\ l \in T /\ \A n \in T : lo[f] <= lo[n] /\ hi[n] <= hi[l]

Covered(T, lo, hi) == UNION {lo[n]..hi[n] : n \in T}

\* A tree that covers the blocks x..y less, or more, than another.
CoversLess(T2, lo2, hi2, T, lo, hi, x, y) ==
    /\ x..y \subseteq Covered(T, lo, hi)
    /\ Covered(T2, lo2, hi2) = Covered(T, lo, hi) \ (x..y)
CoversMore(T2, lo2, hi2, T, lo, hi, x, y) ==
    Covered(T2, lo2, hi2) = Covered(T, lo, hi) \cup (x..y)

\* p and q are the nodes before and after block b.
IsPrev(T, lo, hi, b, p) ==
    /\ p # NULL => p \in T /\ hi[p] < b /\ \A m \in T : hi[m] < b => lo[m] <= lo[p]
    /\ p = NULL => \A m \in T : ~(hi[m] < b)
IsNext(T, lo, b, q) ==
    /\ q # NULL => q \in T /\ lo[q] > b /\ \A m \in T : lo[m] > b => lo[q] <= lo[m]
    /\ q = NULL => \A m \in T : ~(lo[m] > b)

-----------------------------------------------------------------------------
(* Least and greatest nodes.                                                *)

\* A set of natural numbers that is not empty has a least element.
LEMMA LeastNat ==
    ASSUME NEW S, S \subseteq Nat, S # {}
    PROVE  \E x \in S : \A y \in S : x <= y
  <1>1. PICK x \in S : \A y \in S : ~(<<y, x>> \in OpToRel(<, Nat))
    BY NatLessThanWellFounded, WFMin, Zenon
  <1>2. ASSUME NEW y \in S PROVE x <= y
    <2>1. <<y, x>> \in Nat \X Nat  OBVIOUS
    <2>2. ~(y < x)  BY <1>1, <2>1, SMT DEF OpToRel
    <2> QED BY <2>2, SMT
  <1> QED BY <1>2

\* Among the nodes there is one that starts first.
LEMMA LeastNode ==
    ASSUME NEW T, T # {}, NEW lo, \A n \in T : lo[n] \in Nat
    PROVE  \E n \in T : \A m \in T : lo[n] <= lo[m]
  <1> DEFINE S == {lo[n] : n \in T}
  <1>1. S \subseteq Nat /\ S # {}  OBVIOUS
  <1>2. PICK x \in S : \A y \in S : x <= y  BY <1>1, LeastNat, Zenon
  <1>3. PICK n \in T : x = lo[n]  BY <1>2
  <1> QED BY <1>2, <1>3

\* Among the nodes there is one that starts last.
LEMMA GreatestNode ==
    ASSUME NEW T, T # {}, NEW lo, NEW e \in Int, \A n \in T : lo[n] \in Nat /\ lo[n] <= e
    PROVE  \E n \in T : \A m \in T : lo[m] <= lo[n]
  <1> DEFINE S == {e - lo[n] : n \in T}
  <1>1. \A n \in T : e - lo[n] \in Nat  BY SMT
  <1>2. S \subseteq Nat /\ S # {}  BY <1>1, Zenon
  <1>3. PICK x \in S : \A y \in S : x <= y  BY <1>2, LeastNat, Zenon
  <1>4. PICK n \in T : x = e - lo[n]  BY <1>3
  <1>5. ASSUME NEW m \in T PROVE lo[m] <= lo[n]
    <2>1. e - lo[n] <= e - lo[m]  BY <1>3, <1>4, Zenon
    <2> QED BY <2>1, SMT
  <1> QED BY <1>5

\* A block is covered if a node holds it.
LEMMA CoveredBy ==
    ASSUME NEW T, NEW lo, NEW hi, NEW b
    PROVE  b \in Covered(T, lo, hi) <=> \E n \in T : b \in lo[n]..hi[n]
  BY Zenon DEF Covered

\* Every block covered is a block of the region.
LEMMA CoveredInRegion ==
    ASSUME NEW T, NEW lo, NEW hi, NEW f, NEW l, NEW s \in Int, NEW e \in Int,
           Sound(T, lo, hi, f, l, s, e)
    PROVE  Covered(T, lo, hi) \subseteq s..e
  <1>1. ASSUME NEW b \in Covered(T, lo, hi) PROVE b \in s..e
    <2>1. PICK n \in T : b \in lo[n]..hi[n]  BY CoveredBy, Zenon
    <2>2. lo[n] \in Nat /\ hi[n] \in Nat /\ s <= lo[n] /\ hi[n] <= e  BY DEF Sound
    <2> QED BY <2>1, <2>2, SMT
  <1> QED BY <1>1

-----------------------------------------------------------------------------
(* Ranges that lose blocks.                                                 *)

\* Node n is cut after block b.
LEMMA CutHigh ==
    ASSUME NEW T, NEW lo, NEW hi, NEW f, NEW l, NEW s \in Int, NEW e \in Int,
           Sound(T, lo, hi, f, l, s, e),
           NEW n \in T, NEW b \in Nat, lo[n] <= b, b < hi[n],
           NEW lo2, NEW hi2, \A m \in T : lo2[m] = lo[m] /\ (m # n => hi2[m] = hi[m]), hi2[n] = b
    PROVE  /\ Sound(T, lo2, hi2, f, l, s, e)
           /\ (b + 1)..hi[n] \subseteq Covered(T, lo, hi)
           /\ Covered(T, lo2, hi2) = Covered(T, lo, hi) \ ((b + 1)..hi[n])
  <1>1. lo[n] \in Nat /\ hi[n] \in Nat /\ s <= lo[n] /\ hi[n] <= e  BY DEF Sound
  <1>2. Sound(T, lo2, hi2, f, l, s, e)
    BY <1>1, SMT DEF Sound
  <1>3. ASSUME NEW x \in (b + 1)..hi[n] PROVE x \in Covered(T, lo, hi)
    <2>1. x \in lo[n]..hi[n]  BY <1>1, SMT
    <2> QED BY <2>1, CoveredBy, Zenon
  <1>4. ASSUME NEW x \in Covered(T, lo2, hi2) PROVE x \in Covered(T, lo, hi) /\ x \notin (b + 1)..hi[n]
    <2>1. PICK m \in T : x \in lo2[m]..hi2[m]  BY CoveredBy, Zenon
    <2>2. lo[m] \in Nat /\ hi[m] \in Nat /\ lo2[m] = lo[m]  BY DEF Sound
    <2>3. CASE m = n
      <3>1. x \in lo[n]..hi[n] /\ x \notin (b + 1)..hi[n]  BY <1>1, <2>1, <2>2, <2>3, SMT
      <3> QED BY <3>1, CoveredBy, Zenon
    <2>4. CASE m # n
      <3>1. x \in lo[m]..hi[m]  BY <2>1, <2>2, <2>4
      <3>2. hi[m] + 1 < lo[n] \/ hi[n] + 1 < lo[m]  BY <2>4 DEF Sound
      <3>3. x \notin (b + 1)..hi[n]  BY <1>1, <2>2, <3>1, <3>2, SMT
      <3> QED BY <3>1, <3>3, CoveredBy, Zenon
    <2> QED BY <2>3, <2>4
  <1>5. ASSUME NEW x \in Covered(T, lo, hi), x \notin (b + 1)..hi[n] PROVE x \in Covered(T, lo2, hi2)
    <2>1. PICK m \in T : x \in lo[m]..hi[m]  BY CoveredBy, Zenon
    <2>2. lo[m] \in Nat /\ hi[m] \in Nat /\ lo2[m] = lo[m]  BY DEF Sound
    <2>3. x \in lo2[m]..hi2[m]
      <3>1. CASE m = n  BY <3>1, <1>1, <1>5, <2>1, <2>2, SMT
      <3>2. CASE m # n  BY <3>2, <2>1, <2>2
      <3> QED BY <3>1, <3>2
    <2> QED BY <2>3, CoveredBy, Zenon
  <1> QED BY <1>2, <1>3, <1>4, <1>5, Zenon

\* Node n is cut before block b.
LEMMA CutLow ==
    ASSUME NEW T, NEW lo, NEW hi, NEW f, NEW l, NEW s \in Int, NEW e \in Int,
           Sound(T, lo, hi, f, l, s, e),
           NEW n \in T, NEW b \in Nat, lo[n] < b, b <= hi[n],
           NEW lo2, NEW hi2, \A m \in T : hi2[m] = hi[m] /\ (m # n => lo2[m] = lo[m]), lo2[n] = b
    PROVE  /\ Sound(T, lo2, hi2, f, l, s, e)
           /\ lo[n]..(b - 1) \subseteq Covered(T, lo, hi)
           /\ Covered(T, lo2, hi2) = Covered(T, lo, hi) \ (lo[n]..(b - 1))
  <1>1. lo[n] \in Nat /\ hi[n] \in Nat /\ s <= lo[n] /\ hi[n] <= e  BY DEF Sound
  <1>2. Sound(T, lo2, hi2, f, l, s, e)
    BY <1>1, SMT DEF Sound
  <1>3. ASSUME NEW x \in lo[n]..(b - 1) PROVE x \in Covered(T, lo, hi)
    <2>1. x \in lo[n]..hi[n]  BY <1>1, SMT
    <2> QED BY <2>1, CoveredBy, Zenon
  <1>4. ASSUME NEW x \in Covered(T, lo2, hi2) PROVE x \in Covered(T, lo, hi) /\ x \notin lo[n]..(b - 1)
    <2>1. PICK m \in T : x \in lo2[m]..hi2[m]  BY CoveredBy, Zenon
    <2>2. lo[m] \in Nat /\ hi[m] \in Nat /\ hi2[m] = hi[m]  BY DEF Sound
    <2>3. CASE m = n
      <3>1. x \in lo[n]..hi[n] /\ x \notin lo[n]..(b - 1)  BY <1>1, <2>1, <2>2, <2>3, SMT
      <3> QED BY <3>1, CoveredBy, Zenon
    <2>4. CASE m # n
      <3>1. x \in lo[m]..hi[m]  BY <2>1, <2>2, <2>4
      <3>2. hi[m] + 1 < lo[n] \/ hi[n] + 1 < lo[m]  BY <2>4 DEF Sound
      <3>3. x \notin lo[n]..(b - 1)  BY <1>1, <2>2, <3>1, <3>2, SMT
      <3> QED BY <3>1, <3>3, CoveredBy, Zenon
    <2> QED BY <2>3, <2>4
  <1>5. ASSUME NEW x \in Covered(T, lo, hi), x \notin lo[n]..(b - 1) PROVE x \in Covered(T, lo2, hi2)
    <2>1. PICK m \in T : x \in lo[m]..hi[m]  BY CoveredBy, Zenon
    <2>2. lo[m] \in Nat /\ hi[m] \in Nat /\ hi2[m] = hi[m]  BY DEF Sound
    <2>3. x \in lo2[m]..hi2[m]
      <3>1. CASE m = n  BY <3>1, <1>1, <1>5, <2>1, <2>2, SMT
      <3>2. CASE m # n  BY <3>2, <2>1, <2>2
      <3> QED BY <3>1, <3>2
    <2> QED BY <2>3, CoveredBy, Zenon
  <1> QED BY <1>2, <1>3, <1>4, <1>5, Zenon

\* Node n is cut after block a, and the new node w gets its blocks from b on.
Splits(T, lo, hi, f, l, s, e, n, w, a, b, T2, lo2, hi2, l2) ==
    /\ s \in Int /\ e \in Int /\ Sound(T, lo, hi, f, l, s, e)
    /\ n \in T /\ w \notin T
    /\ a \in Nat /\ b \in Nat /\ lo[n] <= a /\ a + 1 < b /\ b <= hi[n]
    /\ \A m \in T : lo2[m] = lo[m] /\ (m # n => hi2[m] = hi[m])
    /\ hi2[n] = a /\ lo2[w] = b /\ hi2[w] = hi[n]
    /\ T2 = T \cup {w} /\ l2 = IF l = n THEN w ELSE l

\* A node that is split loses the blocks between its two parts.
LEMMA Split ==
    ASSUME NEW T, NEW lo, NEW hi, NEW f, NEW l, NEW s, NEW e,
           NEW n, NEW w, NEW a, NEW b, NEW T2, NEW lo2, NEW hi2, NEW l2,
           Splits(T, lo, hi, f, l, s, e, n, w, a, b, T2, lo2, hi2, l2)
    PROVE  /\ Sound(T2, lo2, hi2, f, l2, s, e)
           /\ CoversLess(T2, lo2, hi2, T, lo, hi, a + 1, b - 1)
  <1> USE DEF Splits
  <1>1. lo[n] \in Nat /\ hi[n] \in Nat /\ s <= lo[n] /\ hi[n] <= e  BY DEF Sound
  <1>2. Sound(T2, lo2, hi2, f, l2, s, e)
    <2>1. \A m \in T2 : lo2[m] \in Nat /\ hi2[m] \in Nat /\ s <= lo2[m] /\ lo2[m] <= hi2[m] /\ hi2[m] <= e
      BY <1>1, SMT DEF Sound
    <2>2. ASSUME NEW m \in T2, NEW k \in T2, m # k
          PROVE  hi2[m] + 1 < lo2[k] \/ hi2[k] + 1 < lo2[m]
      BY <1>1, <2>2, SMT DEF Sound
    <2>3. f \in T /\ l \in T  BY DEF Sound
    <2>4. l2 \in T2 /\ \A m \in T2 : lo2[f] <= lo2[m]
      BY <1>1, <2>3, SMT DEF Sound
    <2>5. \A m \in T2 : hi2[m] <= hi2[l2]
      <3>1. CASE l = n  BY <3>1, <1>1, <2>3, SMT DEF Sound
      <3>2. CASE l # n  BY <3>2, <1>1, <2>3, SMT DEF Sound
      <3> QED BY <3>1, <3>2
    <2> QED BY <2>1, <2>2, <2>3, <2>4, <2>5, Zenon DEF Sound
  <1>3. ASSUME NEW x \in (a + 1)..(b - 1) PROVE x \in Covered(T, lo, hi)
    <2>1. x \in lo[n]..hi[n]  BY <1>1, SMT
    <2> QED BY <2>1, CoveredBy, Zenon
  <1>4. ASSUME NEW x \in Covered(T2, lo2, hi2) PROVE x \in Covered(T, lo, hi) /\ x \notin (a + 1)..(b - 1)
    <2>1. PICK m \in T2 : x \in lo2[m]..hi2[m]  BY CoveredBy, Zenon
    <2>3. CASE m = n \/ m = w
      <3>1. x \in lo[n]..hi[n] /\ x \notin (a + 1)..(b - 1)  BY <1>1, <2>1, <2>3, SMT
      <3> QED BY <3>1, CoveredBy, Zenon
    <2>4. CASE m \in T /\ m # n
      <3>1. x \in lo[m]..hi[m] /\ lo[m] \in Nat /\ hi[m] \in Nat  BY <2>1, <2>4 DEF Sound
      <3>2. hi[m] + 1 < lo[n] \/ hi[n] + 1 < lo[m]  BY <2>4 DEF Sound
      <3>3. x \notin (a + 1)..(b - 1)  BY <1>1, <3>1, <3>2, SMT
      <3> QED BY <2>4, <3>1, <3>3, CoveredBy, Zenon
    <2> QED BY <2>3, <2>4
  <1>5. ASSUME NEW x \in Covered(T, lo, hi), x \notin (a + 1)..(b - 1) PROVE x \in Covered(T2, lo2, hi2)
    <2>1. PICK m \in T : x \in lo[m]..hi[m]  BY CoveredBy, Zenon
    <2>2. CASE m = n
      <3>1. x \in lo2[n]..hi2[n] \/ x \in lo2[w]..hi2[w]  BY <1>1, <1>5, <2>1, <2>2, SMT
      <3> QED BY <3>1, CoveredBy, Zenon
    <2>3. CASE m # n
      <3>1. x \in lo2[m]..hi2[m]  BY <2>1, <2>3
      <3> QED BY <3>1, CoveredBy, Zenon
    <2> QED BY <2>2, <2>3
  <1> QED BY <1>2, <1>3, <1>4, <1>5, Zenon DEF CoversLess

\* Node n, an end of the list, is removed; p and q are its neighbours.
Removes(T, lo, hi, f, l, s, e, n, p, q, T2, lo2, hi2, f2, l2) ==
    /\ s \in Int /\ e \in Int /\ Sound(T, lo, hi, f, l, s, e)
    /\ NULL \notin T /\ n \in T
    /\ IsPrev(T, lo, hi, lo[n], p) /\ IsNext(T, lo, hi[n], q)
    /\ \A m \in T \ {n} : lo2[m] = lo[m] /\ hi2[m] = hi[m]
    /\ T2 = T \ {n}
    /\ f2 = (IF f = n THEN q ELSE f) /\ l2 = (IF l = n THEN p ELSE l)

\* A node that is taken out loses its blocks, and the ends move to its neighbours.
LEMMA TakeNode ==
    ASSUME NEW T, NEW lo, NEW hi, NEW f, NEW l, NEW s, NEW e,
           NEW n, NEW p, NEW q, NEW T2, NEW lo2, NEW hi2, NEW f2, NEW l2,
           Removes(T, lo, hi, f, l, s, e, n, p, q, T2, lo2, hi2, f2, l2)
    PROVE  /\ Sound(T2, lo2, hi2, f2, l2, s, e)
           /\ CoversLess(T2, lo2, hi2, T, lo, hi, lo[n], hi[n])
  <1> USE DEF Removes
  <1>1. lo[n] \in Nat /\ hi[n] \in Nat /\ lo[n] <= hi[n]  BY DEF Sound
  <1>2. f \in T /\ l \in T /\ \A m \in T : lo[f] <= lo[m] /\ hi[m] <= hi[l]  BY DEF Sound
  <1>3. \A m \in T : lo[m] \in Nat /\ hi[m] \in Nat /\ s <= lo[m] /\ lo[m] <= hi[m] /\ hi[m] <= e
    BY DEF Sound
  <1>4. \A m, k \in T : m # k => hi[m] + 1 < lo[k] \/ hi[k] + 1 < lo[m]  BY DEF Sound
  <1>5. \A m \in T2 : lo2[m] = lo[m] /\ hi2[m] = hi[m] /\ m \in T /\ m # n  OBVIOUS
  <1>6. ASSUME NEW m \in T2 PROVE f2 \in T2 /\ lo2[f2] <= lo2[m]
    <2>1. CASE f = n
      <3>1. hi[n] + 1 < lo[m]  BY <1>1, <1>2, <1>3, <1>4, <1>5, <2>1, SMT
      <3>2. lo[m] > hi[n] /\ m \in T  BY <1>1, <1>3, <1>5, <3>1, SMT
      <3>3. q # NULL  BY <3>2 DEF IsNext
      <3>4. q \in T /\ lo[q] > hi[n] /\ lo[q] <= lo[m]  BY <3>2, <3>3 DEF IsNext
      <3>5. q # n  BY <3>4, <1>1, SMT
      <3> QED BY <2>1, <3>4, <3>5, <1>5
    <2>2. CASE f # n  BY <2>2, <1>2, <1>5
    <2> QED BY <2>1, <2>2
  <1>7. ASSUME NEW m \in T2 PROVE l2 \in T2 /\ hi2[m] <= hi2[l2]
    <2>1. CASE l = n
      <3>1. hi[m] + 1 < lo[n]  BY <1>1, <1>2, <1>3, <1>4, <1>5, <2>1, SMT
      <3>2. hi[m] < lo[n] /\ m \in T  BY <1>1, <1>3, <1>5, <3>1, SMT
      <3>3. p # NULL  BY <3>2 DEF IsPrev
      <3>4. p \in T /\ hi[p] < lo[n] /\ lo[m] <= lo[p]  BY <3>2, <3>3 DEF IsPrev
      <3>5. p # n  BY <3>4, <1>1, SMT
      <3>6. hi[m] <= hi[p]
        <4>1. CASE m = p  BY <4>1, <1>3, <3>4, SMT
        <4>2. CASE m # p
          <5>1. hi[m] + 1 < lo[p] \/ hi[p] + 1 < lo[m]  BY <4>2, <1>4, <3>2, <3>4
          <5> QED BY <5>1, <1>3, <3>2, <3>4, SMT
        <4> QED BY <4>1, <4>2
      <3> QED BY <2>1, <3>4, <3>5, <3>6, <1>5
    <2>2. CASE l # n  BY <2>2, <1>2, <1>5
    <2> QED BY <2>1, <2>2
  <1>8. T2 = {} => f2 = NULL /\ l2 = NULL
    <2> SUFFICES ASSUME T2 = {} PROVE f2 = NULL /\ l2 = NULL  OBVIOUS
    <2>1. f = n /\ l = n /\ \A m \in T : m = n  BY <1>2
    <2>2. q = NULL
      <3> SUFFICES ASSUME q # NULL PROVE FALSE  OBVIOUS
      <3>1. q \in T /\ lo[q] > hi[n]  BY DEF IsNext
      <3>2. q = n  BY <2>1, <3>1
      <3> QED BY <3>1, <3>2, <1>1, SMT
    <2>3. p = NULL
      <3> SUFFICES ASSUME p # NULL PROVE FALSE  OBVIOUS
      <3>1. p \in T /\ hi[p] < lo[n]  BY DEF IsPrev
      <3>2. p = n  BY <2>1, <3>1
      <3> QED BY <3>1, <3>2, <1>1, SMT
    <2> QED BY <2>1, <2>2, <2>3
  <1>9. Sound(T2, lo2, hi2, f2, l2, s, e)
    <2>1. \A m \in T2 : lo2[m] \in Nat /\ hi2[m] \in Nat /\ s <= lo2[m] /\ lo2[m] <= hi2[m] /\ hi2[m] <= e
      BY <1>3, <1>5
    <2>2. \A m, k \in T2 : m # k => hi2[m] + 1 < lo2[k] \/ hi2[k] + 1 < lo2[m]
      BY <1>4, <1>5
    <2> QED BY <2>1, <2>2, <1>6, <1>7, <1>8, Zenon DEF Sound
  <1>10. lo[n]..hi[n] \subseteq Covered(T, lo, hi)  BY CoveredBy, Zenon
  <1>11. ASSUME NEW x \in Covered(T2, lo2, hi2) PROVE x \in Covered(T, lo, hi) /\ x \notin lo[n]..hi[n]
    <2>1. PICK m \in T2 : x \in lo2[m]..hi2[m]  BY CoveredBy, Zenon
    <2>2. x \in lo[m]..hi[m] /\ m \in T  BY <2>1, <1>5
    <2>3. hi[m] + 1 < lo[n] \/ hi[n] + 1 < lo[m]  BY <1>4, <1>5
    <2>4. x \notin lo[n]..hi[n]  BY <2>2, <2>3, <1>1, <1>3, SMT
    <2> QED BY <2>2, <2>4, CoveredBy, Zenon
  <1>12. ASSUME NEW x \in Covered(T, lo, hi), x \notin lo[n]..hi[n] PROVE x \in Covered(T2, lo2, hi2)
    <2>1. PICK m \in T : x \in lo[m]..hi[m]  BY CoveredBy, Zenon
    <2>2. m \in T2 /\ x \in lo2[m]..hi2[m]  BY <2>1, <1>12, <1>5
    <2> QED BY <2>2, CoveredBy, Zenon
  <1> QED BY <1>9, <1>10, <1>11, <1>12, Zenon DEF CoversLess

-----------------------------------------------------------------------------
(* Ranges that get blocks: x..y, between the nodes p and q, is freed.       *)

\* The range to free lies in a gap between two nodes, in the region.
InGap(T, lo, hi, s, e, x, y, p, q) ==
    /\ x \in Nat /\ y \in Nat /\ s <= x /\ x <= y /\ y <= e
    /\ \A b \in x..y : b \notin Covered(T, lo, hi)
    /\ IsPrev(T, lo, hi, x, p) /\ IsNext(T, lo, x, q)

\* Where the nodes of the list are, seen from the range and from its neighbours.
Around(T, lo, hi, x, y, p, q) ==
    /\ \A m \in T : hi[m] < x \/ y < lo[m]
    /\ p # NULL => /\ p \in T /\ hi[p] < x
                   /\ \A m \in T : m # p => hi[m] + 1 < lo[p] \/ y < lo[m]
    /\ q # NULL => /\ q \in T /\ y < lo[q]
                   /\ \A m \in T : m # q => hi[m] < x \/ hi[q] + 1 < lo[m]
    /\ p = NULL => \A m \in T : y < lo[m]
    /\ q = NULL => \A m \in T : hi[m] < x

\* The nodes before and after a gap are its neighbours: no node lies between.
LEMMA Gap ==
    ASSUME NEW T, NEW lo, NEW hi, NEW f, NEW l, NEW s \in Int, NEW e \in Int,
           Sound(T, lo, hi, f, l, s, e), NEW x, NEW y, NEW p, NEW q,
           InGap(T, lo, hi, s, e, x, y, p, q)
    PROVE  Around(T, lo, hi, x, y, p, q)
  <1>1. x \in Nat /\ y \in Nat /\ s <= x /\ x <= y /\ y <= e  BY DEF InGap
  <1>2. \A m \in T : lo[m] \in Nat /\ hi[m] \in Nat /\ lo[m] <= hi[m]  BY DEF Sound
  <1>3. \A m, k \in T : m # k => hi[m] + 1 < lo[k] \/ hi[k] + 1 < lo[m]  BY DEF Sound
  <1>4. ASSUME NEW m \in T PROVE hi[m] < x \/ y < lo[m]
    <2> SUFFICES ASSUME ~(hi[m] < x), ~(y < lo[m]) PROVE FALSE  OBVIOUS
    <2> DEFINE b == IF lo[m] <= x THEN x ELSE lo[m]
    <2>1. b \in x..y /\ b \in lo[m]..hi[m]  BY <1>1, <1>2, SMT
    <2> HIDE DEF b
    <2>2. b \in Covered(T, lo, hi)  BY <2>1, CoveredBy, Zenon
    <2> QED BY <2>1, <2>2 DEF InGap
  <1>5. ASSUME p # NULL
        PROVE  p \in T /\ hi[p] < x /\ \A m \in T : m # p => hi[m] + 1 < lo[p] \/ y < lo[m]
    <2>1. p \in T /\ hi[p] < x /\ \A m \in T : hi[m] < x => lo[m] <= lo[p]
      BY <1>5 DEF InGap, IsPrev
    <2>2. ASSUME NEW m \in T, m # p PROVE hi[m] + 1 < lo[p] \/ y < lo[m]
      <3>1. hi[m] + 1 < lo[p] \/ hi[p] + 1 < lo[m]  BY <1>3, <2>1, <2>2
      <3>2. hi[m] < x => lo[m] <= lo[p]  BY <2>1
      <3>3. hi[m] < x \/ y < lo[m]  BY <1>4
      <3>4. lo[m] \in Nat /\ hi[m] \in Nat /\ lo[p] \in Nat /\ hi[p] \in Nat /\ lo[p] <= hi[p]
        BY <1>2, <2>1
      <3> QED BY <3>1, <3>2, <3>3, <3>4, SMT
    <2> QED BY <2>1, <2>2
  <1>6. ASSUME q # NULL
        PROVE  q \in T /\ y < lo[q] /\ \A m \in T : m # q => hi[m] < x \/ hi[q] + 1 < lo[m]
    <2>1. q \in T /\ lo[q] > x /\ \A m \in T : lo[m] > x => lo[q] <= lo[m]
      BY <1>6 DEF InGap, IsNext
    <2>2. hi[q] < x \/ y < lo[q]  BY <1>4, <2>1
    <2>3. y < lo[q]  BY <1>1, <1>2, <2>1, <2>2, SMT
    <2>4. ASSUME NEW m \in T, m # q PROVE hi[m] < x \/ hi[q] + 1 < lo[m]
      <3>1. hi[m] + 1 < lo[q] \/ hi[q] + 1 < lo[m]  BY <1>3, <2>1, <2>4
      <3>2. lo[m] > x => lo[q] <= lo[m]  BY <2>1
      <3>3. hi[m] < x \/ y < lo[m]  BY <1>4
      <3>4. lo[m] \in Nat /\ hi[m] \in Nat /\ lo[q] \in Nat /\ hi[q] \in Nat /\ lo[m] <= hi[m]
        BY <1>2, <2>1
      <3> QED BY <1>1, <3>1, <3>2, <3>3, <3>4, SMT
    <2> QED BY <2>1, <2>3, <2>4
  <1>7. ASSUME p = NULL, NEW m \in T PROVE y < lo[m]
    <2>1. ~(hi[m] < x)  BY <1>7 DEF InGap, IsPrev
    <2> QED BY <2>1, <1>4
  <1>8. ASSUME q = NULL, NEW m \in T PROVE hi[m] < x
    <2>1. ~(lo[m] > x)  BY <1>8 DEF InGap, IsNext
    <2>2. hi[m] < x \/ y < lo[m]  BY <1>4
    <2> QED BY <2>1, <2>2, <1>1, <1>2, SMT
  <1> QED BY <1>4, <1>5, <1>6, <1>7, <1>8, Zenon DEF Around

\* The new node w holds the range, which touches no other node.
Adds(T, lo, hi, f, l, s, e, x, y, p, q, w, T2, lo2, hi2, f2, l2) ==
    /\ s \in Int /\ e \in Int /\ Sound(T, lo, hi, f, l, s, e)
    /\ InGap(T, lo, hi, s, e, x, y, p, q)
    /\ NULL \notin T /\ w \notin T
    /\ p # NULL => x # hi[p] + 1
    /\ q # NULL => y + 1 # lo[q]
    /\ \A m \in T : lo2[m] = lo[m] /\ hi2[m] = hi[m]
    /\ lo2[w] = x /\ hi2[w] = y
    /\ T2 = T \cup {w}
    /\ f2 = (IF p = NULL THEN w ELSE f) /\ l2 = (IF q = NULL THEN w ELSE l)

\* A new node covers the gap.
LEMMA AddNode ==
    ASSUME NEW T, NEW lo, NEW hi, NEW f, NEW l, NEW s, NEW e,
           NEW x, NEW y, NEW p, NEW q,
           NEW w, NEW T2, NEW lo2, NEW hi2, NEW f2, NEW l2,
           Adds(T, lo, hi, f, l, s, e, x, y, p, q, w, T2, lo2, hi2, f2, l2)
    PROVE  /\ Sound(T2, lo2, hi2, f2, l2, s, e)
           /\ CoversMore(T2, lo2, hi2, T, lo, hi, x, y)
  <1> USE DEF Adds
  <1>0. Around(T, lo, hi, x, y, p, q)  BY Gap
  <1>1. x \in Nat /\ y \in Nat /\ s <= x /\ x <= y /\ y <= e  BY DEF InGap
  <1>2. \A m \in T : lo[m] \in Nat /\ hi[m] \in Nat /\ s <= lo[m] /\ lo[m] <= hi[m] /\ hi[m] <= e
    BY DEF Sound
  <1>3. ASSUME NEW m \in T PROVE hi[m] + 1 < x \/ y + 1 < lo[m]
    <2>1. hi[m] < x \/ y < lo[m]  BY <1>0 DEF Around
    <2>2. hi[m] + 1 # x \/ y < lo[m]
      <3>1. CASE p = NULL  BY <3>1, <1>0 DEF Around
      <3>2. CASE p # NULL
        <4>1. p \in T /\ hi[p] < x /\ x # hi[p] + 1  BY <3>2, <1>0 DEF Around
        <4>2. m # p => hi[m] + 1 < lo[p] \/ y < lo[m]  BY <3>2, <1>0 DEF Around
        <4> QED BY <4>1, <4>2, <1>1, <1>2, SMT
      <3> QED BY <3>1, <3>2
    <2>3. y + 1 # lo[m] \/ hi[m] < x
      <3>1. CASE q = NULL  BY <3>1, <1>0 DEF Around
      <3>2. CASE q # NULL
        <4>1. q \in T /\ y < lo[q] /\ y + 1 # lo[q]  BY <3>2, <1>0 DEF Around
        <4>2. m # q => hi[m] < x \/ hi[q] + 1 < lo[m]  BY <3>2, <1>0 DEF Around
        <4> QED BY <4>1, <4>2, <1>1, <1>2, SMT
      <3> QED BY <3>1, <3>2
    <2> QED BY <2>1, <2>2, <2>3, <1>1, <1>2, SMT
  <1>4. \A m \in T2 : lo2[m] \in Nat /\ hi2[m] \in Nat /\ s <= lo2[m] /\ lo2[m] <= hi2[m] /\ hi2[m] <= e
    BY <1>1, <1>2, SMT
  <1>5. ASSUME NEW m \in T2, NEW k \in T2, m # k
        PROVE  hi2[m] + 1 < lo2[k] \/ hi2[k] + 1 < lo2[m]
    <2>1. CASE m = w  BY <2>1, <1>3, <1>5
    <2>2. CASE k = w  BY <2>2, <1>3, <1>5
    <2>3. CASE m \in T /\ k \in T  BY <2>3, <1>5 DEF Sound
    <2> QED BY <2>1, <2>2, <2>3
  <1>6. f2 \in T2 /\ \A m \in T2 : lo2[f2] <= lo2[m]
    <2>1. CASE p = NULL
      <3>1. \A m \in T : y < lo[m]  BY <2>1, <1>0 DEF Around
      <3> QED BY <2>1, <3>1, <1>1, <1>2, SMT
    <2>2. CASE p # NULL
      <3>1. p \in T /\ hi[p] < x  BY <2>2, <1>0 DEF Around
      <3>2. f \in T /\ \A m \in T : lo[f] <= lo[m]  BY <3>1 DEF Sound
      <3> QED BY <2>2, <3>1, <3>2, <1>1, <1>2, SMT
    <2> QED BY <2>1, <2>2
  <1>7. l2 \in T2 /\ \A m \in T2 : hi2[m] <= hi2[l2]
    <2>1. CASE q = NULL
      <3>1. \A m \in T : hi[m] < x  BY <2>1, <1>0 DEF Around
      <3> QED BY <2>1, <3>1, <1>1, <1>2, SMT
    <2>2. CASE q # NULL
      <3>1. q \in T /\ y < lo[q]  BY <2>2, <1>0 DEF Around
      <3>2. l \in T /\ \A m \in T : hi[m] <= hi[l]  BY <3>1 DEF Sound
      <3> QED BY <2>2, <3>1, <3>2, <1>1, <1>2, SMT
    <2> QED BY <2>1, <2>2
  <1>8. Sound(T2, lo2, hi2, f2, l2, s, e)
    <2>1. T2 # {}  OBVIOUS
    <2> QED BY <2>1, <1>4, <1>5, <1>6, <1>7, Zenon DEF Sound
  <1>9. ASSUME NEW b \in Covered(T2, lo2, hi2) PROVE b \in Covered(T, lo, hi) \cup (x..y)
    <2>1. PICK m \in T2 : b \in lo2[m]..hi2[m]  BY CoveredBy, Zenon
    <2>2. CASE m = w  BY <2>1, <2>2
    <2>3. CASE m \in T
      <3>1. b \in lo[m]..hi[m]  BY <2>1, <2>3
      <3> QED BY <2>3, <3>1, CoveredBy, Zenon
    <2> QED BY <2>2, <2>3
  <1>10. ASSUME NEW b \in Covered(T, lo, hi) PROVE b \in Covered(T2, lo2, hi2)
    <2>1. PICK m \in T : b \in lo[m]..hi[m]  BY CoveredBy, Zenon
    <2>2. b \in lo2[m]..hi2[m] /\ m \in T2  BY <2>1
    <2> QED BY <2>2, CoveredBy, Zenon
  <1>11. ASSUME NEW b \in x..y PROVE b \in Covered(T2, lo2, hi2)
    <2>1. b \in lo2[w]..hi2[w] /\ w \in T2  OBVIOUS
    <2> QED BY <2>1, CoveredBy, Zenon
  <1> QED BY <1>8, <1>9, <1>10, <1>11, Zenon DEF CoversMore

\* The node before the range takes it in.
GrowsUp(T, lo, hi, f, l, s, e, x, y, p, q, lo2, hi2) ==
    /\ s \in Int /\ e \in Int /\ Sound(T, lo, hi, f, l, s, e)
    /\ InGap(T, lo, hi, s, e, x, y, p, q)
    /\ p # NULL /\ x = hi[p] + 1
    /\ q # NULL => y + 1 # lo[q]
    /\ \A m \in T : lo2[m] = lo[m] /\ (m # p => hi2[m] = hi[m])
    /\ hi2[p] = y

\* The node before the gap grows over it.
LEMMA ExtendHigh ==
    ASSUME NEW T, NEW lo, NEW hi, NEW f, NEW l, NEW s, NEW e,
           NEW x, NEW y, NEW p, NEW q,
           NEW lo2, NEW hi2, GrowsUp(T, lo, hi, f, l, s, e, x, y, p, q, lo2, hi2)
    PROVE  /\ Sound(T, lo2, hi2, f, l, s, e)
           /\ CoversMore(T, lo2, hi2, T, lo, hi, x, y)
  <1> USE DEF GrowsUp
  <1>0. Around(T, lo, hi, x, y, p, q)  BY Gap
  <1>1. x \in Nat /\ y \in Nat /\ s <= x /\ x <= y /\ y <= e  BY DEF InGap
  <1>2. \A m \in T : lo[m] \in Nat /\ hi[m] \in Nat /\ s <= lo[m] /\ lo[m] <= hi[m] /\ hi[m] <= e
    BY DEF Sound
  <1>3. p \in T  BY <1>0 DEF Around
  <1>4. ASSUME NEW m \in T, m # p PROVE hi[m] + 1 < lo[p] \/ y + 1 < lo[m]
    <2>1. hi[m] + 1 < lo[p] \/ y < lo[m]  BY <1>4, <1>0 DEF Around
    <2>2. CASE q = NULL
      <3>1. hi[m] < x  BY <2>2, <1>0 DEF Around
      <3> QED BY <2>1, <3>1, <1>1, <1>2, SMT
    <2>3. CASE q # NULL
      <3>1. q \in T /\ y < lo[q] /\ (m # q => hi[m] < x \/ hi[q] + 1 < lo[m])  BY <2>3, <1>0 DEF Around
      <3>2. y + 1 # lo[q]  BY <2>3
      <3> QED BY <2>1, <3>1, <3>2, <1>1, <1>2, SMT
    <2> QED BY <2>2, <2>3
  <1>5. \A m \in T : lo2[m] \in Nat /\ hi2[m] \in Nat /\ s <= lo2[m] /\ lo2[m] <= hi2[m] /\ hi2[m] <= e
    BY <1>1, <1>2, <1>3, SMT
  <1>6. ASSUME NEW m \in T, NEW k \in T, m # k
        PROVE  hi2[m] + 1 < lo2[k] \/ hi2[k] + 1 < lo2[m]
    <2>1. CASE m = p  BY <2>1, <1>4, <1>6
    <2>2. CASE k = p  BY <2>2, <1>4, <1>6
    <2>3. CASE m # p /\ k # p  BY <2>3, <1>6 DEF Sound
    <2> QED BY <2>1, <2>2, <2>3
  <1>7. f \in T /\ l \in T /\ \A m \in T : lo[f] <= lo[m] /\ hi[m] <= hi[l]  BY <1>3 DEF Sound
  <1>8. \A m \in T : lo2[f] <= lo2[m]  BY <1>7
  <1>9. ASSUME NEW m \in T PROVE hi2[m] <= hi2[l]
    <2>1. CASE l = p
      <3>1. CASE m = p  BY <2>1, <3>1, <1>1, <1>3, SMT
      <3>2. CASE m # p
        <4>1. hi[m] <= hi[p] /\ hi2[m] = hi[m]  BY <2>1, <3>2, <1>7
        <4> QED BY <4>1, <2>1, <1>1, <1>2, <1>3, SMT
      <3> QED BY <3>1, <3>2
    <2>2. CASE l # p
      <3>1. hi[l] + 1 < lo[p] \/ y + 1 < lo[l]  BY <2>2, <1>4, <1>7
      <3>2. hi[p] <= hi[l] /\ hi[m] <= hi[l] /\ hi2[l] = hi[l]  BY <2>2, <1>3, <1>7
      <3>3. y <= hi[l]  BY <3>1, <3>2, <1>1, <1>2, <1>3, <1>7, SMT
      <3> QED BY <3>2, <3>3
    <2> QED BY <2>1, <2>2
  <1>10. Sound(T, lo2, hi2, f, l, s, e)
    <2>1. T # {}  BY <1>3
    <2> QED BY <2>1, <1>5, <1>6, <1>7, <1>8, <1>9, Zenon DEF Sound
  <1>11. ASSUME NEW b \in Covered(T, lo2, hi2) PROVE b \in Covered(T, lo, hi) \cup (x..y)
    <2>1. PICK m \in T : b \in lo2[m]..hi2[m]  BY CoveredBy, Zenon
    <2>2. b \in lo[m]..hi[m] \/ b \in x..y
      <3>1. CASE m = p  BY <3>1, <2>1, <1>1, <1>2, <1>3, SMT
      <3>2. CASE m # p  BY <3>2, <2>1
      <3> QED BY <3>1, <3>2
    <2> QED BY <2>2, CoveredBy, Zenon
  <1>12. ASSUME NEW b \in Covered(T, lo, hi) PROVE b \in Covered(T, lo2, hi2)
    <2>1. PICK m \in T : b \in lo[m]..hi[m]  BY CoveredBy, Zenon
    <2>2. b \in lo2[m]..hi2[m]
      <3>1. CASE m = p  BY <3>1, <2>1, <1>1, <1>2, <1>3, SMT
      <3>2. CASE m # p  BY <3>2, <2>1
      <3> QED BY <3>1, <3>2
    <2> QED BY <2>2, CoveredBy, Zenon
  <1>13. ASSUME NEW b \in x..y PROVE b \in Covered(T, lo2, hi2)
    <2>1. b \in lo2[p]..hi2[p]  BY <1>1, <1>2, <1>3, SMT
    <2> QED BY <2>1, <1>3, CoveredBy, Zenon
  <1> QED BY <1>10, <1>11, <1>12, <1>13, Zenon DEF CoversMore

\* The node after the range takes it in.
GrowsDown(T, lo, hi, f, l, s, e, x, y, p, q, lo2, hi2) ==
    /\ s \in Int /\ e \in Int /\ Sound(T, lo, hi, f, l, s, e)
    /\ InGap(T, lo, hi, s, e, x, y, p, q)
    /\ q # NULL /\ y + 1 = lo[q]
    /\ p # NULL => x # hi[p] + 1
    /\ \A m \in T : hi2[m] = hi[m] /\ (m # q => lo2[m] = lo[m])
    /\ lo2[q] = x

\* The node after the gap grows over it.
LEMMA ExtendLow ==
    ASSUME NEW T, NEW lo, NEW hi, NEW f, NEW l, NEW s, NEW e,
           NEW x, NEW y, NEW p, NEW q,
           NEW lo2, NEW hi2, GrowsDown(T, lo, hi, f, l, s, e, x, y, p, q, lo2, hi2)
    PROVE  /\ Sound(T, lo2, hi2, f, l, s, e)
           /\ CoversMore(T, lo2, hi2, T, lo, hi, x, y)
  <1> USE DEF GrowsDown
  <1>0. Around(T, lo, hi, x, y, p, q)  BY Gap
  <1>1. x \in Nat /\ y \in Nat /\ s <= x /\ x <= y /\ y <= e  BY DEF InGap
  <1>2. \A m \in T : lo[m] \in Nat /\ hi[m] \in Nat /\ s <= lo[m] /\ lo[m] <= hi[m] /\ hi[m] <= e
    BY DEF Sound
  <1>3. q \in T  BY <1>0 DEF Around
  <1>4. ASSUME NEW m \in T, m # q PROVE hi[m] + 1 < x \/ hi[q] + 1 < lo[m]
    <2>1. hi[m] < x \/ hi[q] + 1 < lo[m]  BY <1>4, <1>0 DEF Around
    <2>2. CASE p = NULL
      <3>1. y < lo[m]  BY <2>2, <1>0 DEF Around
      <3> QED BY <2>1, <3>1, <1>1, <1>2, SMT
    <2>3. CASE p # NULL
      <3>1. p \in T /\ hi[p] < x /\ (m # p => hi[m] + 1 < lo[p] \/ y < lo[m])  BY <2>3, <1>0 DEF Around
      <3>2. x # hi[p] + 1  BY <2>3
      <3> QED BY <2>1, <3>1, <3>2, <1>1, <1>2, SMT
    <2> QED BY <2>2, <2>3
  <1>5. \A m \in T : lo2[m] \in Nat /\ hi2[m] \in Nat /\ s <= lo2[m] /\ lo2[m] <= hi2[m] /\ hi2[m] <= e
    BY <1>1, <1>2, <1>3, SMT
  <1>6. ASSUME NEW m \in T, NEW k \in T, m # k
        PROVE  hi2[m] + 1 < lo2[k] \/ hi2[k] + 1 < lo2[m]
    <2>1. CASE m = q  BY <2>1, <1>4, <1>6
    <2>2. CASE k = q  BY <2>2, <1>4, <1>6
    <2>3. CASE m # q /\ k # q  BY <2>3, <1>6 DEF Sound
    <2> QED BY <2>1, <2>2, <2>3
  <1>7. f \in T /\ l \in T /\ \A m \in T : lo[f] <= lo[m] /\ hi[m] <= hi[l]  BY <1>3 DEF Sound
  <1>8. \A m \in T : hi2[m] <= hi2[l]  BY <1>7
  <1>9. ASSUME NEW m \in T PROVE lo2[f] <= lo2[m]
    <2>1. CASE f = q
      <3>1. CASE m = q  BY <2>1, <3>1, <1>1, <1>3, SMT
      <3>2. CASE m # q
        <4>1. lo[q] <= lo[m] /\ lo2[m] = lo[m]  BY <2>1, <3>2, <1>7
        <4> QED BY <4>1, <2>1, <1>1, <1>2, <1>3, SMT
      <3> QED BY <3>1, <3>2
    <2>2. CASE f # q
      <3>1. hi[f] + 1 < x \/ hi[q] + 1 < lo[f]  BY <2>2, <1>4, <1>7
      <3>2. lo[f] <= lo[q] /\ lo[f] <= lo[m] /\ lo2[f] = lo[f]  BY <2>2, <1>3, <1>7
      <3>3. lo[f] <= x  BY <3>1, <3>2, <1>1, <1>2, <1>3, <1>7, SMT
      <3> QED BY <3>2, <3>3
    <2> QED BY <2>1, <2>2
  <1>10. Sound(T, lo2, hi2, f, l, s, e)
    <2>1. T # {}  BY <1>3
    <2> QED BY <2>1, <1>5, <1>6, <1>7, <1>8, <1>9, Zenon DEF Sound
  <1>11. ASSUME NEW b \in Covered(T, lo2, hi2) PROVE b \in Covered(T, lo, hi) \cup (x..y)
    <2>1. PICK m \in T : b \in lo2[m]..hi2[m]  BY CoveredBy, Zenon
    <2>2. b \in lo[m]..hi[m] \/ b \in x..y
      <3>1. CASE m = q  BY <3>1, <2>1, <1>1, <1>2, <1>3, SMT
      <3>2. CASE m # q  BY <3>2, <2>1
      <3> QED BY <3>1, <3>2
    <2> QED BY <2>2, CoveredBy, Zenon
  <1>12. ASSUME NEW b \in Covered(T, lo, hi) PROVE b \in Covered(T, lo2, hi2)
    <2>1. PICK m \in T : b \in lo[m]..hi[m]  BY CoveredBy, Zenon
    <2>2. b \in lo2[m]..hi2[m]
      <3>1. CASE m = q  BY <3>1, <2>1, <1>1, <1>2, <1>3, SMT
      <3>2. CASE m # q  BY <3>2, <2>1
      <3> QED BY <3>1, <3>2
    <2> QED BY <2>2, CoveredBy, Zenon
  <1>13. ASSUME NEW b \in x..y PROVE b \in Covered(T, lo2, hi2)
    <2>1. b \in lo2[q]..hi2[q]  BY <1>1, <1>2, <1>3, SMT
    <2> QED BY <2>1, <1>3, CoveredBy, Zenon
  <1> QED BY <1>10, <1>11, <1>12, <1>13, Zenon DEF CoversMore

\* The range fills the hole between two nodes: p gets the blocks of q, too.
Joins(T, lo, hi, f, l, s, e, x, y, p, q, T2, lo2, hi2, l2) ==
    /\ s \in Int /\ e \in Int /\ Sound(T, lo, hi, f, l, s, e)
    /\ InGap(T, lo, hi, s, e, x, y, p, q)
    /\ p # NULL /\ x = hi[p] + 1
    /\ q # NULL /\ y + 1 = lo[q]
    /\ \A m \in T \ {q} : lo2[m] = lo[m] /\ (m # p => hi2[m] = hi[m])
    /\ hi2[p] = hi[q]
    /\ T2 = T \ {q} /\ l2 = IF l = q THEN p ELSE l

\* The nodes around the gap become one.
LEMMA JoinNodes ==
    ASSUME NEW T, NEW lo, NEW hi, NEW f, NEW l, NEW s, NEW e,
           NEW x, NEW y, NEW p, NEW q,
           NEW T2, NEW lo2, NEW hi2, NEW l2,
           Joins(T, lo, hi, f, l, s, e, x, y, p, q, T2, lo2, hi2, l2)
    PROVE  /\ Sound(T2, lo2, hi2, f, l2, s, e)
           /\ CoversMore(T2, lo2, hi2, T, lo, hi, x, y)
  <1> USE DEF Joins
  <1>0. Around(T, lo, hi, x, y, p, q)  BY Gap
  <1>1. x \in Nat /\ y \in Nat /\ s <= x /\ x <= y /\ y <= e  BY DEF InGap
  <1>2. \A m \in T : lo[m] \in Nat /\ hi[m] \in Nat /\ s <= lo[m] /\ lo[m] <= hi[m] /\ hi[m] <= e
    BY DEF Sound
  <1>3. p \in T /\ q \in T /\ hi[p] < x /\ y < lo[q]  BY <1>0 DEF Around
  <1>4. p # q  BY <1>1, <1>2, <1>3, SMT
  <1>5. ASSUME NEW m \in T2, m # p PROVE hi[m] + 1 < lo[p] \/ hi[q] + 1 < lo[m]
    <2>1. hi[m] + 1 < lo[p] \/ y < lo[m]  BY <1>5, <1>0 DEF Around
    <2>2. hi[m] < x \/ hi[q] + 1 < lo[m]  BY <1>5, <1>0 DEF Around
    <2> QED BY <2>1, <2>2, <1>1, <1>2, SMT
  <1>6. \A m \in T2 : lo2[m] \in Nat /\ hi2[m] \in Nat /\ s <= lo2[m] /\ lo2[m] <= hi2[m] /\ hi2[m] <= e
    <2>1. lo2[p] = lo[p]  BY <1>3, <1>4
    <2> QED BY <2>1, <1>1, <1>2, <1>3, SMT
  <1>7. ASSUME NEW m \in T2, NEW k \in T2, m # k
        PROVE  hi2[m] + 1 < lo2[k] \/ hi2[k] + 1 < lo2[m]
    <2>1. CASE m = p  BY <2>1, <1>5, <1>7
    <2>2. CASE k = p  BY <2>2, <1>5, <1>7
    <2>3. CASE m # p /\ k # p  BY <2>3, <1>7 DEF Sound
    <2> QED BY <2>1, <2>2, <2>3
  <1>8. f \in T /\ l \in T /\ \A m \in T : lo[f] <= lo[m] /\ hi[m] <= hi[l]  BY <1>3 DEF Sound
  <1>9. f # q
    <2>1. lo[f] <= lo[p]  BY <1>3, <1>8
    <2> QED BY <2>1, <1>1, <1>2, <1>3, SMT
  <1>10. f \in T2 /\ \A m \in T2 : lo2[f] <= lo2[m]  BY <1>8, <1>9
  <1>11. l2 \in T2 /\ \A m \in T2 : hi2[m] <= hi2[l2]
    <2>1. CASE l = q
      <3>1. \A m \in T2 : m # p => hi2[m] <= hi[q]  BY <2>1, <1>8
      <3>2. hi[q] <= hi[q]  BY <1>2, <1>3, SMT
      <3> QED BY <2>1, <3>1, <3>2, <1>3, <1>4
    <2>2. CASE l # q
      <3>1. l \in T2 /\ l2 = l  BY <2>2, <1>8
      <3>2. hi[q] <= hi[l]  BY <1>3, <1>8
      <3>3. l # p  BY <3>2, <1>1, <1>2, <1>3, SMT
      <3>4. hi2[l] = hi[l]  BY <3>1, <3>3
      <3> QED BY <3>1, <3>2, <3>4, <1>8
    <2> QED BY <2>1, <2>2
  <1>12. Sound(T2, lo2, hi2, f, l2, s, e)
    <2>1. T2 # {}  BY <1>10
    <2> QED BY <2>1, <1>6, <1>7, <1>10, <1>11, Zenon DEF Sound
  <1>13. ASSUME NEW b \in Covered(T2, lo2, hi2) PROVE b \in Covered(T, lo, hi) \cup (x..y)
    <2>1. PICK m \in T2 : b \in lo2[m]..hi2[m]  BY CoveredBy, Zenon
    <2>2. CASE m = p
      <3>1. lo2[p] = lo[p]  BY <1>3, <1>4
      <3>2. b \in lo[p]..hi[p] \/ b \in x..y \/ b \in lo[q]..hi[q]
        BY <3>1, <2>1, <2>2, <1>1, <1>2, <1>3, SMT
      <3> QED BY <3>2, <1>3, CoveredBy, Zenon
    <2>3. CASE m # p
      <3>1. b \in lo[m]..hi[m] /\ m \in T  BY <2>1, <2>3
      <3> QED BY <3>1, CoveredBy, Zenon
    <2> QED BY <2>2, <2>3
  <1>14. ASSUME NEW b \in Covered(T, lo, hi) PROVE b \in Covered(T2, lo2, hi2)
    <2>1. PICK m \in T : b \in lo[m]..hi[m]  BY CoveredBy, Zenon
    <2>2. CASE m = p \/ m = q
      <3>1. lo2[p] = lo[p] /\ p \in T2  BY <1>3, <1>4
      <3>2. b \in lo2[p]..hi2[p]  BY <3>1, <2>1, <2>2, <1>1, <1>2, <1>3, SMT
      <3> QED BY <3>1, <3>2, CoveredBy, Zenon
    <2>3. CASE m # p /\ m # q
      <3>1. m \in T2 /\ b \in lo2[m]..hi2[m]  BY <2>1, <2>3
      <3> QED BY <3>1, CoveredBy, Zenon
    <2> QED BY <2>2, <2>3
  <1>15. ASSUME NEW b \in x..y PROVE b \in Covered(T2, lo2, hi2)
    <2>1. lo2[p] = lo[p] /\ p \in T2  BY <1>3, <1>4
    <2>2. b \in lo2[p]..hi2[p]  BY <2>1, <1>1, <1>2, <1>3, SMT
    <2> QED BY <2>1, <2>2, CoveredBy, Zenon
  <1> QED BY <1>12, <1>13, <1>14, <1>15, Zenon DEF CoversMore

-----------------------------------------------------------------------------
(* The lists.                                                               *)

S(c) == block_start(sbi, c)
E(c) == block_end(sbi, c)

\* The trees, their nodes, their ends and their node counts.
ListsOK ==
    /\ tree \in [CPUs -> SUBSET Nodes]
    /\ low \in [Nodes -> Nat] /\ high \in [Nodes -> Nat]
    /\ first_node \in [CPUs -> Nodes \cup {NULL}] /\ last_node \in [CPUs -> Nodes \cup {NULL}]
    /\ num_blocknode \in [CPUs -> Nat]
    /\ \A c \in CPUs : Sound(tree[c], low, high, first_node[c], last_node[c], S(c), E(c))
    /\ \A c \in CPUs : IsFiniteSet(tree[c]) /\ num_blocknode[c] = Cardinality(tree[c])
    /\ \A b, c \in CPUs : b # c => tree[b] \cap tree[c] = {}

-----------------------------------------------------------------------------
(* The regions.                                                             *)

\* Division of natural numbers.
LEMMA DivNat ==
    ASSUME NEW a \in Nat, NEW b \in Nat \ {0}
    PROVE  a \div b \in Nat /\ a % b \in 0..(b - 1) /\ a = b * (a \div b) + (a % b)
  BY SMT

LEMMA CeilDivNat ==
    ASSUME NEW a \in Nat, NEW b \in Nat \ {0}
    PROVE  CeilDiv(a, b) \in Nat
  BY DivNat, SMT DEF CeilDiv

LEMMA ProductNat ==
    ASSUME NEW p \in Nat, NEW c \in Nat
    PROVE  p * c \in Nat
  BY SMT

\* The multiples of p are p apart.
LEMMA ProductsApart ==
    ASSUME NEW p \in Nat, NEW c \in Nat, NEW d \in Nat, c < d
    PROVE  p * c + p <= p * d
  <1>1. PICK k \in Nat : d = c + 1 + k  BY SMT
  <1>2. p * d = p * c + p + p * k  BY <1>1, SMT
  <1>3. p * k \in Nat  BY ProductNat
  <1> QED BY <1>2, <1>3, ProductNat, SMT

\* A number between two neighbouring multiples of p has the lower one's quotient.
LEMMA Quotient ==
    ASSUME NEW p \in Nat \ {0}, NEW c \in Nat, NEW b \in Nat, p * c <= b, b < p * c + p
    PROVE  b \div p = c
  <1> DEFINE q == b \div p
  <1>1. q \in Nat /\ b % p \in 0..(p - 1) /\ b = p * q + (b % p)  BY DivNat
  <1>2. p * q <= b /\ b < p * q + p /\ p * q \in Nat  BY <1>1, ProductNat, SMT
  <1>3. ~(q < c)  BY <1>1, <1>2, ProductsApart, ProductNat, SMT
  <1>4. ~(c < q)  BY <1>1, <1>2, ProductsApart, ProductNat, SMT
  <1> QED BY <1>1, <1>3, <1>4, SMT

\* The numbers of blocks that every list has.
LEMMA ListSizes ==
    /\ per_list_blocks(sbi) \in Nat
    /\ num_csum_blocks(sbi) \in Nat /\ num_parity_blocks(sbi) \in Nat
  <1>1. sbi.num_blocks \in Nat /\ sbi.cpus \in Nat \ {0}  BY FreeListConstants DEF sbi
  <1>2. sbi.num_blocks * StripesPerBlock * NOVA_DATA_CSUM_LEN \in Nat
    <2>1. sbi.num_blocks * StripesPerBlock \in Nat  BY <1>1, GeometryConstants, ProductNat
    <2> QED BY <2>1, GeometryConstants, ProductNat
  <1>3. data_csum_blocks(sbi) \in Nat  BY <1>2, GeometryConstants, DivNat DEF data_csum_blocks
  <1>4. StripesPerBlock + 1 \in Nat \ {0}  BY GeometryConstants, SMT
  <1>5. parity_blocks(sbi) \in Nat  BY <1>1, <1>4, CeilDivNat DEF parity_blocks
  <1> QED
    BY <1>1, <1>3, <1>5, DivNat, CeilDivNat DEF per_list_blocks, num_csum_blocks, num_parity_blocks

\* The region of a CPU, and the checksums behind it, lie in its part of the device.
LEMMA RegionWithin ==
    ASSUME NEW c \in CPUs
    PROVE  /\ c \in Nat /\ S(c) \in Nat /\ E(c) \in Int
           /\ per_list_blocks(sbi) * c \in Nat /\ per_list_blocks(sbi) * c <= S(c)
           /\ E(c) + num_csum_blocks(sbi) < per_list_blocks(sbi) * c + per_list_blocks(sbi)
  <1> DEFINE p == per_list_blocks(sbi)
             x == p * c
             ncs == num_csum_blocks(sbi)
             nps == num_parity_blocks(sbi)
  <1>1. c \in Nat  BY FreeListConstants, SMT DEF CPUs
  <1>2. p \in Nat /\ ncs \in Nat /\ nps \in Nat  BY ListSizes
  <1>3. x \in Nat  BY <1>1, <1>2, ProductNat
  <1>4. PICK h \in Nat, t \in Nat : FirstBlock(sbi, c) = x + h /\ LastBlock(sbi, c) = x + p - 1 - t
    <2>1. PICK h \in Nat, t \in Nat : /\ h = IF c = 0 THEN head_reserved_blocks ELSE 0
                                      /\ t = IF c = sbi.cpus - 1 THEN tail_reserved_blocks ELSE 0
      BY GeometryConstants, SMT
    <2> QED BY <2>1 DEF FirstBlock, LastBlock
  <1>5. S(c) = FirstBlock(sbi, c) + ncs + nps /\ E(c) = LastBlock(sbi, c) - ncs
    BY DEF S, E, block_start, block_end
  <1> HIDE DEF p, x, ncs, nps
  <1>6. S(c) \in Nat /\ E(c) \in Int /\ x <= S(c) /\ E(c) + ncs < x + p
    BY <1>2, <1>3, <1>4, <1>5, SMT
  <1> QED BY <1>1, <1>3, <1>6 DEF p, x, ncs

\* The region of a CPU is an interval of blocks that is not empty.
LEMMA RegionTypes ==
    ASSUME NEW c \in CPUs
    PROVE  S(c) \in Nat /\ E(c) \in Int /\ S(c) <= E(c) /\ Region(c) = S(c)..E(c) /\ E(c) \in Nat
  <1>1. S(c) \in Nat /\ E(c) \in Int  BY RegionWithin
  <1>2. S(c) <= E(c)  BY DeviceLargeEnough DEF S, E
  <1>3. E(c) \in Nat  BY <1>1, <1>2, SMT
  <1> QED BY <1>1, <1>2, <1>3 DEF S, E, Region

\* Between the regions of two CPUs there is a block of neither.
LEMMA RegionGap ==
    ASSUME NEW c \in CPUs, NEW d \in CPUs, c < d
    PROVE  E(c) + 1 < S(d)
  <1> DEFINE p == per_list_blocks(sbi)
             x == p * c
             y == p * d
  <1>1. p \in Nat /\ num_csum_blocks(sbi) \in Nat /\ num_csum_blocks(sbi) > 0
    BY ListSizes, DeviceLargeEnough
  <1>2. /\ c \in Nat /\ x \in Nat /\ E(c) \in Int /\ E(c) + num_csum_blocks(sbi) < x + p
        /\ d \in Nat /\ y \in Nat /\ S(d) \in Nat /\ y <= S(d)
    BY RegionWithin
  <1>3. x + p <= y  BY <1>1, <1>2, ProductsApart
  <1> HIDE DEF p, x, y
  <1> QED BY <1>1, <1>2, <1>3, SMT

\* The regions of two CPUs share no block.
LEMMA RegionsDiffer ==
    ASSUME NEW c \in CPUs, NEW d \in CPUs, c # d
    PROVE  Region(c) \cap Region(d) = {}
  <1>1. c \in Int /\ d \in Int  BY FreeListConstants, SMT DEF CPUs
  <1>2. c < d \/ d < c  BY <1>1, SMT
  <1>3. E(c) + 1 < S(d) \/ E(d) + 1 < S(c)  BY <1>2, RegionGap
  <1>4. /\ S(c) \in Nat /\ E(c) \in Int /\ S(d) \in Nat /\ E(d) \in Int
        /\ Region(c) = S(c)..E(c) /\ Region(d) = S(d)..E(d)
    BY RegionTypes
  <1> QED BY <1>3, <1>4, SMT

\* A run of blocks that all belong to lists belongs to one list: two regions are
\* never adjacent, since checksum blocks lie between them.
LEMMA RunInOneRegion ==
    ASSUME NEW x \in Nat, NEW y \in Nat, x <= y, x..y \subseteq UNION {Region(c) : c \in CPUs}
    PROVE  HomeList(x) \in CPUs /\ x..y \subseteq Region(HomeList(x))
           /\ S(HomeList(x)) <= x /\ y <= E(HomeList(x))
  <1>1. x \in x..y  BY SMT
  <1>2. PICK c \in CPUs : x \in Region(c)  BY <1>1
  <1>3. S(c) \in Nat /\ E(c) \in Nat /\ Region(c) = S(c)..E(c)  BY RegionTypes
  <1>4. HomeList(x) = c
    <2> DEFINE p == per_list_blocks(sbi)
               k == p * c
    <2>1. /\ p \in Nat /\ num_csum_blocks(sbi) \in Nat /\ c \in Nat
          /\ k \in Nat /\ k <= S(c) /\ E(c) + num_csum_blocks(sbi) < k + p
      BY ListSizes, RegionWithin
    <2> HIDE DEF p, k
    <2>2. p \in Nat \ {0} /\ k <= x /\ x < k + p  BY <1>2, <1>3, <2>1, SMT
    <2>3. x \div p = c  BY <2>1, <2>2, Quotient DEF k
    <2> QED BY <2>3 DEF HomeList, p
  <1>5. y <= E(c)
    <2> SUFFICES ASSUME ~(y <= E(c)) PROVE FALSE  OBVIOUS
    <2>1. E(c) + 1 \in x..y  BY <1>2, <1>3, SMT
    <2>2. PICK d \in CPUs : E(c) + 1 \in Region(d)  BY <2>1
    <2>3. S(d) \in Nat /\ E(d) \in Nat /\ Region(d) = S(d)..E(d)  BY RegionTypes
    <2>4. d # c  BY <1>3, <2>2, <2>3, SMT
    <2>5. c \in Int /\ d \in Int  BY FreeListConstants, SMT DEF CPUs
    <2>6. c < d \/ d < c  BY <2>4, <2>5, SMT
    <2>7. E(c) + 1 < S(d) \/ E(d) + 1 < S(c)  BY <2>6, RegionGap
    <2> QED BY <1>2, <1>3, <2>2, <2>3, <2>7, SMT
  <1>6. S(c) <= x  BY <1>2, <1>3, SMT
  <1>7. x..y \subseteq S(c)..E(c)  BY <1>3, <1>5, <1>6, SMT
  <1> QED BY <1>3, <1>4, <1>5, <1>6, <1>7

-----------------------------------------------------------------------------
(* The tree of one list.                                                    *)

\* The free blocks of a list are those its nodes cover.
LEMMA FreeIsCovered ==
    ASSUME NEW c
    PROVE  FreeBlocks(c) = Covered(tree[c], low, high)
  BY DEF FreeBlocks, Covered

\* What ListsOK says of one list.
LEMMA ListFacts ==
    ASSUME ListsOK, NEW c \in CPUs
    PROVE  /\ Sound(tree[c], low, high, first_node[c], last_node[c], S(c), E(c))
           /\ tree[c] \subseteq Nodes /\ NULL \notin tree[c]
           /\ FreeBlocks(c) \subseteq Region(c)
           /\ \A n \in tree[c] : /\ low[n] \in Nat /\ high[n] \in Nat /\ low[n] <= high[n]
                                 /\ S(c) <= low[n] /\ high[n] <= E(c)
  <1>1. Sound(tree[c], low, high, first_node[c], last_node[c], S(c), E(c))  BY DEF ListsOK
  <1>2. tree[c] \subseteq Nodes  BY DEF ListsOK
  <1>3. NULL \notin tree[c]  BY <1>2, FreeListConstants
  <1>4. S(c) \in Nat /\ E(c) \in Int /\ Region(c) = S(c)..E(c)  BY RegionTypes
  <1>5. S(c) \in Int  BY <1>4, SMT
  <1>6. Covered(tree[c], low, high) \subseteq S(c)..E(c)  BY <1>1, <1>4, <1>5, CoveredInRegion
  <1> QED BY <1>1, <1>2, <1>3, <1>4, <1>6, FreeIsCovered DEF Sound

\* Preceding and Following find the neighbours of a block.
LEMMA PrevNext ==
    ASSUME ListsOK, NEW c \in CPUs, NEW b \in Int
    PROVE  /\ IsPrev(tree[c], low, high, b, Preceding(c, b))
           /\ IsNext(tree[c], low, b, Following(c, b))
  <1> DEFINE B == Below(c, b)
             A == Above(c, b)
  <1>1. /\ tree[c] \subseteq Nodes /\ NULL \notin tree[c]
        /\ \A n \in tree[c] : low[n] \in Nat /\ high[n] \in Nat /\ low[n] <= high[n] /\ high[n] <= E(c)
    BY ListFacts
  <1>2. E(c) \in Int  BY RegionTypes
  <1>3. IsPrev(tree[c], low, high, b, Preceding(c, b))
    <2>1. CASE B = {}
      <3>1. Preceding(c, b) = NULL  BY <2>1 DEF Preceding
      <3>2. \A m \in tree[c] : ~(high[m] < b)  BY <2>1 DEF Below
      <3> QED BY <3>1, <3>2 DEF IsPrev
    <2>2. CASE B # {}
      <3>1. B \subseteq tree[c]  BY DEF Below
      <3>2. \A n \in tree[c] : low[n] <= E(c)  BY <1>1, <1>2, SMT
      <3>3. \A n \in B : low[n] \in Nat /\ low[n] <= E(c)  BY <1>1, <3>1, <3>2
      <3>4. \E n \in B : \A m \in B : low[m] <= low[n]
        <4> HIDE DEF B
        <4> QED BY <2>2, <3>3, <1>2, GreatestNode
      <3>5. Preceding(c, b) = CHOOSE n \in B : \A m \in B : low[m] <= low[n]
        BY <2>2 DEF Preceding
      <3> DEFINE p == Preceding(c, b)
      <3>6. p \in B /\ \A m \in B : low[m] <= low[p]
        <4> HIDE DEF B
        <4> QED BY <3>4, <3>5
      <3> HIDE DEF p
      <3>7. p \in tree[c] /\ high[p] < b /\ \A m \in tree[c] : high[m] < b => low[m] <= low[p]
        BY <3>6 DEF Below
      <3>8. p # NULL  BY <3>7, <1>1
      <3>9. IsPrev(tree[c], low, high, b, p)  BY <3>7, <3>8 DEF IsPrev
      <3> QED BY <3>9 DEF p
    <2> QED BY <2>1, <2>2
  <1>4. IsNext(tree[c], low, b, Following(c, b))
    <2>1. CASE A = {}
      <3>1. Following(c, b) = NULL  BY <2>1 DEF Following
      <3>2. \A m \in tree[c] : ~(low[m] > b)  BY <2>1 DEF Above
      <3> QED BY <3>1, <3>2 DEF IsNext
    <2>2. CASE A # {}
      <3>1. A \subseteq tree[c]  BY DEF Above
      <3>3. \A n \in A : low[n] \in Nat  BY <1>1, <3>1
      <3>4. \E n \in A : \A m \in A : low[n] <= low[m]
        <4> HIDE DEF A
        <4> QED BY <2>2, <3>3, LeastNode
      <3>5. Following(c, b) = CHOOSE n \in A : \A m \in A : low[n] <= low[m]
        BY <2>2 DEF Following
      <3> DEFINE q == Following(c, b)
      <3>6. q \in A /\ \A m \in A : low[q] <= low[m]
        <4> HIDE DEF A
        <4> QED BY <3>4, <3>5
      <3> HIDE DEF q
      <3>7. q \in tree[c] /\ low[q] > b /\ \A m \in tree[c] : low[m] > b => low[q] <= low[m]
        BY <3>6 DEF Above
      <3>8. q # NULL  BY <3>7, <1>1
      <3>9. IsNext(tree[c], low, b, q)  BY <3>7, <3>8 DEF IsNext
      <3> QED BY <3>9 DEF q
    <2> QED BY <2>1, <2>2
  <1> QED BY <1>3, <1>4

\* A step that changes only the list of c and its nodes.
ListStep(c, T2, f2, l2, k2) ==
    /\ tree' = [tree EXCEPT ![c] = T2]
    /\ low' \in [Nodes -> Nat] /\ high' \in [Nodes -> Nat]
    /\ \A n \in Nodes : n \notin tree[c] \cup T2 => low'[n] = low[n] /\ high'[n] = high[n]
    /\ first_node' = [first_node EXCEPT ![c] = f2]
    /\ last_node' = [last_node EXCEPT ![c] = l2]
    /\ num_blocknode' = [num_blocknode EXCEPT ![c] = k2]

\* A step that leaves one list sound and does not touch the others leaves all sound.
LEMMA OneList ==
    ASSUME ListsOK, NEW c \in CPUs, NEW T2 \in SUBSET Nodes, NEW f2, NEW l2, NEW k2,
           ListStep(c, T2, f2, l2, k2),
           \A d \in CPUs : d # c => T2 \cap tree[d] = {},
           Sound(T2, low', high', f2, l2, S(c), E(c)),
           IsFiniteSet(T2), k2 = Cardinality(T2)
    PROVE  /\ ListsOK'
           /\ FreeBlocks(c)' = Covered(T2, low', high')
           /\ \A d \in CPUs : d # c => FreeBlocks(d)' = FreeBlocks(d)
  <1>1. /\ tree'[c] = T2 /\ first_node'[c] = f2 /\ last_node'[c] = l2 /\ num_blocknode'[c] = k2
        /\ \A d \in CPUs : d # c =>
             /\ tree'[d] = tree[d] /\ first_node'[d] = first_node[d]
             /\ last_node'[d] = last_node[d] /\ num_blocknode'[d] = num_blocknode[d]
    BY SMT DEF ListsOK, ListStep
  <1>2. k2 \in Nat  BY FS_CardinalityType
  <1>3. f2 \in Nodes \cup {NULL} /\ l2 \in Nodes \cup {NULL}
    <2>1. CASE T2 = {}  BY <2>1 DEF Sound
    <2>2. CASE T2 # {}  BY <2>2 DEF Sound
    <2> QED BY <2>1, <2>2
  <1>4. /\ tree' \in [CPUs -> SUBSET Nodes]
        /\ low' \in [Nodes -> Nat] /\ high' \in [Nodes -> Nat]
        /\ first_node' \in [CPUs -> Nodes \cup {NULL}] /\ last_node' \in [CPUs -> Nodes \cup {NULL}]
        /\ num_blocknode' \in [CPUs -> Nat]
    BY <1>2, <1>3, SMT DEF ListsOK, ListStep
  <1>5. ASSUME NEW d \in CPUs, d # c, NEW n \in tree[d] PROVE low'[n] = low[n] /\ high'[n] = high[n]
    <2>1. n \in Nodes /\ n \notin tree[c] /\ n \notin T2  BY <1>5 DEF ListsOK
    <2> QED BY <2>1 DEF ListStep
  <1>6. ASSUME NEW d \in CPUs, d # c
        PROVE  /\ Sound(tree[d], low', high', first_node[d], last_node[d], S(d), E(d))
               /\ Covered(tree[d], low', high') = Covered(tree[d], low, high)
    <2>1. Sound(tree[d], low, high, first_node[d], last_node[d], S(d), E(d))  BY DEF ListsOK
    <2>2. \A n \in tree[d] : low'[n] = low[n] /\ high'[n] = high[n]  BY <1>5, <1>6
    <2>3. Sound(tree[d], low', high', first_node[d], last_node[d], S(d), E(d))
      <3>1. tree[d] # {} => first_node[d] \in tree[d] /\ last_node[d] \in tree[d]  BY <2>1 DEF Sound
      <3> QED BY <2>1, <2>2, <3>1, SMT DEF Sound
    <2>4. Covered(tree[d], low', high') = Covered(tree[d], low, high)
      <3>1. ASSUME NEW x PROVE x \in Covered(tree[d], low', high') <=> x \in Covered(tree[d], low, high)
        <4>1. x \in Covered(tree[d], low', high') <=> \E n \in tree[d] : x \in low'[n]..high'[n]
          BY DEF Covered
        <4>2. x \in Covered(tree[d], low, high) <=> \E n \in tree[d] : x \in low[n]..high[n]
          BY DEF Covered
        <4> QED BY <4>1, <4>2, <2>2
      <3> QED BY <3>1
    <2> QED BY <2>3, <2>4
  <1>7. ASSUME NEW d \in CPUs
        PROVE  Sound(tree'[d], low', high', first_node'[d], last_node'[d], S(d), E(d))
    BY <1>1, <1>6
  <1>8. ASSUME NEW d \in CPUs PROVE IsFiniteSet(tree'[d]) /\ num_blocknode'[d] = Cardinality(tree'[d])
    BY <1>1 DEF ListsOK
  <1>9. ASSUME NEW b \in CPUs, NEW d \in CPUs, b # d PROVE tree'[b] \cap tree'[d] = {}
    <2>1. CASE b = c
      <3>1. tree'[b] = T2 /\ tree'[d] = tree[d] /\ T2 \cap tree[d] = {}  BY <2>1, <1>1, <1>9
      <3> QED BY <3>1
    <2>2. CASE d = c
      <3>1. tree'[d] = T2 /\ tree'[b] = tree[b] /\ T2 \cap tree[b] = {}  BY <2>2, <1>1, <1>9
      <3> QED BY <3>1
    <2>3. CASE b # c /\ d # c
      <3>1. tree'[b] = tree[b] /\ tree'[d] = tree[d] /\ tree[b] \cap tree[d] = {}
        BY <2>3, <1>1, <1>9 DEF ListsOK
      <3> QED BY <3>1
    <2> QED BY <2>1, <2>2, <2>3
  <1>10. ListsOK'  BY <1>4, <1>7, <1>8, <1>9 DEF ListsOK
  <1>11. FreeBlocks(c)' = Covered(T2, low', high')
    <2>1. FreeBlocks(c)' = Covered(tree'[c], low', high')  BY DEF FreeBlocks, Covered
    <2> QED BY <2>1, <1>1
  <1>12. ASSUME NEW d \in CPUs, d # c PROVE FreeBlocks(d)' = FreeBlocks(d)
    <2>1. FreeBlocks(d)' = Covered(tree'[d], low', high')  BY DEF FreeBlocks, Covered
    <2>2. tree'[d] = tree[d]  BY <1>1, <1>12
    <2>3. Covered(tree[d], low', high') = Covered(tree[d], low, high)  BY <1>6, <1>12
    <2> QED BY <2>1, <2>2, <2>3, FreeIsCovered
  <1> QED BY <1>10, <1>11, <1>12

-----------------------------------------------------------------------------
(* What a step does to the lists: it takes a run of blocks from one list, or *)
(* gives one back.                                                           *)

Took(c, x, y) ==
    /\ ListsOK'
    /\ x \in Nat /\ y \in Nat /\ x <= y
    /\ x..y \subseteq FreeBlocks(c)
    /\ FreeBlocks(c)' = FreeBlocks(c) \ (x..y)
    /\ \A d \in CPUs : d # c => FreeBlocks(d)' = FreeBlocks(d)

Gave(c, x, y) ==
    /\ ListsOK'
    /\ FreeBlocks(c)' = FreeBlocks(c) \cup (x..y)
    /\ \A d \in CPUs : d # c => FreeBlocks(d)' = FreeBlocks(d)

\* A list that keeps its nodes and its ends.
LEMMA SameNodes ==
    ASSUME ListsOK, NEW c \in CPUs, UNCHANGED <<tree, first_node, last_node, num_blocknode>>,
           low' \in [Nodes -> Nat], high' \in [Nodes -> Nat],
           \A n \in Nodes : n \notin tree[c] => low'[n] = low[n] /\ high'[n] = high[n],
           Sound(tree[c], low', high', first_node[c], last_node[c], S(c), E(c))
    PROVE  /\ ListsOK'
           /\ FreeBlocks(c)' = Covered(tree[c], low', high')
           /\ \A d \in CPUs : d # c => FreeBlocks(d)' = FreeBlocks(d)
  <1>1. ListStep(c, tree[c], first_node[c], last_node[c], num_blocknode[c])
    BY SMT DEF ListStep, ListsOK
  <1>2. /\ tree[c] \in SUBSET Nodes /\ IsFiniteSet(tree[c]) /\ num_blocknode[c] = Cardinality(tree[c])
        /\ \A d \in CPUs : d # c => tree[c] \cap tree[d] = {}
    BY DEF ListsOK
  <1> QED BY <1>1, <1>2, OneList

\* The node n of list c loses the blocks after b.
LEMMA CutHighStep ==
    ASSUME ListsOK, NEW c \in CPUs, NEW n \in tree[c], NEW b \in Nat, low[n] <= b, b < high[n],
           high' = [high EXCEPT ![n] = b],
           UNCHANGED <<tree, low, first_node, last_node, num_blocknode>>
    PROVE  Took(c, b + 1, high[n])
  <1>1. /\ Sound(tree[c], low, high, first_node[c], last_node[c], S(c), E(c)) /\ n \in Nodes
        /\ tree[c] \subseteq Nodes /\ high[n] \in Nat
    BY ListFacts
  <1>2. S(c) \in Int /\ E(c) \in Int  BY RegionTypes, SMT
  <1>3. low' = low /\ low \in [Nodes -> Nat] /\ high \in [Nodes -> Nat]  BY DEF ListsOK
  <1>4. high'[n] = b /\ high' \in [Nodes -> Nat] /\ \A m \in Nodes : m # n => high'[m] = high[m]
    BY <1>1, <1>3, SMT
  <1>5. \A m \in tree[c] : low'[m] = low[m] /\ (m # n => high'[m] = high[m])  BY <1>1, <1>3, <1>4
  <1>6. /\ Sound(tree[c], low', high', first_node[c], last_node[c], S(c), E(c))
        /\ (b + 1)..high[n] \subseteq Covered(tree[c], low, high)
        /\ Covered(tree[c], low', high') = Covered(tree[c], low, high) \ ((b + 1)..high[n])
    <2>1. PICK lo2, hi2 : lo2 = low' /\ hi2 = high'  OBVIOUS
    <2>2. hi2[n] = b /\ \A m \in tree[c] : lo2[m] = low[m] /\ (m # n => hi2[m] = high[m])
      BY <2>1, <1>4, <1>5
    <2>3. /\ Sound(tree[c], lo2, hi2, first_node[c], last_node[c], S(c), E(c))
          /\ (b + 1)..high[n] \subseteq Covered(tree[c], low, high)
          /\ Covered(tree[c], lo2, hi2) = Covered(tree[c], low, high) \ ((b + 1)..high[n])
      BY <1>1, <1>2, <2>2, CutHigh, SMTT(40)
    <2> QED BY <2>1, <2>3
  <1>7. \A m \in Nodes : m \notin tree[c] => low'[m] = low[m] /\ high'[m] = high[m]
    BY <1>3, <1>4
  <1>8. /\ ListsOK' /\ FreeBlocks(c)' = Covered(tree[c], low', high')
        /\ \A d \in CPUs : d # c => FreeBlocks(d)' = FreeBlocks(d)
    BY <1>3, <1>4, <1>6, <1>7, SameNodes
  <1>9. b + 1 \in Nat /\ b + 1 <= high[n]  BY <1>1, SMT
  <1> QED BY <1>1, <1>6, <1>8, <1>9, FreeIsCovered DEF Took

\* The node n of list c loses the blocks before b.
LEMMA CutLowStep ==
    ASSUME ListsOK, NEW c \in CPUs, NEW n \in tree[c], NEW b \in Nat, low[n] < b, b <= high[n],
           low' = [low EXCEPT ![n] = b],
           UNCHANGED <<tree, high, first_node, last_node, num_blocknode>>
    PROVE  Took(c, low[n], b - 1)
  <1>1. /\ Sound(tree[c], low, high, first_node[c], last_node[c], S(c), E(c)) /\ n \in Nodes
        /\ tree[c] \subseteq Nodes /\ low[n] \in Nat
    BY ListFacts
  <1>2. S(c) \in Int /\ E(c) \in Int  BY RegionTypes, SMT
  <1>3. high' = high /\ low \in [Nodes -> Nat] /\ high \in [Nodes -> Nat]  BY DEF ListsOK
  <1>4. low'[n] = b /\ low' \in [Nodes -> Nat] /\ \A m \in Nodes : m # n => low'[m] = low[m]
    BY <1>1, <1>3, SMT
  <1>5. \A m \in tree[c] : high'[m] = high[m] /\ (m # n => low'[m] = low[m])  BY <1>1, <1>3, <1>4
  <1>6. /\ Sound(tree[c], low', high', first_node[c], last_node[c], S(c), E(c))
        /\ low[n]..(b - 1) \subseteq Covered(tree[c], low, high)
        /\ Covered(tree[c], low', high') = Covered(tree[c], low, high) \ (low[n]..(b - 1))
    <2>1. PICK lo2, hi2 : lo2 = low' /\ hi2 = high'  OBVIOUS
    <2>2. lo2[n] = b /\ \A m \in tree[c] : hi2[m] = high[m] /\ (m # n => lo2[m] = low[m])
      BY <2>1, <1>4, <1>5
    <2>3. /\ Sound(tree[c], lo2, hi2, first_node[c], last_node[c], S(c), E(c))
          /\ low[n]..(b - 1) \subseteq Covered(tree[c], low, high)
          /\ Covered(tree[c], lo2, hi2) = Covered(tree[c], low, high) \ (low[n]..(b - 1))
      BY <1>1, <1>2, <2>2, CutLow, SMTT(40)
    <2> QED BY <2>1, <2>3
  <1>7. \A m \in Nodes : m \notin tree[c] => low'[m] = low[m] /\ high'[m] = high[m]
    BY <1>3, <1>4
  <1>8. /\ ListsOK' /\ FreeBlocks(c)' = Covered(tree[c], low', high')
        /\ \A d \in CPUs : d # c => FreeBlocks(d)' = FreeBlocks(d)
    BY <1>3, <1>4, <1>6, <1>7, SameNodes
  <1>9. b - 1 \in Nat /\ low[n] <= b - 1  BY <1>1, SMT
  <1> QED BY <1>1, <1>6, <1>8, <1>9, FreeIsCovered DEF Took

\* A node that the slab cache hands out is in no tree.
LEMMA NewNode ==
    ASSUME ListsOK, NEW w \in nova_alloc_blocknode
    PROVE  w \in Nodes /\ \A c \in CPUs : w \notin tree[c]
  <1>1. Unused # {} /\ w = CHOOSE n \in Unused : TRUE  BY DEF nova_alloc_blocknode
  <1>2. w \in Unused  BY <1>1
  <1> QED BY <1>2 DEF Unused

\* The node n of list c keeps the blocks up to a, the new node w gets those from b on.
NodeSplit(c, n, w, a, b) ==
    /\ low' = [low EXCEPT ![w] = b]
    /\ high' = [high EXCEPT ![n] = a, ![w] = high[n]]
    /\ tree' = [tree EXCEPT ![c] = @ \cup {w}]
    /\ last_node' = [last_node EXCEPT ![c] = IF @ = n THEN w ELSE @]
    /\ num_blocknode' = [num_blocknode EXCEPT ![c] = @ + 1]
    /\ first_node' = first_node

\* nova_alloc_superpage takes the middle of a node.
LEMMA SplitStep ==
    ASSUME ListsOK, NEW c \in CPUs, NEW n \in tree[c], NEW w \in nova_alloc_blocknode,
           NEW a \in Nat, NEW b \in Nat, low[n] <= a, a + 1 < b, b <= high[n],
           NodeSplit(c, n, w, a, b)
    PROVE  Took(c, a + 1, b - 1)
  <1> DEFINE T2 == tree[c] \cup {w}
             l2 == IF last_node[c] = n THEN w ELSE last_node[c]
  <1>1. /\ Sound(tree[c], low, high, first_node[c], last_node[c], S(c), E(c)) /\ n \in Nodes
        /\ tree[c] \subseteq Nodes /\ high[n] \in Nat
    BY ListFacts
  <1>2. S(c) \in Int /\ E(c) \in Int  BY RegionTypes, SMT
  <1>3. w \in Nodes /\ \A d \in CPUs : w \notin tree[d]  BY NewNode
  <1>4. w # n /\ w \notin tree[c]  BY <1>3
  <1>5. low \in [Nodes -> Nat] /\ high \in [Nodes -> Nat]  BY DEF ListsOK
  <1>6. /\ low' \in [Nodes -> Nat] /\ low'[w] = b /\ \A m \in Nodes : m # w => low'[m] = low[m]
        /\ high' \in [Nodes -> Nat] /\ high'[n] = a /\ high'[w] = high[n]
        /\ \A m \in Nodes : m # w /\ m # n => high'[m] = high[m]
    BY <1>1, <1>3, <1>4, <1>5, SMT DEF NodeSplit
  <1>7. /\ Sound(T2, low', high', first_node[c], l2, S(c), E(c))
        /\ (a + 1)..(b - 1) \subseteq Covered(tree[c], low, high)
        /\ Covered(T2, low', high') = Covered(tree[c], low, high) \ ((a + 1)..(b - 1))
    <2>1. PICK lo2, hi2 : lo2 = low' /\ hi2 = high'  OBVIOUS
    <2>2. /\ hi2[n] = a /\ lo2[w] = b /\ hi2[w] = high[n]
          /\ \A m \in tree[c] : lo2[m] = low[m] /\ (m # n => hi2[m] = high[m])
      BY <2>1, <1>1, <1>4, <1>6
    <2>3. Splits(tree[c], low, high, first_node[c], last_node[c], S(c), E(c), n, w, a, b, T2, lo2, hi2, l2)
      BY <1>1, <1>2, <1>4, <2>2 DEF Splits
    <2> HIDE DEF T2, l2
    <2>4. /\ Sound(T2, lo2, hi2, first_node[c], l2, S(c), E(c))
          /\ CoversLess(T2, lo2, hi2, tree[c], low, high, a + 1, b - 1)
      BY <2>3, Split
    <2> QED BY <2>1, <2>4 DEF CoversLess
  <1>8. ListStep(c, T2, first_node[c], l2, num_blocknode[c] + 1)
    <2>1. tree' = [tree EXCEPT ![c] = T2]  BY DEF NodeSplit
    <2>2. first_node' = [first_node EXCEPT ![c] = first_node[c]]  BY SMT DEF ListsOK, NodeSplit
    <2>3. last_node' = [last_node EXCEPT ![c] = l2]  BY DEF NodeSplit
    <2>4. num_blocknode' = [num_blocknode EXCEPT ![c] = num_blocknode[c] + 1]  BY DEF NodeSplit
    <2>5. ASSUME NEW m \in Nodes, m \notin tree[c] \cup T2 PROVE low'[m] = low[m] /\ high'[m] = high[m]
      <3>1. m # w /\ m # n  BY <2>5
      <3> QED BY <3>1, <1>6
    <2> QED BY <1>6, <2>1, <2>2, <2>3, <2>4, <2>5 DEF ListStep
  <1>9. T2 \in SUBSET Nodes /\ \A d \in CPUs : d # c => T2 \cap tree[d] = {}
    <2>1. \A d \in CPUs : d # c => tree[c] \cap tree[d] = {}  BY DEF ListsOK
    <2> QED BY <1>1, <1>3, <2>1
  <1>10. IsFiniteSet(T2) /\ num_blocknode[c] + 1 = Cardinality(T2)
    <2>1. IsFiniteSet(tree[c]) /\ num_blocknode[c] = Cardinality(tree[c])  BY DEF ListsOK
    <2>2. /\ IsFiniteSet(T2)
          /\ Cardinality(T2) = IF w \in tree[c] THEN Cardinality(tree[c]) ELSE Cardinality(tree[c]) + 1
      BY <2>1, FS_AddElement
    <2> QED BY <2>1, <2>2, <1>4
  <1>11. /\ ListsOK' /\ FreeBlocks(c)' = Covered(T2, low', high')
         /\ \A d \in CPUs : d # c => FreeBlocks(d)' = FreeBlocks(d)
    <2> HIDE DEF T2, l2
    <2> QED BY <1>7, <1>8, <1>9, <1>10, OneList
  <1>12. a + 1 \in Nat /\ b - 1 \in Nat /\ a + 1 <= b - 1  BY SMT
  <1> QED BY <1>7, <1>11, <1>12, FreeIsCovered DEF Took

\* The node n of list c, whole, is taken out of the tree.
NodeTaken(c, n) ==
    /\ first_node' = [first_node EXCEPT ![c] = IF @ = n THEN Following(c, high[n]) ELSE @]
    /\ last_node' = [last_node EXCEPT ![c] = IF @ = n THEN Preceding(c, low[n]) ELSE @]
    /\ tree' = [tree EXCEPT ![c] = @ \ {n}]
    /\ low' = [low EXCEPT ![n] = 0]
    /\ high' = [high EXCEPT ![n] = 0]
    /\ num_blocknode' = [num_blocknode EXCEPT ![c] = @ - 1]

\* nova_alloc_blocks_in_free_list takes a whole node.
LEMMA TakeNodeStep ==
    ASSUME ListsOK, NEW c \in CPUs, NEW n \in tree[c], NodeTaken(c, n)
    PROVE  Took(c, low[n], high[n])
  <1> DEFINE T2 == tree[c] \ {n}
             p == Preceding(c, low[n])
             q == Following(c, high[n])
             f2 == IF first_node[c] = n THEN q ELSE first_node[c]
             l2 == IF last_node[c] = n THEN p ELSE last_node[c]
  <1>1. /\ Sound(tree[c], low, high, first_node[c], last_node[c], S(c), E(c)) /\ n \in Nodes
        /\ tree[c] \subseteq Nodes /\ NULL \notin tree[c]
        /\ low[n] \in Nat /\ high[n] \in Nat /\ low[n] <= high[n]
    BY ListFacts
  <1>2. S(c) \in Int /\ E(c) \in Int  BY RegionTypes, SMT
  <1>3. low[n] \in Int /\ high[n] \in Int  BY <1>1, SMT
  <1>4. IsPrev(tree[c], low, high, low[n], p) /\ IsNext(tree[c], low, high[n], q)
    BY <1>3, PrevNext
  <1>5. low \in [Nodes -> Nat] /\ high \in [Nodes -> Nat]  BY DEF ListsOK
  <1>6. /\ low' \in [Nodes -> Nat] /\ \A m \in Nodes : m # n => low'[m] = low[m]
        /\ high' \in [Nodes -> Nat] /\ \A m \in Nodes : m # n => high'[m] = high[m]
    BY <1>1, <1>5, SMT DEF NodeTaken
  <1>7. /\ Sound(T2, low', high', f2, l2, S(c), E(c))
        /\ low[n]..high[n] \subseteq Covered(tree[c], low, high)
        /\ Covered(T2, low', high') = Covered(tree[c], low, high) \ (low[n]..high[n])
    <2> HIDE DEF p, q
    <2>1. PICK lo2, hi2 : lo2 = low' /\ hi2 = high'  OBVIOUS
    <2>2. \A m \in tree[c] \ {n} : lo2[m] = low[m] /\ hi2[m] = high[m]
      BY <2>1, <1>1, <1>6
    <2>3. Removes(tree[c], low, high, first_node[c], last_node[c], S(c), E(c), n, p, q, T2, lo2, hi2, f2, l2)
      BY <1>1, <1>2, <1>4, <2>2 DEF Removes
    <2> HIDE DEF T2, f2, l2
    <2>4. /\ Sound(T2, lo2, hi2, f2, l2, S(c), E(c))
          /\ CoversLess(T2, lo2, hi2, tree[c], low, high, low[n], high[n])
      BY <2>3, TakeNode
    <2> QED BY <2>1, <2>4 DEF CoversLess
  <1>8. ListStep(c, T2, f2, l2, num_blocknode[c] - 1)
    <2>1. tree' = [tree EXCEPT ![c] = T2]  BY DEF NodeTaken
    <2>2. first_node' = [first_node EXCEPT ![c] = f2]  BY DEF NodeTaken
    <2>3. last_node' = [last_node EXCEPT ![c] = l2]  BY DEF NodeTaken
    <2>4. num_blocknode' = [num_blocknode EXCEPT ![c] = num_blocknode[c] - 1]  BY DEF NodeTaken
    <2>5. ASSUME NEW m \in Nodes, m \notin tree[c] \cup T2 PROVE low'[m] = low[m] /\ high'[m] = high[m]
      <3>1. m # n  BY <2>5
      <3> QED BY <3>1, <1>6
    <2> HIDE DEF T2, f2, l2
    <2> QED BY <1>6, <2>1, <2>2, <2>3, <2>4, <2>5 DEF ListStep
  <1>9. T2 \in SUBSET Nodes /\ \A d \in CPUs : d # c => T2 \cap tree[d] = {}
    <2>1. \A d \in CPUs : d # c => tree[c] \cap tree[d] = {}  BY DEF ListsOK
    <2> QED BY <1>1, <2>1
  <1>10. IsFiniteSet(T2) /\ num_blocknode[c] - 1 = Cardinality(T2)
    <2>1. IsFiniteSet(tree[c]) /\ num_blocknode[c] = Cardinality(tree[c])  BY DEF ListsOK
    <2>2. /\ IsFiniteSet(T2)
          /\ Cardinality(T2) = IF n \in tree[c] THEN Cardinality(tree[c]) - 1 ELSE Cardinality(tree[c])
      BY <2>1, FS_RemoveElement
    <2> QED BY <2>1, <2>2
  <1>11. /\ ListsOK' /\ FreeBlocks(c)' = Covered(T2, low', high')
         /\ \A d \in CPUs : d # c => FreeBlocks(d)' = FreeBlocks(d)
    <2> HIDE DEF T2, f2, l2
    <2> QED BY <1>7, <1>8, <1>9, <1>10, OneList
  <1> QED BY <1>1, <1>7, <1>11, FreeIsCovered DEF Took

\* The range x..y lies in a gap of list c, where nova_find_free_slot finds it.
GapFor(c, x, y) ==
    InGap(tree[c], low, high, S(c), E(c), x, y, Preceding(c, x), Following(c, x))

\* fits_hole: two nodes become one.
LEMMA JoinStep ==
    ASSUME ListsOK, NEW c \in CPUs, NEW x, NEW y, GapFor(c, x, y), fits_hole(c, x, y),
           Preceding(c, x) # NULL, x = high[Preceding(c, x)] + 1,
           Following(c, x) # NULL, y + 1 = low[Following(c, x)]
    PROVE  Gave(c, x, y)
  <1> DEFINE p == Preceding(c, x)
             q == Following(c, x)
             T2 == tree[c] \ {q}
             l2 == IF last_node[c] = q THEN p ELSE last_node[c]
  <1>1. /\ Sound(tree[c], low, high, first_node[c], last_node[c], S(c), E(c))
        /\ tree[c] \subseteq Nodes
    BY ListFacts
  <1>2. S(c) \in Int /\ E(c) \in Int  BY RegionTypes, SMT
  <1>3. InGap(tree[c], low, high, S(c), E(c), x, y, p, q) /\ p # NULL /\ q # NULL
    BY DEF GapFor
  <1>4. p \in tree[c] /\ q \in tree[c] /\ high[p] < x /\ x < low[q] /\ x \in Nat
    BY <1>3 DEF InGap, IsPrev, IsNext
  <1>5. low \in [Nodes -> Nat] /\ high \in [Nodes -> Nat]  BY DEF ListsOK
  <1>6. p \in Nodes /\ q \in Nodes /\ low[p] \in Nat /\ high[p] \in Nat /\ low[p] <= high[p]
    BY <1>1, <1>4, ListFacts
  <1>7. p # q  BY <1>4, <1>6, SMT
  <1>8. /\ tree' = [tree EXCEPT ![c] = tree[c] \ {q}]
        /\ num_blocknode' = [num_blocknode EXCEPT ![c] = num_blocknode[c] - 1]
        /\ high' = [high EXCEPT ![p] = high[q], ![q] = 0]
        /\ low' = [low EXCEPT ![q] = 0]
        /\ last_node' = [last_node EXCEPT ![c] = IF last_node[c] = q THEN p ELSE last_node[c]]
        /\ first_node' = first_node
    BY DEF fits_hole
  <1> HIDE DEF p, q
  <1>9. /\ low' \in [Nodes -> Nat] /\ \A m \in Nodes : m # q => low'[m] = low[m]
        /\ high' \in [Nodes -> Nat] /\ high'[p] = high[q]
        /\ \A m \in Nodes : m # p /\ m # q => high'[m] = high[m]
    BY <1>5, <1>6, <1>7, <1>8, SMT
  <1>10. /\ Sound(T2, low', high', first_node[c], l2, S(c), E(c))
         /\ Covered(T2, low', high') = Covered(tree[c], low, high) \cup (x..y)
    <2>1. PICK lo2, hi2 : lo2 = low' /\ hi2 = high'  OBVIOUS
    <2>2. /\ \A m \in tree[c] \ {q} : lo2[m] = low[m] /\ (m # p => hi2[m] = high[m])
          /\ hi2[p] = high[q]
      BY <2>1, <1>1, <1>9
    <2>3. x = high[p] + 1 /\ y + 1 = low[q]  BY DEF p, q
    <2>4. Joins(tree[c], low, high, first_node[c], last_node[c], S(c), E(c), x, y, p, q, T2, lo2, hi2, l2)
      BY <1>1, <1>2, <1>3, <2>2, <2>3 DEF Joins
    <2> HIDE DEF T2, l2
    <2>5. /\ Sound(T2, lo2, hi2, first_node[c], l2, S(c), E(c))
          /\ CoversMore(T2, lo2, hi2, tree[c], low, high, x, y)
      BY <2>4, JoinNodes
    <2> QED BY <2>1, <2>5 DEF CoversMore
  <1>11. ListStep(c, T2, first_node[c], l2, num_blocknode[c] - 1)
    <2>1. first_node' = [first_node EXCEPT ![c] = first_node[c]]  BY <1>8, SMT DEF ListsOK
    <2>2. ASSUME NEW m \in Nodes, m \notin tree[c] \cup T2 PROVE low'[m] = low[m] /\ high'[m] = high[m]
      <3>1. m # p /\ m # q  BY <2>2, <1>4
      <3> QED BY <3>1, <1>9
    <2> QED BY <1>8, <1>9, <2>1, <2>2 DEF ListStep
  <1>12. T2 \in SUBSET Nodes /\ \A d \in CPUs : d # c => T2 \cap tree[d] = {}
    <2>1. \A d \in CPUs : d # c => tree[c] \cap tree[d] = {}  BY DEF ListsOK
    <2> QED BY <1>1, <2>1
  <1>13. IsFiniteSet(T2) /\ num_blocknode[c] - 1 = Cardinality(T2)
    <2>1. IsFiniteSet(tree[c]) /\ num_blocknode[c] = Cardinality(tree[c])  BY DEF ListsOK
    <2>2. /\ IsFiniteSet(T2)
          /\ Cardinality(T2) = IF q \in tree[c] THEN Cardinality(tree[c]) - 1 ELSE Cardinality(tree[c])
      BY <2>1, FS_RemoveElement
    <2> QED BY <2>1, <2>2, <1>4
  <1>14. /\ ListsOK' /\ FreeBlocks(c)' = Covered(T2, low', high')
         /\ \A d \in CPUs : d # c => FreeBlocks(d)' = FreeBlocks(d)
    <2> HIDE DEF T2, l2
    <2> QED BY <1>10, <1>11, <1>12, <1>13, OneList
  <1> QED BY <1>10, <1>14, FreeIsCovered DEF Gave

\* aligns_left: the node before the range grows.
LEMMA GrowUpStep ==
    ASSUME ListsOK, NEW c \in CPUs, NEW x, NEW y, GapFor(c, x, y), aligns_left(c, x, y),
           Preceding(c, x) # NULL, x = high[Preceding(c, x)] + 1,
           Following(c, x) # NULL => y + 1 # low[Following(c, x)]
    PROVE  Gave(c, x, y)
  <1> DEFINE p == Preceding(c, x)
             q == Following(c, x)
  <1>1. /\ Sound(tree[c], low, high, first_node[c], last_node[c], S(c), E(c))
        /\ tree[c] \subseteq Nodes
    BY ListFacts
  <1>2. S(c) \in Int /\ E(c) \in Int  BY RegionTypes, SMT
  <1>3. /\ InGap(tree[c], low, high, S(c), E(c), x, y, p, q) /\ p # NULL /\ x = high[p] + 1
        /\ q # NULL => y + 1 # low[q]
    BY DEF GapFor
  <1>4. p \in tree[c] /\ x \in Nat /\ y \in Nat
    BY <1>3 DEF InGap, IsPrev
  <1>5. low \in [Nodes -> Nat] /\ high \in [Nodes -> Nat]  BY DEF ListsOK
  <1>6. p \in Nodes /\ high[p] \in Nat  BY <1>1, <1>4, ListFacts
  <1>7. /\ high' = [high EXCEPT ![p] = high[p] + (y - x + 1)] /\ low' = low
        /\ UNCHANGED <<tree, first_node, last_node, num_blocknode>>
    BY DEF aligns_left
  <1> HIDE DEF p, q
  <1>8. high[p] + (y - x + 1) = y  BY <1>3, <1>4, <1>6, SMT
  <1>9. /\ high' \in [Nodes -> Nat] /\ high'[p] = y
        /\ \A m \in Nodes : m # p => high'[m] = high[m]
    BY <1>4, <1>5, <1>6, <1>7, <1>8, SMT
  <1>10. /\ Sound(tree[c], low', high', first_node[c], last_node[c], S(c), E(c))
         /\ Covered(tree[c], low', high') = Covered(tree[c], low, high) \cup (x..y)
    <2>1. PICK lo2, hi2 : lo2 = low' /\ hi2 = high'  OBVIOUS
    <2>2. \A m \in tree[c] : lo2[m] = low[m] /\ (m # p => hi2[m] = high[m])
      BY <2>1, <1>1, <1>7, <1>9
    <2>3. hi2[p] = y  BY <2>1, <1>9
    <2>4. GrowsUp(tree[c], low, high, first_node[c], last_node[c], S(c), E(c), x, y, p, q, lo2, hi2)
      BY <1>1, <1>2, <1>3, <2>2, <2>3 DEF GrowsUp
    <2>5. /\ Sound(tree[c], lo2, hi2, first_node[c], last_node[c], S(c), E(c))
          /\ CoversMore(tree[c], lo2, hi2, tree[c], low, high, x, y)
      BY <2>4, ExtendHigh
    <2> QED BY <2>1, <2>5 DEF CoversMore
  <1>11. \A m \in Nodes : m \notin tree[c] => low'[m] = low[m] /\ high'[m] = high[m]
    BY <1>4, <1>7, <1>9
  <1>12. /\ ListsOK' /\ FreeBlocks(c)' = Covered(tree[c], low', high')
         /\ \A d \in CPUs : d # c => FreeBlocks(d)' = FreeBlocks(d)
    BY <1>5, <1>7, <1>9, <1>10, <1>11, SameNodes
  <1> QED BY <1>10, <1>12, FreeIsCovered DEF Gave

\* aligns_right: the node after the range grows.
LEMMA GrowDownStep ==
    ASSUME ListsOK, NEW c \in CPUs, NEW x, NEW y, GapFor(c, x, y), aligns_right(c, x, y),
           Following(c, x) # NULL, y + 1 = low[Following(c, x)],
           Preceding(c, x) # NULL => x # high[Preceding(c, x)] + 1
    PROVE  Gave(c, x, y)
  <1> DEFINE p == Preceding(c, x)
             q == Following(c, x)
  <1>1. /\ Sound(tree[c], low, high, first_node[c], last_node[c], S(c), E(c))
        /\ tree[c] \subseteq Nodes
    BY ListFacts
  <1>2. S(c) \in Int /\ E(c) \in Int  BY RegionTypes, SMT
  <1>3. /\ InGap(tree[c], low, high, S(c), E(c), x, y, p, q) /\ q # NULL /\ y + 1 = low[q]
        /\ p # NULL => x # high[p] + 1
    BY DEF GapFor
  <1>4. q \in tree[c] /\ x \in Nat /\ y \in Nat
    BY <1>3 DEF InGap, IsNext
  <1>5. low \in [Nodes -> Nat] /\ high \in [Nodes -> Nat]  BY DEF ListsOK
  <1>6. q \in Nodes /\ low[q] \in Nat  BY <1>1, <1>4, ListFacts
  <1>7. /\ low' = [low EXCEPT ![q] = low[q] - (y - x + 1)] /\ high' = high
        /\ UNCHANGED <<tree, first_node, last_node, num_blocknode>>
    BY DEF aligns_right
  <1> HIDE DEF p, q
  <1>8. low[q] - (y - x + 1) = x  BY <1>3, <1>4, <1>6, SMT
  <1>9. /\ low' \in [Nodes -> Nat] /\ low'[q] = x
        /\ \A m \in Nodes : m # q => low'[m] = low[m]
    BY <1>4, <1>5, <1>6, <1>7, <1>8, SMT
  <1>10. /\ Sound(tree[c], low', high', first_node[c], last_node[c], S(c), E(c))
         /\ Covered(tree[c], low', high') = Covered(tree[c], low, high) \cup (x..y)
    <2>1. PICK lo2, hi2 : lo2 = low' /\ hi2 = high'  OBVIOUS
    <2>2. \A m \in tree[c] : hi2[m] = high[m] /\ (m # q => lo2[m] = low[m])
      BY <2>1, <1>1, <1>7, <1>9
    <2>3. lo2[q] = x  BY <2>1, <1>9
    <2>4. GrowsDown(tree[c], low, high, first_node[c], last_node[c], S(c), E(c), x, y, p, q, lo2, hi2)
      BY <1>1, <1>2, <1>3, <2>2, <2>3 DEF GrowsDown
    <2>5. /\ Sound(tree[c], lo2, hi2, first_node[c], last_node[c], S(c), E(c))
          /\ CoversMore(tree[c], lo2, hi2, tree[c], low, high, x, y)
      BY <2>4, ExtendLow
    <2> QED BY <2>1, <2>5 DEF CoversMore
  <1>11. \A m \in Nodes : m \notin tree[c] => low'[m] = low[m] /\ high'[m] = high[m]
    BY <1>4, <1>7, <1>9
  <1>12. /\ ListsOK' /\ FreeBlocks(c)' = Covered(tree[c], low', high')
         /\ \A d \in CPUs : d # c => FreeBlocks(d)' = FreeBlocks(d)
    BY <1>5, <1>7, <1>9, <1>10, <1>11, SameNodes
  <1> QED BY <1>10, <1>12, FreeIsCovered DEF Gave

\* in_the_middle: the preallocated node becomes a node of the list.
LEMMA AddNodeStep ==
    ASSUME ListsOK, NEW c \in CPUs, NEW x, NEW y, GapFor(c, x, y),
           NEW w \in nova_alloc_blocknode, in_the_middle(c, x, y, w),
           Preceding(c, x) # NULL => x # high[Preceding(c, x)] + 1,
           Following(c, x) # NULL => y + 1 # low[Following(c, x)]
    PROVE  Gave(c, x, y)
  <1> DEFINE p == Preceding(c, x)
             q == Following(c, x)
             T2 == tree[c] \cup {w}
             f2 == IF p = NULL THEN w ELSE first_node[c]
             l2 == IF q = NULL THEN w ELSE last_node[c]
  <1>1. /\ Sound(tree[c], low, high, first_node[c], last_node[c], S(c), E(c))
        /\ tree[c] \subseteq Nodes /\ NULL \notin tree[c]
    BY ListFacts
  <1>2. S(c) \in Int /\ E(c) \in Int  BY RegionTypes, SMT
  <1>3. /\ InGap(tree[c], low, high, S(c), E(c), x, y, p, q)
        /\ p # NULL => x # high[p] + 1
        /\ q # NULL => y + 1 # low[q]
    BY DEF GapFor
  <1>4. x \in Nat /\ y \in Nat  BY <1>3 DEF InGap
  <1>5. low \in [Nodes -> Nat] /\ high \in [Nodes -> Nat]  BY DEF ListsOK
  <1>6. w \in Nodes /\ \A d \in CPUs : w \notin tree[d]  BY NewNode
  <1>7. w \notin tree[c]  BY <1>6
  <1>8. /\ tree' = [tree EXCEPT ![c] = tree[c] \cup {w}]
        /\ low' = [low EXCEPT ![w] = x] /\ high' = [high EXCEPT ![w] = y]
        /\ first_node' = [first_node EXCEPT ![c] = IF p = NULL THEN w ELSE first_node[c]]
        /\ last_node' = [last_node EXCEPT ![c] = IF q = NULL THEN w ELSE last_node[c]]
        /\ num_blocknode' = [num_blocknode EXCEPT ![c] = num_blocknode[c] + 1]
    BY DEF in_the_middle
  <1> HIDE DEF p, q
  <1>9. /\ low' \in [Nodes -> Nat] /\ low'[w] = x /\ \A m \in Nodes : m # w => low'[m] = low[m]
        /\ high' \in [Nodes -> Nat] /\ high'[w] = y /\ \A m \in Nodes : m # w => high'[m] = high[m]
    BY <1>4, <1>5, <1>6, <1>8, SMT
  <1>10. /\ Sound(T2, low', high', f2, l2, S(c), E(c))
         /\ Covered(T2, low', high') = Covered(tree[c], low, high) \cup (x..y)
    <2>1. PICK lo2, hi2 : lo2 = low' /\ hi2 = high'  OBVIOUS
    <2>2. \A m \in tree[c] : lo2[m] = low[m] /\ hi2[m] = high[m]
      BY <2>1, <1>1, <1>7, <1>9
    <2>3. lo2[w] = x /\ hi2[w] = y  BY <2>1, <1>9
    <2>4. Adds(tree[c], low, high, first_node[c], last_node[c], S(c), E(c), x, y, p, q, w,
               T2, lo2, hi2, f2, l2)
      BY <1>1, <1>2, <1>3, <1>7, <2>2, <2>3 DEF Adds
    <2> HIDE DEF T2, f2, l2
    <2>5. /\ Sound(T2, lo2, hi2, f2, l2, S(c), E(c))
          /\ CoversMore(T2, lo2, hi2, tree[c], low, high, x, y)
      BY <2>4, AddNode
    <2> QED BY <2>1, <2>5 DEF CoversMore
  <1>11. ListStep(c, T2, f2, l2, num_blocknode[c] + 1)
    <2>1. ASSUME NEW m \in Nodes, m \notin tree[c] \cup T2 PROVE low'[m] = low[m] /\ high'[m] = high[m]
      <3>1. m # w  BY <2>1
      <3> QED BY <3>1, <1>9
    <2> QED BY <1>8, <1>9, <2>1 DEF ListStep
  <1>12. T2 \in SUBSET Nodes /\ \A d \in CPUs : d # c => T2 \cap tree[d] = {}
    <2>1. \A d \in CPUs : d # c => tree[c] \cap tree[d] = {}  BY DEF ListsOK
    <2> QED BY <1>1, <1>6, <2>1
  <1>13. IsFiniteSet(T2) /\ num_blocknode[c] + 1 = Cardinality(T2)
    <2>1. IsFiniteSet(tree[c]) /\ num_blocknode[c] = Cardinality(tree[c])  BY DEF ListsOK
    <2>2. /\ IsFiniteSet(T2)
          /\ Cardinality(T2) = IF w \in tree[c] THEN Cardinality(tree[c]) ELSE Cardinality(tree[c]) + 1
      BY <2>1, FS_AddElement
    <2> QED BY <2>1, <2>2, <1>7
  <1>14. /\ ListsOK' /\ FreeBlocks(c)' = Covered(T2, low', high')
         /\ \A d \in CPUs : d # c => FreeBlocks(d)' = FreeBlocks(d)
    <2> HIDE DEF T2, f2, l2
    <2> QED BY <1>10, <1>11, <1>12, <1>13, OneList
  <1> QED BY <1>10, <1>14, FreeIsCovered DEF Gave

\* Each way in which nova_free_blocks inserts a range gives back its blocks.
LEMMA AddRangeStep ==
    ASSUME ListsOK, NEW c \in CPUs, NEW x, NEW y, GapFor(c, x, y),
           NEW w \in nova_alloc_blocknode, AddRange(c, x, y, w)
    PROVE  Gave(c, x, y)
  <1> DEFINE left  == Preceding(c, x) # NULL /\ x = high[Preceding(c, x)] + 1
             right == Following(c, x) # NULL /\ y + 1 = low[Following(c, x)]
  <1>1. CASE left /\ right /\ fits_hole(c, x, y)  BY <1>1, JoinStep
  <1>2. CASE left /\ ~right /\ aligns_left(c, x, y)
    <2>1. Following(c, x) # NULL => y + 1 # low[Following(c, x)]  BY <1>2
    <2> QED BY <1>2, <2>1, GrowUpStep
  <1>3. CASE ~left /\ right /\ aligns_right(c, x, y)
    <2>1. Preceding(c, x) # NULL => x # high[Preceding(c, x)] + 1  BY <1>3
    <2> QED BY <1>3, <2>1, GrowDownStep
  <1>4. CASE ~left /\ ~right /\ in_the_middle(c, x, y, w)
    <2>1. Following(c, x) # NULL => y + 1 # low[Following(c, x)]  BY <1>4
    <2>2. Preceding(c, x) # NULL => x # high[Preceding(c, x)] + 1  BY <1>4
    <2> QED BY <1>4, <2>1, <2>2, AddNodeStep
  <1> QED BY <1>1, <1>2, <1>3, <1>4 DEF AddRange
=============================================================================
