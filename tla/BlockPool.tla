----------------------------- MODULE BlockPool -----------------------------
(***************************************************************************)
(* What a block allocator promises: a caller is given a run of blocks that *)
(* were all free, and blocks become free only when they are released.  A   *)
(* run of blocks may also get lost, to nobody's use.                       *)
(***************************************************************************)
EXTENDS Integers

CONSTANT Blocks
VARIABLES free, inuse

Init == free = Blocks /\ inuse = {}

Allocate ==
    \E lo, hi \in Blocks :
      /\ lo..hi \subseteq free
      /\ free' = free \ (lo..hi)
      /\ inuse' = inuse \cup (lo..hi)

Release ==
    \E lo, hi \in Blocks :
      /\ lo..hi \subseteq inuse
      /\ inuse' = inuse \ (lo..hi)
      /\ free' = free \cup (lo..hi)

Lose ==
    \E lo, hi \in Blocks :
      /\ lo..hi \subseteq free \/ lo..hi \subseteq inuse
      /\ free' = free \ (lo..hi)
      /\ inuse' = inuse \ (lo..hi)

Next == Allocate \/ Release \/ Lose

Spec == Init /\ [][Next]_<<free, inuse>>
=============================================================================
