----------------------------- MODULE AtomicWords -----------------------------
(***************************************************************************)
(* What the lite journal promises: the words of persistent memory that one *)
(* transaction updates change together, and a crash either keeps all of    *)
(* them or none.  A transaction that has returned is durable.              *)
(***************************************************************************)
CONSTANTS CPUs, Words, Values

VARIABLES
    store,    \* the value of every word that a mount would find
    pending,  \* the updates of each CPU's open transaction, a function of words
    lost      \* the promise has been broken by a crash inside recovery

vars == <<store, pending, lost>>

None == [w \in {} |-> 0]

Init ==
    /\ store \in [Words -> Values]
    /\ pending = [c \in CPUs |-> None]
    /\ lost = FALSE

Apply(update, s) == [w \in Words |-> IF w \in DOMAIN update THEN update[w] ELSE s[w]]

\* Some update of words that no other open transaction has.
Begin(c) ==
    /\ pending[c] = None
    /\ pending' = [pending EXCEPT ![c] = pending'[c]]
    /\ pending'[c] \in [DOMAIN pending'[c] -> Values]
    /\ DOMAIN pending'[c] \subseteq Words
    /\ \A b \in CPUs \ {c} : DOMAIN pending[b] \cap DOMAIN pending'[c] = {}
    /\ UNCHANGED <<store, lost>>

Commit(c) ==
    /\ pending[c] # None
    /\ store' = Apply(pending[c], store)
    /\ pending' = [pending EXCEPT ![c] = None]
    /\ UNCHANGED lost

\* The transactions of C were about to return and survive the crash; the
\* others are as if they had never begun.
Crash(C) ==
    /\ store' = [w \in Words |->
                   IF \E c \in C : w \in DOMAIN pending[c]
                   THEN pending[CHOOSE c \in C : w \in DOMAIN pending[c]][w]
                   ELSE store[w]]
    /\ pending' = [c \in CPUs |-> None]
    /\ UNCHANGED lost

\* Recovery itself was hit: nothing is promised from here on.
Lose == lost'

Next ==
    \/ Lose
    \/ \E c \in CPUs : Begin(c) \/ Commit(c)
    \/ \E C \in SUBSET CPUs : Crash(C)

Spec == Init /\ [][Next]_vars
=============================================================================
