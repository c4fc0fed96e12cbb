--------------------------- MODULE SnapshotSteps ----------------------------
(***************************************************************************)
(* Snapshots: what the operations do to the lists, the inductive           *)
(* invariant, and the parts of it about types and writers.  The lists are  *)
(* followed through taking, deleting, cleaning and restoring snapshots.    *)
(***************************************************************************)
EXTENDS Snapshot, SequenceTheorems, FiniteSetTheorems, WellFoundedInduction, TLAPS

USE Zenon

-----------------------------------------------------------------------------
(* Lists.                                                                   *)

\* Lists whose entries name one of the first n versions.
Entries(n) == [v : 1..n, deleted : BOOLEAN]
Page(n) == [epoch : 0..MaxEpoch, entries : Seq(Entries(n))]
List(n) ==
    {l \in Seq(Page(n)) :
       l # << >> /\ \A p \in DOMAIN l : Len(l[p].entries) <= EntriesPerPage}

\* Entry k of page p names v and is not marked deleted.
At(list, p, k, v) ==
    p \in DOMAIN list /\ k \in DOMAIN list[p].entries /\ list[p].entries[k] = Entry(v)

\* A function on 1..n is a sequence of that length.
LEMMA FunctionIsSeq ==
    ASSUME NEW S, NEW n \in Nat, NEW g \in [1..n -> S]
    PROVE  g \in Seq(S) /\ Len(g) = n /\ DOMAIN g = 1..n
  <1>1. g \in Seq(S)  BY SeqDef
  <1>2. Len(g) \in Nat /\ DOMAIN g = 1..Len(g) /\ DOMAIN g = 1..n  BY <1>1, LenProperties
  <1>3. Len(g) = n
    <2> DEFINE m == Len(g)
    <2>1. m \in Nat /\ 1..m = 1..n  BY <1>2
    <2> HIDE DEF m
    <2>2. m = n
      <3>1. m <= n
        <4>1. CASE m = 0  BY <4>1, SMT
        <4>2. CASE m # 0
          <5>1. m \in 1..m  BY <2>1, <4>2, SMT
          <5>2. m \in 1..n  BY <5>1, <2>1
          <5> QED BY <5>2, SMT
        <4> QED BY <4>1, <4>2
      <3>2. n <= m
        <4>1. CASE n = 0  BY <2>1, <4>1, SMT
        <4>2. CASE n # 0
          <5>1. n \in 1..n  BY <4>2, SMT
          <5>2. n \in 1..m  BY <5>1, <2>1
          <5> QED BY <5>2, SMT
        <4> QED BY <4>1, <4>2
      <3> QED BY <3>1, <3>2, <2>1, SMT
    <2> QED BY <2>2 DEF m
  <1> QED BY <1>1, <1>2, <1>3

\* What a list looks like.
LEMMA ListFacts ==
    ASSUME NEW n \in Nat, NEW l \in List(n)
    PROVE  /\ l \in Seq(Page(n)) /\ l # << >> /\ Len(l) \in Nat \ {0} /\ DOMAIN l = 1..Len(l)
           /\ Len(l) \in DOMAIN l
           /\ \A p \in DOMAIN l :
                /\ l[p] \in Page(n) /\ l[p].epoch \in 0..MaxEpoch
                /\ l[p].entries \in Seq(Entries(n)) /\ Len(l[p].entries) \in Nat
                /\ DOMAIN l[p].entries = 1..Len(l[p].entries)
                /\ Len(l[p].entries) <= EntriesPerPage
                /\ \A k \in DOMAIN l[p].entries : l[p].entries[k] \in Entries(n)
  <1>1. l \in Seq(Page(n)) /\ l # << >> /\ \A p \in DOMAIN l : Len(l[p].entries) <= EntriesPerPage
    BY DEF List
  <1>2. Len(l) \in Nat \ {0} /\ DOMAIN l = 1..Len(l)  BY <1>1, EmptySeq, LenProperties
  <1>3. Len(l) \in DOMAIN l  BY <1>2, SMT
  <1>4. ASSUME NEW p \in DOMAIN l
        PROVE  /\ l[p] \in Page(n) /\ l[p].epoch \in 0..MaxEpoch
               /\ l[p].entries \in Seq(Entries(n)) /\ Len(l[p].entries) \in Nat
               /\ DOMAIN l[p].entries = 1..Len(l[p].entries)
               /\ \A k \in DOMAIN l[p].entries : l[p].entries[k] \in Entries(n)
    <2>1. l[p] \in Page(n)  BY <1>1, <1>2, ElementOfSeq
    <2>2. l[p].epoch \in 0..MaxEpoch /\ l[p].entries \in Seq(Entries(n))  BY <2>1 DEF Page
    <2>3. Len(l[p].entries) \in Nat /\ DOMAIN l[p].entries = 1..Len(l[p].entries)
      BY <2>2, LenProperties
    <2> QED BY <2>1, <2>2, <2>3, ElementOfSeq
  <1> QED BY <1>1, <1>2, <1>3, <1>4

\* The entries of a list.
LEMMA EntryFacts ==
    ASSUME NEW n \in Nat, NEW l \in List(n), NEW p \in DOMAIN l, NEW k \in DOMAIN l[p].entries
    PROVE  /\ l[p].entries[k] \in Entries(n)
           /\ l[p].entries[k].v \in 1..n /\ l[p].entries[k].deleted \in BOOLEAN
           /\ l[p].entries[k] = [v |-> l[p].entries[k].v, deleted |-> l[p].entries[k].deleted]
  <1>1. l[p].entries[k] \in Entries(n)  BY ListFacts
  <1> QED BY <1>1 DEF Entries

\* More versions do not disturb a list.
LEMMA ListGrows ==
    ASSUME NEW n \in Nat, NEW m \in Nat, n <= m, NEW l \in List(n)
    PROVE  l \in List(m)
  <1>1. 1..n \subseteq 1..m  BY SMT
  <1>2. Entries(n) \subseteq Entries(m)  BY <1>1 DEF Entries
  <1>3. Page(n) \subseteq Page(m)
    <2>1. ASSUME NEW x \in Seq(Entries(n)) PROVE x \in Seq(Entries(m))  BY <1>2, SeqMonotonic
    <2> QED BY <2>1 DEF Page
  <1>4. l \in Seq(Page(n)) /\ l # << >> /\ \A p \in DOMAIN l : Len(l[p].entries) <= EntriesPerPage
    BY DEF List
  <1>5. l \in Seq(Page(m))  BY <1>3, <1>4, SeqMonotonic
  <1> QED BY <1>4, <1>5 DEF List

\* An entry that is not marked deleted names a version.
LEMMA AtNames ==
    ASSUME NEW n \in Nat, NEW l \in List(n), NEW p, NEW k, NEW v, At(l, p, k, v)
    PROVE  v \in 1..n
  <1>1. p \in DOMAIN l /\ k \in DOMAIN l[p].entries /\ l[p].entries[k] = Entry(v)  BY DEF At
  <1>2. Entry(v).v \in 1..n  BY <1>1, EntryFacts
  <1> QED BY <1>2 DEF Entry

\* A list of one empty page has no entry.
LEMMA EmptyList ==
    ASSUME NEW n \in Nat, NEW e \in 0..MaxEpoch
    PROVE  <<EmptyPage(e)>> \in List(n) /\ \A p, k, v : ~At(<<EmptyPage(e)>>, p, k, v)
  <1> DEFINE l == <<EmptyPage(e)>>
  <1>1. EmptyPage(e) \in Page(n)
    <2>1. << >> \in Seq(Entries(n))  BY EmptySeq
    <2> QED BY <2>1 DEF Page, EmptyPage
  <1>2. l \in Seq(Page(n)) /\ Len(l) = 1 /\ l[1] = EmptyPage(e) /\ l # << >> /\ DOMAIN l = {1}
    BY <1>1, SMT
  <1>3. EmptyPage(e).entries = << >>  BY DEF EmptyPage
  <1>4. Len(<< >>) = 0 /\ DOMAIN << >> = {}  BY SMT
  <1>5. Len(<< >>) <= EntriesPerPage  BY <1>4, SnapshotConstants, SMT
  <1> HIDE DEF l
  <1>6. l \in List(n)  BY <1>2, <1>3, <1>5 DEF List
  <1>7. \A p, k, v : ~At(l, p, k, v)  BY <1>2, <1>3, <1>4 DEF At
  <1> QED BY <1>6, <1>7 DEF l

\* A list that follows another one keeps its entries.
LEMMA Concatenated ==
    ASSUME NEW n \in Nat, NEW l \in List(n), NEW m \in List(n)
    PROVE  /\ l \o m \in List(n)
           /\ \A p, k, v : At(l \o m, p, k, v)
                <=> At(l, p, k, v) \/ (p \in Int /\ p > Len(l) /\ At(m, p - Len(l), k, v))
  <1> DEFINE lm == l \o m
  <1>1. /\ lm \in Seq(Page(n)) /\ Len(lm) = Len(l) + Len(m)
        /\ \A p \in 1..(Len(l) + Len(m)) : lm[p] = IF p <= Len(l) THEN l[p] ELSE m[p - Len(l)]
    BY ListFacts, ConcatProperties
  <1>2. /\ Len(l) \in Nat \ {0} /\ Len(m) \in Nat \ {0}
        /\ DOMAIN l = 1..Len(l) /\ DOMAIN m = 1..Len(m) /\ DOMAIN lm = 1..(Len(l) + Len(m))
    BY <1>1, ListFacts, LenProperties
  <1> HIDE DEF lm
  <1>3. ASSUME NEW p \in DOMAIN l PROVE p \in DOMAIN lm /\ lm[p] = l[p]
    <2>1. p \in 1..(Len(l) + Len(m)) /\ p <= Len(l)  BY <1>2, SMT
    <2> QED BY <2>1, <1>1, <1>2
  <1>4. ASSUME NEW p \in Int, p > Len(l), p - Len(l) \in DOMAIN m
        PROVE  p \in DOMAIN lm /\ lm[p] = m[p - Len(l)]
    <2>1. p \in 1..(Len(l) + Len(m)) /\ ~(p <= Len(l))  BY <1>2, <1>4, SMT
    <2> QED BY <2>1, <1>1, <1>2
  <1>5. ASSUME NEW p \in DOMAIN lm
        PROVE  p \in DOMAIN l \/ (p \in Int /\ p > Len(l) /\ p - Len(l) \in DOMAIN m)
    BY <1>2, SMT
  <1>6. lm # << >>
    <2>1. Len(l) \in DOMAIN lm  BY <1>3, ListFacts
    <2>2. DOMAIN << >> = {}  BY SMT
    <2> QED BY <2>1, <2>2
  <1>7. ASSUME NEW p \in DOMAIN lm PROVE Len(lm[p].entries) <= EntriesPerPage
    <2>1. CASE p \in DOMAIN l  BY <2>1, <1>3, ListFacts
    <2>2. CASE p \in Int /\ p > Len(l) /\ p - Len(l) \in DOMAIN m  BY <2>2, <1>4, ListFacts
    <2> QED BY <2>1, <2>2, <1>5
  <1>8. lm \in List(n)  BY <1>1, <1>6, <1>7 DEF List
  <1>9. ASSUME NEW p, NEW k, NEW v
        PROVE  At(lm, p, k, v) <=> At(l, p, k, v) \/ (p \in Int /\ p > Len(l) /\ At(m, p - Len(l), k, v))
    <2>1. CASE p \in DOMAIN l
      <3>1. lm[p] = l[p] /\ p \in DOMAIN lm  BY <2>1, <1>3
      <3>2. ~(p > Len(l))  BY <2>1, <1>2, SMT
      <3> QED BY <2>1, <3>1, <3>2 DEF At
    <2>2. CASE p \in Int /\ p > Len(l) /\ p - Len(l) \in DOMAIN m
      <3>1. p \in DOMAIN lm /\ lm[p] = m[p - Len(l)]  BY <2>2, <1>4
      <3>2. p \notin DOMAIN l  BY <2>2, <1>2, SMT
      <3> QED BY <2>2, <3>1, <3>2 DEF At
    <2>3. CASE p \notin DOMAIN lm
      <3>1. p \notin DOMAIN l  BY <2>3, <1>3
      <3>2. ~(p \in Int /\ p > Len(l) /\ p - Len(l) \in DOMAIN m)  BY <2>3, <1>4
      <3> QED BY <2>3, <3>1, <3>2 DEF At
    <2> QED BY <2>1, <2>2, <2>3, <1>5
  <1> QED BY <1>8, <1>9 DEF lm

\* Marking an entry.
IsEntry(e) == e.deleted \in BOOLEAN /\ e = [v |-> e.v, deleted |-> e.deleted]

\* A marked entry is not one that is still to be freed.
LEMMA MarkedIsEntry ==
    ASSUME NEW e, NEW vs, NEW v, IsEntry(e)
    PROVE  MarkedEntry(e, vs) = Entry(v) <=> e = Entry(v) /\ v \notin vs
  <1>0. e.deleted \in BOOLEAN /\ e = [v |-> e.v, deleted |-> e.deleted]  BY DEF IsEntry
  <1>1. /\ MarkedEntry(e, vs).v = e.v /\ MarkedEntry(e, vs).deleted = (e.deleted \/ e.v \in vs)
        /\ MarkedEntry(e, vs) = [v |-> e.v, deleted |-> (e.deleted \/ e.v \in vs)]
    BY DEF MarkedEntry
  <1>2. Entry(v).v = v /\ Entry(v).deleted = FALSE /\ Entry(v) = [v |-> v, deleted |-> FALSE]
    BY DEF Entry
  <1>3. ASSUME MarkedEntry(e, vs) = Entry(v) PROVE e = Entry(v) /\ v \notin vs
    <2>1. e.v = v /\ (e.deleted \/ e.v \in vs) = FALSE  BY <1>1, <1>2, <1>3
    <2>2. ~e.deleted /\ v \notin vs  BY <2>1
    <2>3. e.deleted = FALSE  BY <1>0, <2>2
    <2> QED BY <2>1, <2>2, <2>3, <1>0, <1>2
  <1>4. ASSUME e = Entry(v), v \notin vs PROVE MarkedEntry(e, vs) = Entry(v)
    <2>1. e.v = v /\ e.deleted = FALSE  BY <1>2, <1>4
    <2>2. (e.deleted \/ e.v \in vs) = FALSE  BY <2>1, <1>4
    <2> QED BY <2>1, <2>2, <1>1, <1>2
  <1> QED BY <1>3, <1>4

\* A list g with the pages of l in which entries may have been marked, or the epochs
\* have changed.
Rewrite(g, l, n, vs) ==
    /\ g = [p \in DOMAIN l |-> g[p]]
    /\ \A p \in DOMAIN l :
         /\ g[p] = [epoch |-> g[p].epoch, entries |-> g[p].entries]
         /\ g[p].epoch \in 0..MaxEpoch
         /\ g[p].entries = [k \in DOMAIN l[p].entries |-> MarkedEntry(l[p].entries[k], vs)]

\* Such a list is one, and its entries are those of l without the marked ones.
LEMMA Rewritten ==
    ASSUME NEW n \in Nat, NEW l \in List(n), NEW g, NEW vs, Rewrite(g, l, n, vs)
    PROVE  /\ g \in List(n)
           /\ \A p, k, v : At(g, p, k, v) <=> At(l, p, k, v) /\ v \notin vs
  <1>0. DOMAIN g = DOMAIN l /\ g = [p \in DOMAIN l |-> g[p]]  BY DEF Rewrite
  <1>1. ASSUME NEW p \in DOMAIN l
        PROVE  /\ g[p] \in Page(n) /\ Len(g[p].entries) <= EntriesPerPage
               /\ DOMAIN g[p].entries = DOMAIN l[p].entries
               /\ \A k \in DOMAIN l[p].entries : g[p].entries[k] = MarkedEntry(l[p].entries[k], vs)
    <2>1. /\ g[p].epoch \in 0..MaxEpoch /\ g[p] = [epoch |-> g[p].epoch, entries |-> g[p].entries]
          /\ g[p].entries = [k \in DOMAIN l[p].entries |-> MarkedEntry(l[p].entries[k], vs)]
      BY DEF Rewrite
    <2>2. /\ Len(l[p].entries) \in Nat /\ DOMAIN l[p].entries = 1..Len(l[p].entries)
          /\ Len(l[p].entries) <= EntriesPerPage
      BY ListFacts
    <2>3. ASSUME NEW k \in DOMAIN l[p].entries PROVE MarkedEntry(l[p].entries[k], vs) \in Entries(n)
      <3>1. l[p].entries[k].v \in 1..n /\ l[p].entries[k].deleted \in BOOLEAN  BY EntryFacts
      <3>2. (l[p].entries[k].deleted \/ l[p].entries[k].v \in vs) \in BOOLEAN  OBVIOUS
      <3> QED BY <3>1, <3>2 DEF Entries, MarkedEntry
    <2>4. g[p].entries \in [DOMAIN l[p].entries -> Entries(n)]  BY <2>1, <2>3
    <2>5. g[p].entries \in Seq(Entries(n)) /\ Len(g[p].entries) = Len(l[p].entries)
      BY <2>4, <2>2, FunctionIsSeq
    <2>6. g[p] \in Page(n)  BY <2>1, <2>5 DEF Page
    <2> QED BY <2>1, <2>2, <2>5, <2>6
  <1>2. g \in Seq(Page(n)) /\ g # << >>
    <2>1. Len(l) \in Nat /\ DOMAIN l = 1..Len(l) /\ Len(l) \in DOMAIN l  BY ListFacts
    <2>2. g \in [1..Len(l) -> Page(n)]  BY <1>0, <1>1, <2>1
    <2>3. DOMAIN << >> = {}  BY SMT
    <2>4. g # << >>  BY <1>0, <2>1, <2>3
    <2> QED BY <2>1, <2>2, <2>4, FunctionIsSeq
  <1>3. g \in List(n)  BY <1>0, <1>1, <1>2 DEF List
  <1>4. ASSUME NEW p, NEW k, NEW v PROVE At(g, p, k, v) <=> At(l, p, k, v) /\ v \notin vs
    <2>1. CASE p \in DOMAIN l /\ k \in DOMAIN l[p].entries
      <3> DEFINE e == l[p].entries[k]
      <3>1. IsEntry(e)  BY <2>1, EntryFacts DEF IsEntry
      <3>2. At(l, p, k, v) <=> e = Entry(v)  BY <2>1 DEF At
      <3>3. At(g, p, k, v) <=> MarkedEntry(e, vs) = Entry(v)
        BY <2>1, <1>0, <1>1 DEF At
      <3> HIDE DEF e
      <3> QED BY <3>1, <3>2, <3>3, MarkedIsEntry
    <2>2. CASE ~(p \in DOMAIN l /\ k \in DOMAIN l[p].entries)
      BY <2>2, <1>0, <1>1 DEF At
    <2> QED BY <2>1, <2>2
  <1> QED BY <1>3, <1>4

\* Marking takes entries away.
LEMMA MarkedEntries ==
    ASSUME NEW n \in Nat, NEW l \in List(n), NEW vs
    PROVE  /\ Marked(l, vs) \in List(n)
           /\ \A p, k, v : At(Marked(l, vs), p, k, v) <=> At(l, p, k, v) /\ v \notin vs
  <1> DEFINE g == Marked(l, vs)
  <1>1. /\ g = [p \in DOMAIN l |-> g[p]]
        /\ \A p \in DOMAIN l :
             g[p] = [epoch |-> l[p].epoch,
                     entries |-> [k \in DOMAIN l[p].entries |-> MarkedEntry(l[p].entries[k], vs)]]
    BY DEF Marked
  <1> HIDE DEF g
  <1>2. ASSUME NEW p \in DOMAIN l
        PROVE  /\ g[p] = [epoch |-> g[p].epoch, entries |-> g[p].entries]
               /\ g[p].epoch \in 0..MaxEpoch
               /\ g[p].entries = [k \in DOMAIN l[p].entries |-> MarkedEntry(l[p].entries[k], vs)]
    <2>1. l[p].epoch \in 0..MaxEpoch  BY ListFacts
    <2>2. g[p] = [epoch |-> l[p].epoch,
                  entries |-> [k \in DOMAIN l[p].entries |-> MarkedEntry(l[p].entries[k], vs)]]
      BY <1>1
    <2> QED BY <2>1, <2>2, SMT
  <1>3. Rewrite(g, l, n, vs)  BY <1>1, <1>2 DEF Rewrite
  <1>4. g \in List(n) /\ \A p, k, v : At(g, p, k, v) <=> At(l, p, k, v) /\ v \notin vs
    BY <1>3, Rewritten
  <1> QED BY <1>4 DEF g

\* A list that comes back from persistent memory has the same entries.
Restored(l, s) == [p \in DOMAIN l |-> [l[p] EXCEPT !.epoch = s]]

\* Only the epochs of its pages change.
LEMMA RestoredEntries ==
    ASSUME NEW n \in Nat, NEW l \in List(n), NEW s \in 0..MaxEpoch
    PROVE  /\ Restored(l, s) \in List(n)
           /\ \A p, k, v : At(Restored(l, s), p, k, v) <=> At(l, p, k, v)
  <1> DEFINE g == Restored(l, s)
  <1>1. /\ g = [p \in DOMAIN l |-> g[p]]
        /\ \A p \in DOMAIN l : g[p] = [l[p] EXCEPT !.epoch = s]
    BY DEF Restored
  <1> HIDE DEF g
  <1>2. ASSUME NEW p \in DOMAIN l
        PROVE  /\ g[p] = [epoch |-> g[p].epoch, entries |-> g[p].entries]
               /\ g[p].epoch \in 0..MaxEpoch
               /\ g[p].entries = [k \in DOMAIN l[p].entries |-> MarkedEntry(l[p].entries[k], {})]
    <2> DEFINE E == l[p].entries
    <2>1. l[p] \in Page(n) /\ E \in Seq(Entries(n))  BY ListFacts
    <2>2. g[p] = [epoch |-> s, entries |-> E]  BY <1>1, <2>1 DEF Page
    <2>3. E = [k \in DOMAIN E |-> E[k]]  BY <2>1, LenProperties
    <2>4. g[p].entries = E /\ g[p].epoch = s  BY <2>2, SMT
    <2>5. ASSUME NEW k \in DOMAIN E PROVE E[k] = MarkedEntry(E[k], {})
      <3>1. E[k].deleted \in BOOLEAN /\ E[k] = [v |-> E[k].v, deleted |-> E[k].deleted]  BY EntryFacts
      <3>2. (E[k].deleted \/ E[k].v \in {}) = E[k].deleted  BY <3>1
      <3> QED BY <3>1, <3>2 DEF MarkedEntry
    <2>6. E = [k \in DOMAIN E |-> MarkedEntry(E[k], {})]
      <3> HIDE DEF E
      <3> QED BY <2>3, <2>5
    <2> QED BY <2>2, <2>4, <2>6
  <1>3. Rewrite(g, l, n, {})  BY <1>1, <1>2 DEF Rewrite
  <1>4. g \in List(n) /\ \A p, k, v : At(g, p, k, v) <=> At(l, p, k, v) /\ v \notin {}
    BY <1>3, Rewritten
  <1> QED BY <1>4 DEF g

\* One entry more, for v, in a place that had none.
OneMore(g, l, v) ==
    \E q, j : /\ \A u : ~At(l, q, j, u)
              /\ \A p, k, u : At(g, p, k, u) <=> At(l, p, k, u) \/ (p = q /\ k = j /\ u = v)

\* Entries are told apart by the version they name.
LEMMA EntryInjective ==
    ASSUME NEW u, NEW v, Entry(u) = Entry(v)
    PROVE  u = v
  <1>1. Entry(u).v = u /\ Entry(v).v = v  BY DEF Entry
  <1> QED BY <1>1

\* An entry goes to the end of the last page, or to a new one.
LEMMA AppendedEntry ==
    ASSUME NEW n \in Nat, NEW l \in List(n), NEW s \in 0..MaxEpoch, NEW v \in 1..n
    PROVE  WithEntry(l, s, Entry(v)) \in List(n) /\ OneMore(WithEntry(l, s, Entry(v)), l, v)
  <1> DEFINE m == Len(l)
             E == l[m].entries
             g == WithEntry(l, s, Entry(v))
  <1>1. /\ l \in Seq(Page(n)) /\ m \in Nat \ {0} /\ DOMAIN l = 1..m /\ m \in DOMAIN l
        /\ l[m] \in Page(n) /\ l[m].epoch \in 0..MaxEpoch
        /\ E \in Seq(Entries(n)) /\ Len(E) \in Nat /\ DOMAIN E = 1..Len(E) /\ Len(E) <= EntriesPerPage
        /\ \A p \in DOMAIN l : Len(l[p].entries) <= EntriesPerPage
    BY ListFacts
  <1>2. Entry(v) \in Entries(n)  BY DEF Entry, Entries
  <1>3. DOMAIN << >> = {}  BY SMT
  <1>4. CASE Len(E) < EntriesPerPage
    <2> DEFINE F == Append(E, Entry(v))
               j == Len(E) + 1
    <2>1. g = [l EXCEPT ![m] = [l[m] EXCEPT !.entries = F]]  BY <1>4 DEF WithEntry
    <2>2. /\ F \in Seq(Entries(n)) /\ Len(F) = j /\ F[j] = Entry(v)
          /\ \A k \in 1..Len(E) : F[k] = E[k]
      <3>1. E \in Seq(Entries(n))  BY <1>1
      <3> HIDE DEF E
      <3> QED BY <3>1, <1>2, SMT
    <2>3. DOMAIN F = 1..j  BY <2>2, LenProperties
    <2>4. Len(F) <= EntriesPerPage  BY <1>1, <1>4, <2>2, SnapshotConstants, SMT
    <2> HIDE DEF F, E
    <2>5. [l[m] EXCEPT !.entries = F] = [epoch |-> l[m].epoch, entries |-> F]
      <3>1. l[m] \in Page(n)  BY <1>1
      <3> QED BY <3>1, SMT DEF Page
    <2>6. [epoch |-> l[m].epoch, entries |-> F] \in Page(n)  BY <1>1, <2>2 DEF Page
    <2>7. g = [l EXCEPT ![m] = [epoch |-> l[m].epoch, entries |-> F]]  BY <2>1, <2>5
    <2> HIDE DEF g, m
    <2>8. /\ g \in Seq(Page(n)) /\ DOMAIN g = DOMAIN l
          /\ g[m] = [epoch |-> l[m].epoch, entries |-> F]
          /\ \A p \in DOMAIN l : p # m => g[p] = l[p]
      <3>1. g \in Seq(Page(n))
        <4> DEFINE page == [epoch |-> l[m].epoch, entries |-> F]
        <4>1. l \in Seq(Page(n)) /\ m \in 1..Len(l) /\ page \in Page(n)  BY <1>1, <2>6 DEF m
        <4>2. g = [l EXCEPT ![m] = page]  BY <2>7
        <4> HIDE DEF page
        <4> QED BY <4>1, <4>2, ExceptSeq
      <3> QED BY <3>1, <2>7, <1>1
    <2>9. g[m].entries = F  BY <2>8, SMT
    <2>10. g \in List(n)
      <3>1. g # << >>  BY <1>1, <1>3, <2>8
      <3>2. ASSUME NEW p \in DOMAIN g PROVE Len(g[p].entries) <= EntriesPerPage
        BY <1>1, <2>4, <2>8, <2>9
      <3> QED BY <2>8, <3>1, <3>2 DEF List
    <2>11. j \notin 1..Len(E) /\ 1..j = (1..Len(E)) \cup {j}  BY <1>1, SMT
    <2> HIDE DEF j
    <2>12. \A u : ~At(l, m, j, u)  BY <1>1, <2>11 DEF At, E
    <2>13. ASSUME NEW p, NEW k, NEW u
           PROVE  At(g, p, k, u) <=> At(l, p, k, u) \/ (p = m /\ k = j /\ u = v)
      <3>1. CASE p = m
        <4>1. At(g, p, k, u) <=> k \in 1..j /\ F[k] = Entry(u)
          BY <3>1, <2>8, <2>9, <2>3, <1>1 DEF At
        <4>2. At(l, p, k, u) <=> k \in 1..Len(E) /\ E[k] = Entry(u)
          BY <3>1, <1>1 DEF At, E
        <4>3. CASE k \in 1..Len(E)  BY <3>1, <4>1, <4>2, <4>3, <2>2, <2>11
        <4>4. CASE k = j
          <5>1. F[k] = Entry(u) <=> u = v  BY <4>4, <2>2, EntryInjective
          <5> QED BY <3>1, <4>1, <4>2, <4>4, <5>1, <2>11
        <4>5. CASE k \notin 1..j  BY <4>1, <4>2, <4>5, <2>11
        <4> QED BY <4>3, <4>4, <4>5, <2>11
      <3>2. CASE p # m  BY <3>2, <2>8 DEF At
      <3> QED BY <3>1, <3>2
    <2>14. OneMore(g, l, v)  BY <2>12, <2>13 DEF OneMore
    <2> QED BY <2>10, <2>14 DEF g
  <1>5. CASE ~(Len(E) < EntriesPerPage)
    <2> DEFINE page == [epoch |-> s, entries |-> <<Entry(v)>>]
               q == m + 1
    <2>1. g = Append(l, page)  BY <1>5 DEF WithEntry
    <2>2. <<Entry(v)>> \in Seq(Entries(n)) /\ Len(<<Entry(v)>>) = 1 /\ <<Entry(v)>>[1] = Entry(v)
          /\ DOMAIN <<Entry(v)>> = {1}
      BY <1>2, SMT
    <2>3. page \in Page(n) /\ page.entries = <<Entry(v)>>
      <3>1. page \in Page(n)  BY <2>2 DEF Page
      <3> QED BY <3>1
    <2> HIDE DEF page, g, m
    <2>4. /\ g \in Seq(Page(n)) /\ Len(g) = q /\ g[q] = page
          /\ \A p \in 1..m : g[p] = l[p]
      <3>1. l \in Seq(Page(n)) /\ page \in Page(n)  BY <1>1, <2>3
      <3> QED BY <2>1, <3>1, SMT DEF m
    <2>5. DOMAIN g = 1..q  BY <2>4, LenProperties
    <2>6. q \notin 1..m /\ 1..q = (1..m) \cup {q}  BY <1>1, SMT
    <2> HIDE DEF q
    <2>7. 1 <= EntriesPerPage  BY SnapshotConstants, SMT
    <2>8. g \in List(n)
      <3>1. g # << >>  BY <1>3, <2>5, <2>6
      <3>2. ASSUME NEW p \in DOMAIN g PROVE Len(g[p].entries) <= EntriesPerPage
        <4>1. CASE p = q  BY <4>1, <2>4, <2>3, <2>2, <2>7
        <4>2. CASE p \in 1..m  BY <4>2, <2>4, <1>1
        <4> QED BY <4>1, <4>2, <2>5, <2>6
      <3> QED BY <2>4, <3>1, <3>2 DEF List
    <2>9. \A u : ~At(l, q, 1, u)  BY <1>1, <2>6 DEF At
    <2>10. ASSUME NEW p, NEW k, NEW u
           PROVE  At(g, p, k, u) <=> At(l, p, k, u) \/ (p = q /\ k = 1 /\ u = v)
      <3>1. CASE p = q
        <4>1. At(g, p, k, u) <=> k = 1 /\ Entry(v) = Entry(u)
          <5>1. At(g, p, k, u) <=> k \in {1} /\ <<Entry(v)>>[k] = Entry(u)
            BY <3>1, <2>2, <2>3, <2>4, <2>5, <2>6 DEF At
          <5> QED BY <5>1, <2>2
        <4>2. Entry(v) = Entry(u) <=> u = v  BY EntryInjective
        <4>3. k = 1 => ~At(l, p, k, u)  BY <3>1, <2>9
        <4>4. k # 1 => ~At(l, p, k, u)  BY <3>1, <2>6, <1>1 DEF At
        <4> QED BY <3>1, <4>1, <4>2, <4>3, <4>4
      <3>2. CASE p \in 1..m
        <4>1. p # q /\ g[p] = l[p] /\ p \in DOMAIN g  BY <3>2, <2>4, <2>5, <2>6
        <4> QED BY <3>2, <4>1, <1>1 DEF At
      <3>3. CASE p \notin 1..q  BY <3>3, <2>5, <2>6, <1>1 DEF At
      <3> QED BY <3>1, <3>2, <3>3, <2>6
    <2>11. OneMore(g, l, v)  BY <2>9, <2>10 DEF OneMore
    <2> QED BY <2>8, <2>11 DEF g
  <1> QED BY <1>4, <1>5

\* An entry that is still to be freed.
Unmarked(e, v) == ~e.deleted /\ e.v = v

\* It is one that is not marked deleted.
LEMMA UnmarkedIsEntry ==
    ASSUME NEW e, NEW v, IsEntry(e)
    PROVE  e = Entry(v) <=> Unmarked(e, v)
  <1>1. e.deleted \in BOOLEAN /\ e = [v |-> e.v, deleted |-> e.deleted]  BY DEF IsEntry
  <1>2. ASSUME e = Entry(v) PROVE ~e.deleted /\ e.v = v
    <2>1. Entry(v).v = v /\ Entry(v).deleted = FALSE  BY DEF Entry
    <2> QED BY <1>2, <2>1
  <1>3. ASSUME ~e.deleted, e.v = v PROVE e = Entry(v)
    <2>1. e.deleted = FALSE  BY <1>1, <1>3
    <2> QED BY <1>1, <1>3, <2>1 DEF Entry
  <1> QED BY <1>2, <1>3 DEF Unmarked

\* The walk of a whole list finds all its entries, that of its first pages some.
LEMMA PendingEntries ==
    ASSUME NEW n \in Nat, NEW l \in List(n)
    PROVE  /\ \A v : v \in Pending(l, Len(l)) <=> \E p, k : At(l, p, k, v)
           /\ \A m \in 0..Len(l) : \A v \in Pending(l, m) : \E p, k : At(l, p, k, v)
  <1>1. DOMAIN l = 1..Len(l) /\ Len(l) \in Nat  BY ListFacts
  <1>2. ASSUME NEW p \in DOMAIN l, NEW k \in DOMAIN l[p].entries, NEW v
        PROVE  l[p].entries[k] = Entry(v) <=> Unmarked(l[p].entries[k], v)
    <2>1. IsEntry(l[p].entries[k])  BY EntryFacts DEF IsEntry
    <2> QED BY <2>1, UnmarkedIsEntry
  <1>3. ASSUME NEW m \in 0..Len(l), NEW v
        PROVE  v \in Pending(l, m) <=> \E p \in 1..m : \E k \in DOMAIN l[p].entries : l[p].entries[k] = Entry(v)
    <2>1. 1..m \subseteq DOMAIN l  BY <1>1, SMT
    <2>2. v \in Pending(l, m) <=>
            \E p \in 1..m : \E k \in DOMAIN l[p].entries : Unmarked(l[p].entries[k], v)
      BY SMT DEF Pending, Unmarked
    <2>3. ASSUME NEW p \in 1..m, NEW k \in DOMAIN l[p].entries
          PROVE  l[p].entries[k] = Entry(v) <=> Unmarked(l[p].entries[k], v)
      <3>1. p \in DOMAIN l  BY <2>1
      <3> QED BY <1>2, <3>1
    <2> QED BY <2>2, <2>3, ZenonT(60)
  <1>4. ASSUME NEW m \in 0..Len(l), NEW v \in Pending(l, m) PROVE \E p, k : At(l, p, k, v)
    <2>1. 1..m \subseteq DOMAIN l  BY <1>1, SMT
    <2> QED BY <1>3, <2>1 DEF At
  <1>5. Len(l) \in 0..Len(l)  BY <1>1, SMT
  <1>6. ASSUME NEW v PROVE v \in Pending(l, Len(l)) <=> \E p, k : At(l, p, k, v)
    BY <1>1, <1>3, <1>5 DEF At
  <1> QED BY <1>4, <1>6

-----------------------------------------------------------------------------
(* The invariant.                                                           *)

Requests(n) ==
    [f : Files \cup {None}, e : 0..MaxEpoch, new : BOOLEAN, info : -1..(MaxEpoch - 1), v : 0..n]

Cleaners ==
    [pc : {"asleep", "start", "clean", "end", "awake", "ended"},
     info : -1..(MaxEpoch - 1), final : BOOLEAN]

\* Types of the epochs, the lists, the cleaner, and the versions.
EpochTypes ==
    /\ epoch \in 0..MaxEpoch /\ saved \in 0..epoch
    /\ Snapshots \subseteq 0..(MaxEpoch - 1)
    /\ taking = None \/ taking \in 0..(epoch - 1)

ListTypes ==
    /\ infos = [s \in Snapshots |-> infos[s]]
    /\ \A s \in Snapshots : infos[s] \in [CPUs -> List(Len(create))]
    /\ removing = << >> \/ removing \in [CPUs -> List(Len(create))]

CleanerTypes ==
    /\ clean \in -1..(MaxEpoch - 1) /\ cleaner \in Cleaners /\ stop \in {"no", "seen", "missed"}

VersionTypes ==
    /\ file \in [Files -> 0..Len(create)]
    /\ create \in Seq(0..MaxEpoch) /\ delete \in Seq(-1..MaxEpoch)
    /\ Len(delete) = Len(create) /\ Len(create) \in Nat
    /\ pc \in [Threads -> {"idle", "reassign", "append"}]
    /\ req \in [Threads -> Requests(Len(create))]
    /\ freed \subseteq 1..Len(create) /\ raced \subseteq 1..Len(create) /\ orphaned \subseteq 1..Len(create)

\* There is room for the versions that are being written.
Room == Len(create) + Cardinality({t \in Threads : req[t].new}) <= MaxVersions

Types == EpochTypes /\ ListTypes /\ CleanerTypes /\ VersionTypes /\ Room

\* Where the cleaner can be when it was told to stop; no snapshot is being taken then.
Stopping ==
    /\ stop # "no" => taking = None
    /\ cleaner.pc = "ended" => stop # "no"
    /\ cleaner.pc \in {"clean", "end"} /\ cleaner.final => stop # "no"
    /\ stop = "seen" => \/ cleaner.pc \in {"start", "ended"}
                        \/ cleaner.pc \in {"clean", "end"} /\ cleaner.final

\* What a writer that is at p has for a request.
WriterOK(p, r) ==
    /\ p = "idle" => r = NoRequest
    /\ p # "idle" => r.f \in Files
    /\ p = "reassign" => r.v = 0
    /\ p = "append" => r.v # 0 /\ ~r.new

\* Each writer has its file for itself.
OwnFiles ==
    \A t, u \in Threads : pc[t] # "idle" /\ pc[u] # "idle" /\ req[t].f = req[u].f => t = u

\* What a file holds is not deleted.
FilesOK ==
    /\ \A f \in Files : file[f] # 0 => delete[file[f]] = None
    /\ \A f, g \in Files : file[f] # 0 /\ file[f] = file[g] => f = g

Writers == (\A t \in Threads : WriterOK(pc[t], req[t])) /\ OwnFiles /\ FilesOK

\* Entry k of page p of list c of snapshot s names v, and v is still to be freed.
Listed(s, c, p, k, v) == s \in Snapshots /\ c \in CPUs /\ At(infos[s][c], p, k, v)

\* The versions that the lists have to keep, and those they do.
Kept(v) == delete[v] # None /\ v \notin freed /\ v \notin orphaned /\ ~InHand(v)
InInfos(v) == \E s, c, p, k : Listed(s, c, p, k, v)
InRemoving(v) == removing # << >> /\ \E c \in CPUs : \E p, k : At(removing[c], p, k, v)
InLists(v) == InInfos(v) \/ InRemoving(v)

\* A version is on a list if it has to be, in one place.
KeptOK ==
    \A v \in 1..Len(create) : (Kept(v) <=> InLists(v)) /\ ~(InInfos(v) /\ InRemoving(v))

OnePlace ==
    \A r, s, b, c, o, p, j, k, v :
      Listed(r, b, o, j, v) /\ Listed(s, c, p, k, v) => r = s /\ b = c /\ o = p /\ j = k

\* What is freed, orphaned or in the hands of a writer was deleted.
GoneOK == \A v \in freed \cup orphaned : delete[v] # None

\* Nothing is in two hands.
HandsOK ==
    /\ \A t \in Threads : req[t].v # 0 =>
         delete[req[t].v] # None /\ req[t].v \notin freed /\ req[t].v \notin orphaned
    /\ \A t, u \in Threads : req[t].v # 0 /\ req[t].v = req[u].v => t = u

\* Every version that is deleted and not freed is in one entry of one list, in the
\* hands of one writer, or orphaned.
Accounts == KeptOK /\ OnePlace /\ GoneOK /\ HandsOK

\* The snapshots in the tree, and the one that is being taken.
Live == Snapshots \cup ({taking} \ {None})

\* Snapshot s shows v of file f.
Shows(s, f, v) ==
    /\ create[v] <= s
    /\ delete[v] # None => delete[v] > s
    /\ delete[v] = None => file[f] = v
    /\ v \in freed => v \in raced

\* Numbers of snapshots grow, and nothing was written in an epoch that is still to come.
NumbersOK == \A s \in Snapshots : s < epoch /\ (taking # None => s < taking)

TimesOK ==
    /\ \A v \in 1..Len(create) : create[v] <= epoch
    /\ \A t \in Threads : req[t].e <= epoch

\* What a snapshot shows has its place in it.
ViewTypes ==
    /\ Live \subseteq DOMAIN view
    /\ \A s \in Live, f \in Files : view[s][f] \in 0..Len(create)

ViewsOK == \A s \in Live, f \in Files, v \in 1..Len(create) : view[s][f] = v => Shows(s, f, v)

\* A writer that changes a file after a snapshot does so in a later epoch.
WritersLate == \A s \in Live, t \in Threads : pc[t] # "idle" /\ view[s][req[t].f] # 0 => req[t].e > s

\* What is on the list of a snapshot, or goes there, was created after all older ones.
ListsLate == \A r \in Snapshots : \A s, c, p, k, v : Listed(s, c, p, k, v) /\ r < s => create[v] > r

HandsLate ==
    \A t \in Threads : pc[t] = "append" =>
      /\ req[t].info < epoch /\ (taking # None => req[t].info < taking)
      /\ \A r \in Snapshots : r < req[t].info => create[req[t].v] > r

\* What the last snapshot left behind is shown by none.
RemovingGone == \A s \in Live, f \in Files, v \in 1..Len(create) : view[s][f] = v => ~InRemoving(v)

\* This holds as long as no mount has gone back to an earlier epoch.
Views ==
    /\ NumbersOK /\ TimesOK /\ ViewTypes /\ ViewsOK
    /\ WritersLate /\ ListsLate /\ HandsLate /\ RemovingGone

IInv ==
    /\ Types /\ Stopping /\ Writers /\ Accounts
    /\ wentBack \in Nat
    /\ wentBack = 0 => Views

\* A set of numbers that is not empty has a least one.
LEMMA LeastNat ==
    ASSUME NEW S \in SUBSET Nat, S # {}
    PROVE  \E x \in S : \A y \in S : x <= y
  <1>1. PICK x \in S : \A y \in S : <<y, x>> \notin OpToRel(<, Nat)
    BY NatLessThanWellFounded, WFMin
  <1>2. ASSUME NEW y \in S PROVE ~(y < x)  BY <1>1 DEF OpToRel
  <1>3. ASSUME NEW y \in S PROVE x <= y
    <2>1. x \in Nat /\ y \in Nat  OBVIOUS
    <2> QED BY <1>2, <2>1, SMT
  <1> QED BY <1>3

\* The lookup of the first snapshot from e on.
LEMMA Target ==
    ASSUME EpochTypes, NEW e \in Int
    PROVE  \/ /\ nova_find_target_snapshot_info(e) = None
              /\ \A s \in Snapshots : s < e
           \/ /\ nova_find_target_snapshot_info(e) \in Snapshots
              /\ nova_find_target_snapshot_info(e) >= e
              /\ \A s \in Snapshots : s >= e => nova_find_target_snapshot_info(e) <= s
  <1> DEFINE S == {s \in Snapshots : s >= e}
  <1>1. Snapshots \subseteq Nat
    <2>1. 0..(MaxEpoch - 1) \subseteq Nat  BY SnapshotConstants, SMT
    <2> QED BY <2>1 DEF EpochTypes
  <1>2. nova_find_target_snapshot_info(e) = IF S = {} THEN None ELSE CHOOSE s \in S : \A r \in S : s <= r
    BY DEF nova_find_target_snapshot_info
  <1>3. CASE S = {}
    <2>1. ASSUME NEW s \in Snapshots PROVE s < e
      <3>1. ~(s >= e) /\ s \in Nat  BY <1>1, <1>3
      <3> QED BY <3>1, SMT
    <2> QED BY <1>2, <1>3, <2>1
  <1>4. CASE S # {}
    <2>1. S \in SUBSET Nat  BY <1>1
    <2>2. \E x \in S : \A y \in S : x <= y
      <3> HIDE DEF S
      <3> QED BY <1>4, <2>1, LeastNat
    <2> DEFINE x == CHOOSE s \in S : \A r \in S : s <= r
    <2>3. x \in S /\ \A y \in S : x <= y  BY <2>2
    <2>4. nova_find_target_snapshot_info(e) = x  BY <1>2, <1>4
    <2> HIDE DEF x
    <2>5. x \in Snapshots /\ x >= e /\ \A s \in Snapshots : s >= e => x <= s  BY <2>3
    <2> QED BY <2>4, <2>5
  <1> QED BY <1>3, <1>4

-----------------------------------------------------------------------------
(* Types.                                                                   *)

\* The parts of the types that a step leaves alone.
LEMMA SameEpochs ==
    ASSUME EpochTypes, UNCHANGED <<epoch, saved, infos, taking>>
    PROVE  EpochTypes'
  <1>1. epoch' = epoch /\ saved' = saved /\ infos' = infos /\ taking' = taking  OBVIOUS
  <1> QED BY <1>1 DEF EpochTypes, Snapshots

\* The same for the lists.
LEMMA SameLists ==
    ASSUME ListTypes, UNCHANGED <<infos, removing, create>>
    PROVE  ListTypes'
  <1>1. infos' = infos /\ removing' = removing /\ create' = create  OBVIOUS
  <1> QED BY <1>1 DEF ListTypes, Snapshots

\* The same for the versions and the requests; a step may free some.
LEMMA SameVersions ==
    ASSUME VersionTypes, Room, UNCHANGED <<versions, pc, req, orphaned>>,
           NEW vs, vs \subseteq 1..Len(create),
           freed' = freed \cup vs, raced' \subseteq raced \cup vs
    PROVE  VersionTypes' /\ Room'
  <1>1. /\ file' = file /\ create' = create /\ delete' = delete /\ pc' = pc /\ req' = req
        /\ orphaned' = orphaned
    BY DEF versions
  <1> QED BY <1>1 DEF VersionTypes, Room

\* The lists hold versions only.
LEMMA ListedVersions ==
    ASSUME ListTypes, VersionTypes
    PROVE  /\ \A s, c, p, k, v : Listed(s, c, p, k, v) => v \in 1..Len(create)
           /\ \A v : InInfos(v) => v \in 1..Len(create)
           /\ \A v : InRemoving(v) => v \in 1..Len(create)
  <1>1. Len(create) \in Nat  BY DEF VersionTypes
  <1>2. ASSUME NEW s, NEW c, NEW p, NEW k, NEW v, Listed(s, c, p, k, v)
        PROVE  v \in 1..Len(create)
    <2>1. s \in Snapshots /\ c \in CPUs /\ At(infos[s][c], p, k, v)  BY <1>2 DEF Listed
    <2>2. infos[s][c] \in List(Len(create))  BY <2>1 DEF ListTypes
    <2> QED BY <1>1, <2>1, <2>2, AtNames
  <1>3. ASSUME removing # << >>, NEW c \in CPUs, NEW p, NEW k, NEW v, At(removing[c], p, k, v)
        PROVE  v \in 1..Len(create)
    <2>1. removing[c] \in List(Len(create))  BY <1>3 DEF ListTypes
    <2> QED BY <1>1, <1>3, <2>1, AtNames
  <1> QED BY <1>2, <1>3 DEF InInfos, InRemoving

\* Only the cleaner, its request and the order to stop change.
LEMMA CleanerOnly ==
    ASSUME Types, CleanerTypes',
           UNCHANGED <<epoch, saved, infos, taking, removing, versions, pc, req, freed, raced, orphaned>>
    PROVE  Types'
  <1>1. EpochTypes'  BY SameEpochs DEF Types
  <1>2. ListTypes'  BY SameLists DEF Types, versions
  <1>3. /\ UNCHANGED <<versions, pc, req, orphaned>> /\ {} \subseteq 1..Len(create)
        /\ freed' = freed \cup {} /\ raced' \subseteq raced \cup {}
    OBVIOUS
  <1>4. VersionTypes' /\ Room'  BY <1>3, SameVersions DEF Types
  <1> QED BY <1>1, <1>2, <1>4 DEF Types

\* The steps of the cleaner that free nothing, and kthread_stop.
LEMMA CleanerSteps ==
    ASSUME Types, Stopping,
           \/ nova_clean_snapshot_begin \/ nova_clean_snapshot_end
           \/ snapshot_cleaner_try_sleeping \/ kthread_stop
    PROVE  Types' /\ Stopping'
  <1>1. UNCHANGED <<epoch, saved, infos, taking, removing, versions, pc, req, freed, raced, orphaned>>
    BY DEF nova_clean_snapshot_begin, nova_clean_snapshot_end, snapshot_cleaner_try_sleeping,
           kthread_stop
  <1>2. /\ clean \in -1..(MaxEpoch - 1) /\ cleaner \in Cleaners /\ stop \in {"no", "seen", "missed"}
        /\ cleaner.pc \in {"asleep", "start", "clean", "end", "awake", "ended"}
        /\ cleaner.info \in -1..(MaxEpoch - 1) /\ cleaner.final \in BOOLEAN
        /\ cleaner = [pc |-> cleaner.pc, info |-> cleaner.info, final |-> cleaner.final]
    BY DEF Types, CleanerTypes, Cleaners
  <1>3. None \in -1..(MaxEpoch - 1)  BY SnapshotConstants, SMT DEF None
  <1> USE DEF Stopping
  <1>4. CASE nova_clean_snapshot_begin
    <2>0. clean' = clean /\ stop' = stop /\ taking' = taking /\ cleaner.pc = "start"
      BY <1>4 DEF nova_clean_snapshot_begin
    <2>1. CASE clean # None
      <3>1. cleaner' = [pc |-> "clean", info |-> clean, final |-> stop # "no"]
        BY <1>4, <2>1 DEF nova_clean_snapshot_begin
      <3>2. (stop # "no") \in BOOLEAN  OBVIOUS
      <3>3. CleanerTypes'  BY <1>2, <2>0, <3>1, <3>2 DEF CleanerTypes, Cleaners
      <3>4. cleaner'.pc = "clean" /\ cleaner'.final = (stop # "no")  BY <3>1
      <3>5. Stopping'  BY <2>0, <3>4
      <3> QED BY <1>1, <3>3, <3>5, CleanerOnly
    <2>2. CASE clean = None /\ stop = "no"
      <3>1. cleaner' = Fresh  BY <1>4, <2>2 DEF nova_clean_snapshot_begin
      <3>2. cleaner'.pc = "awake" /\ cleaner'.final = FALSE /\ cleaner' \in Cleaners
        BY <1>3, <3>1 DEF Fresh, Cleaners
      <3>3. CleanerTypes' /\ Stopping'  BY <1>2, <2>0, <2>2, <3>2 DEF CleanerTypes
      <3> QED BY <1>1, <3>3, CleanerOnly
    <2>3. CASE clean = None /\ stop # "no"
      <3>1. cleaner' = [Fresh EXCEPT !.pc = "ended"]  BY <1>4, <2>3 DEF nova_clean_snapshot_begin
      <3>2. cleaner' = [pc |-> "ended", info |-> None, final |-> FALSE]  BY <3>1 DEF Fresh
      <3>3. cleaner'.pc = "ended" /\ cleaner'.final = FALSE /\ cleaner' \in Cleaners
        BY <1>3, <3>2 DEF Cleaners
      <3>4. CleanerTypes' /\ Stopping'  BY <1>2, <2>0, <2>3, <3>3 DEF CleanerTypes
      <3> QED BY <1>1, <3>4, CleanerOnly
    <2> QED BY <2>1, <2>2, <2>3
  <1>5. CASE nova_clean_snapshot_end
    <2>0. clean' = None /\ stop' = stop /\ taking' = taking /\ cleaner.pc = "end"
      BY <1>5 DEF nova_clean_snapshot_end
    <2>1. CASE cleaner.final
      <3>1. cleaner' = [Fresh EXCEPT !.pc = "ended"]  BY <1>5, <2>1 DEF nova_clean_snapshot_end
      <3>2. cleaner' = [pc |-> "ended", info |-> None, final |-> FALSE]  BY <3>1 DEF Fresh
      <3>3. cleaner'.pc = "ended" /\ cleaner'.final = FALSE /\ cleaner' \in Cleaners
        BY <1>3, <3>2 DEF Cleaners
      <3>4. CleanerTypes' /\ Stopping'  BY <1>2, <1>3, <2>0, <2>1, <3>3 DEF CleanerTypes
      <3> QED BY <1>1, <3>4, CleanerOnly
    <2>2. CASE ~cleaner.final
      <3>1. cleaner' = Fresh  BY <1>5, <2>2 DEF nova_clean_snapshot_end
      <3>2. cleaner'.pc = "awake" /\ cleaner'.final = FALSE /\ cleaner' \in Cleaners
        BY <1>3, <3>1 DEF Fresh, Cleaners
      <3>3. CleanerTypes' /\ Stopping'  BY <1>2, <1>3, <2>0, <2>2, <3>2 DEF CleanerTypes
      <3> QED BY <1>1, <3>3, CleanerOnly
    <2> QED BY <2>1, <2>2
  <1>6. CASE snapshot_cleaner_try_sleeping
    <2>0. clean' = clean /\ stop' = stop /\ taking' = taking /\ cleaner.pc = "awake"
      BY <1>6 DEF snapshot_cleaner_try_sleeping
    <2>1. cleaner' = [pc |-> "asleep", info |-> cleaner.info, final |-> cleaner.final]
      BY <1>2, <1>6 DEF snapshot_cleaner_try_sleeping
    <2>2. cleaner'.pc = "asleep" /\ cleaner' \in Cleaners  BY <1>2, <2>1 DEF Cleaners
    <2>3. CleanerTypes' /\ Stopping'  BY <1>2, <2>0, <2>2 DEF CleanerTypes
    <2> QED BY <1>1, <2>3, CleanerOnly
  <1>7. CASE kthread_stop
    <2>0. /\ clean' = clean /\ taking' = taking /\ taking = None /\ stop = "no"
          /\ stop' = IF cleaner.pc \in {"asleep", "start"} THEN "seen" ELSE "missed"
      BY <1>7 DEF kthread_stop
    <2>1. CASE cleaner.pc = "asleep"
      <3>1. cleaner' = [pc |-> "start", info |-> cleaner.info, final |-> cleaner.final]
        BY <1>2, <1>7, <2>1 DEF kthread_stop
      <3>2. cleaner'.pc = "start" /\ cleaner' \in Cleaners  BY <1>2, <3>1 DEF Cleaners
      <3>3. stop' = "seen"  BY <2>0, <2>1
      <3>4. CleanerTypes' /\ Stopping'  BY <1>2, <2>0, <3>2, <3>3 DEF CleanerTypes
      <3> QED BY <1>1, <3>4, CleanerOnly
    <2>2. CASE cleaner.pc # "asleep"
      <3>1. cleaner' = cleaner  BY <1>7, <2>2 DEF kthread_stop
      <3>2. stop' \in {"seen", "missed"} /\ (stop' = "seen" => cleaner.pc = "start")  BY <2>0, <2>2
      <3>3. CleanerTypes' /\ Stopping'  BY <1>2, <2>0, <3>1, <3>2 DEF CleanerTypes
      <3> QED BY <1>1, <3>3, CleanerOnly
    <2> QED BY <2>1, <2>2
  <1> QED BY <1>4, <1>5, <1>6, <1>7

\* Nothing of the cleaner changes.
LEMMA SameCleaner ==
    ASSUME CleanerTypes, Stopping, UNCHANGED <<clean, cleaner, stop>>, taking' = taking \/ stop = "no"
    PROVE  CleanerTypes' /\ Stopping'
  <1>1. clean' = clean /\ cleaner' = cleaner /\ stop' = stop  OBVIOUS
  <1> QED BY <1>1 DEF CleanerTypes, Stopping

\* A snapshot begins.
LEMMA BeginTypes ==
    ASSUME Types, Stopping, create_snapshot_begin
    PROVE  Types' /\ Stopping'
  <1>1. /\ taking = None /\ stop = "no" /\ epoch < MaxEpoch /\ taking' = epoch /\ epoch' = epoch + 1
        /\ saved' = saved /\ infos' = infos /\ removing' = removing
        /\ UNCHANGED <<clean, cleaner, stop>>
        /\ UNCHANGED <<versions, pc, req, orphaned>> /\ freed' = freed /\ raced' = raced
        /\ create' = create
    BY DEF create_snapshot_begin, versions
  <1>2. epoch \in 0..MaxEpoch /\ saved \in 0..epoch /\ Snapshots \subseteq 0..(MaxEpoch - 1)
    BY DEF Types, EpochTypes
  <1>3. epoch + 1 \in 0..MaxEpoch /\ saved \in 0..(epoch + 1) /\ epoch \in 0..((epoch + 1) - 1)
    BY <1>1, <1>2, SnapshotConstants, SMT
  <1>4. EpochTypes'  BY <1>1, <1>2, <1>3 DEF EpochTypes, Snapshots
  <1>5. ListTypes'  BY <1>1, SameLists DEF Types
  <1>6. VersionTypes' /\ Room'
    <2>1. {} \subseteq 1..Len(create) /\ freed' = freed \cup {} /\ raced' \subseteq raced \cup {}  BY <1>1
    <2> QED BY <1>1, <2>1, SameVersions DEF Types
  <1>7. CleanerTypes' /\ Stopping'  BY <1>1, SameCleaner DEF Types
  <1> QED BY <1>4, <1>5, <1>6, <1>7 DEF Types

\* The tree of snapshots grows by one without entries, or does not change.
Inserted ==
    /\ infos' = [s \in Snapshots \cup {taking} |-> IF s \in Snapshots THEN infos[s] ELSE EmptyLists(s)]
    /\ saved' = taking

\* A snapshot ends.
LEMMA EndTypes ==
    ASSUME Types, Stopping, create_snapshot_end
    PROVE  Types' /\ Stopping'
  <1>1. /\ taking # None /\ taking' = None /\ removing' = removing /\ epoch' = epoch
        /\ UNCHANGED <<clean, cleaner, stop>>
        /\ UNCHANGED <<versions, pc, req, orphaned>> /\ freed' = freed /\ raced' = raced
        /\ create' = create
        /\ Inserted \/ (infos' = infos /\ saved' = saved)
    BY DEF create_snapshot_end, Inserted, versions
  <1>2. /\ epoch \in 0..MaxEpoch /\ saved \in 0..epoch /\ Snapshots \subseteq 0..(MaxEpoch - 1)
        /\ taking \in 0..(epoch - 1)
    BY <1>1 DEF Types, EpochTypes
  <1>3. taking \in 0..(MaxEpoch - 1) /\ taking \in 0..epoch /\ taking \in 0..MaxEpoch
    BY <1>2, SnapshotConstants, SMT
  <1>4. VersionTypes' /\ Room'
    <2>1. {} \subseteq 1..Len(create) /\ freed' = freed \cup {} /\ raced' \subseteq raced \cup {}  BY <1>1
    <2> QED BY <1>1, <2>1, SameVersions DEF Types
  <1>5. CleanerTypes' /\ Stopping'
    <2>1. CleanerTypes /\ stop' = stop /\ cleaner' = cleaner /\ clean' = clean  BY <1>1 DEF Types
    <2> QED BY <1>1, <2>1 DEF CleanerTypes, Stopping
  <1>6. CASE infos' = infos /\ saved' = saved
    <2>1. EpochTypes'  BY <1>1, <1>2, <1>6 DEF EpochTypes, Snapshots
    <2>2. ListTypes'  BY <1>1, <1>6, SameLists DEF Types
    <2> QED BY <1>4, <1>5, <2>1, <2>2 DEF Types
  <1>7. CASE Inserted
    <2>1. Snapshots' = Snapshots \cup {taking}  BY <1>7 DEF Inserted, Snapshots
    <2>2. EpochTypes'  BY <1>1, <1>2, <1>3, <1>7, <2>1 DEF EpochTypes, Inserted
    <2>3. ASSUME NEW s \in Snapshots' PROVE infos'[s] \in [CPUs -> List(Len(create))]
      <3>1. CASE s \in Snapshots
        <4>1. infos'[s] = infos[s]  BY <1>7, <2>1, <3>1 DEF Inserted
        <4> QED BY <3>1, <4>1 DEF Types, ListTypes
      <3>2. CASE s \notin Snapshots
        <4>1. s = taking /\ infos'[s] = EmptyLists(s)  BY <1>7, <2>1, <3>2 DEF Inserted
        <4>2. Len(create) \in Nat /\ s \in 0..MaxEpoch  BY <1>3, <4>1 DEF Types, VersionTypes
        <4>3. <<EmptyPage(s)>> \in List(Len(create))  BY <4>2, EmptyList
        <4> QED BY <4>1, <4>3 DEF EmptyLists
      <3> QED BY <3>1, <3>2
    <2>4. infos' = [s \in Snapshots' |-> infos'[s]]  BY <1>7, <2>1 DEF Inserted
    <2>5. ListTypes'  BY <1>1, <2>3, <2>4 DEF Types, ListTypes
    <2> QED BY <1>4, <1>5, <2>2, <2>5 DEF Types
  <1> QED BY <1>1, <1>6, <1>7

\* A snapshot that has a successor is deleted.
LEMMA DeleteTypes ==
    ASSUME Types, Stopping, NEW s \in Snapshots, nova_delete_snapshot(s)
    PROVE  Types' /\ Stopping'
  <1> DEFINE next == nova_find_target_snapshot_info(s + 1)
  <1>1. /\ taking = None /\ taking' = taking /\ stop = "no" /\ stop' = stop /\ next # None
        /\ epoch' = epoch /\ saved' = saved /\ removing' = removing /\ clean' = next
        /\ infos' = [r \in Snapshots \ {s} |->
                      IF r = next THEN nova_link_to_next_snapshot(s, next) ELSE infos[r]]
        /\ cleaner' = IF cleaner.pc = "asleep" THEN [cleaner EXCEPT !.pc = "start"] ELSE cleaner
        /\ UNCHANGED <<versions, pc, req, orphaned>> /\ freed' = freed /\ raced' = raced
        /\ create' = create
    BY DEF nova_delete_snapshot, versions
  <1>2. EpochTypes /\ s \in Int
    <2>1. EpochTypes /\ s \in 0..(MaxEpoch - 1)  BY DEF Types, EpochTypes
    <2> QED BY <2>1, SnapshotConstants, SMT
  <1>3. next \in Snapshots
    <2>1. s + 1 \in Int  BY <1>2, SMT
    <2> QED BY <1>1, <1>2, <2>1, Target
  <1> HIDE DEF next
  <1>4. Snapshots' = Snapshots \ {s}  BY <1>1 DEF Snapshots
  <1>5. EpochTypes'  BY <1>1, <1>2, <1>4 DEF EpochTypes
  <1>6. ASSUME NEW r \in Snapshots' PROVE infos'[r] \in [CPUs -> List(Len(create))]
    <2>1. Len(create) \in Nat  BY DEF Types, VersionTypes
    <2>2. CASE r = next
      <3>1. infos'[r] = [c \in CPUs |-> infos[s][c] \o infos[next][c]]
        BY <1>1, <1>4, <2>2 DEF nova_link_to_next_snapshot
      <3>2. ASSUME NEW c \in CPUs PROVE infos[s][c] \o infos[next][c] \in List(Len(create))
        <4>1. infos[s][c] \in List(Len(create)) /\ infos[next][c] \in List(Len(create))
          BY <1>3 DEF Types, ListTypes
        <4> QED BY <2>1, <4>1, Concatenated
      <3> QED BY <3>1, <3>2
    <2>3. CASE r # next
      <3>1. infos'[r] = infos[r] /\ r \in Snapshots  BY <1>1, <1>4, <2>3
      <3> QED BY <3>1 DEF Types, ListTypes
    <2> QED BY <2>2, <2>3
  <1>7. infos' = [r \in Snapshots' |-> infos'[r]]  BY <1>1, <1>4
  <1>8. ListTypes'  BY <1>1, <1>6, <1>7 DEF Types, ListTypes
  <1>9. VersionTypes' /\ Room'
    <2>1. {} \subseteq 1..Len(create) /\ freed' = freed \cup {} /\ raced' \subseteq raced \cup {}  BY <1>1
    <2> QED BY <1>1, <2>1, SameVersions DEF Types
  <1>10. CleanerTypes' /\ Stopping'
    <2>1. /\ cleaner \in Cleaners /\ cleaner.info \in -1..(MaxEpoch - 1) /\ cleaner.final \in BOOLEAN
          /\ cleaner = [pc |-> cleaner.pc, info |-> cleaner.info, final |-> cleaner.final]
      BY DEF Types, CleanerTypes, Cleaners
    <2>2. next \in -1..(MaxEpoch - 1)
      <3>1. next \in 0..(MaxEpoch - 1)  BY <1>2, <1>3 DEF EpochTypes
      <3> QED BY <3>1, SnapshotConstants, SMT
    <2>3. cleaner' \in Cleaners /\ (cleaner' = cleaner \/ cleaner'.pc = "start")
      <3>1. CASE cleaner.pc = "asleep"
        <4>1. cleaner' = [cleaner EXCEPT !.pc = "start"]  BY <1>1, <3>1
        <4>2. cleaner' = [pc |-> "start", info |-> cleaner.info, final |-> cleaner.final]
          BY <2>1, <4>1
        <4> QED BY <2>1, <4>2 DEF Cleaners
      <3>2. CASE cleaner.pc # "asleep"  BY <1>1, <2>1, <3>2
      <3> QED BY <3>1, <3>2
    <2> QED BY <1>1, <2>2, <2>3 DEF CleanerTypes, Stopping
  <1> QED BY <1>5, <1>8, <1>9, <1>10 DEF Types

\* The last snapshot is deleted.
LEMMA DeleteLastTypes ==
    ASSUME Types, Stopping, NEW s \in Snapshots, delete_last_snapshot(s)
    PROVE  Types' /\ Stopping'
  <1>1. /\ taking' = taking /\ epoch' = epoch /\ saved' = saved /\ removing' = infos[s]
        /\ UNCHANGED <<clean, cleaner, stop>>
        /\ infos' = [r \in Snapshots \ {s} |-> infos[r]]
        /\ UNCHANGED <<versions, pc, req, orphaned>> /\ freed' = freed /\ raced' = raced
        /\ create' = create
    BY DEF delete_last_snapshot, versions
  <1>2. Snapshots' = Snapshots \ {s}  BY <1>1 DEF Snapshots
  <1>3. EpochTypes'  BY <1>1, <1>2 DEF Types, EpochTypes
  <1>4. \A r \in Snapshots' : infos'[r] = infos[r] /\ r \in Snapshots  BY <1>1, <1>2
  <1>5. infos' = [r \in Snapshots' |-> infos'[r]]  BY <1>1, <1>2
  <1>6. ListTypes'  BY <1>1, <1>4, <1>5 DEF Types, ListTypes
  <1>7. VersionTypes' /\ Room'
    <2>1. {} \subseteq 1..Len(create) /\ freed' = freed \cup {} /\ raced' \subseteq raced \cup {}  BY <1>1
    <2> QED BY <1>1, <2>1, SameVersions DEF Types
  <1>8. CleanerTypes' /\ Stopping'  BY <1>1, SameCleaner DEF Types
  <1> QED BY <1>3, <1>6, <1>7, <1>8 DEF Types
\* The walk of the leading pages that came from older snapshots ends in the list.
LEMMA OldPagesExist ==
    ASSUME NEW n \in Nat, NEW l \in List(n), NEW s \in Nat
    PROVE  OldPages(l, s) \in 0..Len(l)
  <1> DEFINE m == Len(l)
             S == {i \in 0..m : i < m => l[i + 1].epoch >= s}
  <1>1. m \in Nat /\ DOMAIN l = 1..m  BY ListFacts
  <1>2. \A p \in 1..m : l[p].epoch \in Nat
    <2>1. ASSUME NEW p \in 1..m PROVE l[p].epoch \in Nat
      <3>1. l[p].epoch \in 0..MaxEpoch  BY <1>1, ListFacts
      <3> QED BY <3>1, SMT
    <2> QED BY <2>1
  <1>3. S \in SUBSET Nat /\ S # {}
    <2> HIDE DEF m
    <2>1. m \in S  BY <1>1, SMT
    <2>2. 0..m \subseteq Nat  BY <1>1, SMT
    <2> QED BY <2>1, <2>2
  <1>4. PICK i \in S : \A j \in S : i <= j
    <2> HIDE DEF S
    <2> QED BY <1>3, LeastNat
  <1>5. i \in 0..m /\ (i < m => l[i + 1].epoch >= s)  BY <1>4
  <1>6. ASSUME NEW p \in 1..i PROVE l[p].epoch < s
    <2> HIDE DEF m
    <2>1. p - 1 \in 0..m /\ p \in 1..m /\ ~(i <= p - 1) /\ p - 1 < m /\ (p - 1) + 1 = p
      BY <1>1, <1>5, SMT
    <2>2. p - 1 \notin S
      <3> HIDE DEF S
      <3> QED BY <1>4, <2>1
    <2>3. ~(l[(p - 1) + 1].epoch >= s)  BY <2>1, <2>2
    <2>4. ~(l[p].epoch >= s)  BY <2>1, <2>3
    <2>5. l[p].epoch \in Nat  BY <1>2, <2>1
    <2> QED BY <2>4, <2>5, SMT
  <1> HIDE DEF S, m
  <1>7. \E j \in 0..Len(l) : (\A p \in 1..j : l[p].epoch < s) /\ (j < Len(l) => l[j + 1].epoch >= s)
    BY <1>5, <1>6 DEF m
  <1> QED BY <1>7 DEF OldPages

\* What the cleaner frees is on the list it walks, and its snapshot does not show it.
LEMMA CleanableEntries ==
    ASSUME NEW n \in Nat, NEW l \in List(n), NEW s \in Nat, NEW v \in Cleanable(l, s)
    PROVE  delete[v] <= s /\ \E p, k : At(l, p, k, v)
  <1>1. v \in Pending(l, OldPages(l, s)) /\ delete[v] <= s  BY DEF Cleanable
  <1>2. OldPages(l, s) \in 0..Len(l)  BY OldPagesExist
  <1> QED BY <1>1, <1>2, PendingEntries

\* What the deletion of the last snapshot frees.
Removed == UNION {Pending(removing[c], Len(removing[c])) : c \in CPUs}

\* It is what its lists hold.
LEMMA RemovedVersions ==
    ASSUME Types, removing # << >>
    PROVE  \A v : v \in Removed <=> InRemoving(v)
  <1>1. Len(create) \in Nat /\ \A c \in CPUs : removing[c] \in List(Len(create))
    BY DEF Types, VersionTypes, ListTypes
  <1>2. ASSUME NEW c \in CPUs, NEW v
        PROVE  v \in Pending(removing[c], Len(removing[c])) <=> \E p, k : At(removing[c], p, k, v)
    BY <1>1, PendingEntries
  <1> QED BY <1>2 DEF Removed, InRemoving

\* Versions go back to the allocator.
LEMMA FreeFacts ==
    ASSUME NEW vs, Free(vs)
    PROVE  /\ freed' = freed \cup vs /\ raced' \subseteq raced \cup vs /\ raced \subseteq raced'
           /\ taking # None => raced' = raced \cup vs
  BY DEF Free

\* The lists of the last snapshot are freed.
LEMMA DeleteInfoTypes ==
    ASSUME Types, Stopping, nova_delete_snapshot_info
    PROVE  Types' /\ Stopping' /\ freed' = freed \cup Removed
  <1>1. /\ removing # << >> /\ Free(Removed) /\ removing' = << >>
        /\ UNCHANGED <<epoch, saved, infos, taking, clean, cleaner, stop, versions, pc, req, orphaned>>
    BY DEF nova_delete_snapshot_info, Removed
  <1>2. Removed \subseteq 1..Len(create)
    BY <1>1, RemovedVersions, ListedVersions DEF Types
  <1>3. freed' = freed \cup Removed /\ raced' \subseteq raced \cup Removed  BY <1>1, FreeFacts
  <1>4. VersionTypes' /\ Room'
    <2>1. UNCHANGED <<versions, pc, req, orphaned>>  BY <1>1
    <2> QED BY <1>2, <1>3, <2>1, SameVersions DEF Types
  <1>5. EpochTypes'  BY <1>1, SameEpochs DEF Types
  <1>6. create' = create /\ infos' = infos /\ Snapshots' = Snapshots  BY <1>1 DEF versions, Snapshots
  <1>7. ListTypes'  BY <1>1, <1>6 DEF Types, ListTypes
  <1>8. CleanerTypes' /\ Stopping'  BY <1>1, SameCleaner DEF Types
  <1> QED BY <1>3, <1>4, <1>5, <1>7, <1>8 DEF Types

\* What the cleaner frees.
Cleaned == UNION {Cleanable(infos[cleaner.info][c], cleaner.info) : c \in CPUs}

\* It is on the lists of its snapshot, which does not show it.
LEMMA CleanedVersions ==
    ASSUME Types, cleaner.info \in Snapshots
    PROVE  \A v \in Cleaned : /\ delete[v] <= cleaner.info /\ v \in 1..Len(create)
                              /\ \E c \in CPUs : \E p, k : At(infos[cleaner.info][c], p, k, v)
  <1> DEFINE s == cleaner.info
  <1>1. /\ Len(create) \in Nat /\ s \in 0..(MaxEpoch - 1)
        /\ \A c \in CPUs : infos[s][c] \in List(Len(create))
    BY DEF Types, VersionTypes, ListTypes, EpochTypes
  <1>2. s \in Nat
    <2> HIDE DEF s
    <2> QED BY <1>1, SMT
  <1>3. ASSUME NEW c \in CPUs, NEW v \in Cleanable(infos[s][c], s)
        PROVE  /\ delete[v] <= s /\ v \in 1..Len(create)
               /\ \E b \in CPUs : \E p, k : At(infos[s][b], p, k, v)
    <2> HIDE DEF s
    <2>1. delete[v] <= s /\ \E p, k : At(infos[s][c], p, k, v)  BY <1>1, <1>2, CleanableEntries
    <2>2. v \in 1..Len(create)  BY <2>1, <1>1, AtNames
    <2> QED BY <2>1, <2>2
  <1> QED BY <1>3 DEF Cleaned

\* What one pass of the cleaner over the lists of snapshot s does to them.
CleanPass(s) ==
    /\ s \in Snapshots
    /\ infos' = [infos EXCEPT ![s] = [c \in CPUs |-> Marked(infos[s][c], Cleaned)]]
    /\ Free(Cleaned)

\* One pass of the cleaner.
LEMMA CleanTypes ==
    ASSUME Types, Stopping, nova_background_clean_snapshot_list
    PROVE  /\ Types' /\ Stopping'
           /\ CleanPass(cleaner.info) \/ UNCHANGED <<infos, freed, raced>>
  <1> DEFINE s == cleaner.info
  <1>1. /\ cleaner.pc = "clean" /\ cleaner' = [cleaner EXCEPT !.pc = "end"]
        /\ UNCHANGED <<epoch, saved, taking, removing, clean, stop, versions, pc, req, orphaned>>
        /\ CleanPass(s) \/ (infos' = infos /\ freed' = freed /\ raced' = raced)
    BY DEF nova_background_clean_snapshot_list, CleanPass, Cleaned
  <1>2. create' = create /\ UNCHANGED <<versions, pc, req, orphaned>>  BY <1>1 DEF versions
  <1>3. CleanerTypes' /\ Stopping'
    <2>1. /\ cleaner \in Cleaners /\ cleaner.info \in -1..(MaxEpoch - 1) /\ cleaner.final \in BOOLEAN
          /\ cleaner = [pc |-> cleaner.pc, info |-> cleaner.info, final |-> cleaner.final]
      BY DEF Types, CleanerTypes, Cleaners
    <2>2. cleaner' = [pc |-> "end", info |-> cleaner.info, final |-> cleaner.final]
      BY <1>1, <2>1
    <2>3. cleaner' \in Cleaners /\ cleaner'.pc = "end" /\ cleaner'.final = cleaner.final
      BY <2>1, <2>2 DEF Cleaners
    <2> QED BY <1>1, <2>3 DEF Types, CleanerTypes, Stopping
  <1>4. CASE infos' = infos /\ freed' = freed /\ raced' = raced
    <2>1. EpochTypes'  BY <1>1, <1>4, SameEpochs DEF Types
    <2>2. ListTypes'  BY <1>1, <1>2, <1>4, SameLists DEF Types
    <2>3. {} \subseteq 1..Len(create) /\ freed' = freed \cup {} /\ raced' \subseteq raced \cup {}  BY <1>4
    <2>4. VersionTypes' /\ Room'  BY <1>2, <2>3, SameVersions DEF Types
    <2> QED BY <1>3, <1>4, <2>1, <2>2, <2>4 DEF Types
  <1>5. CASE CleanPass(s)
    <2>1. /\ s \in Snapshots /\ freed' = freed \cup Cleaned /\ raced' \subseteq raced \cup Cleaned
          /\ infos' = [infos EXCEPT ![s] = [c \in CPUs |-> Marked(infos[s][c], Cleaned)]]
      BY <1>5, FreeFacts DEF CleanPass
    <2>2. Cleaned \subseteq 1..Len(create)  BY <2>1, CleanedVersions
    <2>3. VersionTypes' /\ Room'  BY <1>2, <2>1, <2>2, SameVersions DEF Types
    <2>4. Snapshots' = Snapshots  BY <2>1 DEF Snapshots
    <2>5. EpochTypes'  BY <1>1, <2>4 DEF Types, EpochTypes
    <2> HIDE DEF s
    <2>6. infos = [r \in Snapshots |-> infos[r]]  BY DEF Types, ListTypes
    <2>7. ASSUME NEW r \in Snapshots'
          PROVE  infos'[r] = IF r = s THEN [c \in CPUs |-> Marked(infos[s][c], Cleaned)] ELSE infos[r]
      BY <2>1, <2>4, <2>6
    <2>8. infos' = [r \in Snapshots' |-> infos'[r]]  BY <2>1, <2>4, <2>6
    <2>9. ASSUME NEW r \in Snapshots' PROVE infos'[r] \in [CPUs -> List(Len(create))]
      <3>1. Len(create) \in Nat /\ infos[r] \in [CPUs -> List(Len(create))]
        BY <2>4 DEF Types, ListTypes, VersionTypes
      <3>2. CASE r = s
        <4>1. ASSUME NEW c \in CPUs PROVE Marked(infos[s][c], Cleaned) \in List(Len(create))
          <5>1. infos[s][c] \in List(Len(create))  BY <3>1, <3>2
          <5> QED BY <3>1, <5>1, MarkedEntries
        <4> QED BY <2>7, <3>2, <4>1
      <3>3. CASE r # s  BY <2>7, <3>1, <3>3
      <3> QED BY <3>2, <3>3
    <2>10. ListTypes'  BY <1>1, <1>2, <2>8, <2>9 DEF Types, ListTypes
    <2> QED BY <1>3, <1>5, <2>3, <2>5, <2>10 DEF Types, s
  <1> QED BY <1>1, <1>4, <1>5

\* The lists come back from persistent memory.
LEMMA RestoreTypes ==
    ASSUME Types, Stopping, nova_save_and_restore_snapshots
    PROVE  Types' /\ Stopping'
  <1>1. /\ cleaner.pc = "ended" /\ cleaner' = Fresh /\ stop' = "no" /\ epoch' = saved
        /\ infos' = [s \in Snapshots |-> [c \in CPUs |-> Restored(infos[s][c], s)]]
        /\ UNCHANGED <<saved, taking, removing, clean, versions, pc, req, freed, raced, orphaned>>
    BY DEF nova_save_and_restore_snapshots, Restored
  <1>2. create' = create /\ UNCHANGED <<versions, pc, req, orphaned>>  BY <1>1 DEF versions
  <1>3. taking = None  BY <1>1 DEF Stopping
  <1>4. Snapshots' = Snapshots  BY <1>1 DEF Snapshots
  <1>5. EpochTypes'
    <2>1. epoch \in 0..MaxEpoch /\ saved \in 0..epoch  BY DEF Types, EpochTypes
    <2>2. saved \in 0..MaxEpoch /\ saved \in 0..saved  BY <2>1, SnapshotConstants, SMT
    <2> QED BY <1>1, <1>3, <1>4, <2>2 DEF Types, EpochTypes
  <1>6. VersionTypes' /\ Room'
    <2>1. {} \subseteq 1..Len(create) /\ freed' = freed \cup {} /\ raced' \subseteq raced \cup {}  BY <1>1
    <2> QED BY <1>2, <2>1, SameVersions DEF Types
  <1>7. CleanerTypes' /\ Stopping'
    <2>1. None \in -1..(MaxEpoch - 1)  BY SnapshotConstants, SMT DEF None
    <2>2. cleaner' \in Cleaners /\ cleaner'.pc = "awake"  BY <1>1, <2>1 DEF Fresh, Cleaners
    <2> QED BY <1>1, <1>3, <2>2 DEF Types, CleanerTypes, Stopping
  <1>8. ASSUME NEW s \in Snapshots PROVE infos'[s] \in [CPUs -> List(Len(create))]
    <2>1. Len(create) \in Nat /\ infos[s] \in [CPUs -> List(Len(create))] /\ s \in 0..(MaxEpoch - 1)
      BY DEF Types, ListTypes, VersionTypes, EpochTypes
    <2>2. s \in 0..MaxEpoch  BY <2>1, SnapshotConstants, SMT
    <2>3. ASSUME NEW c \in CPUs PROVE Restored(infos[s][c], s) \in List(Len(create))
      <3>1. infos[s][c] \in List(Len(create))  BY <2>1
      <3> QED BY <2>1, <2>2, <3>1, RestoredEntries
    <2>4. infos'[s] = [c \in CPUs |-> Restored(infos[s][c], s)]  BY <1>1
    <2> QED BY <2>3, <2>4
  <1>9. infos' = [s \in Snapshots' |-> infos'[s]]  BY <1>1, <1>4
  <1>10. ListTypes'  BY <1>1, <1>2, <1>4, <1>8, <1>9 DEF Types, ListTypes
  <1> QED BY <1>5, <1>6, <1>7, <1>10 DEF Types

-----------------------------------------------------------------------------
(* Types: the writers.                                                      *)

\* The threads that will create a version.
Creators == {t \in Threads : req[t].new}

\* What a request is.
LEMMA RequestFacts ==
    ASSUME NEW n, NEW r \in Requests(n)
    PROVE  /\ r.f \in Files \cup {None} /\ r.e \in 0..MaxEpoch /\ r.new \in BOOLEAN
           /\ r.info \in -1..(MaxEpoch - 1) /\ r.v \in 0..n
           /\ r = [f |-> r.f, e |-> r.e, new |-> r.new, info |-> r.info, v |-> r.v]
  BY DEF Requests

\* No request is one.
LEMMA NoRequestFacts ==
    ASSUME NEW n \in Nat
    PROVE  /\ NoRequest \in Requests(n)
           /\ NoRequest.f = None /\ NoRequest.e = 0 /\ NoRequest.new = FALSE
           /\ NoRequest.info = None /\ NoRequest.v = 0
  <1>1. None \in -1..(MaxEpoch - 1) /\ 0 \in 0..MaxEpoch /\ 0 \in 0..n
    BY SnapshotConstants, SMT DEF None
  <1> QED BY <1>1 DEF NoRequest, Requests

\* The request of t becomes r, which creates no version.
LEMMA FewerCreators ==
    ASSUME VersionTypes, NEW t \in Threads, NEW r, ~r.new, req' = [req EXCEPT ![t] = r]
    PROVE  /\ IsFiniteSet(Creators) /\ IsFiniteSet(Creators')
           /\ Cardinality(Creators) \in Nat /\ Cardinality(Creators') \in Nat
           /\ Cardinality(Creators') <= Cardinality(Creators)
           /\ req[t].new => Cardinality(Creators') + 1 = Cardinality(Creators)
  <1>1. req = [u \in Threads |-> req[u]]  BY DEF VersionTypes
  <1>2. Creators' = Creators \ {t}
    <2>1. \A u \in Threads : u # t => req'[u] = req[u]  BY <1>1
    <2>2. req'[t] = r  BY <1>1
    <2>3. Creators' = {u \in Threads : req'[u].new}  BY DEF Creators
    <2> QED BY <2>1, <2>2, <2>3 DEF Creators
  <1>3. IsFiniteSet(Creators)
    <2>1. Creators \subseteq Threads  BY DEF Creators
    <2> QED BY <2>1, SnapshotConstants, FS_Subset
  <1>4. IsFiniteSet(Creators \ {t})
        /\ Cardinality(Creators \ {t}) = IF t \in Creators THEN Cardinality(Creators) - 1 ELSE Cardinality(Creators)
    BY <1>3, FS_RemoveElement
  <1>5. Cardinality(Creators) \in Nat /\ Cardinality(Creators') \in Nat
    BY <1>2, <1>3, <1>4, FS_CardinalityType
  <1>6. req[t].new => t \in Creators  BY DEF Creators
  <1> DEFINE a == Cardinality(Creators)
             b == Cardinality(Creators')
  <1>7. b = IF t \in Creators THEN a - 1 ELSE a  BY <1>2, <1>4
  <1> HIDE DEF a, b
  <1>8. a \in Nat /\ b \in Nat  BY <1>5 DEF a, b
  <1>9. b <= a /\ (t \in Creators => b + 1 = a)  BY <1>7, <1>8, SMT
  <1> QED BY <1>2, <1>3, <1>4, <1>5, <1>6, <1>9 DEF a, b

\* A request starts.
Started(t, r) ==
    /\ pc[t] = "idle" /\ stop = "no"
    /\ r.f \in Files /\ r.e = epoch /\ r.v = 0 /\ r.info = None
    /\ \A u \in Threads : pc[u] # "idle" => req[u].f # r.f
    /\ r.new => Len(create) + Cardinality(Creators) < MaxVersions
    /\ ~r.new => file[r.f] # 0
    /\ r \in Requests(Len(create))
    /\ req' = [req EXCEPT ![t] = r] /\ pc' = [pc EXCEPT ![t] = "reassign"]

\* A write begins.
LEMMA StartTypes ==
    ASSUME Types, Stopping, NEW t \in Threads, nova_get_epoch_id(t)
    PROVE  /\ Types' /\ Stopping'
           /\ \E r : Started(t, r)
  <1>0. /\ UNCHANGED <<epoch, saved, infos, taking, removing, clean, cleaner, stop>>
        /\ file' = file /\ create' = create /\ delete' = delete
        /\ freed' = freed /\ raced' = raced /\ orphaned' = orphaned
    BY DEF nova_get_epoch_id, versions
  <1>1. PICK f \in Files, new \in BOOLEAN :
          /\ \A u \in Threads : pc[u] # "idle" => req[u].f # f
          /\ IF new THEN Len(create) + Cardinality({u \in Threads : req[u].new}) < MaxVersions
             ELSE file[f] # 0
          /\ req' = [req EXCEPT ![t] = [f |-> f, e |-> epoch, new |-> new, info |-> None, v |-> 0]]
    BY DEF nova_get_epoch_id
  <1> DEFINE r == [f |-> f, e |-> epoch, new |-> new, info |-> None, v |-> 0]
  <1>3. r.f = f /\ r.e = epoch /\ r.new = new /\ r.info = None /\ r.v = 0  OBVIOUS
  <1>4. Len(create) \in Nat /\ epoch \in 0..MaxEpoch  BY DEF Types, VersionTypes, EpochTypes
  <1>5. r \in Requests(Len(create))
    <2>1. None \in -1..(MaxEpoch - 1) /\ 0 \in 0..Len(create)  BY <1>4, SnapshotConstants, SMT DEF None
    <2> QED BY <1>4, <2>1 DEF Requests
  <1>11. req' = [req EXCEPT ![t] = r]  BY <1>1
  <1> HIDE DEF r
  <1>6. pc[t] = "idle" /\ stop = "no" /\ pc' = [pc EXCEPT ![t] = "reassign"]  BY DEF nova_get_epoch_id
  <1>7. Started(t, r)  BY <1>1, <1>3, <1>5, <1>6, <1>11 DEF Started, Creators
  <1>8. EpochTypes'  BY <1>0, SameEpochs DEF Types
  <1>9. ListTypes'  BY <1>0, SameLists DEF Types
  <1>10. CleanerTypes' /\ Stopping'  BY <1>0, SameCleaner DEF Types
  <1>12. VersionTypes'
    <2>1. req' \in [Threads -> Requests(Len(create))]  BY <1>5, <1>11 DEF Types, VersionTypes
    <2>2. pc' \in [Threads -> {"idle", "reassign", "append"}]  BY <1>6 DEF Types, VersionTypes
    <2> QED BY <1>0, <2>1, <2>2 DEF Types, VersionTypes
  <1>13. Room'
    <2>0. VersionTypes /\ Room /\ create' = create  BY <1>0 DEF Types
    <2>1. CASE ~r.new
      <3>1. /\ Cardinality(Creators) \in Nat /\ Cardinality(Creators') \in Nat
            /\ Cardinality(Creators') <= Cardinality(Creators)
        BY <1>11, <2>0, <2>1, FewerCreators
      <3>2. Len(create) + Cardinality(Creators) <= MaxVersions  BY <2>0 DEF Room, Creators
      <3>3. Len(create) + Cardinality(Creators') <= MaxVersions
        BY <1>4, <3>1, <3>2, SnapshotConstants, SMT
      <3> QED BY <1>0, <3>3 DEF Room, Creators
    <2>2. CASE r.new
      <3>1. req = [u \in Threads |-> req[u]]  BY <2>0 DEF VersionTypes
      <3>2. Creators' = Creators \cup {t}
        <4>1. \A u \in Threads : u # t => req'[u] = req[u]  BY <1>11, <3>1
        <4>2. req'[t] = r  BY <1>11, <3>1
        <4>3. Creators' = {u \in Threads : req'[u].new}  BY DEF Creators
        <4> QED BY <2>2, <4>1, <4>2, <4>3 DEF Creators
      <3>3. IsFiniteSet(Creators)
        <4>1. Creators \subseteq Threads  BY DEF Creators
        <4> QED BY <4>1, SnapshotConstants, FS_Subset
      <3>4. /\ Cardinality(Creators) \in Nat
            /\ Cardinality(Creators') = IF t \in Creators THEN Cardinality(Creators) ELSE Cardinality(Creators) + 1
        BY <3>2, <3>3, FS_AddElement, FS_CardinalityType
      <3>5. Len(create) + Cardinality(Creators) < MaxVersions  BY <1>7, <2>2 DEF Started
      <3>6. Len(create) + Cardinality(Creators') <= MaxVersions
        <4> DEFINE a == Cardinality(Creators)
                   b == Cardinality(Creators')
        <4>1. a \in Nat /\ Len(create) + a < MaxVersions /\ (b = a \/ b = a + 1)  BY <3>4, <3>5
        <4> HIDE DEF a, b
        <4>2. Len(create) + b <= MaxVersions  BY <1>4, <4>1, SnapshotConstants, SMT
        <4> QED BY <4>2 DEF b
      <3> QED BY <1>0, <3>6 DEF Room, Creators
    <2> QED BY <2>1, <2>2
  <1> QED BY <1>7, <1>8, <1>9, <1>10, <1>12, <1>13 DEF Types

\* What replacing the version of a file does to the versions.
ReplacedVersions(r, old) ==
    /\ create' \in Seq(0..MaxEpoch) /\ delete' \in Seq(-1..MaxEpoch)
    /\ Len(create') \in Nat /\ Len(delete') = Len(create')
    /\ Len(create') = IF r.new THEN Len(create) + 1 ELSE Len(create)
    /\ \A v \in 1..Len(create) : create'[v] = create[v] /\ (v # old => delete'[v] = delete[v])
    /\ old # 0 => delete'[old] = r.e
    /\ r.new => create'[Len(create) + 1] = r.e /\ delete'[Len(create) + 1] = None
    /\ file' = [file EXCEPT ![r.f] = IF r.new THEN Len(create) + 1 ELSE 0]

\* Both outcomes of a write.
LEMMA ReplaceVersions ==
    ASSUME VersionTypes, NEW r, r.f \in Files, r.e \in 0..MaxEpoch, r.new \in BOOLEAN, Replace(r)
    PROVE  ReplacedVersions(r, file[r.f]) /\ file[r.f] \in 0..Len(create)
  <1> DEFINE old == file[r.f]
             n == Len(create)
             ended == IF old = 0 THEN delete ELSE [delete EXCEPT ![old] = r.e]
  <1>1. /\ create \in Seq(0..MaxEpoch) /\ delete \in Seq(-1..MaxEpoch)
        /\ Len(delete) = n /\ n \in Nat /\ old \in 0..n
    BY DEF VersionTypes
  <1>2. /\ file' = [file EXCEPT ![r.f] = IF r.new THEN n + 1 ELSE 0]
        /\ create' = IF r.new THEN Append(create, r.e) ELSE create
        /\ delete' = IF r.new THEN Append(ended, None) ELSE ended
    BY DEF Replace
  <1> HIDE DEF old
  <1>3. r.e \in -1..MaxEpoch /\ None \in -1..MaxEpoch
    <2>1. -1 \in -1..MaxEpoch  BY SnapshotConstants, SMT
    <2>2. \A e \in 0..MaxEpoch : e \in -1..MaxEpoch  BY SMT
    <2> QED BY <2>1, <2>2 DEF None
  <1>4. /\ ended \in Seq(-1..MaxEpoch) /\ Len(ended) = n
        /\ \A v \in 1..n : v # old => ended[v] = delete[v]
        /\ old # 0 => ended[old] = r.e
    <2>1. CASE old = 0  BY <1>1, <2>1
    <2>2. CASE old # 0
      <3>1. ended = [delete EXCEPT ![old] = r.e]  BY <2>2
      <3>2. old \in 1..n  BY <1>1, <2>2, SMT
      <3>3. old \in 1..Len(delete)  BY <1>1, <3>2
      <3>4. ended \in Seq(-1..MaxEpoch)  BY <1>1, <1>3, <3>1, <3>3, ExceptSeq
      <3>5. DOMAIN delete = 1..n /\ DOMAIN ended = 1..n  BY <1>1, <3>1, LenProperties
      <3>6. Len(ended) = n
        <4>1. ended \in [1..n -> -1..MaxEpoch]  BY <3>4, <3>5, LenProperties, ElementOfSeq
        <4> HIDE DEF ended, n
        <4>2. n \in Nat  BY <1>1
        <4> QED BY <4>1, <4>2, FunctionIsSeq
      <3> QED BY <3>1, <3>2, <3>4, <3>5, <3>6
    <2> QED BY <2>1, <2>2
  <1> HIDE DEF ended, n
  <1>5. /\ Append(create, r.e) \in Seq(0..MaxEpoch) /\ Len(Append(create, r.e)) = n + 1
        /\ Append(create, r.e)[n + 1] = r.e /\ \A v \in 1..n : Append(create, r.e)[v] = create[v]
    <2> DEFINE S == 0..MaxEpoch
    <2>1. create \in Seq(S) /\ r.e \in S  BY <1>1
    <2> HIDE DEF S
    <2>2. /\ Append(create, r.e) \in Seq(S) /\ Len(Append(create, r.e)) = Len(create) + 1
          /\ Append(create, r.e)[Len(create) + 1] = r.e
          /\ \A v \in 1..Len(create) : Append(create, r.e)[v] = create[v]
      BY <2>1, SMT
    <2> QED BY <2>2 DEF n, S
  <1>6. /\ Append(ended, None) \in Seq(-1..MaxEpoch) /\ Len(Append(ended, None)) = n + 1
        /\ Append(ended, None)[n + 1] = None /\ \A v \in 1..n : Append(ended, None)[v] = ended[v]
    <2>1. /\ Append(ended, None) \in Seq(-1..MaxEpoch) /\ Len(Append(ended, None)) = Len(ended) + 1
          /\ Append(ended, None)[Len(ended) + 1] = None
          /\ \A v \in 1..Len(ended) : Append(ended, None)[v] = ended[v]
      <3> DEFINE S == -1..MaxEpoch
      <3>1. ended \in Seq(S) /\ None \in S  BY <1>3, <1>4
      <3> HIDE DEF S
      <3>2. /\ Append(ended, None) \in Seq(S) /\ Len(Append(ended, None)) = Len(ended) + 1
            /\ Append(ended, None)[Len(ended) + 1] = None
            /\ \A v \in 1..Len(ended) : Append(ended, None)[v] = ended[v]
        BY <3>1, SMT
      <3> QED BY <3>2 DEF S
    <2> QED BY <1>4, <2>1
  <1>7. n + 1 \in Nat /\ \A v \in 1..n : v # n + 1  BY <1>1, SMT
  <1>8. old # 0 => old \in 1..n  BY <1>1, SMT
  <1>9. Len(create) = n /\ file[r.f] = old  BY DEF n, old
  <1>10. CASE r.new
    <2>1. create' = Append(create, r.e) /\ delete' = Append(ended, None)
          /\ file' = [file EXCEPT ![r.f] = n + 1]
      BY <1>2, <1>10
    <2>2. /\ create' \in Seq(0..MaxEpoch) /\ Len(create') = n + 1
          /\ create'[n + 1] = r.e /\ \A v \in 1..n : create'[v] = create[v]
      BY <1>5, <2>1
    <2>3. /\ delete' \in Seq(-1..MaxEpoch) /\ Len(delete') = n + 1
          /\ delete'[n + 1] = None /\ \A v \in 1..n : delete'[v] = ended[v]
      BY <1>6, <2>1
    <2>4. old # 0 => delete'[old] = r.e  BY <2>3, <1>4, <1>8
    <2>5. ReplacedVersions(r, old)
      BY <1>2, <1>4, <1>7, <1>9, <1>10, <2>2, <2>3, <2>4 DEF ReplacedVersions
    <2> QED BY <1>1, <1>9, <2>5
  <1>11. CASE ~r.new
    <2>1. create' = create /\ delete' = ended  BY <1>2, <1>11
    <2>2. ReplacedVersions(r, old)
      BY <1>1, <1>2, <1>4, <1>9, <1>11, <2>1 DEF ReplacedVersions
    <2> QED BY <1>1, <1>9, <2>2
  <1> QED BY <1>10, <1>11

\* The old version, if there is one, is freed.
FreedOld(t, old) ==
    /\ old = 0 \/ nova_old_entry_deleteable(create[old], req[t].e)
    /\ Free({old} \ {0})
    /\ pc' = [pc EXCEPT ![t] = "idle"]
    /\ req' = [req EXCEPT ![t] = NoRequest]

\* The writer has the old version in its hands, and knows whose list it belongs to.
Handed(t, old, r) ==
    /\ old # 0 /\ ~nova_old_entry_deleteable(create[old], req[t].e)
    /\ r.f = req[t].f /\ r.e = req[t].e /\ ~r.new /\ r.v = old
    /\ r.info = nova_find_target_snapshot_info(create[old])
    /\ freed' = freed /\ raced' = raced
    /\ pc' = [pc EXCEPT ![t] = "append"]
    /\ req' = [req EXCEPT ![t] = r]

\* The two ways in which the first half of a write ends.
LEMMA ReplaceSteps ==
    ASSUME Types, Writers, NEW t \in Threads, nova_free_old_entry(t)
    PROVE  /\ pc[t] = "reassign" /\ req[t].f \in Files /\ file[req[t].f] \in 0..Len(create)
           /\ req[t] \in Requests(Len(create))
           /\ ReplacedVersions(req[t], file[req[t].f])
           /\ \/ FreedOld(t, file[req[t].f])
              \/ \E r \in Requests(Len(create)) : Handed(t, file[req[t].f], r)
           /\ UNCHANGED <<epoch, saved, infos, taking, removing, clean, cleaner, stop>>
           /\ UNCHANGED <<view, orphaned, undefined, wentBack>>
  <1> DEFINE old == file[req[t].f]
             n == Len(create)
             i == nova_find_target_snapshot_info(create[old])
             r == [f |-> req[t].f, e |-> req[t].e, new |-> FALSE, v |-> old, info |-> i]
  <1>0. /\ Replace(req[t]) /\ pc[t] = "reassign"
        /\ UNCHANGED <<epoch, saved, infos, taking, removing, clean, cleaner, stop>>
        /\ UNCHANGED <<view, orphaned, undefined, wentBack>>
    BY DEF nova_free_old_entry
  <1>1. req[t].f \in Files  BY <1>0 DEF Writers, WriterOK
  <1>2. req[t] \in Requests(n) /\ VersionTypes /\ n \in Nat  BY DEF Types, VersionTypes
  <1>3. req[t].e \in 0..MaxEpoch /\ req[t].new \in BOOLEAN  BY <1>2, RequestFacts
  <1>4. ReplacedVersions(req[t], old) /\ old \in 0..n  BY <1>0, <1>1, <1>2, <1>3, ReplaceVersions
  <1>5. IF old = 0 \/ nova_old_entry_deleteable(create[old], req[t].e)
        THEN /\ Free(IF old = 0 THEN {} ELSE {old})
             /\ pc' = [pc EXCEPT ![t] = "idle"]
             /\ req' = [req EXCEPT ![t] = NoRequest]
        ELSE /\ pc' = [pc EXCEPT ![t] = "append"]
             /\ req' = [req EXCEPT ![t] = r]
             /\ freed' = freed /\ raced' = raced
    BY DEF nova_free_old_entry
  <1>6. CASE old = 0 \/ nova_old_entry_deleteable(create[old], req[t].e)
    <2>1. {old} \ {0} = IF old = 0 THEN {} ELSE {old}
      <3> HIDE DEF old
      <3> QED OBVIOUS
    <2>2. FreedOld(t, old)  BY <1>5, <1>6, <2>1 DEF FreedOld
    <2> QED BY <1>0, <1>1, <1>2, <1>4, <2>2
  <1>7. CASE ~(old = 0 \/ nova_old_entry_deleteable(create[old], req[t].e))
    <2>1. i \in -1..(MaxEpoch - 1)
      <3>1. create[old] \in Int
        <4> HIDE DEF old, n
        <4>1. old \in 1..n  BY <1>2, <1>4, <1>7, SMT
        <4>2. create[old] \in 0..MaxEpoch  BY <4>1, <1>2, ElementOfSeq DEF VersionTypes, n
        <4> QED BY <4>2, SMT
      <3>2. EpochTypes  BY DEF Types
      <3>3. i = None \/ i \in Snapshots  BY <3>1, <3>2, Target
      <3> HIDE DEF i
      <3>4. i = None \/ i \in 0..(MaxEpoch - 1)  BY <3>2, <3>3 DEF EpochTypes
      <3> QED BY <3>4, SnapshotConstants, SMT DEF None
    <2>2. r \in Requests(n)
      <3>1. FALSE \in BOOLEAN /\ req[t].f \in Files \cup {None}  BY <1>1
      <3> HIDE DEF i, old, n
      <3> QED BY <1>3, <1>4, <2>1, <3>1 DEF Requests
    <2>3. r.f = req[t].f /\ r.e = req[t].e /\ r.new = FALSE /\ r.v = old /\ r.info = i  OBVIOUS
    <2>4. req' = [req EXCEPT ![t] = r]  BY <1>5, <1>7
    <2>5. /\ pc' = [pc EXCEPT ![t] = "append"] /\ freed' = freed /\ raced' = raced  BY <1>5, <1>7
    <2> HIDE DEF r, old
    <2>6. Handed(t, old, r)  BY <1>7, <2>3, <2>4, <2>5 DEF Handed
    <2> QED BY <1>0, <1>1, <1>2, <1>4, <2>2, <2>6 DEF old
  <1> QED BY <1>6, <1>7

\* More versions do not disturb a request.
LEMMA RequestsGrow ==
    ASSUME NEW n \in Nat, NEW m \in Nat, n <= m
    PROVE  Requests(n) \subseteq Requests(m)
  <1>1. 0..n \subseteq 0..m  BY SMT
  <1> QED BY <1>1 DEF Requests

\* The request of t becomes r, and there is room for one version more if it was for one.
LEMMA RoomForOne ==
    ASSUME VersionTypes, Room, NEW t \in Threads, NEW r, ~r.new, req' = [req EXCEPT ![t] = r],
           Len(create') \in Nat,
           Len(create') = IF req[t].new THEN Len(create) + 1 ELSE Len(create)
    PROVE  Room'
  <1> DEFINE a == Cardinality(Creators)
             b == Cardinality(Creators')
             n == Len(create)
             m == Len(create')
  <1>1. a \in Nat /\ b \in Nat /\ b <= a /\ (req[t].new => b + 1 = a)  BY FewerCreators
  <1>2. n + a <= MaxVersions  BY DEF Room, Creators
  <1>3. n \in Nat  BY DEF VersionTypes
  <1>4. m = IF req[t].new THEN n + 1 ELSE n  OBVIOUS
  <1> HIDE DEF a, b, n, m
  <1>5. CASE req[t].new
    <2>1. m = n + 1 /\ b + 1 = a  BY <1>1, <1>4, <1>5
    <2>2. m + b <= MaxVersions  BY <1>1, <1>2, <1>3, <2>1, SnapshotConstants, SMT
    <2> QED BY <2>2 DEF Room, Creators, m, b
  <1>6. CASE ~req[t].new
    <2>1. m = n  BY <1>4, <1>6
    <2>2. m + b <= MaxVersions  BY <1>1, <1>2, <1>3, <2>1, SnapshotConstants, SMT
    <2> QED BY <2>2 DEF Room, Creators, m, b
  <1> QED BY <1>5, <1>6

\* The first half of a write.
LEMMA ReplaceTypes ==
    ASSUME Types, Stopping, Writers, NEW t \in Threads, nova_free_old_entry(t)
    PROVE  Types' /\ Stopping'
  <1> DEFINE old == file[req[t].f]
             n == Len(create)
             m == Len(create')
  <1>1. /\ req[t].f \in Files /\ old \in 0..n
        /\ ReplacedVersions(req[t], old)
        /\ UNCHANGED <<epoch, saved, infos, taking, removing, clean, cleaner, stop, orphaned>>
        /\ FreedOld(t, old) \/ \E r \in Requests(n) : Handed(t, old, r)
    BY ReplaceSteps
  <1>2. VersionTypes /\ n \in Nat /\ req[t] \in Requests(n)  BY DEF Types, VersionTypes
  <1>3. /\ m \in Nat /\ m = IF req[t].new THEN n + 1 ELSE n
        /\ create' \in Seq(0..MaxEpoch) /\ delete' \in Seq(-1..MaxEpoch) /\ Len(delete') = m
        /\ file' = [file EXCEPT ![req[t].f] = IF req[t].new THEN n + 1 ELSE 0]
    BY <1>1 DEF ReplacedVersions
  <1>4. n <= m /\ (req[t].new => n + 1 \in 0..m) /\ 0 \in 0..m /\ 0..n \subseteq 0..m /\ 1..n \subseteq 1..m
    <2> HIDE DEF m, n
    <2>1. m = n \/ m = n + 1  BY <1>3
    <2>2. req[t].new => m = n + 1  BY <1>3
    <2>3. n <= m /\ 0 \in 0..m /\ 0..n \subseteq 0..m /\ 1..n \subseteq 1..m  BY <1>2, <1>3, <2>1, SMT
    <2>4. m = n + 1 => n + 1 \in 0..m  BY <1>2, <1>3, SMT
    <2> QED BY <2>2, <2>3, <2>4
  <1>5. EpochTypes' /\ CleanerTypes' /\ Stopping'
    BY <1>1, SameEpochs, SameCleaner DEF Types
  <1>6. ListTypes'
    <2>1. infos' = infos /\ removing' = removing /\ Snapshots' = Snapshots  BY <1>1 DEF Snapshots
    <2>2. ASSUME NEW g, g \in [CPUs -> List(n)] PROVE g \in [CPUs -> List(m)]
      <3>1. ASSUME NEW c \in CPUs PROVE g[c] \in List(m)
        <4>1. g[c] \in List(n)  BY <2>2
        <4> HIDE DEF n, m
        <4> QED BY <1>2, <1>3, <1>4, <4>1, ListGrows
      <3> QED BY <2>2, <3>1
    <2>3. ListTypes  BY DEF Types
    <2> QED BY <2>1, <2>2, <2>3 DEF ListTypes
  <1>7. file' \in [Files -> 0..m]
    <2>1. file \in [Files -> 0..n]  BY <1>2 DEF VersionTypes
    <2>2. (IF req[t].new THEN n + 1 ELSE 0) \in 0..m  BY <1>4
    <2> HIDE DEF n, m
    <2> QED BY <1>3, <1>4, <2>1, <2>2
  <1>8. PICK q \in Requests(n) : ~q.new /\ req' = [req EXCEPT ![t] = q]
    <2>1. CASE FreedOld(t, old)
      <3>1. NoRequest \in Requests(n) /\ ~NoRequest.new  BY <1>2, NoRequestFacts
      <3> QED BY <2>1, <3>1 DEF FreedOld
    <2>2. CASE \E r \in Requests(n) : Handed(t, old, r)  BY <2>2 DEF Handed
    <2> QED BY <1>1, <2>1, <2>2
  <1>9. req' \in [Threads -> Requests(m)]
    <2>1. req \in [Threads -> Requests(n)]  BY <1>2 DEF VersionTypes
    <2> HIDE DEF n, m
    <2>2. Requests(n) \subseteq Requests(m)  BY <1>2, <1>3, <1>4, RequestsGrow
    <2> QED BY <1>8, <2>1, <2>2
  <1>10. pc' \in [Threads -> {"idle", "reassign", "append"}]
    <2>1. pc \in [Threads -> {"idle", "reassign", "append"}]  BY <1>2 DEF VersionTypes
    <2>2. pc' = [pc EXCEPT ![t] = "idle"] \/ pc' = [pc EXCEPT ![t] = "append"]
      BY <1>1 DEF FreedOld, Handed
    <2> QED BY <2>1, <2>2
  <1>11. freed' \subseteq 1..m /\ raced' \subseteq 1..m
    <2>1. freed \subseteq 1..n /\ raced \subseteq 1..n  BY <1>2 DEF VersionTypes
    <2>2. {old} \ {0} \subseteq 1..n
      <3> HIDE DEF old, n
      <3>1. old # 0 => old \in 1..n  BY <1>1, <1>2, SMT
      <3> QED BY <3>1
    <2>3. freed' \subseteq freed \cup ({old} \ {0}) /\ raced' \subseteq raced \cup ({old} \ {0})
      <3>1. CASE FreedOld(t, old)  BY <3>1, FreeFacts DEF FreedOld
      <3>2. CASE \E r \in Requests(n) : Handed(t, old, r)  BY <3>2 DEF Handed
      <3> QED BY <1>1, <3>1, <3>2
    <2> QED BY <1>4, <2>1, <2>2, <2>3
  <1>12. orphaned' \subseteq 1..m  BY <1>1, <1>2, <1>4 DEF VersionTypes
  <1>13. VersionTypes'  BY <1>3, <1>7, <1>9, <1>10, <1>11, <1>12 DEF VersionTypes
  <1>14. Room'  BY <1>2, <1>3, <1>8, RoomForOne DEF Types
  <1> QED BY <1>5, <1>6, <1>13, <1>14 DEF Types

\* The second half of a write: the entry is on the list of the snapshot, or lost.
Appended(t, c) ==
    /\ req[t].info \in Snapshots /\ orphaned' = orphaned
    /\ infos' = [infos EXCEPT ![req[t].info] =
                   [infos[req[t].info] EXCEPT ![c] =
                      WithEntry(infos[req[t].info][c], req[t].info, Entry(req[t].v))]]

Lost(t) ==
    infos' = infos /\ orphaned' = orphaned \cup {req[t].v}

\* Types after the second half.
LEMMA AppendTypes ==
    ASSUME Types, Stopping, Writers, NEW t \in Threads, nova_append_snapshot_list_entry(t)
    PROVE  /\ Types' /\ Stopping'
           /\ pc[t] = "append" /\ req[t].v \in 1..Len(create)
           /\ (\E c \in CPUs : Appended(t, c)) \/ Lost(t)
           /\ pc' = [pc EXCEPT ![t] = "idle"] /\ req' = [req EXCEPT ![t] = NoRequest]
  <1> DEFINE n == Len(create)
             s == req[t].info
             v == req[t].v
  <1>1. /\ pc[t] = "append" /\ pc' = [pc EXCEPT ![t] = "idle"] /\ req' = [req EXCEPT ![t] = NoRequest]
        /\ UNCHANGED <<epoch, saved, taking, removing, clean, cleaner, stop>>
        /\ file' = file /\ create' = create /\ delete' = delete
        /\ freed' = freed /\ raced' = raced
        /\ (\E c \in CPUs : Appended(t, c)) \/ Lost(t)
    BY DEF nova_append_snapshot_list_entry, versions, Appended, Lost
  <1>2. VersionTypes /\ n \in Nat /\ req[t] \in Requests(n)  BY DEF Types, VersionTypes
  <1>3. v \in 1..n
    <2>1. v \in 0..n /\ v # 0  BY <1>1, <1>2, RequestFacts DEF Writers, WriterOK
    <2> HIDE DEF v, n
    <2> QED BY <1>2, <2>1, SMT
  <1>4. CleanerTypes' /\ Stopping'  BY <1>1, SameCleaner DEF Types
  <1>5. NoRequest \in Requests(n) /\ ~NoRequest.new  BY <1>2, NoRequestFacts
  <1>6. Room'
    <2>1. Len(create') \in Nat /\ Len(create') = n  BY <1>1, <1>2
    <2>2. ~req[t].new  BY <1>1 DEF Writers, WriterOK
    <2> QED BY <1>1, <1>2, <1>5, <2>1, <2>2, RoomForOne DEF Types
  <1>7. VersionTypes'
    <2>1. req' \in [Threads -> Requests(n)]  BY <1>1, <1>2, <1>5 DEF VersionTypes
    <2>2. pc' \in [Threads -> {"idle", "reassign", "append"}]  BY <1>1, <1>2 DEF VersionTypes
    <2>3. orphaned' \subseteq 1..n  BY <1>1, <1>2, <1>3 DEF VersionTypes, Appended, Lost
    <2> QED BY <1>1, <1>2, <2>1, <2>2, <2>3 DEF VersionTypes
  <1>8. CASE Lost(t)
    <2>1. infos' = infos  BY <1>8 DEF Lost
    <2>2. EpochTypes'  BY <1>1, <2>1, SameEpochs DEF Types
    <2>3. ListTypes'  BY <1>1, <2>1, SameLists DEF Types
    <2> QED BY <1>1, <1>3, <1>4, <1>6, <1>7, <2>2, <2>3 DEF Types
  <1>9. ASSUME NEW c \in CPUs, Appended(t, c) PROVE EpochTypes' /\ ListTypes'
    <2> DEFINE w == WithEntry(infos[s][c], s, Entry(v))
    <2>1. s \in Snapshots /\ infos' = [infos EXCEPT ![s] = [infos[s] EXCEPT ![c] = w]]
      BY <1>9 DEF Appended
    <2>2. infos = [r \in Snapshots |-> infos[r]] /\ infos[s] \in [CPUs -> List(n)]
          /\ Snapshots \subseteq 0..(MaxEpoch - 1)
      BY <2>1 DEF Types, ListTypes, EpochTypes
    <2>3. Snapshots' = Snapshots  BY <2>1 DEF Snapshots
    <2>4. w \in List(n)
      <3>1. s \in 0..(MaxEpoch - 1)  BY <2>1, <2>2
      <3>2. s \in 0..MaxEpoch
        <4> HIDE DEF s
        <4> QED BY <3>1, SnapshotConstants, SMT
      <3>3. infos[s][c] \in List(n)  BY <2>2
      <3> HIDE DEF s, v, n
      <3> QED BY <1>2, <1>3, <3>2, <3>3, AppendedEntry
    <2> HIDE DEF w, s
    <2>5. infos' = [r \in Snapshots' |-> infos'[r]]  BY <2>1, <2>2, <2>3
    <2>6. ASSUME NEW r \in Snapshots' PROVE infos'[r] \in [CPUs -> List(n)]
      <3>1. CASE r = s
        <4>1. infos'[r] = [infos[s] EXCEPT ![c] = w]  BY <2>1, <2>2, <3>1
        <4> QED BY <2>2, <2>4, <4>1
      <3>2. CASE r # s
        <4>1. infos'[r] = infos[r]  BY <2>1, <2>2, <2>3, <3>2
        <4> QED BY <2>3, <4>1 DEF Types, ListTypes
      <3> QED BY <3>1, <3>2
    <2>7. ListTypes'  BY <1>1, <2>5, <2>6 DEF Types, ListTypes
    <2>8. EpochTypes'  BY <1>1, <2>3 DEF Types, EpochTypes
    <2> QED BY <2>7, <2>8
  <1> QED BY <1>1, <1>3, <1>4, <1>6, <1>7, <1>8, <1>9 DEF Types

-----------------------------------------------------------------------------
(* Writers.                                                                 *)

\* The writers and the files do not change.
LEMMA SameWriters ==
    ASSUME Writers, UNCHANGED <<file, delete, pc, req>>
    PROVE  Writers'
  <1>1. file' = file /\ delete' = delete /\ pc' = pc /\ req' = req  OBVIOUS
  <1> QED BY <1>1 DEF Writers, OwnFiles, FilesOK

\* Where thread t is, and its request, change.
LEMMA OneWriter ==
    ASSUME VersionTypes, NEW t \in Threads, NEW a, NEW r,
           pc' = [pc EXCEPT ![t] = a], req' = [req EXCEPT ![t] = r]
    PROVE  /\ pc'[t] = a /\ req'[t] = r
           /\ \A u \in Threads : u # t => pc'[u] = pc[u] /\ req'[u] = req[u]
  BY DEF VersionTypes

\* A write begins: nobody else has the file.
LEMMA StartWriters ==
    ASSUME Types, Writers, NEW t \in Threads, NEW r, Started(t, r), UNCHANGED <<file, delete>>
    PROVE  Writers'
  <1>0. file' = file /\ delete' = delete  OBVIOUS
  <1>1. /\ pc'[t] = "reassign" /\ req'[t] = r
        /\ \A u \in Threads : u # t => pc'[u] = pc[u] /\ req'[u] = req[u]
    BY OneWriter DEF Types, Started
  <1>2. r.f \in Files /\ r.v = 0 /\ \A u \in Threads : pc[u] # "idle" => req[u].f # r.f  BY DEF Started
  <1>3. ASSUME NEW u \in Threads PROVE WriterOK(pc'[u], req'[u])
    <2>1. CASE u = t  BY <1>1, <1>2, <2>1 DEF WriterOK
    <2>2. CASE u # t
      <3>1. WriterOK(pc[u], req[u])  BY DEF Writers
      <3> QED BY <1>1, <2>2, <3>1
    <2> QED BY <2>1, <2>2
  <1>4. ASSUME NEW x \in Threads, NEW u \in Threads,
               pc'[x] # "idle", pc'[u] # "idle", req'[x].f = req'[u].f
        PROVE  x = u
    <2>1. CASE x = t /\ u # t  BY <1>1, <1>2, <1>4, <2>1
    <2>2. CASE x # t /\ u = t  BY <1>1, <1>2, <1>4, <2>2
    <2>3. CASE x # t /\ u # t  BY <1>1, <1>4, <2>3 DEF Writers, OwnFiles
    <2> QED BY <2>1, <2>2, <2>3
  <1>5. OwnFiles'  BY <1>4 DEF OwnFiles
  <1>6. FilesOK'  BY <1>0 DEF Writers, FilesOK
  <1> QED BY <1>3, <1>5, <1>6 DEF Writers

\* A write that has the file f changes it, and hands its request on or gives it back.
LEMMA ReplaceWriters ==
    ASSUME Types, Writers, NEW t \in Threads, nova_free_old_entry(t)
    PROVE  Writers'
  <1> DEFINE f == req[t].f
             old == file[f]
             n == Len(create)
  <1>1. /\ pc[t] = "reassign" /\ f \in Files /\ old \in 0..n
        /\ ReplacedVersions(req[t], old)
        /\ FreedOld(t, old) \/ \E r \in Requests(n) : Handed(t, old, r)
    BY ReplaceSteps
  <1>2. VersionTypes /\ n \in Nat /\ file \in [Files -> 0..n]  BY DEF Types, VersionTypes
  <1>3. PICK a, q : /\ pc' = [pc EXCEPT ![t] = a] /\ req' = [req EXCEPT ![t] = q]
                    /\ WriterOK(a, q) /\ (a # "idle" => q.f = f)
    <2>1. CASE FreedOld(t, old)
      <3>1. WriterOK("idle", NoRequest)  BY DEF WriterOK
      <3> QED BY <2>1, <3>1 DEF FreedOld
    <2>2. ASSUME NEW r \in Requests(n), Handed(t, old, r)
          PROVE  WriterOK("append", r) /\ r.f = f
      BY <1>1, <2>2 DEF Handed, WriterOK
    <2>3. CASE \E r \in Requests(n) : Handed(t, old, r)
      <3>1. PICK r \in Requests(n) : Handed(t, old, r)  BY <2>3
      <3>2. pc' = [pc EXCEPT ![t] = "append"] /\ req' = [req EXCEPT ![t] = r]  BY <3>1 DEF Handed
      <3> QED BY <2>2, <3>1, <3>2
    <2> QED BY <1>1, <2>1, <2>3
  <1>4. /\ pc'[t] = a /\ req'[t] = q
        /\ \A u \in Threads : u # t => pc'[u] = pc[u] /\ req'[u] = req[u]
    BY <1>2, <1>3, OneWriter
  <1>5. ASSUME NEW u \in Threads PROVE WriterOK(pc'[u], req'[u])
    <2>1. CASE u = t  BY <1>3, <1>4, <2>1
    <2>2. CASE u # t
      <3>1. WriterOK(pc[u], req[u])  BY DEF Writers
      <3> QED BY <1>4, <2>2, <3>1
    <2> QED BY <2>1, <2>2
  <1>6. ASSUME NEW x \in Threads, NEW u \in Threads,
               pc'[x] # "idle", pc'[u] # "idle", req'[x].f = req'[u].f
        PROVE  x = u
    <2>1. ASSUME NEW y \in Threads, pc'[y] # "idle" PROVE pc[y] # "idle" /\ req'[y].f = req[y].f
      BY <1>1, <1>3, <1>4, <2>1
    <2> QED BY <1>6, <2>1 DEF Writers, OwnFiles
  <1> DEFINE new == IF req[t].new THEN n + 1 ELSE 0
  <1>7. /\ file' = [file EXCEPT ![f] = new]
        /\ \A v \in 1..n : v # old => delete'[v] = delete[v]
        /\ req[t].new => delete'[n + 1] = None
    BY <1>1 DEF ReplacedVersions
  <1>8. file'[f] = new /\ \A g \in Files : g # f => file'[g] = file[g]  BY <1>1, <1>2, <1>7
  <1>9. new # 0 => new = n + 1 /\ delete'[new] = None  BY <1>7
  <1>10. \A v \in 0..n : (v # 0 => v \in 1..n) /\ v # n + 1
    <2> HIDE DEF n
    <2> QED BY <1>2, SMT
  <1> HIDE DEF new, n, old
  <1>11. ASSUME NEW g \in Files, g # f, file[g] # 0
         PROVE  file[g] \in 1..n /\ file[g] # old /\ file[g] # n + 1
    <2>1. file[g] \in 0..n  BY <1>2
    <2>2. file[g] # file[f]  BY <1>1, <1>11 DEF Writers, FilesOK
    <2> QED BY <1>10, <1>11, <2>1, <2>2 DEF old
  <1>12. ASSUME NEW g \in Files, file'[g] # 0 PROVE delete'[file'[g]] = None
    <2>1. CASE g = f  BY <1>8, <1>9, <1>12, <2>1
    <2>2. CASE g # f
      <3>1. file'[g] = file[g] /\ delete[file[g]] = None  BY <1>8, <1>12, <2>2 DEF Writers, FilesOK
      <3> QED BY <1>7, <1>11, <1>12, <2>2, <3>1
    <2> QED BY <2>1, <2>2
  <1>13. ASSUME NEW g \in Files, NEW h \in Files, file'[g] # 0, file'[g] = file'[h] PROVE g = h
    <2>1. CASE g # f /\ h # f  BY <1>8, <1>13, <2>1 DEF Writers, FilesOK
    <2>2. CASE g = f /\ h # f  BY <1>8, <1>9, <1>11, <1>13, <2>2
    <2>3. CASE g # f /\ h = f  BY <1>8, <1>9, <1>11, <1>13, <2>3
    <2> QED BY <2>1, <2>2, <2>3
  <1>14. OwnFiles'  BY <1>6 DEF OwnFiles
  <1>15. FilesOK'  BY <1>12, <1>13 DEF FilesOK
  <1> QED BY <1>5, <1>14, <1>15 DEF Writers

\* A write ends.
LEMMA AppendWriters ==
    ASSUME Types, Writers, NEW t \in Threads, UNCHANGED <<file, delete>>,
           pc' = [pc EXCEPT ![t] = "idle"], req' = [req EXCEPT ![t] = NoRequest]
    PROVE  Writers'
  <1>0. file' = file /\ delete' = delete  OBVIOUS
  <1>1. /\ pc'[t] = "idle" /\ req'[t] = NoRequest
        /\ \A u \in Threads : u # t => pc'[u] = pc[u] /\ req'[u] = req[u]
    BY OneWriter DEF Types
  <1>2. ASSUME NEW u \in Threads PROVE WriterOK(pc'[u], req'[u])
    <2>1. CASE u = t  BY <1>1, <2>1 DEF WriterOK
    <2>2. CASE u # t
      <3>1. WriterOK(pc[u], req[u])  BY DEF Writers
      <3> QED BY <1>1, <2>2, <3>1
    <2> QED BY <2>1, <2>2
  <1>3. ASSUME NEW x \in Threads, NEW u \in Threads,
               pc'[x] # "idle", pc'[u] # "idle", req'[x].f = req'[u].f
        PROVE  x = u
    <2>1. x # t /\ u # t  BY <1>1, <1>3
    <2> QED BY <1>1, <1>3, <2>1, ZenonT(60) DEF Writers, OwnFiles
  <1>4. OwnFiles'  BY <1>3 DEF OwnFiles
  <1>5. FilesOK'  BY <1>0 DEF Writers, FilesOK
  <1> QED BY <1>2, <1>4, <1>5 DEF Writers

-----------------------------------------------------------------------------
(* Accounts.                                                                *)

\* Entries move, or nothing happens to them.
LEMMA Moved ==
    ASSUME Accounts, UNCHANGED <<create, delete, freed, orphaned, req>>,
           \A v : InLists(v)' <=> InLists(v),
           \A v : ~(InInfos(v)' /\ InRemoving(v)'),
           OnePlace'
    PROVE  Accounts'
  <1>1. create' = create /\ delete' = delete /\ freed' = freed /\ orphaned' = orphaned /\ req' = req
    OBVIOUS
  <1>2. \A v : Kept(v)' <=> Kept(v)  BY <1>1 DEF Kept, InHand
  <1>3. KeptOK'  BY <1>1, <1>2 DEF Accounts, KeptOK
  <1>4. GoneOK'  BY <1>1 DEF Accounts, GoneOK
  <1>5. HandsOK'  BY <1>1 DEF Accounts, HandsOK
  <1> QED BY <1>3, <1>4, <1>5 DEF Accounts

\* No entry changes.
LEMMA SameEntries ==
    ASSUME Types, Accounts, UNCHANGED <<create, delete, freed, orphaned, req, removing>>,
           \A s, c, p, k, v : Listed(s, c, p, k, v)' <=> Listed(s, c, p, k, v)
    PROVE  Accounts'
  <1>1. removing' = removing  OBVIOUS
  <1>2. \A v : (InInfos(v)' <=> InInfos(v)) /\ (InRemoving(v)' <=> InRemoving(v))
    BY <1>1 DEF InInfos, InRemoving
  <1>3. \A v : InLists(v)' <=> InLists(v)  BY <1>2 DEF InLists
  <1>4. \A v : ~(InInfos(v) /\ InRemoving(v))  BY ListedVersions DEF Accounts, KeptOK, Types
  <1>5. OnePlace'
    <2>1. ASSUME NEW r, NEW s, NEW b, NEW c, NEW o, NEW p, NEW j, NEW k, NEW v,
                 Listed(r, b, o, j, v)', Listed(s, c, p, k, v)'
          PROVE  r = s /\ b = c /\ o = p /\ j = k
      <3>1. Listed(r, b, o, j, v) /\ Listed(s, c, p, k, v)  BY <2>1
      <3> QED BY <3>1, ZenonT(60) DEF Accounts, OnePlace
    <2> QED BY <2>1, SMT DEF OnePlace
  <1> QED BY <1>2, <1>3, <1>4, <1>5, Moved

\* Entries are freed.
LEMMA Freed ==
    ASSUME Types, Accounts, UNCHANGED <<create, delete, orphaned, req>>,
           NEW vs, freed' = freed \cup vs, \A v \in vs : InLists(v),
           \A v : InLists(v)' <=> InLists(v) /\ v \notin vs,
           \A v : ~(InInfos(v)' /\ InRemoving(v)'),
           OnePlace'
    PROVE  Accounts'
  <1>1. create' = create /\ delete' = delete /\ freed' = freed \cup vs /\ orphaned' = orphaned /\ req' = req
    OBVIOUS
  <1>2. \A v : Kept(v)' <=> Kept(v) /\ v \notin vs  BY <1>1 DEF Kept, InHand
  <1>3. KeptOK'  BY <1>1, <1>2 DEF Accounts, KeptOK
  <1>4. \A v \in vs : v \in 1..Len(create) /\ Kept(v)
    BY ListedVersions DEF Accounts, KeptOK, Types, InLists
  <1>5. GoneOK'  BY <1>1, <1>4 DEF Accounts, GoneOK, Kept
  <1>6. \A t \in Threads : req[t].v \notin vs  BY <1>4 DEF Kept, InHand
  <1>7. HandsOK'  BY <1>1, <1>6 DEF Accounts, HandsOK
  <1> QED BY <1>3, <1>5, <1>7 DEF Accounts

\* The tree and the lists do not change.
LEMMA SameInfos ==
    ASSUME UNCHANGED infos
    PROVE  \A s, c, p, k, v : Listed(s, c, p, k, v)' <=> Listed(s, c, p, k, v)
  <1>1. infos' = infos  OBVIOUS
  <1> QED BY <1>1 DEF Listed, Snapshots

\* A snapshot that is added has no entries.
LEMMA EndAccounts ==
    ASSUME Types, Accounts, create_snapshot_end
    PROVE  Accounts' /\ \A s, c, p, k, v : Listed(s, c, p, k, v)' <=> Listed(s, c, p, k, v)
  <1>1. /\ taking # None /\ (Inserted \/ infos' = infos)
        /\ UNCHANGED <<create, delete, freed, orphaned, req, removing>>
    BY DEF create_snapshot_end, Inserted, versions
  <1>2. CASE infos' = infos  BY <1>1, <1>2, SameInfos, SameEntries
  <1>3. CASE Inserted
    <2>1. Snapshots' = Snapshots \cup {taking}  BY <1>3 DEF Inserted, Snapshots
    <2>2. ASSUME NEW s, NEW c, NEW p, NEW k, NEW v
          PROVE  Listed(s, c, p, k, v)' <=> Listed(s, c, p, k, v)
      <3>1. CASE s \in Snapshots
        <4>1. infos'[s] = infos[s]  BY <1>3, <3>1 DEF Inserted
        <4> QED BY <2>1, <3>1, <4>1 DEF Listed
      <3>2. CASE s \notin Snapshots /\ s \in Snapshots' /\ c \in CPUs
        <4>1. s = taking /\ infos'[s] = EmptyLists(s)  BY <1>3, <2>1, <3>2 DEF Inserted
        <4>2. infos'[s][c] = <<EmptyPage(s)>>  BY <3>2, <4>1 DEF EmptyLists
        <4>3. 0 \in Nat /\ s \in 0..MaxEpoch
          <5>1. s \in 0..(epoch - 1) /\ epoch \in 0..MaxEpoch  BY <1>1, <4>1 DEF Types, EpochTypes
          <5> QED BY <5>1, SnapshotConstants, SMT
        <4>4. ~At(<<EmptyPage(s)>>, p, k, v)  BY <4>3, EmptyList
        <4> QED BY <3>2, <4>2, <4>4 DEF Listed
      <3>3. CASE s \notin Snapshots /\ ~(s \in Snapshots' /\ c \in CPUs)  BY <3>3 DEF Listed
      <3> QED BY <3>1, <3>2, <3>3
    <2> QED BY <1>1, <2>2, SameEntries
  <1> QED BY <1>1, <1>2, <1>3

\* Entries come back from persistent memory as they were.
LEMMA RestoreAccounts ==
    ASSUME Types, Accounts, nova_save_and_restore_snapshots
    PROVE  Accounts' /\ \A s, c, p, k, v : Listed(s, c, p, k, v)' <=> Listed(s, c, p, k, v)
  <1>1. /\ infos' = [s \in Snapshots |-> [c \in CPUs |-> Restored(infos[s][c], s)]]
        /\ UNCHANGED <<create, delete, freed, orphaned, req, removing>>
    BY DEF nova_save_and_restore_snapshots, Restored, versions
  <1>2. Snapshots' = Snapshots  BY <1>1 DEF Snapshots
  <1>3. ASSUME NEW s, NEW c, NEW p, NEW k, NEW v
        PROVE  Listed(s, c, p, k, v)' <=> Listed(s, c, p, k, v)
    <2>1. CASE s \in Snapshots /\ c \in CPUs
      <3>1. infos'[s][c] = Restored(infos[s][c], s)  BY <1>1, <2>1
      <3>2. /\ Len(create) \in Nat /\ infos[s][c] \in List(Len(create)) /\ s \in 0..(MaxEpoch - 1)
        BY <2>1 DEF Types, ListTypes, VersionTypes, EpochTypes
      <3>3. s \in 0..MaxEpoch  BY <3>2, SnapshotConstants, SMT
      <3>4. At(Restored(infos[s][c], s), p, k, v) <=> At(infos[s][c], p, k, v)
        BY <3>2, <3>3, RestoredEntries
      <3> QED BY <1>2, <2>1, <3>1, <3>4 DEF Listed
    <2>2. CASE ~(s \in Snapshots /\ c \in CPUs)  BY <1>2, <2>2 DEF Listed
    <2> QED BY <2>1, <2>2
  <1> QED BY <1>1, <1>3, SameEntries

\* The lists of s go before those of next.
Joined(s, next) ==
    /\ s \in Snapshots /\ next \in Snapshots /\ next # s
    /\ infos' = [r \in Snapshots \ {s} |->
                  IF r = next THEN nova_link_to_next_snapshot(s, next) ELSE infos[r]]

\* Where an entry of the joined lists comes from.
Origin(s, next, r, c, p, q, o) ==
    \/ r # s /\ r # next /\ q = r /\ o = p
    \/ r = next /\ q = s /\ o = p
    \/ r = next /\ q = next /\ p \in Int /\ p > Len(infos[s][c]) /\ o = p - Len(infos[s][c])

\* Every entry of the joined lists comes from one that was there, and every one that
\* was there is in the joined lists.
LEMMA JoinedEntries ==
    ASSUME Types, NEW s, NEW next, Joined(s, next)
    PROVE  /\ \A r, c, p, k, v : Listed(r, c, p, k, v)' =>
                \E q, o : Origin(s, next, r, c, p, q, o) /\ Listed(q, c, o, k, v)
           /\ \A q, c, o, k, v : Listed(q, c, o, k, v) => \E r, p : Listed(r, c, p, k, v)'
  <1>1. /\ s \in Snapshots /\ next \in Snapshots /\ next # s
        /\ infos' = [r \in Snapshots \ {s} |->
                      IF r = next THEN nova_link_to_next_snapshot(s, next) ELSE infos[r]]
    BY DEF Joined
  <1>2. Snapshots' = Snapshots \ {s}  BY <1>1 DEF Snapshots
  <1>3. ASSUME NEW r, r \in Snapshots, r # s, r # next, NEW c, NEW p, NEW k, NEW v
        PROVE  Listed(r, c, p, k, v)' <=> Listed(r, c, p, k, v)
    <2>1. infos'[r] = infos[r]  BY <1>1, <1>3
    <2> QED BY <1>2, <1>3, <2>1 DEF Listed
  <1>4. ASSUME NEW c \in CPUs, NEW p, NEW k, NEW v
        PROVE  Listed(next, c, p, k, v)' <=>
                 \/ Listed(s, c, p, k, v)
                 \/ /\ p \in Int /\ p > Len(infos[s][c])
                    /\ Listed(next, c, p - Len(infos[s][c]), k, v)
    <2>1. infos'[next][c] = infos[s][c] \o infos[next][c]
      BY <1>1 DEF nova_link_to_next_snapshot
    <2>2. /\ Len(create) \in Nat
          /\ infos[s][c] \in List(Len(create)) /\ infos[next][c] \in List(Len(create))
      BY <1>1 DEF Types, ListTypes, VersionTypes
    <2>3. At(infos[s][c] \o infos[next][c], p, k, v)
            <=> \/ At(infos[s][c], p, k, v)
                \/ /\ p \in Int /\ p > Len(infos[s][c])
                   /\ At(infos[next][c], p - Len(infos[s][c]), k, v)
      BY <2>2, Concatenated
    <2> QED BY <1>1, <1>2, <2>1, <2>3 DEF Listed
  <1>5. ASSUME NEW r, NEW c, NEW p, NEW k, NEW v, Listed(r, c, p, k, v)'
        PROVE  \E q, o : Origin(s, next, r, c, p, q, o) /\ Listed(q, c, o, k, v)
    <2>1. r \in Snapshots /\ r # s /\ c \in CPUs  BY <1>2, <1>5 DEF Listed
    <2>2. CASE r # next
      <3>1. Listed(r, c, p, k, v)  BY <1>3, <1>5, <2>1, <2>2
      <3>2. Origin(s, next, r, c, p, r, p)  BY <2>1, <2>2 DEF Origin
      <3> QED BY <3>1, <3>2
    <2>3. CASE r = next /\ Listed(s, c, p, k, v)
      <3>1. Origin(s, next, r, c, p, s, p)  BY <2>3 DEF Origin
      <3> QED BY <2>3, <3>1
    <2>4. CASE /\ r = next /\ p \in Int /\ p > Len(infos[s][c])
               /\ Listed(next, c, p - Len(infos[s][c]), k, v)
      <3>1. Origin(s, next, r, c, p, next, p - Len(infos[s][c]))  BY <2>4 DEF Origin
      <3> QED BY <2>4, <3>1
    <2> QED BY <1>4, <1>5, <2>1, <2>2, <2>3, <2>4
  <1>6. ASSUME NEW q, NEW c, NEW o, NEW k, NEW v, Listed(q, c, o, k, v)
        PROVE  \E r, p : Listed(r, c, p, k, v)'
    <2>1. q \in Snapshots /\ c \in CPUs /\ At(infos[q][c], o, k, v)  BY <1>6 DEF Listed
    <2>2. CASE q # s /\ q # next  BY <1>3, <1>6, <2>1, <2>2
    <2>3. CASE q = s  BY <1>4, <1>6, <2>1, <2>3
    <2>4. CASE q = next
      <3> DEFINE n == Len(infos[s][c])
      <3>1. /\ Len(create) \in Nat
            /\ infos[s][c] \in List(Len(create)) /\ infos[next][c] \in List(Len(create))
        BY <1>1, <2>1 DEF Types, ListTypes, VersionTypes
      <3>2. n \in Nat /\ o \in 1..Len(infos[next][c]) /\ Len(infos[next][c]) \in Nat
        BY <2>1, <2>4, <3>1, ListFacts DEF At
      <3>3. PICK p : p \in Int /\ p > n /\ p - n = o
        <4> HIDE DEF n
        <4>1. o + n \in Int /\ o + n > n /\ (o + n) - n = o  BY <3>2, SMT
        <4> QED BY <4>1
      <3>4. Listed(next, c, p - n, k, v)  BY <1>6, <2>4, <3>3
      <3>5. Listed(next, c, p, k, v)'  BY <1>4, <2>1, <3>3, <3>4
      <3> QED BY <3>5
    <2> QED BY <2>2, <2>3, <2>4
  <1> QED BY <1>5, <1>6

\* Two places with the same origin.
SameOrigin(s, next, r, c, p, x, y, q, o) ==
    /\ next # s /\ Len(infos[s][c]) \in Int
    /\ Origin(s, next, r, c, p, q, o) /\ Origin(s, next, x, c, y, q, o)

\* They are the same.
LEMMA OneOrigin ==
    ASSUME NEW s, NEW next, NEW r, NEW x, NEW c, NEW p, NEW y, NEW q, NEW o,
           SameOrigin(s, next, r, c, p, x, y, q, o)
    PROVE  r = x /\ p = y
  <1> DEFINE n == Len(infos[s][c])
  <1>1. n \in Int /\ next # s  BY DEF SameOrigin
  <1>2. /\ \/ r # s /\ r # next /\ q = r /\ o = p
           \/ r = next /\ q = s /\ o = p
           \/ r = next /\ q = next /\ p \in Int /\ o = p - n
        /\ \/ x # s /\ x # next /\ q = x /\ o = y
           \/ x = next /\ q = s /\ o = y
           \/ x = next /\ q = next /\ y \in Int /\ o = y - n
    BY DEF SameOrigin, Origin
  <1> HIDE DEF n
  <1>3. CASE q # s /\ q # next  BY <1>2, <1>3
  <1>4. CASE q = s  BY <1>1, <1>2, <1>4
  <1>5. CASE q = next
    <2>1. r = next /\ x = next /\ p \in Int /\ y \in Int /\ p - n = y - n  BY <1>1, <1>2, <1>5
    <2>2. p = y  BY <1>1, <2>1, SMT
    <2> QED BY <2>1, <2>2
  <1> QED BY <1>3, <1>4, <1>5

\* The deletion of a snapshot that has a successor joins their lists.
LEMMA DeleteJoins ==
    ASSUME Types, NEW s \in Snapshots, nova_delete_snapshot(s)
    PROVE  \E next : /\ Joined(s, next) /\ next > s
                     /\ \A r \in Snapshots : r > s => next <= r
  <1> DEFINE next == nova_find_target_snapshot_info(s + 1)
  <1>1. /\ next # None
        /\ infos' = [r \in Snapshots \ {s} |->
                      IF r = next THEN nova_link_to_next_snapshot(s, next) ELSE infos[r]]
    BY DEF nova_delete_snapshot
  <1>2. EpochTypes /\ Snapshots \subseteq Int
    <2>1. EpochTypes /\ Snapshots \subseteq 0..(MaxEpoch - 1)  BY DEF Types, EpochTypes
    <2>2. 0..(MaxEpoch - 1) \subseteq Int  BY SnapshotConstants, SMT
    <2> QED BY <2>1, <2>2
  <1>3. s \in Int /\ s + 1 \in Int
    <2>1. s \in Int  BY <1>2
    <2> QED BY <2>1, SMT
  <1>4. next \in Snapshots /\ next >= s + 1 /\ \A r \in Snapshots : r >= s + 1 => next <= r
    BY <1>1, <1>2, <1>3, Target
  <1> HIDE DEF next
  <1>5. next > s /\ next # s
    <2>1. next \in Int  BY <1>2, <1>4
    <2> QED BY <1>3, <1>4, <2>1, SMT
  <1>6. ASSUME NEW r \in Snapshots, r > s PROVE next <= r
    <2>1. r \in Int  BY <1>2
    <2>2. r >= s + 1  BY <1>3, <1>6, <2>1, SMT
    <2> QED BY <1>4, <2>2
  <1>7. Joined(s, next)  BY <1>1, <1>4, <1>5 DEF Joined
  <1> QED BY <1>5, <1>6, <1>7

\* Nothing is lost when lists are joined.
LEMMA DeleteAccounts ==
    ASSUME Types, Accounts, NEW s \in Snapshots, nova_delete_snapshot(s)
    PROVE  Accounts'
  <1>1. UNCHANGED <<create, delete, freed, orphaned, req, removing>>  BY DEF nova_delete_snapshot, versions
  <1>2. removing' = removing  BY <1>1
  <1>3. PICK next : Joined(s, next)  BY DeleteJoins
  <1>4. \A v : InRemoving(v)' <=> InRemoving(v)  BY <1>2 DEF InRemoving
  <1>5. \A v : InInfos(v)' <=> InInfos(v)
    <2>1. ASSUME NEW v, InInfos(v)' PROVE InInfos(v)
      <3>1. PICK r, c, p, k : Listed(r, c, p, k, v)'  BY <2>1 DEF InInfos
      <3>2. PICK q, o : Listed(q, c, o, k, v)  BY <1>3, <3>1, JoinedEntries
      <3> QED BY <3>2 DEF InInfos
    <2>2. ASSUME NEW v, InInfos(v) PROVE InInfos(v)'
      <3>1. PICK q, c, o, k : Listed(q, c, o, k, v)  BY <2>2 DEF InInfos
      <3>2. \E r, p : Listed(r, c, p, k, v)'  BY <1>3, <3>1, JoinedEntries
      <3> QED BY <3>2 DEF InInfos
    <2> QED BY <2>1, <2>2
  <1>6. \A v : InLists(v)' <=> InLists(v)  BY <1>4, <1>5 DEF InLists
  <1>7. \A v : ~(InInfos(v)' /\ InRemoving(v)')
    BY <1>4, <1>5, ListedVersions DEF Accounts, KeptOK, Types
  <1>8. OnePlace'
    <2>1. ASSUME NEW r, NEW x, NEW b, NEW c, NEW o, NEW p, NEW j, NEW k, NEW v,
                 Listed(r, b, o, j, v)', Listed(x, c, p, k, v)'
          PROVE  r = x /\ b = c /\ o = p /\ j = k
      <3>1. PICK r0, o0 : Origin(s, next, r, b, o, r0, o0) /\ Listed(r0, b, o0, j, v)
        BY <1>3, <2>1, JoinedEntries
      <3>2. PICK x0, p0 : Origin(s, next, x, c, p, x0, p0) /\ Listed(x0, c, p0, k, v)
        BY <1>3, <2>1, JoinedEntries
      <3>3. r0 = x0 /\ b = c /\ o0 = p0 /\ j = k  BY <3>1, <3>2 DEF Accounts, OnePlace
      <3>4. next # s /\ c \in CPUs /\ s \in Snapshots  BY <1>3, <2>1 DEF Joined, Listed
      <3>5. Len(infos[s][c]) \in Int
        <4>1. Len(create) \in Nat /\ infos[s][c] \in List(Len(create))
          BY <3>4 DEF Types, ListTypes, VersionTypes
        <4>2. Len(infos[s][c]) \in Nat  BY <4>1, ListFacts
        <4> QED BY <4>2, SMT
      <3>6. SameOrigin(s, next, r, c, o, x, p, r0, o0)
        BY <3>1, <3>2, <3>3, <3>4, <3>5 DEF SameOrigin
      <3>7. r = x /\ o = p  BY <3>6, OneOrigin
      <3> QED BY <3>3, <3>7
    <2> QED BY <2>1, SMT DEF OnePlace
  <1> QED BY <1>1, <1>6, <1>7, <1>8, Moved

\* The entries of the last snapshot are the ones to be freed.
LEMMA DeleteLastAccounts ==
    ASSUME Types, Accounts, NEW s \in Snapshots, delete_last_snapshot(s)
    PROVE  /\ Accounts'
           /\ \A r, c, p, k, v : Listed(r, c, p, k, v)' <=> r # s /\ Listed(r, c, p, k, v)
           /\ \A v : InRemoving(v)' => \E c, p, k : Listed(s, c, p, k, v)
  <1>1. /\ UNCHANGED <<create, delete, freed, orphaned, req>>
        /\ removing = << >> /\ removing' = infos[s]
        /\ infos' = [r \in Snapshots \ {s} |-> infos[r]]
    BY DEF delete_last_snapshot, versions
  <1>2. Snapshots' = Snapshots \ {s}  BY <1>1 DEF Snapshots
  <1>3. ASSUME NEW r, NEW c, NEW p, NEW k, NEW v
        PROVE  Listed(r, c, p, k, v)' <=> r # s /\ Listed(r, c, p, k, v)
    <2>1. CASE r \in Snapshots'
      <3>1. infos'[r] = infos[r]  BY <1>1, <1>2, <2>1
      <3> QED BY <1>2, <2>1, <3>1 DEF Listed
    <2>2. CASE r \notin Snapshots'  BY <1>2, <2>2 DEF Listed
    <2> QED BY <2>1, <2>2
  <1>4. ASSUME NEW v
        PROVE  InRemoving(v)' <=> \E c, p, k : Listed(s, c, p, k, v)
    <2>1. InRemoving(v)' <=> infos[s] # << >> /\ \E c \in CPUs : \E p, k : At(infos[s][c], p, k, v)
      BY <1>1 DEF InRemoving
    <2>2. ASSUME NEW c \in CPUs PROVE infos[s] # << >>
      <3>1. infos[s] \in [CPUs -> List(Len(create))]  BY DEF Types, ListTypes
      <3>2. DOMAIN infos[s] = CPUs  BY <3>1
      <3>3. DOMAIN << >> = {}  BY SMT
      <3> QED BY <3>2, <3>3
    <2> QED BY <2>1, <2>2 DEF Listed
  <1>5. \A v : ~InRemoving(v)  BY <1>1 DEF InRemoving
  <1>6. ASSUME NEW v PROVE InLists(v)' <=> InLists(v)
    <2>1. InInfos(v)' <=> \E r, c, p, k : r # s /\ Listed(r, c, p, k, v)  BY <1>3 DEF InInfos
    <2>2. InInfos(v) <=> \E r, c, p, k : Listed(r, c, p, k, v)  BY DEF InInfos
    <2>3. InLists(v) <=> InInfos(v)  BY <1>5 DEF InLists
    <2>4. InLists(v)' <=> InInfos(v)' \/ InRemoving(v)'  BY DEF InLists
    <2>5. ASSUME InLists(v) PROVE InInfos(v)' \/ InRemoving(v)'
      <3>1. PICK r, c, p, k : Listed(r, c, p, k, v)  BY <2>2, <2>3, <2>5
      <3>2. CASE r = s  BY <1>4, <3>1, <3>2
      <3>3. CASE r # s  BY <2>1, <3>1, <3>3
      <3> QED BY <3>2, <3>3
    <2>6. ASSUME InInfos(v)' \/ InRemoving(v)' PROVE InLists(v)
      BY <1>4, <2>1, <2>2, <2>3, <2>6
    <2> QED BY <2>4, <2>5, <2>6
  <1>7. ASSUME NEW v, InInfos(v)', InRemoving(v)' PROVE FALSE
    <2>1. PICK r, c, p, k : r # s /\ Listed(r, c, p, k, v)  BY <1>3, <1>7 DEF InInfos
    <2>2. PICK b, o, j : Listed(s, b, o, j, v)  BY <1>4, <1>7
    <2> QED BY <2>1, <2>2 DEF Accounts, OnePlace
  <1>8. OnePlace'
    <2>1. ASSUME NEW r, NEW x, NEW b, NEW c, NEW o, NEW p, NEW j, NEW k, NEW v,
                 Listed(r, b, o, j, v)', Listed(x, c, p, k, v)'
          PROVE  r = x /\ b = c /\ o = p /\ j = k
      <3>1. Listed(r, b, o, j, v) /\ Listed(x, c, p, k, v)  BY <1>3, <2>1
      <3> QED BY <3>1, ZenonT(60) DEF Accounts, OnePlace
    <2> QED BY <2>1, SMT DEF OnePlace
  <1>9. Accounts'  BY <1>1, <1>6, <1>7, <1>8, Moved
  <1> QED BY <1>3, <1>4, <1>9

\* They are freed.
LEMMA DeleteInfoAccounts ==
    ASSUME Types, Stopping, Accounts, nova_delete_snapshot_info
    PROVE  /\ Accounts' /\ UNCHANGED <<infos, create, delete>>
           /\ \A v \in Removed : InRemoving(v)
           /\ \A v : ~InRemoving(v)'
  <1>1. /\ UNCHANGED <<infos, create, delete, orphaned, req>>
        /\ removing # << >> /\ removing' = << >>
    BY DEF nova_delete_snapshot_info, versions
  <1>2. freed' = freed \cup Removed  BY DeleteInfoTypes
  <1>3. \A v : v \in Removed <=> InRemoving(v)  BY <1>1, RemovedVersions
  <1>4. \A v : ~InRemoving(v)'  BY <1>1 DEF InRemoving
  <1>5. \A s, c, p, k, v : Listed(s, c, p, k, v)' <=> Listed(s, c, p, k, v)  BY <1>1, SameInfos
  <1>6. \A v : InInfos(v)' <=> InInfos(v)  BY <1>5 DEF InInfos
  <1>7. \A v : ~(InInfos(v) /\ InRemoving(v))  BY ListedVersions DEF Accounts, KeptOK, Types
  <1>8. \A v : InLists(v)' <=> InLists(v) /\ v \notin Removed
    BY <1>3, <1>4, <1>6, <1>7 DEF InLists
  <1>9. \A v \in Removed : InLists(v)  BY <1>3 DEF InLists
  <1>10. OnePlace'
    <2>1. ASSUME NEW r, NEW x, NEW b, NEW c, NEW o, NEW p, NEW j, NEW k, NEW v,
                 Listed(r, b, o, j, v)', Listed(x, c, p, k, v)'
          PROVE  r = x /\ b = c /\ o = p /\ j = k
      <3>1. Listed(r, b, o, j, v) /\ Listed(x, c, p, k, v)  BY <1>5, <2>1
      <3> QED BY <3>1 DEF Accounts, OnePlace
    <2> QED BY <2>1, SMT DEF OnePlace
  <1>11. \A v : ~(InInfos(v)' /\ InRemoving(v)')  BY <1>4
  <1>12. Accounts'
    <2> DEFINE vs == Removed
    <2>1. freed' = freed \cup vs /\ (\A v \in vs : InLists(v))
          /\ (\A v : InLists(v)' <=> InLists(v) /\ v \notin vs)
      BY <1>2, <1>8, <1>9
    <2> HIDE DEF vs
    <2> QED BY <1>1, <1>10, <1>11, <2>1, Freed
  <1> QED BY <1>1, <1>3, <1>4, <1>12

\* The entries that a pass of the cleaner leaves.
LEMMA CleanedEntries ==
    ASSUME Types, OnePlace, CleanPass(cleaner.info)
    PROVE  \A r, c, p, k, v : Listed(r, c, p, k, v)' <=> Listed(r, c, p, k, v) /\ v \notin Cleaned
  <1> DEFINE s == cleaner.info
  <1>1. /\ s \in Snapshots
        /\ infos' = [infos EXCEPT ![s] = [c \in CPUs |-> Marked(infos[s][c], Cleaned)]]
    BY DEF CleanPass
  <1>2. infos = [r \in Snapshots |-> infos[r]]  BY DEF Types, ListTypes
  <1>3. \A v \in Cleaned : \E c, p, k : Listed(s, c, p, k, v)  BY <1>1, CleanedVersions DEF Listed
  <1> HIDE DEF s
  <1>4. Snapshots' = Snapshots  BY <1>1 DEF Snapshots
  <1>5. ASSUME NEW r, NEW c, NEW p, NEW k, NEW v
        PROVE  Listed(r, c, p, k, v)' <=> Listed(r, c, p, k, v) /\ v \notin Cleaned
    <2>1. CASE r = s /\ c \in CPUs
      <3>1. infos'[s][c] = Marked(infos[s][c], Cleaned)  BY <1>1, <1>2, <2>1
      <3>2. Len(create) \in Nat /\ infos[s][c] \in List(Len(create))
        BY <1>1, <2>1 DEF Types, ListTypes, VersionTypes
      <3>3. At(Marked(infos[s][c], Cleaned), p, k, v) <=> At(infos[s][c], p, k, v) /\ v \notin Cleaned
        BY <3>2, MarkedEntries
      <3> QED BY <1>1, <1>4, <2>1, <3>1, <3>3 DEF Listed
    <2>2. CASE r \in Snapshots /\ r # s
      <3>1. infos'[r] = infos[r]  BY <1>1, <1>2, <2>2
      <3>2. Listed(r, c, p, k, v)' <=> Listed(r, c, p, k, v)  BY <1>4, <3>1 DEF Listed
      <3>3. Listed(r, c, p, k, v) => v \notin Cleaned  BY <1>3, <2>2 DEF OnePlace
      <3> QED BY <3>2, <3>3
    <2>3. CASE r \notin Snapshots \/ c \notin CPUs  BY <1>4, <2>3 DEF Listed
    <2> QED BY <2>1, <2>2, <2>3
  <1> QED BY <1>5

\* What the cleaner frees leaves the lists.
LEMMA CleanAccounts ==
    ASSUME Types, Stopping, Accounts, nova_background_clean_snapshot_list
    PROVE  Accounts'
  <1>1. UNCHANGED <<create, delete, orphaned, req, removing>>
    BY DEF nova_background_clean_snapshot_list, versions
  <1>2. CASE UNCHANGED <<infos, freed, raced>>
    <2>1. \A s, c, p, k, v : Listed(s, c, p, k, v)' <=> Listed(s, c, p, k, v)  BY <1>2, SameInfos
    <2>2. UNCHANGED <<create, delete, freed, orphaned, req, removing>>  BY <1>1, <1>2
    <2> QED BY <2>1, <2>2, SameEntries
  <1>3. CASE CleanPass(cleaner.info)
    <2>1. OnePlace  BY DEF Accounts
    <2>2. \A r, c, p, k, v : Listed(r, c, p, k, v)' <=> Listed(r, c, p, k, v) /\ v \notin Cleaned
      BY <1>3, <2>1, CleanedEntries
    <2>3. removing' = removing  BY <1>1
    <2>4. \A v : InRemoving(v)' <=> InRemoving(v)  BY <2>3 DEF InRemoving
    <2>5. \A v : InInfos(v)' <=> InInfos(v) /\ v \notin Cleaned  BY <2>2 DEF InInfos
    <2>6. \A v : ~(InInfos(v) /\ InRemoving(v))  BY ListedVersions DEF Accounts, KeptOK, Types
    <2>7. \A v \in Cleaned : InInfos(v)
      <3>1. cleaner.info \in Snapshots  BY <1>3 DEF CleanPass
      <3> QED BY <3>1, CleanedVersions DEF InInfos, Listed
    <2>8. \A v : InLists(v)' <=> InLists(v) /\ v \notin Cleaned
      BY <2>4, <2>5, <2>6, <2>7 DEF InLists
    <2>9. \A v \in Cleaned : InLists(v)  BY <2>7 DEF InLists
    <2>10. \A v : ~(InInfos(v)' /\ InRemoving(v)')  BY <2>4, <2>5, <2>6
    <2>11. OnePlace'
      <3>1. ASSUME NEW r, NEW x, NEW b, NEW c, NEW o, NEW p, NEW j, NEW k, NEW v,
                   Listed(r, b, o, j, v)', Listed(x, c, p, k, v)'
            PROVE  r = x /\ b = c /\ o = p /\ j = k
        <4>1. Listed(r, b, o, j, v) /\ Listed(x, c, p, k, v)  BY <2>2, <3>1
        <4> QED BY <4>1 DEF Accounts, OnePlace
      <3> QED BY <3>1, SMT DEF OnePlace
    <2>12. freed' = freed \cup Cleaned  BY <1>3, FreeFacts DEF CleanPass
    <2> DEFINE vs == Cleaned
    <2>13. freed' = freed \cup vs /\ (\A v \in vs : InLists(v))
           /\ (\A v : InLists(v)' <=> InLists(v) /\ v \notin vs)
      BY <2>8, <2>9, <2>12
    <2> HIDE DEF vs
    <2> QED BY <1>1, <2>10, <2>11, <2>13, Freed
  <1> QED BY <1>2, <1>3, CleanTypes

=============================================================================
