--------------------------- MODULE SnapshotProofs ---------------------------
(***************************************************************************)
(* Snapshots for any number of threads, files, lists and epochs: a live    *)
(* snapshot loses nothing it shows, every version that was overwritten is  *)
(* freed once or on one list, and a cleaner that is told to stop stops.    *)
(***************************************************************************)
EXTENDS SnapshotSteps

USE Zenon

-----------------------------------------------------------------------------
(* Accounts: the writers.                                                   *)

\* A write that begins has nothing in its hands.
LEMMA StartAccounts ==
    ASSUME Types, Writers, Accounts, NEW t \in Threads, NEW r, Started(t, r),
           UNCHANGED <<infos, removing, create, delete, freed, orphaned>>
    PROVE  Accounts'
  <1>1. /\ infos' = infos /\ removing' = removing /\ create' = create /\ delete' = delete
        /\ freed' = freed /\ orphaned' = orphaned
    OBVIOUS
  <1>2. /\ req'[t] = r /\ r.v = 0 /\ \A u \in Threads : u # t => req'[u] = req[u]
    <2>1. req' = [req EXCEPT ![t] = r] /\ r.v = 0  BY DEF Started
    <2> QED BY <2>1 DEF Types, VersionTypes
  <1>3. req[t].v = 0
    <2>1. req[t] = NoRequest  BY DEF Started, Writers, WriterOK
    <2>2. 0 \in Nat  BY SMT
    <2> QED BY <2>1, <2>2, NoRequestFacts
  <1>4. \A u \in Threads : req'[u].v = req[u].v  BY <1>2, <1>3
  <1>5. \A v : InHand(v)' <=> InHand(v)  BY <1>4 DEF InHand
  <1>6. \A v : Kept(v)' <=> Kept(v)  BY <1>1, <1>5 DEF Kept
  <1>7. \A s, c, p, k, v : Listed(s, c, p, k, v)' <=> Listed(s, c, p, k, v)  BY <1>1, SameInfos
  <1>8. \A v : (InInfos(v)' <=> InInfos(v)) /\ (InRemoving(v)' <=> InRemoving(v))
    BY <1>1, <1>7 DEF InInfos, InRemoving
  <1>9. KeptOK'
    <2>1. \A v : InLists(v)' <=> InLists(v)  BY <1>8 DEF InLists
    <2> QED BY <1>1, <1>6, <1>8, <2>1 DEF Accounts, KeptOK
  <1>10. OnePlace'
    <2>1. ASSUME NEW q, NEW x, NEW b, NEW c, NEW o, NEW p, NEW j, NEW k, NEW v,
                 Listed(q, b, o, j, v)', Listed(x, c, p, k, v)'
          PROVE  q = x /\ b = c /\ o = p /\ j = k
      <3>1. Listed(q, b, o, j, v) /\ Listed(x, c, p, k, v)  BY <1>7, <2>1
      <3> QED BY <3>1 DEF Accounts, OnePlace
    <2> QED BY <2>1, SMT DEF OnePlace
  <1>11. GoneOK'  BY <1>1 DEF Accounts, GoneOK
  <1>12. HandsOK'  BY <1>1, <1>4 DEF Accounts, HandsOK
  <1> QED BY <1>9, <1>10, <1>11, <1>12 DEF Accounts

\* What a write overwrites was on no list, not freed and in nobody's hands.
LEMMA OldFacts ==
    ASSUME Types, Writers, Accounts, NEW f \in Files, file[f] # 0
    PROVE  /\ file[f] \in 1..Len(create) /\ delete[file[f]] = None
           /\ file[f] \notin freed /\ file[f] \notin orphaned /\ ~InHand(file[f]) /\ ~InLists(file[f])
  <1> DEFINE old == file[f]
             n == Len(create)
  <1>1. old \in 1..n
    <2>1. old \in 0..n /\ n \in Nat  BY DEF Types, VersionTypes
    <2>2. old # 0  OBVIOUS
    <2> HIDE DEF old, n
    <2> QED BY <2>1, <2>2, SMT
  <1>2. delete[old] = None  BY DEF Writers, FilesOK
  <1>3. old \notin freed /\ old \notin orphaned  BY <1>2 DEF Accounts, GoneOK
  <1>4. ~InHand(old)  BY <1>2 DEF Accounts, HandsOK, InHand
  <1>5. ~InLists(old)  BY <1>1, <1>2 DEF Accounts, KeptOK, Kept
  <1> QED BY <1>1, <1>2, <1>3, <1>4, <1>5

\* An overwritten version is freed or in the hands of the writer.
LEMMA ReplaceAccounts ==
    ASSUME Types, Writers, Accounts, NEW t \in Threads, nova_free_old_entry(t)
    PROVE  Accounts'
  <1>0. PICK old, n : old = file[req[t].f] /\ n = Len(create)  OBVIOUS
  <1>1. /\ pc[t] = "reassign" /\ req[t].f \in Files /\ old \in 0..n /\ req[t] \in Requests(n)
        /\ ReplacedVersions(req[t], old)
        /\ FreedOld(t, old) \/ \E r \in Requests(n) : Handed(t, old, r)
        /\ infos' = infos /\ removing' = removing /\ orphaned' = orphaned
    BY <1>0, ReplaceSteps
  <1>2. req[t].v = 0  BY <1>1 DEF Writers, WriterOK
  <1>3. n \in Nat /\ VersionTypes /\ ListTypes  BY <1>0 DEF Types, VersionTypes
  <1>4. /\ \A v \in 1..n : v # old => delete'[v] = delete[v]
        /\ old # 0 => delete'[old] # None
        /\ req[t].new => delete'[n + 1] = None
        /\ Len(create') = IF req[t].new THEN n + 1 ELSE n
    <2>1. req[t].e \in 0..MaxEpoch  BY <1>1, RequestFacts
    <2>2. \A e \in 0..MaxEpoch : e # -1  BY SMT
    <2>3. req[t].e # None  BY <2>1, <2>2 DEF None
    <2> QED BY <1>0, <1>1, <2>3 DEF ReplacedVersions
  <1>5. old # 0 => /\ old \in 1..n /\ delete[old] = None /\ old \notin freed /\ old \notin orphaned
                   /\ ~InHand(old) /\ ~InLists(old)
    BY <1>0, <1>1, OldFacts
  <1>6. /\ \A v \in 1..Len(create') : v \in 1..n \/ (v = n + 1 /\ req[t].new)
        /\ n + 1 \notin 1..n /\ n + 1 # 0 /\ 0 \notin 1..n
    <2> DEFINE m == Len(create')
    <2>1. m = n \/ (m = n + 1 /\ req[t].new)  BY <1>4
    <2> HIDE DEF m
    <2>2. \A v \in 1..(n + 1) : v \in 1..n \/ v = n + 1  BY <1>3, SMT
    <2>3. \A v \in 1..m : v \in 1..n \/ (v = n + 1 /\ req[t].new)  BY <2>1, <2>2
    <2>4. n + 1 \notin 1..n /\ n + 1 # 0 /\ 0 \notin 1..n  BY <1>3, SMT
    <2> QED BY <2>3, <2>4 DEF m
  <1>7. \A s, c, p, k, v : Listed(s, c, p, k, v)' <=> Listed(s, c, p, k, v)  BY <1>1, SameInfos
  <1>8. \A v : (InInfos(v)' <=> InInfos(v)) /\ (InRemoving(v)' <=> InRemoving(v))
    BY <1>1, <1>7 DEF InInfos, InRemoving
  <1>9. \A v : InLists(v)' <=> InLists(v)  BY <1>8 DEF InLists
  <1>10. \A v : InLists(v) => v \in 1..n  BY <1>0, <1>3, ListedVersions DEF InLists
  <1>11. PICK q, h : /\ req' = [req EXCEPT ![t] = q] /\ q.v = h /\ h \in {0, old}
                     /\ old # 0 => (old \in freed' <=> h = 0)
                     /\ \A v : v # old => (v \in freed' <=> v \in freed)
                     /\ old = 0 => (0 \in freed' <=> 0 \in freed)
    <2>1. CASE FreedOld(t, old)
      <3>1. freed' = freed \cup ({old} \ {0}) /\ req' = [req EXCEPT ![t] = NoRequest]
        BY <2>1, FreeFacts DEF FreedOld
      <3>2. NoRequest.v = 0  BY <1>3, NoRequestFacts
      <3>3. /\ old # 0 => (old \in freed' <=> 0 = 0)
            /\ \A v : v # old => (v \in freed' <=> v \in freed)
            /\ old = 0 => (0 \in freed' <=> 0 \in freed)
        BY <3>1
      <3> QED BY <3>1, <3>2, <3>3
    <2>2. CASE \E r \in Requests(n) : Handed(t, old, r)
      <3>1. PICK r \in Requests(n) : Handed(t, old, r)  BY <2>2
      <3>2. old # 0 /\ r.v = old /\ freed' = freed /\ req' = [req EXCEPT ![t] = r]
        BY <3>1 DEF Handed
      <3>3. /\ old # 0 => (old \in freed' <=> old = 0)
            /\ \A v : v # old => (v \in freed' <=> v \in freed)
            /\ old = 0 => (0 \in freed' <=> 0 \in freed)
        BY <1>5, <3>2
      <3> QED BY <3>2, <3>3
    <2> QED BY <1>1, <2>1, <2>2
  <1>12. req'[t] = q /\ \A u \in Threads : u # t => req'[u] = req[u]  BY <1>3, <1>11 DEF VersionTypes
  <1>13. ASSUME NEW v, v # 0, v # old PROVE InHand(v)' <=> InHand(v)
    <2>1. q.v # v /\ req[t].v # v  BY <1>2, <1>11, <1>13
    <2> QED BY <1>12, <2>1 DEF InHand
  <1>14. ASSUME NEW v \in 1..n, v # old PROVE Kept(v)' <=> Kept(v)
    <2>1. v # 0  BY <1>6
    <2> QED BY <1>1, <1>4, <1>11, <1>13, <1>14, <2>1 DEF Kept
  <1>15. old # 0 => ~Kept(old)'
    <2>1. ASSUME old # 0 PROVE ~Kept(old)'
      <3>1. CASE h = 0
        <4>1. old \in freed'  BY <1>11, <2>1, <3>1
        <4> QED BY <4>1 DEF Kept
      <3>2. CASE h = old
        <4> QED BY <1>11, <1>12, <3>2 DEF Kept, InHand
      <3> QED BY <1>11, <3>1, <3>2
    <2> QED BY <2>1
  <1>16. KeptOK'
    <2>1. ASSUME NEW v, v \in 1..Len(create')
          PROVE  (Kept(v)' <=> InLists(v)') /\ ~(InInfos(v)' /\ InRemoving(v)')
      <3>1. CASE v \in 1..n /\ v # old
        <4>1. (Kept(v) <=> InLists(v)) /\ ~(InInfos(v) /\ InRemoving(v))
          BY <1>0, <3>1 DEF Accounts, KeptOK
        <4> QED BY <1>8, <1>9, <1>14, <3>1, <4>1
      <3>2. CASE v \in 1..n /\ v = old
        <4>1. old # 0  BY <1>6, <3>2
        <4>2. ~InLists(v) /\ ~InInfos(v)  BY <1>5, <3>2, <4>1 DEF InLists
        <4> QED BY <1>8, <1>9, <1>15, <3>2, <4>1, <4>2
      <3>3. CASE v = n + 1 /\ req[t].new
        <4>1. ~Kept(v)'  BY <1>4, <3>3 DEF Kept
        <4>2. ~InLists(v) /\ ~InInfos(v)  BY <1>6, <1>10, <3>3 DEF InLists
        <4> QED BY <1>8, <1>9, <4>1, <4>2
      <3> QED BY <1>6, <2>1, <3>1, <3>2, <3>3
    <2> QED BY <2>1 DEF KeptOK
  <1>17. OnePlace'
    <2>1. ASSUME NEW r, NEW x, NEW b, NEW c, NEW o, NEW p, NEW j, NEW k, NEW v,
                 Listed(r, b, o, j, v)', Listed(x, c, p, k, v)'
          PROVE  r = x /\ b = c /\ o = p /\ j = k
      <3>1. Listed(r, b, o, j, v) /\ Listed(x, c, p, k, v)  BY <1>7, <2>1
      <3> QED BY <3>1, ZenonT(60) DEF Accounts, OnePlace
    <2> QED BY <2>1, SMT DEF OnePlace
  <1>18. freed \subseteq 1..n /\ orphaned \subseteq 1..n  BY <1>0, <1>3 DEF VersionTypes
  <1>19. GoneOK'
    <2>1. ASSUME NEW v, v \in freed' \cup orphaned' PROVE delete'[v] # None
      <3>1. CASE v = old /\ old # 0  BY <1>4, <3>1
      <3>2. CASE v # old
        <4>1. v \in freed \cup orphaned  BY <1>1, <1>11, <2>1, <3>2
        <4>2. v \in 1..n /\ delete[v] # None  BY <1>18, <4>1 DEF Accounts, GoneOK
        <4> QED BY <1>4, <3>2, <4>2
      <3>3. CASE v = old /\ old = 0
        <4>1. 0 \in freed \cup orphaned  BY <1>1, <1>11, <2>1, <3>3
        <4> QED BY <1>6, <1>18, <4>1
      <3> QED BY <3>1, <3>2, <3>3
    <2> QED BY <2>1 DEF GoneOK
  <1>20. HandsOK'
    <2>1. ASSUME NEW u \in Threads, u # t, req[u].v # 0
          PROVE  req[u].v # old /\ req[u].v \in 1..n
      <3>1. InHand(req[u].v)  BY DEF InHand
      <3>2. req[u].v # old  BY <1>5, <2>1, <3>1
      <3>3. req[u].v \in 0..n
        <4>1. req[u] \in Requests(n)  BY <1>0, <1>3 DEF VersionTypes
        <4> QED BY <4>1, RequestFacts
      <3>4. \A i \in 0..n : i # 0 => i \in 1..n  BY <1>3, SMT
      <3> QED BY <2>1, <3>2, <3>3, <3>4
    <2>2. ASSUME NEW u \in Threads, req'[u].v # 0
          PROVE  delete'[req'[u].v] # None /\ req'[u].v \notin freed' /\ req'[u].v \notin orphaned'
      <3>1. CASE u = t
        <4>1. req'[u].v = old /\ h = old /\ old # 0  BY <1>11, <1>12, <2>2, <3>1
        <4>2. old \notin freed' /\ old \notin orphaned'  BY <1>1, <1>5, <1>11, <4>1
        <4> QED BY <1>4, <4>1, <4>2
      <3>2. CASE u # t
        <4> DEFINE v == req[u].v
        <4>1. req'[u].v = v /\ v # 0  BY <1>12, <2>2, <3>2
        <4>2. v # old /\ v \in 1..n  BY <2>1, <3>2, <4>1
        <4>3. delete[v] # None /\ v \notin freed /\ v \notin orphaned
          BY <4>1 DEF Accounts, HandsOK
        <4> HIDE DEF v
        <4> QED BY <1>1, <1>4, <1>11, <4>1, <4>2, <4>3
      <3> QED BY <3>1, <3>2
    <2>3. ASSUME NEW x \in Threads, NEW u \in Threads, req'[x].v # 0, req'[x].v = req'[u].v
          PROVE  x = u
      <3>1. ASSUME NEW y \in Threads, y # t, req'[t].v = req'[y].v, req'[t].v # 0 PROVE FALSE
        <4>1. req'[t].v = old /\ req'[y].v = req[y].v  BY <1>11, <1>12, <3>1
        <4> QED BY <2>1, <3>1, <4>1
      <3>2. CASE x # t /\ u # t
        <4>1. req[x].v # 0 /\ req[x].v = req[u].v  BY <1>12, <2>3, <3>2
        <4> QED BY <4>1 DEF Accounts, HandsOK
      <3> QED BY <2>3, <3>1, <3>2
    <2> QED BY <2>2, <2>3 DEF HandsOK
  <1> QED BY <1>16, <1>17, <1>19, <1>20 DEF Accounts

\* One entry more on the lists, for v, in a place that had none.
OneMoreListed(s, c, v) ==
    \E q, j : /\ \A u : ~Listed(s, c, q, j, u)
              /\ \A r, b, p, k, u :
                   Listed(r, b, p, k, u)' <=>
                     Listed(r, b, p, k, u) \/ (r = s /\ b = c /\ p = q /\ k = j /\ u = v)

\* The second half of a write makes one.
LEMMA AppendedListed ==
    ASSUME Types, NEW t \in Threads, req[t].v \in 1..Len(create), NEW c \in CPUs, Appended(t, c)
    PROVE  OneMoreListed(req[t].info, c, req[t].v)
  <1>0. PICK s, v, n : s = req[t].info /\ v = req[t].v /\ n = Len(create)  OBVIOUS
  <1>1. PICK w : w = WithEntry(infos[s][c], s, Entry(v))  OBVIOUS
  <1>2. s \in Snapshots /\ infos' = [infos EXCEPT ![s] = [infos[s] EXCEPT ![c] = w]]
    BY <1>0, <1>1 DEF Appended
  <1>3. infos = [r \in Snapshots |-> infos[r]] /\ infos[s] \in [CPUs -> List(n)]
        /\ Snapshots \subseteq 0..(MaxEpoch - 1)
    BY <1>0, <1>2 DEF Types, ListTypes, EpochTypes
  <1>4. Snapshots' = Snapshots  BY <1>2 DEF Snapshots
  <1>5. OneMore(w, infos[s][c], v)
    <2>1. s \in 0..(MaxEpoch - 1)  BY <1>2, <1>3
    <2>2. s \in 0..MaxEpoch  BY <2>1, SnapshotConstants, SMT
    <2>3. infos[s][c] \in List(n) /\ n \in Nat /\ v \in 1..n  BY <1>0, <1>3 DEF Types, VersionTypes
    <2> QED BY <1>1, <2>2, <2>3, AppendedEntry
  <1>6. PICK q, j : /\ \A u : ~At(infos[s][c], q, j, u)
                    /\ \A p, k, u : At(w, p, k, u) <=>
                         At(infos[s][c], p, k, u) \/ (p = q /\ k = j /\ u = v)
    BY <1>5 DEF OneMore
  <1>7. \A u : ~Listed(s, c, q, j, u)  BY <1>6 DEF Listed
  <1>8. infos'[s][c] = w  BY <1>2, <1>3
  <1>9. ASSUME NEW r, NEW b, NEW p, NEW k, NEW u
        PROVE  Listed(r, b, p, k, u)' <=>
                 Listed(r, b, p, k, u) \/ (r = s /\ b = c /\ p = q /\ k = j /\ u = v)
    <2>1. CASE r = s /\ b = c
      <3>1. Listed(r, b, p, k, u)' <=> At(w, p, k, u)  BY <1>2, <1>4, <1>8, <2>1 DEF Listed
      <3>2. Listed(r, b, p, k, u) <=> At(infos[s][c], p, k, u)  BY <1>2, <2>1 DEF Listed
      <3> QED BY <1>6, <2>1, <3>1, <3>2, SMT
    <2>2. CASE ~(r = s /\ b = c) /\ r \in Snapshots /\ b \in CPUs
      <3>1. infos'[r][b] = infos[r][b]
        <4>1. CASE r # s  BY <1>2, <1>3, <2>2, <4>1
        <4>2. CASE r = s /\ b # c  BY <1>2, <1>3, <2>2, <4>2
        <4> QED BY <2>2, <4>1, <4>2
      <3> QED BY <1>4, <2>2, <3>1 DEF Listed
    <2>3. CASE ~(r \in Snapshots /\ b \in CPUs)
      <3>1. ~(r = s /\ b = c)  BY <1>2, <2>3
      <3> QED BY <1>4, <2>3, <3>1 DEF Listed
    <2> QED BY <2>1, <2>2, <2>3
  <1>10. OneMoreListed(s, c, v)  BY <1>7, <1>9 DEF OneMoreListed
  <1> QED BY <1>0, <1>10

\* What a writer had in its hands is on a list, or lost.
LEMMA AppendAccounts ==
    ASSUME Types, Stopping, Writers, Accounts, NEW t \in Threads, nova_append_snapshot_list_entry(t)
    PROVE  Accounts'
  <1>0. PICK v, n : v = req[t].v /\ n = Len(create)  OBVIOUS
  <1>1. /\ removing' = removing /\ create' = create /\ delete' = delete /\ freed' = freed
    BY DEF nova_append_snapshot_list_entry, versions
  <1>2. /\ v \in 1..n /\ req' = [req EXCEPT ![t] = NoRequest]
        /\ (\E c \in CPUs : Appended(t, c)) \/ Lost(t)
    BY <1>0, AppendTypes
  <1>3. n \in Nat /\ VersionTypes /\ ListTypes  BY <1>0 DEF Types, VersionTypes
  <1>4. /\ req'[t].v = 0 /\ \A u \in Threads : u # t => req'[u] = req[u]
    <2>1. NoRequest.v = 0  BY <1>3, NoRequestFacts
    <2> QED BY <1>2, <1>3, <2>1 DEF VersionTypes
  <1>5. v # 0 /\ \A x \in 1..n : x # 0  BY <1>2, <1>3, SMT
  <1>6. \A x \in 1..n : InHand(x)' <=> InHand(x) /\ x # v
    <2>1. ASSUME NEW x \in 1..n, InHand(x)' PROVE InHand(x) /\ x # v
      <3>1. PICK u \in Threads : req'[u].v = x  BY <2>1 DEF InHand
      <3>2. u # t  BY <1>4, <1>5, <3>1
      <3>3. req[u].v = x  BY <1>4, <3>1, <3>2
      <3>4. x # v  BY <1>0, <1>5, <3>2, <3>3 DEF Accounts, HandsOK
      <3> QED BY <3>3, <3>4 DEF InHand
    <2>2. ASSUME NEW x \in 1..n, InHand(x), x # v PROVE InHand(x)'
      <3>1. PICK u \in Threads : req[u].v = x  BY <2>2 DEF InHand
      <3>2. u # t  BY <1>0, <2>2, <3>1
      <3>3. req'[u].v = x  BY <1>4, <3>1, <3>2
      <3> QED BY <3>3 DEF InHand
    <2> QED BY <2>1, <2>2
  <1>7. delete[v] # None /\ v \notin freed /\ v \notin orphaned /\ InHand(v)
    BY <1>0, <1>5 DEF Accounts, HandsOK, InHand
  <1>8. ~InLists(v)  BY <1>0, <1>2, <1>7 DEF Accounts, KeptOK, Kept
  <1>9. \A u : InRemoving(u)' <=> InRemoving(u)  BY <1>1 DEF InRemoving
  <1>10. orphaned' \subseteq orphaned \cup {v}  BY <1>0, <1>2 DEF Appended, Lost
  <1>11. GoneOK'  BY <1>1, <1>7, <1>10 DEF Accounts, GoneOK
  <1>12. HandsOK'
    <2>1. ASSUME NEW u \in Threads, req'[u].v # 0
          PROVE  u # t /\ req'[u].v = req[u].v /\ req[u].v # v
      <3>1. u # t /\ req'[u].v = req[u].v  BY <1>4, <2>1
      <3>2. req[u].v # v  BY <1>0, <1>5, <2>1, <3>1 DEF Accounts, HandsOK
      <3> QED BY <3>1, <3>2
    <2>2. ASSUME NEW u \in Threads, req'[u].v # 0
          PROVE  delete'[req'[u].v] # None /\ req'[u].v \notin freed' /\ req'[u].v \notin orphaned'
      BY <1>1, <1>10, <2>1, <2>2 DEF Accounts, HandsOK
    <2>3. ASSUME NEW x \in Threads, NEW u \in Threads, req'[x].v # 0, req'[x].v = req'[u].v
          PROVE  x = u
      BY <2>1, <2>3 DEF Accounts, HandsOK
    <2> QED BY <2>2, <2>3 DEF HandsOK
  <1>13. CASE Lost(t)
    <2>1. infos' = infos /\ orphaned' = orphaned \cup {v}  BY <1>0, <1>13 DEF Lost
    <2>2. \A r, c, p, k, u : Listed(r, c, p, k, u)' <=> Listed(r, c, p, k, u)  BY <2>1, SameInfos
    <2>3. \A u : InInfos(u)' <=> InInfos(u)  BY <2>2 DEF InInfos
    <2>4. KeptOK'
      <3>1. ASSUME NEW u \in 1..n
            PROVE  (Kept(u)' <=> InLists(u)') /\ ~(InInfos(u)' /\ InRemoving(u)')
        <4>1. Kept(u)' <=> Kept(u)
          <5>1. CASE u = v
            <6>1. ~Kept(u)' /\ ~Kept(u)  BY <1>7, <2>1, <5>1 DEF Kept
            <6> QED BY <6>1
          <5>2. CASE u # v
            <6>1. InHand(u)' <=> InHand(u)  BY <1>6, <5>2
            <6> QED BY <1>1, <2>1, <5>2, <6>1 DEF Kept
          <5> QED BY <5>1, <5>2
        <4>2. (Kept(u) <=> InLists(u)) /\ ~(InInfos(u) /\ InRemoving(u))
          BY <1>0 DEF Accounts, KeptOK
        <4>3. InLists(u)' <=> InLists(u)  BY <1>9, <2>3 DEF InLists
        <4> QED BY <1>9, <2>3, <4>1, <4>2, <4>3
      <3> QED BY <1>0, <1>1, <3>1 DEF KeptOK
    <2>5. OnePlace'
      <3>1. ASSUME NEW r, NEW x, NEW b, NEW c, NEW o, NEW p, NEW j, NEW k, NEW u,
                   Listed(r, b, o, j, u)', Listed(x, c, p, k, u)'
            PROVE  r = x /\ b = c /\ o = p /\ j = k
        <4>1. Listed(r, b, o, j, u) /\ Listed(x, c, p, k, u)  BY <2>2, <3>1
        <4> QED BY <4>1, ZenonT(60) DEF Accounts, OnePlace
      <3> QED BY <3>1, SMT DEF OnePlace
    <2> QED BY <1>11, <1>12, <2>4, <2>5 DEF Accounts
  <1>14. ASSUME NEW c \in CPUs, Appended(t, c) PROVE Accounts'
    <2>1. orphaned' = orphaned  BY <1>14 DEF Appended
    <2>0. PICK s : s = req[t].info  OBVIOUS
    <2>2. PICK q, i : /\ \A u : ~Listed(s, c, q, i, u)
                      /\ \A r, b, p, k, u :
                           Listed(r, b, p, k, u)' <=>
                             Listed(r, b, p, k, u) \/ (r = s /\ b = c /\ p = q /\ k = i /\ u = v)
      <3>1. OneMoreListed(s, c, v)  BY <1>0, <1>2, <1>14, <2>0, AppendedListed
      <3> QED BY <3>1 DEF OneMoreListed
    <2>3. \A u : InInfos(u)' <=> InInfos(u) \/ u = v
      <3>1. ASSUME NEW u, InInfos(u)' PROVE InInfos(u) \/ u = v
        <4>1. PICK r, b, p, k : Listed(r, b, p, k, u)'  BY <3>1 DEF InInfos
        <4> QED BY <2>2, <4>1, SMT DEF InInfos
      <3>2. ASSUME NEW u, InInfos(u) PROVE InInfos(u)'
        <4>1. PICK r, b, p, k : Listed(r, b, p, k, u)  BY <3>2 DEF InInfos
        <4>2. Listed(r, b, p, k, u)'  BY <2>2, <4>1
        <4> QED BY <4>2 DEF InInfos
      <3>3. InInfos(v)'
        <4>1. Listed(s, c, q, i, v)'  BY <2>2
        <4> QED BY <4>1 DEF InInfos
      <3> QED BY <3>1, <3>2, <3>3
    <2>4. KeptOK'
      <3>1. ASSUME NEW u \in 1..n
            PROVE  (Kept(u)' <=> InLists(u)') /\ ~(InInfos(u)' /\ InRemoving(u)')
        <4>1. CASE u = v
          <5>1. ~InHand(u)'  BY <1>6, <4>1
          <5>2. Kept(u)'  BY <1>1, <1>7, <2>1, <4>1, <5>1 DEF Kept
          <5>3. InInfos(u)' /\ ~InRemoving(u)'  BY <1>8, <1>9, <2>3, <4>1 DEF InLists
          <5> QED BY <5>2, <5>3 DEF InLists
        <4>2. CASE u # v
          <5>1. InHand(u)' <=> InHand(u)  BY <1>6, <4>2
          <5>2. Kept(u)' <=> Kept(u)  BY <1>1, <2>1, <5>1 DEF Kept
          <5>3. (Kept(u) <=> InLists(u)) /\ ~(InInfos(u) /\ InRemoving(u))
            BY <1>0 DEF Accounts, KeptOK
          <5>4. InInfos(u)' <=> InInfos(u)  BY <2>3, <4>2
          <5>5. InLists(u)' <=> InLists(u)  BY <1>9, <5>4 DEF InLists
          <5> QED BY <1>9, <5>2, <5>3, <5>4, <5>5
        <4> QED BY <4>1, <4>2
      <3> QED BY <1>0, <1>1, <3>1 DEF KeptOK
    <2>5. OnePlace'
      <3>1. ASSUME NEW r, NEW x, NEW b, NEW d, NEW o, NEW p, NEW j, NEW k, NEW u,
                   Listed(r, b, o, j, u)', Listed(x, d, p, k, u)'
            PROVE  r = x /\ b = d /\ o = p /\ j = k
        <4>1. CASE u = v
          <5>1. ~Listed(r, b, o, j, u) /\ ~Listed(x, d, p, k, u)  BY <1>8, <4>1 DEF InLists, InInfos
          <5>2. r = s /\ b = c /\ o = q /\ j = i  BY <2>2, <3>1, <5>1, SMT
          <5>3. x = s /\ d = c /\ p = q /\ k = i  BY <2>2, <3>1, <5>1, SMT
          <5> QED BY <5>2, <5>3
        <4>2. CASE u # v
          <5>1. Listed(r, b, o, j, u) /\ Listed(x, d, p, k, u)  BY <2>2, <3>1, <4>2, SMT
          <5> QED BY <5>1, ZenonT(60) DEF Accounts, OnePlace
        <4> QED BY <4>1, <4>2
      <3> QED BY <3>1, SMT DEF OnePlace
    <2> QED BY <1>11, <1>12, <2>4, <2>5 DEF Accounts
  <1> QED BY <1>2, <1>13, <1>14

-----------------------------------------------------------------------------
(* Views.                                                                   *)

\* Everything that is compared is a number.
LEMMA Numbers ==
    ASSUME Types
    PROVE  /\ epoch \in Int /\ saved \in Int /\ taking \in Int /\ cleaner.info \in Int
           /\ \A s \in Snapshots : s \in Int
           /\ \A v \in 1..Len(create) : create[v] \in Int /\ delete[v] \in Int
           /\ \A t \in Threads : req[t].e \in Int /\ req[t].info \in Int
           /\ \A s \in Live : s \in Int
           /\ taking # None => taking < epoch
  <1>1. /\ epoch \in 0..MaxEpoch /\ saved \in 0..epoch /\ Snapshots \subseteq 0..(MaxEpoch - 1)
        /\ taking = None \/ taking \in 0..(epoch - 1)
    BY DEF Types, EpochTypes
  <1>2. epoch \in Int /\ saved \in Int /\ 0..(MaxEpoch - 1) \subseteq Int  BY <1>1, SnapshotConstants, SMT
  <1>3. taking \in Int /\ (taking # None => taking < epoch)
    <2>1. CASE taking = None  BY <2>1, SMT DEF None
    <2>2. CASE taking # None
      <3>1. taking \in 0..(epoch - 1)  BY <1>1, <2>2
      <3> QED BY <1>2, <3>1, SMT
    <2> QED BY <2>1, <2>2
  <1>4. cleaner.info \in Int
    <2>1. cleaner.info \in -1..(MaxEpoch - 1)  BY DEF Types, CleanerTypes, Cleaners
    <2> QED BY <2>1, SMT
  <1>5. ASSUME NEW v \in 1..Len(create) PROVE create[v] \in Int /\ delete[v] \in Int
    <2>1. create[v] \in 0..MaxEpoch /\ delete[v] \in -1..MaxEpoch
      BY ElementOfSeq DEF Types, VersionTypes
    <2> QED BY <2>1, SMT
  <1>6. ASSUME NEW t \in Threads PROVE req[t].e \in Int /\ req[t].info \in Int
    <2>1. req[t] \in Requests(Len(create))  BY DEF Types, VersionTypes
    <2>2. req[t].e \in 0..MaxEpoch /\ req[t].info \in -1..(MaxEpoch - 1)  BY <2>1, RequestFacts
    <2> QED BY <2>2, SMT
  <1>7. ASSUME NEW s \in Snapshots PROVE s \in Int  BY <1>1, <1>2
  <1>8. ASSUME NEW s \in Live PROVE s \in Int  BY <1>3, <1>7 DEF Live
  <1> QED BY <1>2, <1>3, <1>4, <1>5, <1>6, <1>7, <1>8

\* What a snapshot shows it still shows when no version changes.
LEMMA StillShown ==
    ASSUME UNCHANGED <<file, create, delete, freed, raced>>, NEW s, NEW f, NEW v, Shows(s, f, v)
    PROVE  Shows(s, f, v)'
  <1>1. file' = file /\ create' = create /\ delete' = delete /\ freed' = freed /\ raced' = raced  OBVIOUS
  <1> QED BY <1>1, SMT DEF Shows

\* The views of the snapshots that are left, when no version changes.
LEMMA TreeViews ==
    ASSUME Views, UNCHANGED <<file, create, delete, freed, raced>>,
           Live' \subseteq Live, Live' \subseteq DOMAIN view', \A s \in Live' : view'[s] = view[s]
    PROVE  ViewTypes' /\ ViewsOK' /\ (UNCHANGED <<pc, req>> => WritersLate')
  <1>1. create' = create  OBVIOUS
  <1>2. ViewTypes'  BY <1>1 DEF Views, ViewTypes
  <1>3. ASSUME NEW s \in Live', NEW f \in Files, NEW v \in 1..Len(create), view'[s][f] = v
        PROVE  Shows(s, f, v)'
    <2>1. s \in Live /\ view[s][f] = v  BY <1>3
    <2>2. Shows(s, f, v)  BY <2>1 DEF Views, ViewsOK
    <2> QED BY <2>2, StillShown
  <1>4. ViewsOK'  BY <1>1, <1>3 DEF ViewsOK
  <1>5. ASSUME UNCHANGED <<pc, req>>, NEW s \in Live', NEW t \in Threads, pc'[t] # "idle", view'[s][req'[t].f] # 0
        PROVE  req'[t].e > s
    <2>1. pc' = pc /\ req' = req /\ s \in Live /\ view'[s] = view[s]  BY <1>5
    <2>2. pc[t] # "idle" /\ view[s][req[t].f] # 0  BY <1>5, <2>1
    <2>3. req[t].e > s  BY <2>1, <2>2 DEF Views, WritersLate
    <2> QED BY <2>1, <2>3
  <1> QED BY <1>2, <1>4, <1>5 DEF WritersLate

\* Nothing that the views depend on changes.
LEMMA SameViews ==
    ASSUME Views, UNCHANGED <<epoch, infos, taking, removing, file, create, delete, pc, req, freed, raced, view>>
    PROVE  Views'
  <1>1. /\ epoch' = epoch /\ infos' = infos /\ taking' = taking /\ removing' = removing
        /\ create' = create /\ pc' = pc /\ req' = req /\ view' = view
    OBVIOUS
  <1>2. Snapshots' = Snapshots /\ Live' = Live  BY <1>1 DEF Snapshots, Live
  <1>3. \A s, c, p, k, v : Listed(s, c, p, k, v)' <=> Listed(s, c, p, k, v)  BY <1>1, SameInfos
  <1>4. NumbersOK' /\ TimesOK'  BY <1>1, <1>2 DEF Views, NumbersOK, TimesOK
  <1>5. Live \subseteq DOMAIN view  BY DEF Views, ViewTypes
  <1>6. ViewTypes' /\ ViewsOK' /\ WritersLate'  BY <1>1, <1>2, <1>5, TreeViews
  <1>8. ListsLate'  BY <1>1, <1>2, <1>3 DEF Views, ListsLate
  <1>9. HandsLate'  BY <1>1, <1>2 DEF Views, HandsLate
  <1>10. RemovingGone'  BY <1>1, <1>2 DEF Views, RemovingGone, InRemoving
  <1> QED BY <1>4, <1>6, <1>8, <1>9, <1>10 DEF Views

\* A snapshot begins to be taken: it shows what the files hold that nobody writes.
LEMMA BeginViews ==
    ASSUME Types, Writers, Accounts, Views, create_snapshot_begin
    PROVE  Views'
  <1>1. /\ taking = None /\ taking' = epoch /\ epoch' = epoch + 1
        /\ UNCHANGED <<infos, removing, file, create, delete, pc, req, freed, raced>>
        /\ infos' = infos /\ removing' = removing /\ create' = create /\ pc' = pc /\ req' = req
        /\ DOMAIN view' = DOMAIN view \cup {epoch}
        /\ \A s \in DOMAIN view : s # epoch => view'[s] = view[s]
    BY DEF create_snapshot_begin, versions
  <1>2. /\ epoch \in Int /\ \A s \in Snapshots : s \in Int /\ s < epoch
        /\ \A v \in 1..Len(create) : create[v] \in Int
        /\ \A t \in Threads : req[t].e \in Int /\ req[t].info \in Int
    BY Numbers DEF Views, NumbersOK
  <1>3. epoch \notin Snapshots
    <2> SUFFICES ASSUME epoch \in Snapshots PROVE FALSE  OBVIOUS
    <2>1. epoch < epoch  BY <1>2
    <2> QED BY <1>2, <2>1, SMT
  <1>4. view'[epoch] = [f \in Files |-> IF \E t \in Threads : req[t].f = f THEN 0 ELSE file[f]]
    BY <1>3 DEF create_snapshot_begin
  <1>5. Snapshots' = Snapshots  BY <1>1 DEF Snapshots
  <1>6. epoch # None  BY SMT DEF Types, EpochTypes, None
  <1>7. Live = Snapshots /\ Live' = Snapshots \cup {epoch}  BY <1>1, <1>5, <1>6 DEF Live
  <1>8. Snapshots \subseteq DOMAIN view  BY <1>7 DEF Views, ViewTypes
  <1>9. \A s \in Snapshots : s # epoch /\ view'[s] = view[s]  BY <1>1, <1>3, <1>8
  <1>10. NumbersOK'
    <2>1. \A s \in Snapshots : s < epoch + 1  BY <1>2, SMT
    <2> QED BY <1>1, <1>2, <1>5, <2>1 DEF NumbersOK
  <1>11. TimesOK'
    <2>1. /\ \A v \in 1..Len(create) : create[v] <= epoch
          /\ \A t \in Threads : req[t].e <= epoch
      BY DEF Views, TimesOK
    <2>2. /\ \A v \in 1..Len(create) : create[v] <= epoch + 1
          /\ \A t \in Threads : req[t].e <= epoch + 1
      BY <1>2, <2>1, SMT
    <2> QED BY <1>1, <2>2 DEF TimesOK
  <1>12. ASSUME NEW f \in Files
         PROVE  /\ view'[epoch][f] \in 0..Len(create)
                /\ \A v \in 1..Len(create) : view'[epoch][f] = v => file[f] = v /\ file[f] # 0
    <2>1. Len(create) \in Nat /\ file[f] \in 0..Len(create)  BY DEF Types, VersionTypes
    <2>2. view'[epoch][f] = 0 \/ view'[epoch][f] = file[f]  BY <1>4
    <2>3. 0 \in 0..Len(create) /\ \A v \in 1..Len(create) : v # 0  BY <2>1, SMT
    <2> QED BY <2>1, <2>2, <2>3
  <1>13. ViewTypes'
    <2>1. Live' \subseteq DOMAIN view'  BY <1>1, <1>7, <1>8
    <2>2. ASSUME NEW s \in Live', NEW f \in Files PROVE view'[s][f] \in 0..Len(create)
      <3>1. CASE s = epoch  BY <1>12, <3>1
      <3>2. CASE s \in Snapshots  BY <1>7, <1>9, <3>2 DEF Views, ViewTypes
      <3> QED BY <1>7, <3>1, <3>2
    <2> QED BY <1>1, <2>1, <2>2 DEF ViewTypes
  <1>14. ASSUME NEW s \in Live', NEW f \in Files, NEW v \in 1..Len(create), view'[s][f] = v
         PROVE  Shows(s, f, v)' /\ ~InRemoving(v)'
    <2>1. InRemoving(v)' <=> InRemoving(v)  BY <1>1 DEF InRemoving
    <2>2. CASE s = epoch
      <3>1. file[f] = v /\ file[f] # 0  BY <1>12, <1>14, <2>2
      <3>2. delete[v] = None /\ v \notin freed /\ ~InLists(v)  BY <3>1, OldFacts
      <3>3. create[v] <= epoch  BY DEF Views, TimesOK
      <3>4. Shows(s, f, v)  BY <2>2, <3>1, <3>2, <3>3 DEF Shows
      <3>5. ~InRemoving(v)  BY <3>2 DEF InLists
      <3> QED BY <1>1, <2>1, <3>4, <3>5, StillShown
    <2>3. CASE s \in Snapshots
      <3>1. s \in Live /\ view[s][f] = v  BY <1>7, <1>9, <1>14, <2>3
      <3>2. Shows(s, f, v) /\ ~InRemoving(v)  BY <3>1 DEF Views, ViewsOK, RemovingGone
      <3> QED BY <1>1, <2>1, <3>2, StillShown
    <2> QED BY <1>7, <2>2, <2>3
  <1>15. ViewsOK'  BY <1>1, <1>14 DEF ViewsOK
  <1>16. RemovingGone'  BY <1>1, <1>14 DEF RemovingGone
  <1>17. ASSUME NEW s \in Live', NEW t \in Threads, pc[t] # "idle", view'[s][req[t].f] # 0
         PROVE  req[t].e > s
    <2>1. CASE s = epoch
      <3>1. req[t].f \in Files  BY <1>17 DEF Writers, WriterOK
      <3>2. view'[epoch][req[t].f] = 0  BY <1>4, <3>1
      <3> QED BY <1>17, <2>1, <3>2
    <2>2. CASE s \in Snapshots
      <3>1. s \in Live /\ view[s][req[t].f] # 0  BY <1>7, <1>9, <1>17, <2>2
      <3> QED BY <1>17, <3>1 DEF Views, WritersLate
    <2> QED BY <1>7, <2>1, <2>2
  <1>18. WritersLate'  BY <1>1, <1>17 DEF WritersLate
  <1>19. ListsLate'
    <2>1. \A s, c, p, k, v : Listed(s, c, p, k, v)' <=> Listed(s, c, p, k, v)  BY <1>1, SameInfos
    <2> QED BY <1>1, <1>5, <2>1 DEF Views, ListsLate
  <1>20. HandsLate'
    <2>1. ASSUME NEW t \in Threads, pc[t] = "append"
          PROVE  req[t].info < epoch + 1 /\ req[t].info < epoch
      <3>1. req[t].info < epoch  BY <2>1 DEF Views, HandsLate
      <3> QED BY <1>2, <3>1, SMT
    <2> QED BY <1>1, <1>5, <2>1 DEF Views, HandsLate
  <1> QED BY <1>10, <1>11, <1>13, <1>15, <1>16, <1>18, <1>19, <1>20 DEF Views

\* The snapshot is in the tree now, or it is given up.
LEMMA EndViews ==
    ASSUME Types, Accounts, Views, create_snapshot_end
    PROVE  Views'
  <1>1. /\ taking # None /\ taking' = None /\ epoch' = epoch
        /\ UNCHANGED <<removing, file, create, delete, pc, req, freed, raced>>
        /\ removing' = removing /\ create' = create /\ pc' = pc /\ req' = req
        /\ \/ Inserted /\ view' = view
           \/ infos' = infos /\ view' = [s \in Snapshots |-> view[s]]
    BY DEF create_snapshot_end, Inserted, versions
  <1>2. /\ epoch \in Int /\ taking \in Int /\ taking < epoch
        /\ \A s \in Snapshots : s \in Int /\ s < epoch /\ s < taking
        /\ \A t \in Threads : req[t].info \in Int
    BY <1>1, Numbers DEF Views, NumbersOK
  <1>3. Live = Snapshots \cup {taking} /\ Live' = Snapshots'  BY <1>1 DEF Live
  <1>4. /\ Snapshots' \subseteq Snapshots \cup {taking} /\ Snapshots' \subseteq DOMAIN view'
        /\ \A s \in Snapshots' : view'[s] = view[s]
    <2>1. CASE Inserted /\ view' = view
      <3>1. Snapshots' = Snapshots \cup {taking}  BY <2>1 DEF Inserted, Snapshots
      <3> QED BY <1>3, <2>1, <3>1 DEF Views, ViewTypes
    <2>2. CASE infos' = infos /\ view' = [s \in Snapshots |-> view[s]]
      <3>1. Snapshots' = Snapshots  BY <2>2 DEF Snapshots
      <3> QED BY <2>2, <3>1
    <2> QED BY <1>1, <2>1, <2>2
  <1>5. ViewTypes' /\ ViewsOK' /\ WritersLate'  BY <1>1, <1>3, <1>4, TreeViews
  <1>6. NumbersOK'  BY <1>1, <1>2, <1>4 DEF NumbersOK
  <1>7. TimesOK'  BY <1>1 DEF Views, TimesOK
  <1>8. RemovingGone'  BY <1>1, <1>3, <1>4, ZenonT(60) DEF Views, RemovingGone, InRemoving
  <1>9. \A s, c, p, k, v : Listed(s, c, p, k, v)' <=> Listed(s, c, p, k, v)  BY EndAccounts
  <1>10. ASSUME NEW r \in Snapshots', NEW s, NEW c, NEW p, NEW k, NEW v, Listed(s, c, p, k, v), r < s
         PROVE  create[v] > r
    <2>1. CASE r \in Snapshots  BY <1>10, <2>1 DEF Views, ListsLate
    <2>2. CASE r = taking
      <3>1. s \in Snapshots  BY <1>10 DEF Listed
      <3>2. s \in Int /\ s < taking /\ taking < s  BY <1>2, <1>10, <2>2, <3>1
      <3> QED BY <1>2, <3>2, SMT
    <2> QED BY <1>4, <2>1, <2>2
  <1>11. ListsLate'  BY <1>1, <1>9, <1>10 DEF ListsLate
  <1>12. ASSUME NEW t \in Threads, pc[t] = "append"
         PROVE  req[t].info < epoch /\ \A r \in Snapshots' : r < req[t].info => create[req[t].v] > r
    <2>1. /\ req[t].info < epoch /\ req[t].info < taking
          /\ \A r \in Snapshots : r < req[t].info => create[req[t].v] > r
      BY <1>1, <1>12 DEF Views, HandsLate
    <2>2. ~(taking < req[t].info)  BY <1>2, <2>1, SMT
    <2> QED BY <1>4, <2>1, <2>2
  <1>13. HandsLate'  BY <1>1, <1>12 DEF HandsLate
  <1> QED BY <1>5, <1>6, <1>7, <1>8, <1>11, <1>13 DEF Views

\* One snapshot less.
LEMMA FewerViews ==
    ASSUME Types, Views, UNCHANGED <<epoch, taking, file, create, delete, pc, req, freed, raced>>,
           taking = None, Snapshots' \subseteq Snapshots, view' = [s \in Snapshots' |-> view[s]]
    PROVE  NumbersOK' /\ TimesOK' /\ ViewTypes' /\ ViewsOK' /\ WritersLate' /\ HandsLate' /\ Live' \subseteq Live
  <1>1. epoch' = epoch /\ taking' = taking /\ create' = create /\ pc' = pc /\ req' = req  OBVIOUS
  <1>2. Live = Snapshots /\ Live' = Snapshots'  BY <1>1 DEF Live
  <1>3. Live' \subseteq Live /\ Live' \subseteq DOMAIN view' /\ \A s \in Live' : view'[s] = view[s]  BY <1>2
  <1>4. ViewTypes' /\ ViewsOK' /\ WritersLate'  BY <1>1, <1>3, TreeViews
  <1>5. NumbersOK' /\ TimesOK'  BY <1>1 DEF Views, NumbersOK, TimesOK
  <1>6. HandsLate'  BY <1>1 DEF Views, HandsLate
  <1> QED BY <1>3, <1>4, <1>5, <1>6

\* A snapshot is deleted, and the next one gets its entries: what was created after all
\* that are older than s was created after all that are older than next, but for s.
LEMMA DeleteViews ==
    ASSUME Types, Views, NEW s \in Snapshots, nova_delete_snapshot(s)
    PROVE  Views'
  <1>1. /\ taking = None /\ removing' = removing /\ create' = create
        /\ UNCHANGED <<epoch, taking, file, create, delete, pc, req, freed, raced>>
        /\ view' = [r \in Snapshots \ {s} |-> view[r]]
        /\ DOMAIN infos' = Snapshots \ {s}
    BY DEF nova_delete_snapshot, versions
  <1>2. Snapshots' = Snapshots \ {s}  BY <1>1 DEF Snapshots
  <1>3. Snapshots' \subseteq Snapshots /\ view' = [r \in Snapshots' |-> view[r]]  BY <1>1, <1>2
  <1>4. NumbersOK' /\ TimesOK' /\ ViewTypes' /\ ViewsOK' /\ WritersLate' /\ HandsLate' /\ Live' \subseteq Live
    BY <1>1, <1>3, FewerViews
  <1>5. PICK next : /\ Joined(s, next) /\ next > s
                    /\ \A r \in Snapshots : r > s => next <= r
    BY DeleteJoins
  <1>6. next \in Snapshots /\ \A r \in Snapshots : r \in Int  BY <1>5, Numbers DEF Joined
  <1>7. ASSUME NEW h \in Snapshots', NEW r, NEW c, NEW p, NEW k, NEW v, Listed(r, c, p, k, v)', h < r
        PROVE  create[v] > h
    <2>1. PICK q, o : Origin(s, next, r, c, p, q, o) /\ Listed(q, c, o, k, v)
      BY <1>5, <1>7, JoinedEntries
    <2>2. h \in Snapshots /\ h # s  BY <1>2
    <2>3. h < q
      <3>1. q = r \/ (r = next /\ q = s)  BY <2>1 DEF Origin
      <3>2. CASE q = r  BY <1>7, <3>2
      <3>3. CASE r = next /\ q = s
        <4>1. h < next /\ (h > s => next <= h) /\ h \in Int /\ s \in Int /\ next \in Int
          BY <1>5, <1>6, <1>7, <2>2, <3>3
        <4>2. h < s  BY <2>2, <4>1, SMT
        <4> QED BY <3>3, <4>2
      <3> QED BY <3>1, <3>2, <3>3
    <2> QED BY <2>1, <2>2, <2>3 DEF Views, ListsLate
  <1>8. ListsLate'  BY <1>1, <1>7 DEF ListsLate
  <1>9. ASSUME NEW r \in Live', NEW f \in Files, NEW v \in 1..Len(create), view'[r][f] = v
        PROVE  ~InRemoving(v)'
    <2>1. r \in Live /\ r \in Snapshots'  BY <1>1, <1>4 DEF Live
    <2>2. view[r][f] = v  BY <1>3, <1>9, <2>1
    <2>3. ~InRemoving(v)  BY <2>1, <2>2 DEF Views, RemovingGone
    <2> QED BY <1>1, <2>3 DEF InRemoving
  <1>10. RemovingGone'  BY <1>1, <1>9 DEF RemovingGone
  <1> QED BY <1>4, <1>8, <1>10 DEF Views

\* The last snapshot is deleted: what is on its lists was created after all others.
LEMMA DeleteLastViews ==
    ASSUME Types, Accounts, Views, NEW s \in Snapshots, delete_last_snapshot(s)
    PROVE  Views'
  <1>1. /\ taking = None /\ create' = create
        /\ UNCHANGED <<epoch, taking, file, create, delete, pc, req, freed, raced>>
        /\ view' = [r \in Snapshots \ {s} |-> view[r]]
        /\ DOMAIN infos' = Snapshots \ {s}
        /\ nova_find_target_snapshot_info(s + 1) = None
    BY DEF delete_last_snapshot, versions
  <1>2. Snapshots' = Snapshots \ {s}  BY <1>1 DEF Snapshots
  <1>3. Snapshots' \subseteq Snapshots /\ view' = [r \in Snapshots' |-> view[r]]  BY <1>1, <1>2
  <1>4. NumbersOK' /\ TimesOK' /\ ViewTypes' /\ ViewsOK' /\ WritersLate' /\ HandsLate' /\ Live' \subseteq Live
    BY <1>1, <1>3, FewerViews
  <1>5. /\ \A r, c, p, k, v : Listed(r, c, p, k, v)' => Listed(r, c, p, k, v)
        /\ \A v : InRemoving(v)' => \E c, p, k : Listed(s, c, p, k, v)
    BY DeleteLastAccounts
  <1>6. ListsLate'  BY <1>1, <1>3, <1>5 DEF Views, ListsLate
  <1>7. ASSUME NEW r \in Snapshots' PROVE r < s
    <2>1. /\ r \in Snapshots /\ r # s /\ r \in Int /\ s \in Int
          /\ EpochTypes /\ \A q \in Snapshots : q # None
      BY <1>2, Numbers, SMT DEF Types, EpochTypes, None
    <2>2. s + 1 \in Int  BY <2>1, SMT
    <2>3. r < s + 1  BY <1>1, <2>1, <2>2, Target
    <2> QED BY <2>1, <2>3, SMT
  <1>8. ASSUME NEW r \in Live', NEW f \in Files, NEW v \in 1..Len(create), view'[r][f] = v, InRemoving(v)'
        PROVE  FALSE
    <2>1. r \in Live /\ r \in Snapshots'  BY <1>1, <1>4 DEF Live
    <2>2. view[r][f] = v /\ r \in Snapshots  BY <1>3, <1>8, <2>1
    <2>3. create[v] <= r  BY <2>1, <2>2 DEF Views, ViewsOK, Shows
    <2>4. PICK c, p, k : Listed(s, c, p, k, v)  BY <1>5, <1>8
    <2>5. create[v] > r  BY <1>7, <2>1, <2>2, <2>4 DEF Views, ListsLate
    <2>6. create[v] \in Int /\ r \in Int  BY <2>2, Numbers
    <2> QED BY <2>3, <2>5, <2>6, SMT
  <1>9. RemovingGone'  BY <1>1, <1>8 DEF RemovingGone
  <1> QED BY <1>4, <1>6, <1>9 DEF Views

\* Versions are freed that no snapshot shows.
LEMMA FreeViews ==
    ASSUME Types, Views, UNCHANGED <<epoch, taking, file, create, delete, pc, req, view>>,
           Snapshots' = Snapshots, NEW vs, freed' = freed \cup vs, raced \subseteq raced',
           \A s \in Live, f \in Files, v \in 1..Len(create) : view[s][f] = v => v \notin vs
    PROVE  NumbersOK' /\ TimesOK' /\ ViewTypes' /\ ViewsOK' /\ WritersLate' /\ HandsLate' /\ Live' = Live
  <1>1. /\ epoch' = epoch /\ taking' = taking /\ create' = create /\ pc' = pc /\ req' = req
        /\ file' = file /\ delete' = delete /\ view' = view
    OBVIOUS
  <1>2. Live' = Live  BY <1>1 DEF Live
  <1>3. NumbersOK' /\ TimesOK'  BY <1>1 DEF Views, NumbersOK, TimesOK
  <1>4. ViewTypes'  BY <1>1, <1>2 DEF Views, ViewTypes
  <1>5. WritersLate'  BY <1>1, <1>2 DEF Views, WritersLate
  <1>6. HandsLate'  BY <1>1 DEF Views, HandsLate
  <1>7. ASSUME NEW s \in Live, NEW f \in Files, NEW v \in 1..Len(create), view[s][f] = v
        PROVE  Shows(s, f, v)'
    <2>1. Shows(s, f, v) /\ v \notin vs  BY <1>7 DEF Views, ViewsOK
    <2>2. v \in freed' => v \in raced'  BY <2>1 DEF Shows
    <2> QED BY <1>1, <2>1, <2>2, SMT DEF Shows
  <1>8. ViewsOK'  BY <1>1, <1>2, <1>7 DEF ViewsOK
  <1> QED BY <1>2, <1>3, <1>4, <1>5, <1>6, <1>8

\* What the last snapshot left behind is freed.
LEMMA DeleteInfoViews ==
    ASSUME Types, Stopping, Accounts, Views, nova_delete_snapshot_info
    PROVE  Views'
  <1>1. UNCHANGED <<epoch, taking, file, create, delete, pc, req, view>> /\ infos' = infos /\ create' = create
        /\ Free(Removed)
    BY DEF nova_delete_snapshot_info, versions, Removed
  <1>2. freed' = freed \cup Removed /\ raced \subseteq raced'  BY <1>1, FreeFacts
  <1>3. (\A v \in Removed : InRemoving(v)) /\ \A v : ~InRemoving(v)'  BY DeleteInfoAccounts
  <1>4. \A s \in Live, f \in Files, v \in 1..Len(create) : view[s][f] = v => v \notin Removed
    BY <1>3 DEF Views, RemovingGone
  <1>5. Snapshots' = Snapshots  BY <1>1 DEF Snapshots
  <1>6. NumbersOK' /\ TimesOK' /\ ViewTypes' /\ ViewsOK' /\ WritersLate' /\ HandsLate'
    BY <1>1, <1>2, <1>4, <1>5, FreeViews
  <1>7. \A s, c, p, k, v : Listed(s, c, p, k, v)' <=> Listed(s, c, p, k, v)  BY <1>1, SameInfos
  <1>8. ListsLate'  BY <1>1, <1>5, <1>7 DEF Views, ListsLate
  <1>9. RemovingGone'  BY <1>3 DEF RemovingGone
  <1> QED BY <1>6, <1>8, <1>9 DEF Views

\* The cleaner frees what its snapshot has on its lists and does not show: older ones
\* do not show it either.
LEMMA CleanViews ==
    ASSUME Types, Stopping, Accounts, Views, nova_background_clean_snapshot_list
    PROVE  Views'
  <1>1. /\ UNCHANGED <<epoch, taking, file, create, delete, pc, req, view>>
        /\ create' = create /\ removing' = removing /\ view' = view
        /\ UNCHANGED <<epoch, taking, removing, file, create, delete, pc, req, view>>
    BY DEF nova_background_clean_snapshot_list, versions
  <1>2. CASE UNCHANGED <<infos, freed, raced>>  BY <1>1, <1>2, SameViews
  <1>3. CASE CleanPass(cleaner.info)
    <2>0. PICK s : s = cleaner.info  OBVIOUS
    <2>1. /\ s \in Snapshots /\ Free(Cleaned) /\ Snapshots' = Snapshots
      <3>1. DOMAIN infos' = DOMAIN infos  BY <1>3 DEF CleanPass
      <3> QED BY <1>3, <2>0, <3>1 DEF CleanPass, Snapshots
    <2>2. freed' = freed \cup Cleaned /\ raced \subseteq raced'  BY <2>1, FreeFacts
    <2>3. ASSUME NEW r \in Live, NEW f \in Files, NEW v \in 1..Len(create), view[r][f] = v, v \in Cleaned
          PROVE  FALSE
      <3>1. delete[v] <= s /\ \E c, p, k : Listed(s, c, p, k, v)
        BY <2>0, <2>1, <2>3, CleanedVersions DEF Listed
      <3>2. PICK c, p, k : Listed(s, c, p, k, v)  BY <3>1
      <3>3. delete[v] # None  BY <3>2 DEF Accounts, KeptOK, Kept, InLists, InInfos
      <3>4. create[v] <= r /\ delete[v] > r  BY <2>3, <3>3 DEF Views, ViewsOK, Shows
      <3>5. /\ create[v] \in Int /\ delete[v] \in Int /\ r \in Int /\ s \in Int
        BY <2>1, Numbers
      <3>6. r < s  BY <3>1, <3>4, <3>5, SMT
      <3>7. CASE r \in Snapshots
        <4>1. create[v] > r  BY <3>2, <3>6, <3>7 DEF Views, ListsLate
        <4> QED BY <3>4, <3>5, <4>1, SMT
      <3>8. CASE r = taking /\ taking # None
        <4>1. s < r  BY <2>1, <3>8 DEF Views, NumbersOK
        <4> QED BY <3>5, <3>6, <4>1, SMT
      <3> QED BY <3>7, <3>8 DEF Live
    <2>4. NumbersOK' /\ TimesOK' /\ ViewTypes' /\ ViewsOK' /\ WritersLate' /\ HandsLate' /\ Live' = Live
      BY <1>1, <2>1, <2>2, <2>3, FreeViews
    <2>5. \A q, c, p, k, v : Listed(q, c, p, k, v)' => Listed(q, c, p, k, v)
      BY <1>3, CleanedEntries DEF Accounts
    <2>6. ListsLate'  BY <1>1, <2>1, <2>5 DEF Views, ListsLate
    <2>7. RemovingGone'  BY <1>1, <2>4 DEF Views, RemovingGone, InRemoving
    <2> QED BY <2>4, <2>6, <2>7 DEF Views
  <1> QED BY <1>2, <1>3, CleanTypes

\* A mount that does not go back.
LEMMA RestoreViews ==
    ASSUME Types, Accounts, Views, nova_save_and_restore_snapshots, epoch' = epoch
    PROVE  Views'
  <1>1. /\ UNCHANGED <<epoch, taking, file, create, delete, pc, req, view>>
        /\ taking' = taking /\ freed' = freed /\ raced' = raced
        /\ create' = create /\ removing' = removing /\ view' = view
        /\ DOMAIN infos' = Snapshots
    BY DEF nova_save_and_restore_snapshots, versions
  <1>2. Snapshots' = Snapshots /\ Live' = Live  BY <1>1 DEF Snapshots, Live
  <1>3. NumbersOK' /\ TimesOK' /\ ViewTypes' /\ ViewsOK' /\ WritersLate' /\ HandsLate'
    <2>0. PICK vs : vs = {}  OBVIOUS
    <2>1. freed' = freed \cup vs /\ raced \subseteq raced' /\ \A v : v \notin vs  BY <1>1, <2>0
    <2> QED BY <1>1, <1>2, <2>1, FreeViews
  <1>4. \A s, c, p, k, v : Listed(s, c, p, k, v)' <=> Listed(s, c, p, k, v)  BY RestoreAccounts
  <1>5. ListsLate'  BY <1>1, <1>2, <1>4 DEF Views, ListsLate
  <1>6. RemovingGone'  BY <1>1, <1>2 DEF Views, RemovingGone, InRemoving
  <1> QED BY <1>3, <1>5, <1>6 DEF Views

\* A write begins, in the current epoch.
LEMMA StartViews ==
    ASSUME Types, Stopping, Views, NEW t \in Threads, nova_get_epoch_id(t)
    PROVE  Views'
  <1>1. /\ epoch' = epoch /\ infos' = infos /\ taking' = taking /\ removing' = removing /\ create' = create
        /\ view' = view /\ UNCHANGED <<file, create, delete, freed, raced>>
    BY DEF nova_get_epoch_id, versions
  <1>2. PICK r : Started(t, r)  BY StartTypes
  <1>3. /\ req' = [req EXCEPT ![t] = r] /\ pc' = [pc EXCEPT ![t] = "reassign"] /\ r.e = epoch
    BY <1>2 DEF Started
  <1>4. /\ req'[t] = r /\ pc'[t] = "reassign"
        /\ \A u \in Threads : u # t => req'[u] = req[u] /\ pc'[u] = pc[u]
    BY <1>3 DEF Types, VersionTypes
  <1>5. Snapshots' = Snapshots /\ Live' = Live  BY <1>1 DEF Snapshots, Live
  <1>6. Live \subseteq DOMAIN view  BY DEF Views, ViewTypes
  <1>7. ViewTypes' /\ ViewsOK'  BY <1>1, <1>5, <1>6, TreeViews
  <1>8. NumbersOK'  BY <1>1, <1>5 DEF Views, NumbersOK
  <1>9. epoch \in Int /\ epoch <= epoch  BY Numbers, SMT
  <1>10. TimesOK'
    <2>1. ASSUME NEW u \in Threads PROVE req'[u].e <= epoch
      <3>1. CASE u = t  BY <1>3, <1>4, <1>9, <3>1
      <3>2. CASE u # t  BY <1>4, <3>2 DEF Views, TimesOK
      <3> QED BY <3>1, <3>2
    <2> QED BY <1>1, <2>1 DEF Views, TimesOK
  <1>11. ASSUME NEW s \in Live, NEW u \in Threads, pc'[u] # "idle", view[s][req'[u].f] # 0
         PROVE  req'[u].e > s
    <2>1. CASE u = t
      <3>1. s < epoch  BY Numbers DEF Live, Views, NumbersOK
      <3>2. s \in Int /\ epoch \in Int  BY Numbers
      <3>3. epoch > s  BY <3>1, <3>2, SMT
      <3> QED BY <1>3, <1>4, <2>1, <3>3
    <2>2. CASE u # t  BY <1>4, <1>11, <2>2 DEF Views, WritersLate
    <2> QED BY <2>1, <2>2
  <1>12. WritersLate'  BY <1>1, <1>5, <1>11 DEF WritersLate
  <1>13. ListsLate'
    <2>1. \A s, c, p, k, v : Listed(s, c, p, k, v)' <=> Listed(s, c, p, k, v)  BY <1>1, SameInfos
    <2> QED BY <1>1, <1>5, <2>1 DEF Views, ListsLate
  <1>14. HandsLate'
    <2>1. ASSUME NEW u \in Threads, pc'[u] = "append" PROVE u # t  BY <1>4, <2>1
    <2> QED BY <1>1, <1>4, <1>5, <2>1 DEF Views, HandsLate
  <1>15. RemovingGone'  BY <1>1, <1>5 DEF Views, RemovingGone, InRemoving
  <1> QED BY <1>7, <1>8, <1>10, <1>12, <1>13, <1>14, <1>15 DEF Views

\* The second half of a write: the entry goes to the list that was looked up.
LEMMA AppendViews ==
    ASSUME Types, Stopping, Writers, Views, NEW t \in Threads, nova_append_snapshot_list_entry(t)
    PROVE  Views'
  <1>1. /\ epoch' = epoch /\ taking' = taking /\ removing' = removing /\ create' = create
        /\ view' = view /\ UNCHANGED <<file, create, delete, freed, raced>>
    BY DEF nova_append_snapshot_list_entry, versions
  <1>2. /\ pc[t] = "append" /\ req[t].v \in 1..Len(create)
        /\ (\E c \in CPUs : Appended(t, c)) \/ Lost(t)
        /\ pc' = [pc EXCEPT ![t] = "idle"] /\ req' = [req EXCEPT ![t] = NoRequest]
    BY AppendTypes
  <1>3. /\ req'[t] = NoRequest /\ pc'[t] = "idle"
        /\ \A u \in Threads : u # t => req'[u] = req[u] /\ pc'[u] = pc[u]
    BY <1>2 DEF Types, VersionTypes
  <1>4. Snapshots' = Snapshots
    <2>1. DOMAIN infos' = DOMAIN infos  BY <1>2 DEF Appended, Lost
    <2> QED BY <2>1 DEF Snapshots
  <1>5. Live' = Live  BY <1>1, <1>4 DEF Live
  <1>6. Live \subseteq DOMAIN view  BY DEF Views, ViewTypes
  <1>7. ViewTypes' /\ ViewsOK'  BY <1>1, <1>5, <1>6, TreeViews
  <1>8. NumbersOK'  BY <1>1, <1>4 DEF Views, NumbersOK
  <1>9. TimesOK'
    <2>0. epoch \in 0..MaxEpoch  BY DEF Types, EpochTypes
    <2>1. 0 <= epoch  BY <2>0, SMT
    <2>2. NoRequest.e = 0  BY DEF NoRequest
    <2>3. ASSUME NEW u \in Threads PROVE req'[u].e <= epoch
      <3>1. CASE u = t  BY <1>3, <2>1, <2>2, <3>1
      <3>2. CASE u # t  BY <1>3, <3>2 DEF Views, TimesOK
      <3> QED BY <3>1, <3>2
    <2> QED BY <1>1, <2>3 DEF Views, TimesOK
  <1>10. WritersLate'
    <2>1. ASSUME NEW u \in Threads, pc'[u] # "idle" PROVE u # t  BY <1>3, <2>1
    <2> QED BY <1>1, <1>3, <1>5, <2>1 DEF Views, WritersLate
  <1>11. HandsLate'
    <2>1. ASSUME NEW u \in Threads, pc'[u] = "append" PROVE u # t  BY <1>3, <2>1
    <2> QED BY <1>1, <1>3, <1>4, <2>1 DEF Views, HandsLate
  <1>12. RemovingGone'  BY <1>1, <1>5 DEF Views, RemovingGone, InRemoving
  <1>13. ASSUME NEW s, NEW c, NEW p, NEW k, NEW v, Listed(s, c, p, k, v)'
         PROVE  Listed(s, c, p, k, v) \/ (s = req[t].info /\ v = req[t].v)
    <2>1. CASE Lost(t)
      <3>1. infos' = infos  BY <2>1 DEF Lost
      <3> QED BY <1>13, <3>1, SameInfos
    <2>2. ASSUME NEW b \in CPUs, Appended(t, b) PROVE Listed(s, c, p, k, v) \/ (s = req[t].info /\ v = req[t].v)
      <3>1. OneMoreListed(req[t].info, b, req[t].v)  BY <1>2, <2>2, AppendedListed
      <3> QED BY <1>13, <3>1, SMT DEF OneMoreListed
    <2> QED BY <1>2, <2>1, <2>2
  <1>14. ASSUME NEW r \in Snapshots, NEW s, NEW c, NEW p, NEW k, NEW v, Listed(s, c, p, k, v)', r < s
         PROVE  create[v] > r
    <2>1. CASE Listed(s, c, p, k, v)  BY <1>14, <2>1 DEF Views, ListsLate
    <2>2. CASE s = req[t].info /\ v = req[t].v  BY <1>2, <1>14, <2>2 DEF Views, HandsLate
    <2>3. Listed(s, c, p, k, v) \/ (s = req[t].info /\ v = req[t].v)  BY <1>13, <1>14, SMT
    <2> QED BY <2>1, <2>2, <2>3
  <1>15. ListsLate'  BY <1>1, <1>4, <1>14 DEF ListsLate
  <1> QED BY <1>7, <1>8, <1>9, <1>10, <1>11, <1>12, <1>15 DEF Views

\* An old version that a snapshot in the tree shows is not deleteable, and the list it
\* belongs to is one of a snapshot that all older ones were taken before.
LEMMA OldShown ==
    ASSUME Types, NEW old \in 1..Len(create), NEW e \in Int
    PROVE  /\ \A s \in Snapshots : create[old] <= s /\ s < e => ~nova_old_entry_deleteable(create[old], e)
           /\ ~nova_old_entry_deleteable(create[old], e) =>
                /\ nova_find_target_snapshot_info(create[old]) \in Snapshots
                /\ \A r \in Snapshots : r < nova_find_target_snapshot_info(create[old]) => create[old] > r
  <1>1. EpochTypes  BY DEF Types
  <1>2. PICK a, i : a = create[old] /\ i = nova_find_target_snapshot_info(a)  OBVIOUS
  <1>3. a \in Int /\ \A s \in Snapshots : s \in Int  BY <1>2, Numbers
  <1>4. \/ i = None /\ \A s \in Snapshots : s < a
        \/ i \in Snapshots /\ i >= a /\ \A s \in Snapshots : s >= a => i <= s
    BY <1>1, <1>2, <1>3, Target
  <1>5. nova_old_entry_deleteable(a, e) <=> a = e \/ i = None \/ i >= e
    BY <1>2 DEF nova_old_entry_deleteable
  <1>6. \A s \in Snapshots : s # None  BY SMT DEF Types, EpochTypes, None
  <1>7. ASSUME NEW s \in Snapshots, a <= s, s < e PROVE ~(a = e \/ i = None \/ i >= e)
    <2>1. ~(s < a)  BY <1>3, <1>7, SMT
    <2>2. i \in Snapshots /\ i <= s
      <3>1. s >= a  BY <1>3, <1>7, SMT
      <3> QED BY <1>4, <2>1, <3>1
    <2>3. i # None /\ i \in Int /\ s \in Int  BY <1>3, <1>6, <2>2
    <2> QED BY <1>3, <1>7, <2>2, <2>3, SMT
  <1>8. ASSUME i # None, NEW r \in Snapshots, r < i PROVE a > r
    <2>1. i \in Snapshots /\ (r >= a => i <= r)  BY <1>4, <1>8
    <2>2. i \in Int /\ r \in Int  BY <1>3, <2>1
    <2> QED BY <1>3, <1>8, <2>1, <2>2, SMT
  <1>9. i # None => i \in Snapshots  BY <1>4
  <1> QED BY <1>2, <1>5, <1>7, <1>8, <1>9

\* The first half of a write: no snapshot loses the version that is replaced.
LEMMA ReplaceViews ==
    ASSUME Types, Writers, Accounts, Views, NEW t \in Threads, nova_free_old_entry(t)
    PROVE  Views'
  <1>0. PICK f, e, old, n : f = req[t].f /\ e = req[t].e /\ old = file[f] /\ n = Len(create)  OBVIOUS
  <1>1. /\ pc[t] = "reassign" /\ f \in Files /\ old \in 0..n
        /\ ReplacedVersions(req[t], old)
        /\ FreedOld(t, old) \/ \E r \in Requests(n) : Handed(t, old, r)
        /\ epoch' = epoch /\ infos' = infos /\ taking' = taking /\ removing' = removing /\ view' = view
    BY <1>0, ReplaceSteps
  <1>2. /\ Len(create') = IF req[t].new THEN n + 1 ELSE n
        /\ \A v \in 1..n : create'[v] = create[v] /\ (v # old => delete'[v] = delete[v])
        /\ old # 0 => delete'[old] = e
        /\ req[t].new => create'[n + 1] = e
        /\ file' = [file EXCEPT ![f] = IF req[t].new THEN n + 1 ELSE 0]
    BY <1>0, <1>1 DEF ReplacedVersions
  <1>3. n \in Nat /\ file \in [Files -> 0..n]  BY <1>0 DEF Types, VersionTypes
  <1>4. /\ epoch \in Int /\ e \in Int /\ \A s \in Live : s \in Int
        /\ \A v \in 1..n : create[v] \in Int
    BY <1>0, Numbers
  <1>5. old # 0 => old \in 1..n  BY <1>1, <1>3, SMT
  <1>6. Snapshots' = Snapshots /\ Live' = Live  BY <1>1 DEF Snapshots, Live
  <1>7. 0..n \subseteq 0..Len(create') /\ \A v \in 1..Len(create') : v \notin 1..n => req[t].new /\ v = n + 1
    BY <1>2, <1>3, SMT
  <1>8. ASSUME NEW s \in Live, old # 0, view[s][f] = old
        PROVE  /\ e > s /\ create[old] <= s
               /\ s \in Snapshots => ~nova_old_entry_deleteable(create[old], e)
    <2>1. old \in 1..n /\ create[old] \in Int /\ s \in Int  BY <1>4, <1>5, <1>8
    <2>2. e > s  BY <1>0, <1>1, <1>8 DEF Views, WritersLate
    <2>3. create[old] <= s  BY <1>0, <1>1, <1>8, <2>1 DEF Views, ViewsOK, Shows
    <2>4. s < e  BY <1>4, <2>1, <2>2, SMT
    <2>5. s \in Snapshots => ~nova_old_entry_deleteable(create[old], e)
      BY <1>0, <1>4, <2>1, <2>3, <2>4, OldShown
    <2> QED BY <2>2, <2>3, <2>5
  <1>9. /\ raced \subseteq raced' /\ freed' \subseteq freed \cup {old}
        /\ old # 0 /\ old \in freed' =>
             \/ old \in freed
             \/ nova_old_entry_deleteable(create[old], e) /\ (taking # None => old \in raced')
    <2>1. CASE FreedOld(t, old)
      <3>2. PICK vs : vs = {old} \ {0}  OBVIOUS
      <3>3. Free(vs)  BY <3>2, <2>1 DEF FreedOld
      <3>4. /\ freed' = freed \cup vs /\ raced \subseteq raced'
            /\ taking # None => raced' = raced \cup vs
        BY <3>3, FreeFacts
      <3>5. old = 0 \/ nova_old_entry_deleteable(create[old], e)  BY <1>0, <2>1 DEF FreedOld
      <3> QED BY <3>2, <3>4, <3>5
    <2>2. ASSUME NEW r, Handed(t, old, r) PROVE freed' = freed /\ raced' = raced  BY <2>2 DEF Handed
    <2> QED BY <1>1, <2>1, <2>2
  <1>10. ASSUME NEW s \in Live, NEW g \in Files, NEW v \in 1..n, view[s][g] = v
         PROVE  Shows(s, g, v)'
    <2>1. Shows(s, g, v)  BY <1>0, <1>10 DEF Views, ViewsOK
    <2>2. CASE v = old
      <3>1. old # 0 /\ old \in 1..n  BY <1>3, <2>2, SMT
      <3>2. /\ delete[old] = None /\ old \notin freed
        <4>1. file[f] # 0  BY <1>0, <3>1
        <4> QED BY <1>0, <1>1, <4>1, OldFacts
      <3>3. file[g] = old  BY <2>1, <2>2, <3>2 DEF Shows
      <3>4. g = f  BY <1>0, <1>1, <3>1, <3>3 DEF Writers, FilesOK
      <3>5. /\ e > s /\ create[old] <= s /\ (s \in Snapshots => ~nova_old_entry_deleteable(create[old], e))
        BY <1>8, <1>10, <2>2, <3>1, <3>4
      <3>6. delete'[old] = e /\ create'[old] = create[old]  BY <1>2, <3>1
      <3>7. e # None
        <4>1. e \in 0..MaxEpoch  BY <1>0, RequestFacts DEF Types, VersionTypes
        <4> QED BY <4>1, SMT DEF None
      <3>8. old \in freed' => old \in raced'
        <4>1. s \notin Snapshots => taking # None  BY DEF Live
        <4> QED BY <1>9, <3>1, <3>2, <3>5, <4>1
      <3> QED BY <2>2, <3>5, <3>6, <3>7, <3>8 DEF Shows
    <2>3. CASE v # old
      <3>1. create'[v] = create[v] /\ delete'[v] = delete[v]  BY <1>2, <2>3
      <3>2. v \in freed' => v \in raced'  BY <1>9, <2>1, <2>3 DEF Shows
      <3>3. delete[v] = None => file'[g] = v
        <4>1. ASSUME delete[v] = None PROVE file'[g] = v
          <5>1. file[g] = v  BY <2>1, <4>1 DEF Shows
          <5>2. g # f  BY <1>0, <2>3, <5>1
          <5> QED BY <1>2, <1>3, <5>1, <5>2
        <4> QED BY <4>1
      <3> QED BY <2>1, <3>1, <3>2, <3>3, SMT DEF Shows
    <2> QED BY <2>2, <2>3
  <1>11. ViewTypes'
    <2>1. Live \subseteq DOMAIN view /\ \A s \in Live, g \in Files : view[s][g] \in 0..n
      BY <1>0 DEF Views, ViewTypes
    <2> QED BY <1>1, <1>6, <1>7, <2>1 DEF ViewTypes
  <1>12. ASSUME NEW s \in Live, NEW g \in Files, NEW v \in 1..Len(create'), view[s][g] = v
         PROVE  v \in 1..n
    <2>1. v \in 0..n  BY <1>0, <1>12 DEF Views, ViewTypes
    <2>2. Len(create') \in Nat  BY <1>2, <1>3, SMT
    <2> QED BY <1>3, <2>1, <2>2, SMT
  <1>13. ViewsOK'  BY <1>1, <1>6, <1>10, <1>12 DEF ViewsOK
  <1>14. NumbersOK'  BY <1>1, <1>6 DEF Views, NumbersOK
  <1>15. RemovingGone'
    <2>1. \A v : InRemoving(v)' <=> InRemoving(v)  BY <1>1 DEF InRemoving
    <2> QED BY <1>0, <1>1, <1>6, <1>12, <2>1 DEF Views, RemovingGone
  <1>16. ListsLate'
    <2>1. \A s, c, p, k, v : Listed(s, c, p, k, v)' <=> Listed(s, c, p, k, v)  BY <1>1, SameInfos
    <2>2. \A s, c, p, k, v : Listed(s, c, p, k, v) => v \in 1..n  BY <1>0, ListedVersions DEF Types
    <2> QED BY <1>2, <1>6, <2>1, <2>2 DEF Views, ListsLate
  <1>18. ASSUME NEW u \in Threads, u # t PROVE req'[u] = req[u] /\ pc'[u] = pc[u]
    <2>1. \/ pc' = [pc EXCEPT ![t] = "idle"] /\ req' = [req EXCEPT ![t] = NoRequest]
          \/ \E r \in Requests(n) : pc' = [pc EXCEPT ![t] = "append"] /\ req' = [req EXCEPT ![t] = r]
      BY <1>1 DEF FreedOld, Handed
    <2>2. DOMAIN pc = Threads /\ DOMAIN req = Threads  BY DEF Types, VersionTypes
    <2> QED BY <1>18, <2>1, <2>2
  <1>19. \/ req'[t] = NoRequest /\ pc'[t] = "idle"
         \/ /\ pc'[t] = "append" /\ req'[t].f = f /\ req'[t].e = e /\ req'[t].v = old /\ old # 0
            /\ req'[t].info = nova_find_target_snapshot_info(create[old])
            /\ ~nova_old_entry_deleteable(create[old], e)
    <2>1. DOMAIN pc = Threads /\ DOMAIN req = Threads  BY DEF Types, VersionTypes
    <2>2. CASE FreedOld(t, old)  BY <2>1, <2>2 DEF FreedOld
    <2>3. ASSUME NEW r, Handed(t, old, r)
          PROVE  /\ pc'[t] = "append" /\ req'[t].f = f /\ req'[t].e = e /\ req'[t].v = old /\ old # 0
                 /\ req'[t].info = nova_find_target_snapshot_info(create[old])
                 /\ ~nova_old_entry_deleteable(create[old], e)
      BY <1>0, <2>1, <2>3 DEF Handed
    <2> QED BY <1>1, <2>2, <2>3
  <1>20. e <= epoch  BY <1>0 DEF Views, TimesOK
  <1>21. TimesOK'
    <2>1. ASSUME NEW v \in 1..Len(create') PROVE create'[v] <= epoch
      <3>1. CASE v \in 1..n  BY <1>0, <1>2, <3>1 DEF Views, TimesOK
      <3>2. CASE v \notin 1..n  BY <1>2, <1>7, <1>20, <3>2
      <3> QED BY <3>1, <3>2
    <2>2. NoRequest.e = 0  BY DEF NoRequest
    <2>3. 0 <= epoch
      <3>1. epoch \in 0..MaxEpoch  BY DEF Types, EpochTypes
      <3> QED BY <3>1, SMT
    <2>4. ASSUME NEW u \in Threads PROVE req'[u].e <= epoch
      <3>1. CASE u = t  BY <1>19, <1>20, <2>2, <2>3, <3>1
      <3>2. CASE u # t  BY <1>18, <3>2 DEF Views, TimesOK
      <3> QED BY <3>1, <3>2
    <2> QED BY <1>1, <2>1, <2>4 DEF TimesOK
  <1>22. WritersLate'
    <2>1. ASSUME NEW s \in Live, NEW u \in Threads, pc'[u] # "idle", view[s][req'[u].f] # 0
          PROVE  req'[u].e > s
      <3>1. CASE u = t
        <4>1. req'[t].f = req[t].f /\ req'[t].e = req[t].e  BY <1>0, <1>19, <2>1, <3>1
        <4>2. pc[t] # "idle"  BY <1>1
        <4> QED BY <2>1, <3>1, <4>1, <4>2 DEF Views, WritersLate
      <3>2. CASE u # t  BY <1>18, <2>1, <3>2 DEF Views, WritersLate
      <3> QED BY <3>1, <3>2
    <2> QED BY <1>1, <1>6, <2>1 DEF WritersLate
  <1>23. ASSUME NEW u \in Threads, pc'[u] = "append"
         PROVE  /\ req'[u].info < epoch /\ (taking # None => req'[u].info < taking)
                /\ \A r \in Snapshots : r < req'[u].info => create'[req'[u].v] > r
    <2>1. CASE u = t
      <3>1. PICK i : i = nova_find_target_snapshot_info(create[old])  OBVIOUS
      <3>2. /\ req'[t].v = old /\ old # 0 /\ req'[t].info = i /\ ~nova_old_entry_deleteable(create[old], e)
        BY <1>19, <1>23, <2>1, <3>1
      <3>3. old \in 1..n /\ create'[old] = create[old]  BY <1>2, <1>5, <3>2
      <3>4. i \in Snapshots /\ \A r \in Snapshots : r < i => create[old] > r
        BY <1>0, <1>4, <3>1, <3>2, <3>3, OldShown
      <3>5. i < epoch /\ (taking # None => i < taking)  BY <3>4 DEF Views, NumbersOK
      <3> QED BY <2>1, <3>2, <3>3, <3>4, <3>5
    <2>2. CASE u # t
      <3>1. req'[u] = req[u] /\ pc[u] = "append"  BY <1>18, <1>23, <2>2
      <3>2. req[u].v \in 1..n
        <4>1. req[u].v # 0  BY <3>1 DEF Writers, WriterOK
        <4>2. req[u].v \in 0..n  BY <1>0, RequestFacts DEF Types, VersionTypes
        <4> QED BY <1>3, <4>1, <4>2, SMT
      <3>3. create'[req[u].v] = create[req[u].v]  BY <1>2, <3>2
      <3> QED BY <3>1, <3>3 DEF Views, HandsLate
    <2> QED BY <2>1, <2>2
  <1>24. HandsLate'  BY <1>1, <1>6, <1>23 DEF HandsLate
  <1> QED BY <1>11, <1>13, <1>14, <1>15, <1>16, <1>21, <1>22, <1>24 DEF Views

-----------------------------------------------------------------------------
(* The invariant holds.                                                     *)

\* At first there is nothing.
LEMMA Initially ==
    Init => IInv
  <1> SUFFICES ASSUME Init PROVE IInv  OBVIOUS
  <1>1. /\ epoch = 0 /\ saved = 0 /\ infos = << >> /\ taking = None /\ removing = << >> /\ clean = None
        /\ cleaner = Fresh /\ stop = "no"
        /\ file = [f \in Files |-> 0] /\ create = << >> /\ delete = << >>
        /\ pc = [t \in Threads |-> "idle"] /\ req = [t \in Threads |-> NoRequest]
        /\ freed = {} /\ view = << >> /\ raced = {} /\ orphaned = {} /\ wentBack = 0
    BY DEF Init
  <1>2. Snapshots = {} /\ Live = {}  BY <1>1, SMT DEF Snapshots, Live
  <1>3. Len(create) = 0 /\ \A v : v \notin 1..Len(create)  BY <1>1, SMT
  <1>4. EpochTypes  BY <1>1, <1>2, SnapshotConstants, SMT DEF EpochTypes
  <1>5. ListTypes
    <2>1. infos = [s \in {} |-> infos[s]]  BY <1>1, SMT
    <2> QED BY <1>1, <1>2, <2>1 DEF ListTypes
  <1>6. CleanerTypes
    <2>1. None \in -1..(MaxEpoch - 1)  BY SnapshotConstants, SMT DEF None
    <2> QED BY <1>1, <2>1 DEF CleanerTypes, Cleaners, Fresh
  <1>7. VersionTypes
    <2>1. 0 \in 0..Len(create) /\ Len(create) \in Nat  BY <1>3, SMT
    <2>2. NoRequest \in Requests(Len(create))  BY <2>1, NoRequestFacts
    <2>3. create \in Seq(0..MaxEpoch) /\ delete \in Seq(-1..MaxEpoch)  BY <1>1, SMT
    <2>4. Len(delete) = Len(create)  BY <1>1
    <2> QED BY <1>1, <2>1, <2>2, <2>3, <2>4 DEF VersionTypes
  <1>8. Room
    <2>1. ~NoRequest.new  BY DEF NoRequest
    <2>2. {t \in Threads : req[t].new} = {}  BY <1>1, <2>1
    <2>3. Cardinality({t \in Threads : req[t].new}) = 0  BY <2>2, FS_EmptySet
    <2>4. 0 + 0 <= MaxVersions  BY SnapshotConstants, SMT
    <2> QED BY <1>3, <2>3, <2>4 DEF Room
  <1>9. Types  BY <1>4, <1>5, <1>6, <1>7, <1>8 DEF Types
  <1>10. Stopping  BY <1>1 DEF Stopping, Fresh
  <1>11. Writers
    <2>1. \A f \in Files : file[f] = 0  BY <1>1
    <2>2. \A t \in Threads : pc[t] = "idle" /\ req[t] = NoRequest  BY <1>1
    <2> QED BY <2>1, <2>2 DEF Writers, WriterOK, OwnFiles, FilesOK
  <1>12. Accounts
    <2>1. \A s, c, p, k, v : ~Listed(s, c, p, k, v)  BY <1>2 DEF Listed
    <2>2. \A t \in Threads : req[t].v = 0  BY <1>1 DEF NoRequest
    <2>3. KeptOK  BY <1>3 DEF KeptOK
    <2>4. OnePlace  BY <2>1 DEF OnePlace
    <2>5. GoneOK  BY <1>1 DEF GoneOK
    <2>6. HandsOK  BY <2>2 DEF HandsOK
    <2> QED BY <2>3, <2>4, <2>5, <2>6 DEF Accounts
  <1>13. Views
    <2>1. NumbersOK /\ ViewTypes /\ ViewsOK /\ WritersLate /\ ListsLate /\ RemovingGone
      BY <1>2 DEF NumbersOK, ViewTypes, ViewsOK, WritersLate, ListsLate, RemovingGone
    <2>2. TimesOK
      <3>1. \A t \in Threads : req[t].e = 0  BY <1>1 DEF NoRequest
      <3>2. 0 <= epoch  BY <1>1, SMT
      <3> QED BY <1>3, <3>1, <3>2 DEF TimesOK
    <2>3. HandsLate  BY <1>1 DEF HandsLate
    <2> QED BY <2>1, <2>2, <2>3 DEF Views
  <1>14. wentBack \in Nat  BY <1>1, SMT
  <1> QED BY <1>9, <1>10, <1>11, <1>12, <1>13, <1>14 DEF IInv

\* A step that leaves all of this alone keeps the invariant.
LEMMA Stutter ==
    ASSUME IInv,
           UNCHANGED <<epoch, saved, infos, taking, removing, clean, cleaner, stop, versions, pc, req>>,
           UNCHANGED <<freed, view, raced, orphaned, wentBack>>
    PROVE  IInv'
  <1>1. /\ infos' = infos /\ UNCHANGED <<create, delete, freed, orphaned, req, removing>>
        /\ UNCHANGED <<epoch, infos, taking, removing, file, create, delete, pc, req, freed, raced, view>>
        /\ UNCHANGED <<epoch, saved, infos, taking, removing, versions, pc, req, freed, raced, orphaned>>
        /\ UNCHANGED <<file, delete, pc, req>> /\ UNCHANGED <<clean, cleaner, stop>> /\ taking' = taking
        /\ wentBack' = wentBack
    BY DEF versions
  <1>2. CleanerTypes' /\ Stopping'  BY <1>1, SameCleaner DEF IInv, Types
  <1>3. Types'  BY <1>1, <1>2, CleanerOnly DEF IInv
  <1>4. Writers'  BY <1>1, SameWriters DEF IInv
  <1>5. Accounts'  BY <1>1, SameInfos, SameEntries DEF IInv
  <1>6. wentBack = 0 => Views'  BY <1>1, SameViews DEF IInv
  <1> QED BY <1>1, <1>2, <1>3, <1>4, <1>5, <1>6 DEF IInv

\* A step of a writer keeps the invariant.
LEMMA WriterStep ==
    ASSUME IInv, NEW t \in Threads, Writer(t)
    PROVE  IInv'
  <1>1. Types /\ Stopping /\ Writers /\ Accounts /\ wentBack \in Nat /\ (wentBack = 0 => Views)  BY DEF IInv
  <1>2. CASE nova_get_epoch_id(t)
    <2>1. /\ UNCHANGED <<infos, removing, create, delete, freed, orphaned>>
          /\ UNCHANGED <<file, delete>> /\ wentBack' = wentBack
      BY <1>2 DEF nova_get_epoch_id, versions
    <2>2. PICK r : Started(t, r)  BY <1>1, <1>2, StartTypes
    <2>3. Types' /\ Stopping'  BY <1>1, <1>2, StartTypes
    <2>4. Writers' /\ Accounts'  BY <1>1, <2>1, <2>2, StartWriters, StartAccounts
    <2>5. wentBack = 0 => Views'  BY <1>1, <1>2, StartViews
    <2> QED BY <1>1, <2>1, <2>3, <2>4, <2>5 DEF IInv
  <1>3. CASE nova_free_old_entry(t)
    <2>1. wentBack' = wentBack  BY <1>3 DEF nova_free_old_entry
    <2>2. Types' /\ Stopping'  BY <1>1, <1>3, ReplaceTypes
    <2>3. Writers' /\ Accounts'  BY <1>1, <1>3, ReplaceWriters, ReplaceAccounts
    <2>4. wentBack = 0 => Views'  BY <1>1, <1>3, ReplaceViews
    <2> QED BY <1>1, <2>1, <2>2, <2>3, <2>4 DEF IInv
  <1>4. CASE nova_append_snapshot_list_entry(t)
    <2>1. UNCHANGED <<file, delete>> /\ wentBack' = wentBack
      BY <1>4 DEF nova_append_snapshot_list_entry, versions
    <2>2. Types' /\ Stopping'  BY <1>1, <1>4, AppendTypes
    <2>3. pc' = [pc EXCEPT ![t] = "idle"] /\ req' = [req EXCEPT ![t] = NoRequest]
      BY <1>4 DEF nova_append_snapshot_list_entry
    <2>4. Writers'  BY <1>1, <2>1, <2>3, AppendWriters
    <2>5. Accounts'  BY <1>1, <1>4, AppendAccounts
    <2>6. wentBack = 0 => Views'  BY <1>1, <1>4, AppendViews
    <2> QED BY <1>1, <2>1, <2>2, <2>4, <2>5, <2>6 DEF IInv
  <1>5. CASE kmalloc_list_page(t)
    <2>1. /\ UNCHANGED <<epoch, saved, infos, taking, removing, clean, cleaner, stop, versions, pc, req>>
          /\ UNCHANGED <<freed, view, raced, orphaned, wentBack>>
      BY <1>5 DEF kmalloc_list_page
    <2> QED BY <2>1, Stutter
  <1> QED BY <1>2, <1>3, <1>4, <1>5 DEF Writer

\* So does one of taking or deleting a snapshot.
LEMMA SnapshotStep ==
    ASSUME IInv,
           \/ create_snapshot_begin \/ create_snapshot_end
           \/ \E s \in Snapshots : nova_delete_snapshot(s) \/ delete_last_snapshot(s)
           \/ nova_delete_snapshot_info
    PROVE  IInv'
  <1>1. Types /\ Stopping /\ Writers /\ Accounts /\ wentBack \in Nat /\ (wentBack = 0 => Views)  BY DEF IInv
  <1>2. UNCHANGED <<file, delete, pc, req>> /\ wentBack' = wentBack
    BY DEF create_snapshot_begin, create_snapshot_end, nova_delete_snapshot, delete_last_snapshot,
           nova_delete_snapshot_info, versions
  <1>3. Writers'  BY <1>1, <1>2, SameWriters
  <1>4. CASE create_snapshot_begin
    <2>1. Types' /\ Stopping'  BY <1>1, <1>4, BeginTypes
    <2>2. Accounts'
      <3>1. infos' = infos /\ UNCHANGED <<create, delete, freed, orphaned, req, removing>>
        BY <1>4 DEF create_snapshot_begin, versions
      <3> QED BY <1>1, <3>1, SameInfos, SameEntries
    <2>3. wentBack = 0 => Views'  BY <1>1, <1>4, BeginViews
    <2> QED BY <1>1, <1>2, <1>3, <2>1, <2>2, <2>3 DEF IInv
  <1>5. CASE create_snapshot_end
    <2>1. Types' /\ Stopping'  BY <1>1, <1>5, EndTypes
    <2>2. Accounts'  BY <1>1, <1>5, EndAccounts
    <2>3. wentBack = 0 => Views'  BY <1>1, <1>5, EndViews
    <2> QED BY <1>1, <1>2, <1>3, <2>1, <2>2, <2>3 DEF IInv
  <1>6. ASSUME NEW s \in Snapshots, nova_delete_snapshot(s) PROVE IInv'
    <2>1. Types' /\ Stopping'  BY <1>1, <1>6, DeleteTypes
    <2>2. Accounts'  BY <1>1, <1>6, DeleteAccounts
    <2>3. wentBack = 0 => Views'  BY <1>1, <1>6, DeleteViews
    <2> QED BY <1>1, <1>2, <1>3, <2>1, <2>2, <2>3 DEF IInv
  <1>7. ASSUME NEW s \in Snapshots, delete_last_snapshot(s) PROVE IInv'
    <2>1. Types' /\ Stopping'  BY <1>1, <1>7, DeleteLastTypes
    <2>2. Accounts'  BY <1>1, <1>7, DeleteLastAccounts
    <2>3. wentBack = 0 => Views'  BY <1>1, <1>7, DeleteLastViews
    <2> QED BY <1>1, <1>2, <1>3, <2>1, <2>2, <2>3 DEF IInv
  <1>8. CASE nova_delete_snapshot_info
    <2>1. Types' /\ Stopping'  BY <1>1, <1>8, DeleteInfoTypes
    <2>2. Accounts'  BY <1>1, <1>8, DeleteInfoAccounts
    <2>3. wentBack = 0 => Views'  BY <1>1, <1>8, DeleteInfoViews
    <2> QED BY <1>1, <1>2, <1>3, <2>1, <2>2, <2>3 DEF IInv
  <1> QED BY <1>4, <1>5, <1>6, <1>7, <1>8

\* And one of the cleaner, or of unmounting and mounting.
LEMMA CleanerStep ==
    ASSUME IInv, Cleaner \/ kthread_stop \/ nova_save_and_restore_snapshots
    PROVE  IInv'
  <1>1. Types /\ Stopping /\ Writers /\ Accounts /\ wentBack \in Nat /\ (wentBack = 0 => Views)  BY DEF IInv
  <1>2. UNCHANGED <<file, delete, pc, req>>
    BY DEF Cleaner, nova_clean_snapshot_begin, nova_background_clean_snapshot_list, nova_clean_snapshot_end,
           snapshot_cleaner_try_sleeping, kthread_stop, nova_save_and_restore_snapshots, versions
  <1>3. Writers'  BY <1>1, <1>2, SameWriters
  <1>4. CASE \/ nova_clean_snapshot_begin \/ nova_clean_snapshot_end
             \/ snapshot_cleaner_try_sleeping \/ kthread_stop
    <2>1. /\ infos' = infos /\ UNCHANGED <<create, delete, freed, orphaned, req, removing>>
          /\ UNCHANGED <<epoch, infos, taking, removing, file, create, delete, pc, req, freed, raced, view>>
          /\ wentBack' = wentBack
      BY <1>4 DEF nova_clean_snapshot_begin, nova_clean_snapshot_end,
                  snapshot_cleaner_try_sleeping, kthread_stop, versions
    <2>2. Types' /\ Stopping'  BY <1>1, <1>4, CleanerSteps
    <2>3. Accounts'  BY <1>1, <2>1, SameInfos, SameEntries
    <2>4. wentBack = 0 => Views'  BY <1>1, <2>1, SameViews
    <2> QED BY <1>1, <1>3, <2>1, <2>2, <2>3, <2>4 DEF IInv
  <1>5. CASE nova_background_clean_snapshot_list
    <2>1. wentBack' = wentBack  BY <1>5 DEF nova_background_clean_snapshot_list
    <2>2. Types' /\ Stopping'  BY <1>1, <1>5, CleanTypes
    <2>3. Accounts'  BY <1>1, <1>5, CleanAccounts
    <2>4. wentBack = 0 => Views'  BY <1>1, <1>5, CleanViews
    <2> QED BY <1>1, <1>3, <2>1, <2>2, <2>3, <2>4 DEF IInv
  <1>6. CASE nova_save_and_restore_snapshots
    <2>1. epoch' = saved /\ wentBack' = IF saved < epoch THEN wentBack + 1 ELSE wentBack
      BY <1>6 DEF nova_save_and_restore_snapshots, WentBack
    <2>2. epoch \in 0..MaxEpoch /\ saved \in 0..epoch  BY <1>1 DEF Types, EpochTypes
    <2>3. wentBack' \in Nat /\ (wentBack' = 0 => wentBack = 0 /\ epoch' = epoch)
      BY <1>1, <2>1, <2>2, SMT
    <2>4. Types' /\ Stopping'  BY <1>1, <1>6, RestoreTypes
    <2>5. Accounts'  BY <1>1, <1>6, RestoreAccounts
    <2>6. wentBack' = 0 => Views'  BY <1>1, <1>6, <2>3, RestoreViews
    <2> QED BY <1>1, <1>3, <2>3, <2>4, <2>5, <2>6 DEF IInv
  <1> QED BY <1>4, <1>5, <1>6 DEF Cleaner

\* The invariant is inductive.
LEMMA Inductive ==
    IInv /\ [Next]_vars => IInv'
  <1> SUFFICES ASSUME IInv, [Next]_vars PROVE IInv'  OBVIOUS
  <1>1. ASSUME NEW t \in Threads, Writer(t) PROVE IInv'  BY <1>1, WriterStep
  <1>2. CASE \/ create_snapshot_begin \/ create_snapshot_end
             \/ \E s \in Snapshots : nova_delete_snapshot(s) \/ delete_last_snapshot(s)
             \/ nova_delete_snapshot_info
    BY <1>2, SnapshotStep
  <1>3. CASE Cleaner \/ kthread_stop \/ nova_save_and_restore_snapshots  BY <1>3, CleanerStep
  <1>4. CASE UNCHANGED vars
    <2>1. /\ UNCHANGED <<epoch, saved, infos, taking, removing, clean, cleaner, stop, versions, pc, req>>
          /\ UNCHANGED <<freed, view, raced, orphaned, wentBack>>
      BY <1>4 DEF vars
    <2> QED BY <2>1, Stutter
  <1> QED BY <1>1, <1>2, <1>3, <1>4 DEF Next

\* It holds in every state that is reached.
LEMMA Reached ==
    Spec => []IInv
  BY Initially, Inductive, PTL DEF Spec

-----------------------------------------------------------------------------
(* Pages that are counted and not used.                                     *)

PagesOK ==
    /\ spare \in [Snapshots -> [CPUs -> SUBSET {"linked", "lost"}]]
    /\ new_page \in [Threads -> CPUs \cup {None}]

\* They are kept for the snapshots that are in the tree.
LEMMA PagesStep ==
    IInv /\ PagesOK /\ [Next]_vars => PagesOK'
  <1> SUFFICES ASSUME IInv, PagesOK, [Next]_vars PROVE PagesOK'  OBVIOUS
  <1> DEFINE P == SUBSET {"linked", "lost"}
             F == [CPUs -> P]
  <1>0. /\ spare \in [Snapshots -> F] /\ new_page \in [Threads -> CPUs \cup {None}]
        /\ infos = [s \in Snapshots |-> infos[s]]
    BY DEF PagesOK, IInv, Types, ListTypes
  <1>1. NoSpare \in F  BY DEF NoSpare
  <1>2. CASE spare' = spare /\ Snapshots' = Snapshots /\ new_page' = new_page
    BY <1>0, <1>2 DEF PagesOK
  <1>3. ASSUME NEW t \in Threads, kmalloc_list_page(t) PROVE PagesOK'
    <2>1. spare' = spare /\ infos' = infos  BY <1>3 DEF kmalloc_list_page
    <2>2. PICK c \in CPUs : new_page' = [new_page EXCEPT ![t] = c]  BY <1>3 DEF kmalloc_list_page
    <2> QED BY <1>0, <2>1, <2>2 DEF PagesOK, Snapshots
  <1>4. ASSUME NEW t \in Threads, nova_append_snapshot_list_entry(t) PROVE PagesOK'
    <2>1. new_page' = [new_page EXCEPT ![t] = None]  BY <1>4 DEF nova_append_snapshot_list_entry
    <2>2. new_page' \in [Threads -> CPUs \cup {None}]  BY <1>0, <2>1
    <2>3. CASE infos' = infos /\ spare' = spare  BY <1>0, <2>2, <2>3 DEF PagesOK, Snapshots
    <2>4. ASSUME NEW c \in CPUs, req[t].info \in Snapshots,
                 spare' = [spare EXCEPT ![req[t].info][c] = SpareAfter(t, c)],
                 infos' = [infos EXCEPT ![req[t].info][c] =
                             WithEntry(@, req[t].info, Entry(req[t].v))]
          PROVE  PagesOK'
      <3>1. Snapshots' = Snapshots  BY <2>4 DEF Snapshots
      <3>2. spare[req[t].info][c] \in P
        <4>1. PICK s : s = req[t].info  OBVIOUS
        <4>2. s \in Snapshots  BY <2>4, <4>1
        <4>3. spare[s] \in F  BY <1>0, <4>2
        <4>4. spare[s][c] \in P  BY <4>3
        <4> QED BY <4>1, <4>4
      <3>3. SpareAfter(t, c) \in P  BY <3>2 DEF SpareAfter
      <3>4. spare' \in [Snapshots -> F]
        <4> PICK s, x : s = req[t].info /\ x = SpareAfter(t, c)  OBVIOUS
        <4>1. s \in Snapshots /\ x \in P /\ spare' = [spare EXCEPT ![s][c] = x]  BY <2>4, <3>3
        <4> QED BY <1>0, <4>1
      <3> QED BY <2>2, <3>1, <3>4 DEF PagesOK
    <2> QED BY <1>4, <2>3, <2>4 DEF nova_append_snapshot_list_entry
  <1>5. ASSUME create_snapshot_end PROVE PagesOK'
    <2>1. new_page' = new_page  BY <1>5 DEF create_snapshot_end
    <2>2. CASE infos' = infos /\ spare' = spare  BY <1>0, <2>1, <2>2 DEF PagesOK, Snapshots
    <2>3. CASE /\ infos' = [s \in Snapshots \cup {taking} |->
                              IF s \in Snapshots THEN infos[s] ELSE EmptyLists(s)]
               /\ spare' = [s \in Snapshots \cup {taking} |->
                              IF s \in Snapshots THEN spare[s] ELSE NoSpare]
      <3>1. Snapshots' = Snapshots \cup {taking}  BY <2>3 DEF Snapshots
      <3>2. \A s \in Snapshots : spare[s] \in F  BY <1>0
      <3>3. spare' \in [Snapshots' -> F]  BY <1>1, <2>3, <3>1, <3>2
      <3> QED BY <1>0, <2>1, <3>3 DEF PagesOK
    <2> QED BY <1>5, <2>2, <2>3 DEF create_snapshot_end
  <1>6. ASSUME NEW s \in Snapshots, nova_delete_snapshot(s) PROVE PagesOK'
    <2>1. PICK next : /\ next = nova_find_target_snapshot_info(s + 1)
                      /\ infos' = [r \in Snapshots \ {s} |->
                           IF r = next THEN nova_link_to_next_snapshot(s, next) ELSE infos[r]]
                      /\ spare' = [r \in Snapshots \ {s} |->
                           IF r = next THEN SpareJoined(s, next) ELSE spare[r]]
                      /\ new_page' = new_page
      BY <1>6 DEF nova_delete_snapshot
    <2>2. Snapshots' = Snapshots \ {s}  BY <2>1 DEF Snapshots
    <2>3. \A r \in Snapshots : spare[r] \in F  BY <1>0
    <2>4. ASSUME NEW r \in Snapshots PROVE SpareJoined(s, r) \in F
      <3>1. spare[r] \in F  BY <2>3
      <3> QED BY <3>1 DEF SpareJoined
    <2>5. spare' \in [Snapshots' -> F]  BY <2>1, <2>2, <2>3, <2>4
    <2> QED BY <1>0, <2>1, <2>5 DEF PagesOK
  <1>7. ASSUME NEW s \in Snapshots, delete_last_snapshot(s) PROVE PagesOK'
    <2>1. /\ infos' = [r \in Snapshots \ {s} |-> infos[r]]
          /\ spare' = [r \in Snapshots \ {s} |-> spare[r]] /\ new_page' = new_page
      BY <1>7 DEF delete_last_snapshot
    <2>2. Snapshots' = Snapshots \ {s}  BY <2>1 DEF Snapshots
    <2>3. spare' \in [Snapshots' -> F]  BY <1>0, <2>1, <2>2
    <2> QED BY <1>0, <2>1, <2>3 DEF PagesOK
  <1>8. ASSUME nova_save_and_restore_snapshots PROVE PagesOK'
    <2>1. /\ infos' = [s \in Snapshots |-> [c \in CPUs |->
                   [p \in DOMAIN infos[s][c] |-> [infos[s][c][p] EXCEPT !.epoch = s]]]]
          /\ spare' = [s \in Snapshots |-> NoSpare] /\ new_page' = new_page
      BY <1>8 DEF nova_save_and_restore_snapshots
    <2>2. Snapshots' = Snapshots  BY <2>1 DEF Snapshots
    <2>3. spare' \in [Snapshots' -> F]  BY <1>1, <2>1, <2>2
    <2> QED BY <1>0, <2>1, <2>3 DEF PagesOK
  <1>9. ASSUME nova_background_clean_snapshot_list PROVE PagesOK'
    <2>1. spare' = spare /\ new_page' = new_page /\ Snapshots' = Snapshots
      BY <1>9 DEF nova_background_clean_snapshot_list, Snapshots
    <2> QED BY <1>2, <2>1
  <1>10. CASE \/ \E t \in Threads : nova_get_epoch_id(t) \/ nova_free_old_entry(t)
              \/ create_snapshot_begin \/ nova_delete_snapshot_info \/ nova_clean_snapshot_begin
              \/ nova_clean_snapshot_end \/ snapshot_cleaner_try_sleeping \/ kthread_stop
              \/ UNCHANGED vars
    <2>1. spare' = spare /\ new_page' = new_page /\ infos' = infos
      BY <1>10 DEF nova_get_epoch_id, nova_free_old_entry, create_snapshot_begin, nova_delete_snapshot_info,
                   nova_clean_snapshot_begin, nova_clean_snapshot_end, snapshot_cleaner_try_sleeping,
                   kthread_stop, vars
    <2> QED BY <1>2, <2>1 DEF Snapshots
  <1> QED BY <1>3, <1>4, <1>5, <1>6, <1>7, <1>8, <1>9, <1>10 DEF Next, Writer, Cleaner

LEMMA PagesReached ==
    Spec => []PagesOK
  <1>1. Init => PagesOK
    <2> SUFFICES ASSUME Init PROVE PagesOK  OBVIOUS
    <2>1. infos = << >> /\ spare = << >> /\ new_page = [t \in Threads |-> None]  BY DEF Init
    <2>2. Snapshots = {} /\ spare \in [{} -> [CPUs -> SUBSET {"linked", "lost"}]]
      BY <2>1, SMT DEF Snapshots
    <2> QED BY <2>1, <2>2 DEF PagesOK
  <1> QED BY <1>1, Reached, PagesStep, PTL DEF Spec

-----------------------------------------------------------------------------
(* What follows from it.                                                    *)

\* A version that snapshot s shows is one that was created.
LEMMA Intact ==
    IInv => SnapshotIntact
  <1> SUFFICES ASSUME IInv, wentBack = 0, NEW s \in Snapshots, NEW v \in Shown(s) \ raced
               PROVE  /\ v \notin freed /\ create[v] <= s
                      /\ delete[v] # None => delete[v] > s
    BY DEF SnapshotIntact
  <1>1. PICK f \in Files : v = view[s][f] /\ v # 0 /\ v \notin raced  BY DEF Shown
  <1>2. Views /\ s \in Live  BY DEF IInv, Live
  <1>3. v \in 1..Len(create)
    <2>1. v \in 0..Len(create)  BY <1>1, <1>2 DEF Views, ViewTypes
    <2>2. Len(create) \in Nat  BY DEF IInv, Types, VersionTypes
    <2> QED BY <1>1, <2>1, <2>2, SMT
  <1>4. Shows(s, f, v)  BY <1>1, <1>2, <1>3 DEF Views, ViewsOK
  <1> QED BY <1>1, <1>4 DEF Shows

\* A set whose elements are all the same has at most one.
LEMMA AtMostOne ==
    ASSUME NEW S, \A x, y \in S : x = y
    PROVE  Cardinality(S) = IF S = {} THEN 0 ELSE 1
  <1>1. CASE S = {}  BY <1>1, FS_EmptySet
  <1>2. CASE S # {}
    <2>1. PICK x : x \in S  BY <1>2
    <2>2. S = {x}  BY <2>1
    <2> QED BY <1>2, <2>2, FS_Singleton
  <1> QED BY <1>1, <1>2

\* A place is a list, a page and an entry.
LEMMA PlacesAre ==
    ASSUME NEW v, NEW lists, NEW x
    PROVE  x \in Places(v, lists) <=>
             \E c \in CPUs : \E p, k : x = <<c, <<p, k>>>> /\ At(lists[c], p, k, v)
  <1>1. x \in Places(v, lists) <=> \E c \in CPUs : x \in {c} \X EntriesOf(v, lists[c])  BY DEF Places
  <1>2. ASSUME NEW l, NEW y
        PROVE  y \in EntriesOf(v, l) <=> \E p, k : y = <<p, k>> /\ At(l, p, k, v)
    <2> DEFINE K(p) == {k \in DOMAIN l[p].entries : l[p].entries[k] = Entry(v)}
    <2>1. y \in EntriesOf(v, l) <=> \E p \in DOMAIN l : y \in {p} \X K(p)  BY DEF EntriesOf
    <2>2. \A p : y \in {p} \X K(p) <=> \E k : y = <<p, k>> /\ k \in K(p)
      <3> HIDE DEF K
      <3> QED BY SMT
    <2>3. \A p, k : p \in DOMAIN l /\ k \in K(p) <=> At(l, p, k, v)  BY DEF At
    <2> HIDE DEF K
    <2> QED BY <2>1, <2>2, <2>3
  <1>3. ASSUME NEW c, NEW E PROVE x \in {c} \X E <=> \E y \in E : x = <<c, y>>  BY SMT
  <1>4. \A c \in CPUs : x \in {c} \X EntriesOf(v, lists[c]) <=>
                        \E p, k : x = <<c, <<p, k>>>> /\ At(lists[c], p, k, v)
    <2> TAKE c \in CPUs
    <2>1. x \in {c} \X EntriesOf(v, lists[c]) <=> \E y \in EntriesOf(v, lists[c]) : x = <<c, y>>  BY <1>3
    <2>2. \A y : y \in EntriesOf(v, lists[c]) <=> \E p, k : y = <<p, k>> /\ At(lists[c], p, k, v)  BY <1>2
    <2> QED BY <2>1, <2>2
  <1> QED BY <1>1, <1>4

\* A version has one place in the lists of a snapshot, at most, and is held by one.
LEMMA PlacesOK ==
    ASSUME Types, Accounts, NEW v \in 1..Len(create)
    PROVE  /\ \A s \in Snapshots : Cardinality(Places(v, infos[s])) <= 1
           /\ Cardinality(Held(v)) =
                IF delete[v] = None \/ v \in freed \cup orphaned \/ InHand(v) THEN 0 ELSE 1
  <1>0. OnePlace  BY DEF Accounts
  <1>1. ASSUME NEW s \in Snapshots
        PROVE  /\ Cardinality(Places(v, infos[s])) <= 1
               /\ Places(v, infos[s]) # {} <=> \E c, p, k : Listed(s, c, p, k, v)
    <2>1. \A x : x \in Places(v, infos[s]) <=> \E c, p, k : x = <<c, <<p, k>>>> /\ Listed(s, c, p, k, v)
      BY PlacesAre DEF Listed
    <2>2. ASSUME NEW x \in Places(v, infos[s]), NEW y \in Places(v, infos[s]) PROVE x = y
      <3>1. PICK c, p, k : x = <<c, <<p, k>>>> /\ Listed(s, c, p, k, v)  BY <2>1
      <3>2. PICK b, o, j : y = <<b, <<o, j>>>> /\ Listed(s, b, o, j, v)  BY <2>1
      <3>3. c = b /\ p = o /\ k = j  BY <1>0, <3>1, <3>2, SMT DEF OnePlace
      <3> QED BY <3>1, <3>2, <3>3
    <2>3. Cardinality(Places(v, infos[s])) = IF Places(v, infos[s]) = {} THEN 0 ELSE 1  BY <2>2, AtMostOne
    <2>4. 0 <= 1 /\ 1 <= 1  BY SMT
    <2>5. Places(v, infos[s]) # {} <=> \E c, p, k : Listed(s, c, p, k, v)  BY <2>1
    <2> QED BY <2>3, <2>4, <2>5
  <1>2. removing # << >> /\ Places(v, removing) # {} <=> InRemoving(v)
    <2>1. Places(v, removing) # {} <=> \E c \in CPUs : \E p, k : At(removing[c], p, k, v)
      BY PlacesAre
    <2> QED BY <2>1 DEF InRemoving
  <1>3. \A s : s \in Held(v) <=> (\E c, p, k : Listed(s, c, p, k, v)) \/ (s = None /\ InRemoving(v))
    <2> TAKE s
    <2>1. s \in Held(v) <=>
            \/ s \in Snapshots /\ Places(v, infos[s]) # {}
            \/ s = None /\ removing # << >> /\ Places(v, removing) # {}
      BY DEF Held
    <2>2. s \in Snapshots /\ Places(v, infos[s]) # {} <=> \E c, p, k : Listed(s, c, p, k, v)
      BY <1>1 DEF Listed
    <2>3. s = None /\ removing # << >> /\ Places(v, removing) # {} <=> s = None /\ InRemoving(v)  BY <1>2
    <2> QED BY <2>1, <2>2, <2>3
  <1>4. (Kept(v) <=> InLists(v)) /\ ~(InInfos(v) /\ InRemoving(v))  BY DEF Accounts, KeptOK
  <1>5. ASSUME NEW r \in Held(v), NEW s \in Held(v) PROVE r = s
    <2>1. CASE InRemoving(v)
      <3>1. ~InInfos(v)  BY <1>4, <2>1
      <3>2. r = None /\ s = None  BY <1>3, <3>1 DEF InInfos
      <3> QED BY <3>2
    <2>2. CASE ~InRemoving(v)
      <3>1. PICK c, p, k : Listed(r, c, p, k, v)  BY <1>3, <2>2
      <3>2. PICK b, o, j : Listed(s, b, o, j, v)  BY <1>3, <2>2
      <3> QED BY <1>0, <3>1, <3>2, SMT DEF OnePlace
    <2> QED BY <2>1, <2>2
  <1>6. Held(v) # {} <=> InLists(v)  BY <1>3 DEF InLists, InInfos
  <1>7. Cardinality(Held(v)) = IF Held(v) = {} THEN 0 ELSE 1  BY <1>5, AtMostOne
  <1>8. Kept(v) <=> ~(delete[v] = None \/ v \in freed \cup orphaned \/ InHand(v))  BY DEF Kept
  <1> QED BY <1>1, <1>4, <1>6, <1>7, <1>8

\* The shapes that the list walks rely on.
LEMMA Shapes ==
    ASSUME Types, PagesOK
    PROVE  TypeOK /\ DOMAIN create = 1..Len(create)
  <1>0. EpochTypes /\ ListTypes /\ CleanerTypes /\ VersionTypes /\ Room  BY DEF Types
  <1>1. DOMAIN create = 1..Len(create) /\ Len(create) \in Nat
    BY <1>0, LenProperties DEF VersionTypes
  <1>2. ASSUME NEW s \in Snapshots, NEW c \in CPUs
        PROVE  infos[s][c] # << >> /\ \A p \in DOMAIN infos[s][c] : PageOK(infos[s][c][p])
    <2>1. PICK l : l = infos[s][c]  OBVIOUS
    <2>2. l \in List(Len(create))  BY <1>0, <2>1 DEF ListTypes
    <2>3. l # << >>  BY <1>1, <2>2, ListFacts
    <2>4. ASSUME NEW p \in DOMAIN l PROVE PageOK(l[p])
      <3>1. l[p] \in Page(Len(create))  BY <1>1, <2>2, ListFacts
      <3>2. /\ l[p].epoch \in 0..MaxEpoch /\ l[p].entries \in Seq(Entries(Len(create)))
            /\ Len(l[p].entries) <= EntriesPerPage
        BY <2>2, <3>1 DEF Page, List
      <3>3. ASSUME NEW k \in DOMAIN l[p].entries PROVE l[p].entries[k] \in Entries(Len(create))
        BY <3>2, LenProperties, ElementOfSeq
      <3>4. \A k \in DOMAIN l[p].entries :
              l[p].entries[k].v \in DOMAIN create /\ l[p].entries[k].deleted \in BOOLEAN
        BY <1>1, <3>3 DEF Entries
      <3> QED BY <3>2, <3>4 DEF PageOK
    <2> QED BY <2>1, <2>3, <2>4
  <1>3. taking \in -1..(MaxEpoch - 1)
    <2>1. epoch \in 0..MaxEpoch /\ (taking = None \/ taking \in 0..(epoch - 1))  BY <1>0 DEF EpochTypes
    <2> QED BY <2>1, SnapshotConstants, SMT DEF None
  <1>4. Len(create) <= MaxVersions
    <2> DEFINE C == {t \in Threads : req[t].new}
    <2>1. IsFiniteSet(C)  BY SnapshotConstants, FS_Subset
    <2>2. Cardinality(C) \in Nat  BY <2>1, FS_CardinalityType
    <2>3. Len(create) + Cardinality(C) <= MaxVersions  BY <1>0 DEF Room
    <2> HIDE DEF C
    <2> QED BY <1>1, <2>2, <2>3, SnapshotConstants, SMT
  <1>5. /\ epoch \in 0..MaxEpoch /\ saved \in 0..epoch /\ Snapshots \subseteq 0..(MaxEpoch - 1)
    BY <1>0 DEF EpochTypes
  <1>6. /\ clean \in -1..(MaxEpoch - 1) /\ stop \in {"no", "seen", "missed"}
        /\ cleaner \in [pc : {"asleep", "start", "clean", "end", "awake", "ended"},
                        info : -1..(MaxEpoch - 1), final : BOOLEAN]
    BY <1>0 DEF CleanerTypes, Cleaners
  <1>7. /\ file \in [Files -> 0..Len(create)]
        /\ create \in Seq(0..MaxEpoch) /\ delete \in Seq(-1..MaxEpoch) /\ Len(delete) = Len(create)
        /\ pc \in [Threads -> {"idle", "reassign", "append"}]
        /\ freed \cup raced \cup orphaned \subseteq DOMAIN create
    BY <1>0, <1>1 DEF VersionTypes
  <1>8. /\ spare \in [Snapshots -> [CPUs -> SUBSET {"linked", "lost"}]]
        /\ new_page \in [Threads -> CPUs \cup {None}]
    BY DEF PagesOK
  <1> QED BY <1>1, <1>2, <1>3, <1>4, <1>5, <1>6, <1>7, <1>8 DEF TypeOK

\* Whatever is written, whichever snapshots are taken and deleted, and however the
\* cleaner is scheduled, a snapshot in the tree keeps every version it shows, with the
\* epochs that place it there.  (nova_old_entry_deleteable, nova_delete_snapshot,
\* nova_background_clean_snapshot_list)
THEOREM IntactTheorem ==
    Spec => []SnapshotIntact
  BY Reached, Intact, PTL

\* Every version that was overwritten is freed once, on one list in one entry, in the
\* hands of one writer, or orphaned because no page could be allocated.
\* (nova_append_snapshot_list_entry, nova_link_to_next_snapshot)
THEOREM AccountedTheorem ==
    Spec => []Accounted
  <1>1. IInv /\ PagesOK => Accounted
    <2> SUFFICES ASSUME IInv, PagesOK PROVE Accounted  OBVIOUS
    <2>1. Types /\ Accounts  BY DEF IInv
    <2>2. TypeOK /\ DOMAIN create = 1..Len(create)  BY <2>1, Shapes
    <2>3. \A v \in DOMAIN create :
            /\ \A s \in Snapshots : Cardinality(Places(v, infos[s])) <= 1
            /\ Cardinality(Held(v)) =
                 IF delete[v] = None \/ v \in freed \cup orphaned \/ InHand(v) THEN 0 ELSE 1
      BY <2>1, <2>2, PlacesOK
    <2> QED BY <2>2, <2>3 DEF Accounted
  <1> QED BY <1>1, Reached, PagesReached, PTL

\* A cleaner that is told to stop before it tests kthread_should_stop does not go back
\* to sleep.  (snapshot_cleaner, nova_save_snapshots)
THEOREM CleanerStopsTheorem ==
    Spec => []CleanerStops
  <1>1. IInv => CleanerStops  BY DEF IInv, Stopping, CleanerStops
  <1> QED BY <1>1, Reached, PTL

=============================================================================
