----------------------------- MODULE MCSnapshot -----------------------------
(* Snapshot for TLC. *)
EXTENDS Snapshot, TLC

FileSymmetry == Permutations(Files)

\* Nothing is said of what follows a use of freed or unwritten memory.
Defined == undefined = {}

\* MaxEpoch counts the epochs that a remount repeats.
Epochs == epoch + 2 * wentBack <= MaxEpoch

\* Threads and files are numbered.  Files are alike, so the first version goes to
\* the first one.
FirstFile ==
    /\ \A f \in Files \ {1} : file[f] # 1
    /\ create = << >> => req[1].f \in {None, 1}

Alone == \A t \in Threads \ {1} : pc[t] = "idle"

\* One thread writes two files, over all the epochs ...
Few ==
    /\ Alone /\ Len(create) <= 2
    /\ \A f \in Files \ {1, 2} : file[f] = 0 /\ \A t \in Threads : req[t].f # f

\* ... or several threads remove files that were all written before the first
\* snapshot, enough of them to fill a page and want another at the same time; a
\* second snapshot follows when that has left a page behind.
Crowd ==
    /\ epoch <= 2 /\ wentBack = 0
    /\ epoch = 2 => \E s \in Snapshots : spare[s] # NoSpare
    /\ \A v \in DOMAIN create : create[v] = 0
    /\ epoch = 0 => Alone /\ file = [f \in Files |-> IF f <= Len(create) THEN f ELSE 0]
    /\ epoch > 0 => Len(create) = MaxVersions /\ \A t \in Threads : ~req[t].new

FewOrCrowd == FirstFile /\ (Few \/ Crowd)
=============================================================================
