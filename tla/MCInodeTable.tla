---------------------------- MODULE MCInodeTable ----------------------------
(* InodeTable for TLC: the threads are interchangeable.                      *)
EXTENDS InodeTable, TLC

ThreadSymmetry == Permutations(Threads)

\* Nothing is said of what follows a mount from an old list.
NotMisled == ~misled

=============================================================================
