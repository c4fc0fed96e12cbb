---------------------------- MODULE MCLiteJournal ----------------------------
(* Instances of LiteJournal for TLC.                                        *)
EXTENDS LiteJournal, JournalTransactions

\* One directory d with an inode f in it, whose entry ".." is dd, and a log
\* entry e of another file.
MCTransactions ==
    {nova_create_inode_transaction("f", "d", TRUE, FALSE),
     nova_create_inode_transaction("f", "d", FALSE, FALSE),
     nova_create_inode_transaction("f", "d", FALSE, TRUE),
     nova_create_rename_transaction("f", "d", {}, {}, {"dd"}, FALSE),
     nova_create_logentry_transaction("e", 16)}

MCWords == {ws[i] : <<ws, i>> \in UNION {{t} \X (1..Len(t)) : t \in MCTransactions}}
=============================================================================
