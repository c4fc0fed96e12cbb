------------------------ MODULE JournalTransactions ------------------------
(***************************************************************************)
(* Which words of persistent memory NOVA's transactions journal, in the    *)
(* order in which journal.c appends their undo entries (metadata_csum is 0,*)
(* the default).  A word is <<object, field>>.                             *)
(***************************************************************************)
EXTENDS Integers, Sequences

\* The inode's log tail.
nova_journal_inode_tail(pi) == <<<<pi, "log_tail">>>>

\* The undo entries for an inode that is created, changed or invalidated.
nova_append_inode_journal(pi, new_inode, invalidate, is_dir) ==
    IF is_dir THEN nova_journal_inode_tail(pi)
    ELSE IF new_inode THEN <<<<pi, "valid">>>>
    ELSE nova_journal_inode_tail(pi) \o
         IF invalidate THEN <<<<pi, "valid">>, <<pi, "delete_epoch_id">>>> ELSE <<>>

nova_append_dentry_journal(dentry) == <<<<dentry, "ino">>, <<dentry, "csum">>>>

nova_create_inode_transaction(inode, dir, new_inode, invalidate) ==
    nova_append_inode_journal(inode, new_inode, invalidate, FALSE) \o
    nova_append_inode_journal(dir, new_inode, invalidate, TRUE)

\* new_inode, new_dir and father_entry are sets: empty when the pointer is NULL.
nova_create_rename_transaction(old_inode, old_dir, new_inode, new_dir, father_entry, invalidate) ==
    LET forEach(S, Op(_)) == IF S = {} THEN <<>> ELSE Op(CHOOSE x \in S : TRUE)
        inode(i) == nova_append_inode_journal(i, FALSE, invalidate, FALSE)
        dir(i)   == nova_append_inode_journal(i, FALSE, FALSE, TRUE)
    IN  nova_append_inode_journal(old_inode, FALSE, FALSE, FALSE) \o dir(old_dir) \o
        forEach(new_inode, inode) \o forEach(new_dir, dir) \o
        forEach(father_entry, nova_append_dentry_journal)

\* An entry of the log that is updated in place, word by word.
nova_create_logentry_transaction(entry, size) ==
    [i \in 1..(size \div 8) |-> <<entry, i>>]
=============================================================================
