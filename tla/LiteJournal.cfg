\* Two CPUs, rings that wrap in the second transaction, a crash and a crash in
\* the recovery from it.
SPECIFICATION Spec
CONSTANTS
    cpus = 2
    JournalLen = 5
    Words <- MCWords
    Values = {0, 1}
    Transactions <- MCTransactions
    MaxTxns = 2
    MaxCrashes = 2
CHECK_DEADLOCK FALSE
INVARIANTS TypeOK NoBug JournalGenuine
PROPERTY AtomicUnlessWindow
