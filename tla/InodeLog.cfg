SPECIFICATION Spec
CONSTANTS
    NPages = 4
    PerPage = 2
    FilePages = 2
    EXTEND_THRESHOLD = 2
    MaxOps = 4
    MaxCrashes = 1
CONSTRAINT Handled
INVARIANTS
    CommittedSurvives
    TreeShowsFile
    PagesOwned
    DataOwned
CHECK_DEADLOCK FALSE
