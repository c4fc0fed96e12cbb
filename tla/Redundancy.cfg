SPECIFICATION Spec
CONSTANTS
    NStripes = 3
    StripeSize = 2
    Ranges <- MCRanges
    MaxFaults = 2
    MaxEvents = 3
CONSTRAINT Handled
INVARIANTS
    OnlyFaultsDamage
    SingleFaultRepaired
    ReadsRight
    CrashRecovers
CHECK_DEADLOCK FALSE
