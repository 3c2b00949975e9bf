SPECIFICATION FairSpec
CONSTANTS
    Capacity = 8
    BadRanges <- SomeRanges
    Tiers <- SomeTiers
    Modes <- SomeModes
    Batch = 2
    JumpAfter = 2
    Yield = 3
    WedgeAbort = 2
INVARIANTS
    TypeOK Accounted
PROPERTIES
    EndsAnyway
CHECK_DEADLOCK FALSE
