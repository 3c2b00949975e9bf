SPECIFICATION FairSpec
CONSTANTS
    Total = 20
    Sector = 4
    Batch = 2
    ZoneWindow = 2
    NotReadyTries = 1
    BridgeTries = 1
    WedgeAbort = 2
    WedgeJump = 2
    JumpBase = 1
    MaxMultiplier = 2
    Limit = 24
    MaxPasses = 2
    Whole = Whole
    MapFiles <- SomeMapFiles
    Scopes <- SomeScopes
    Skips <- SomeSkips
INVARIANTS
    TypeOK SweptTrue
PROPERTIES
    Implements SweepEnds
CHECK_DEADLOCK FALSE
