SPECIFICATION LiveSpec
CONSTANTS
    N = 2
    Depth = 2
    MaxPass = 3
    NoMap = NoMap
    CanAbandon = FALSE
INVARIANTS
    TypeOK
    SavedBacked
    CompleteHonest
    ClosedDurable
PROPERTIES
    ConfirmedKept
    PassEnds
VIEW LiveView
