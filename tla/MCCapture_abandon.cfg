SPECIFICATION Spec
CONSTANTS
    N = 1
    Depth = 1
    MaxPass = 2
    NoMap = NoMap
    CanAbandon = TRUE
PROPERTIES
    NewestWins
    StopReturns
