SPECIFICATION Spec
CONSTANTS
    N = 1
    Depth = 1
    MaxPass = 3
    NoMap = NoMap
    CanAbandon = TRUE
INVARIANTS
    FreshMapEmpty
VIEW LiveView
