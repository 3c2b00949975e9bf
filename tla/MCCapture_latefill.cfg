SPECIFICATION Spec
CONSTANTS
    N = 1
    Depth = 1
    MaxPass = 3
    NoMap = NoMap
    CanAbandon = TRUE
PROPERTIES
    RecoveredKept
VIEW LiveView
