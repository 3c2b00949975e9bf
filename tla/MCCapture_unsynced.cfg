SPECIFICATION Spec
CONSTANTS
    N = 2
    Depth = 1
    MaxPass = 2
    NoMap = NoMap
    CanAbandon = FALSE
PROPERTIES
    FillPersistsSynced
VIEW LiveView
