SPECIFICATION LiveSpec
CONSTANTS
    N = 3
    Discs = {d1, d2}
    Jobs <- AllJobs
    MaxRuns = 3
    NoMap = NoMap
    BadMap = BadMap
INVARIANTS
    TypeOK OneSource CompleteTrue HonestVerdict CleanTrue
PROPERTIES
    GivenUpAtEnd ProgressKept OtherDiscKept RunEnds
