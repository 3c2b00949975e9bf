SPECIFICATION FairSpec
CONSTANT
    Selections <- SomeSelections
    MaxReports = 1
INVARIANT
    TypeOK
    OutcomeTrue
    FailedGone
PROPERTY
    NoneAfterStop
    StopAndWorkEnd
