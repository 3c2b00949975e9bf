SPECIFICATION FairSpec
CONSTANTS
    Remuxes = {a, b}
    Targets = {t}
    a = a
    b = b
    t = t
    Asked <- Both
    Shorts = 1
    NoFile = NoFile
    NoOne = NoOne
INVARIANTS
    TypeOK TargetWhole OwnFile KeptStays ResultTrue NothingLeft
PROPERTIES
    ForeignStays RemuxEnds
VIEW View
