SPECIFICATION Spec
CONSTANTS
    Pages = {p1}
    MaxRuns = 4
    NoUndo = NoUndo
    NoSector = NoSector
INVARIANTS
    TypeOK OldOrNew RenamedTrue
