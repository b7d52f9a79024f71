\* A delta may be based on any revision, as NewDeltaWriter allows.
CONSTANTS
    x = x
    y = y
    Lines = {x, y}
    None = None
    MaxLen = 2
    MaxDeltas = 3
    AnyBase = TRUE
    Texts <- MCTexts
SYMMETRY LineSymmetry
SPECIFICATION Spec
INVARIANTS
    TypeOK
    NeverFails
    NewestFirst
    WellFormed
    LockStep
PROPERTIES
    RevisionsKept
CHECK_DEADLOCK FALSE
