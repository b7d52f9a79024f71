\* Every delta is based on the latest revision, as store.WriteDelta does it.
CONSTANTS
    x = x
    y = y
    Lines = {x, y}
    None = None
    MaxLen = 2
    MaxDeltas = 3
    AnyBase = FALSE
    Texts <- MCTexts
SPECIFICATION FairSpec
PROPERTIES
    Implements
    WriteFinishes
CHECK_DEADLOCK FALSE
