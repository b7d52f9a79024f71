\* A delta based on an older revision does not read back as it was written.
CONSTANTS
    x = x
    y = y
    Lines = {x, y}
    None = None
    MaxLen = 1
    MaxDeltas = 3
    AnyBase = TRUE
    Texts <- MCTexts
SPECIFICATION Spec
PROPERTIES
    ReadsBack
CHECK_DEADLOCK FALSE
