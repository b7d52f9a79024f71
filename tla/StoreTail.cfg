\* The last flush of a new weave file fails.
CONSTANTS
    a = a
    Scanners = {a}
    MaxWrites = 2
    MaxCrashes = 0
    Compressed = TRUE
    TailFails = TRUE
SPECIFICATION Spec
INVARIANTS
    CloseReports
CHECK_DEADLOCK FALSE
