\* One scanner stops between its renames, and the next ones go on.
CONSTANTS
    a = a
    Scanners = {a}
    MaxWrites = 4
    MaxCrashes = 1
    Compressed = TRUE
    TailFails = FALSE
SPECIFICATION Spec
INVARIANTS
    NeverLost
CHECK_DEADLOCK FALSE
