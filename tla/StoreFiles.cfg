\* Two scanners, one of which may die half way, and a reader.
CONSTANTS
    a = a
    b = b
    Scanners = {a, b}
    MaxWrites = 3
    MaxCrashes = 1
    Compressed = TRUE
    TailFails = FALSE
SYMMETRY ScannerSymmetry
SPECIFICATION Spec
INVARIANTS
    TypeOK
    OwnTemps
    MainWhole
    NothingLost
    NoMixUp
    MainThere
    ReadsLatest
PROPERTIES
    Grows
CHECK_DEADLOCK FALSE
