\* Texts of one line, as Progress and the scan print them.
CONSTANTS
    v = v
    w = w
    Workers = {v, w}
    MaxDirs = 2
    MaxFiles = 3
    Heights = {1}
    Main = Main
    Free = Free
SPECIFICATION FairSpec
INVARIANTS
    TypeOK
    LogKept
    OneMeter
    LastTextShown
    CloseUndisturbed
PROPERTIES
    Forward
    Ends
CHECK_DEADLOCK FALSE
