\* Changes between any two steps of scans and checks.
CONSTANTS
    LastDir = 4
    Parent <- MCParent
    LastFile = 2
    In <- MCIn
    Inodes = {1, 2}
    Data <- MCData
    Links = {"l"}
    Size <- MCSize
    Modes = {"open", "blind", "shut"}
    MayList = {"open", "blind"}
    MayPass = {"open"}
    FirstIno <- MCFirstIno
    FirstData <- MCFirstData
    MaxChanges = 2
    MaxTime = 2
    MaxVersions = 2
SPECIFICATION Spec
INVARIANTS
    TypeOK
    HashesTrue
    QuietScan
    ReportsOnce
    QuietCheck
PROPERTIES
    KeepsHash
CHECK_DEADLOCK FALSE
