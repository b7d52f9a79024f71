\* The permissions of the directory that is scanned change.
CONSTANTS
    LastDir = 4
    Parent <- MCParent
    LastFile = 2
    In <- MCIn
    Inodes = {1, 2}
    Data <- MCData
    Links = {"l"}
    Size <- MCSize
    Modes = {"open", "private", "blind", "shut"}
    MayList = {"open", "private", "blind"}
    MayPass = {"open", "private"}
    FirstIno <- MCFirstIno
    FirstData <- MCFirstData
    MaxChanges = 1
    MaxTime = 0
    MaxVersions = 1
SPECIFICATION Spec
INVARIANTS
    ReportsAll
CHECK_DEADLOCK FALSE
