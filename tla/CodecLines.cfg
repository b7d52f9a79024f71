\* Two directories of a root, or as many files.
CONSTANTS
    Symbols <- MCSymbols
    Trees <- MCTrees
    Lines <- MCLines
    MaxLines = 11
    Digests = {"00ff"}
SPECIFICATION Spec
INVARIANTS
    TypeOK
    ReadsBack
    OnlyWhole
    NothingElse
CHECK_DEADLOCK FALSE
