\* Two workers, with room for their buffers; more files than the channel holds.
CONSTANTS
    v = v
    w = w
    Workers = {v, w}
    MaxFiles = 5
    PoolCap = 2
SPECIFICATION FairSpec
INVARIANTS
    TypeOK
    PoolHasRoom
    NoRace
    ReturnsComplete
    WithinEstimate
PROPERTIES
    Returns
CHECK_DEADLOCK FALSE
