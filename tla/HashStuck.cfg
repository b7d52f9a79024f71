\* More workers than the pool has room for.
CONSTANTS
    v = v
    w = w
    Workers = {v, w}
    MaxFiles = 3
    PoolCap = 1
SPECIFICATION FairSpec
PROPERTIES
    Returns
CHECK_DEADLOCK FALSE
