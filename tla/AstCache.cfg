SPECIFICATION AstSpec
CONSTANTS
    k1 = k1
    k2 = k2
    k3 = k3
    k4 = k4
    bad = bad
    Key <- MCKey
    Valid <- MCValid
    Capacity = 3
    Batch = 2
    TickModulus = 16
    MaxTick = 9
CHECK_DEADLOCK FALSE
INVARIANT CacheIsTransparent
PROPERTY EvictsLeastRecent
PROPERTY AstImplementsList
