SPECIFICATION RegexSpec
CONSTANTS
    k1 = k1
    k2 = k2
    k3 = k3
    k4 = k4
    bad = bad
    Key <- MCKey
    Valid <- MCValid
    Capacity = 3
    Batch = 2
    TickModulus = 5
    MaxTick = 16
INVARIANT SizeBounded
