CONSTANTS
    k1 = k1
    k2 = k2
    k3 = k3
    k4 = k4
    s1 = s1
    s2 = s2
    Keys = {k1, k2, k3, k4}
    Sessions = {s1, s2}
    Timeouts = {0, 1, 2, 3}
    MaxSizes = {0, 1, 2}
    MaxAge = 3
SYMMETRY KeySymmetry
SPECIFICATION CacheSpec
INVARIANTS
    MapMatchesList
    OldestFirst
PROPERTIES
    ClearTimeoutComplete
