CONSTANTS
    k1 = k1
    k2 = k2
    c1 = c1
    c2 = c2
    c3 = c3
    r1 = r1
    r2 = r2
    Empty = Empty
    None = None
    Keys = {k1, k2}
    Callers = {c1, c2, c3}
    Sessions = {c1, c2, c3}
    Receivers = {r1, r2}
    Timeouts = {}
    MaxSizes = {}
    MaxAge = 2
    Timeout = 2
    MaxSize = 1
SPECIFICATION FairSpec
INVARIANTS
    SetOnce
    OwnAnswer
PROPERTIES
    OrphanOnlyByPurge
    EveryCallReturns
