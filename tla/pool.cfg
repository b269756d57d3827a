CONSTANTS
    t1 = t1
    t2 = t2
    t3 = t3
    c1 = c1
    c2 = c2
    c3 = c3
    None = None
    Threads = {t1, t2, t3}
    Conns = {c1, c2}
    minConns = 1
    maxConns = 2
    LateClose = TRUE
SPECIFICATION FairSpec
INVARIANTS
    Exclusive
    WithinMax
    SleepOnlyWhenEmpty
PROPERTIES
    RetireOnlyIdle
    CountDriftsOnlyByClosed
    GetConnectionReturns
