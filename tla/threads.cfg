CONSTANTS
    Workers = {w1, w2}
    Tasks = {a, b, c}
    NoTask = NoTask
    w1 = w1
    w2 = w2
    a = a
    b = b
    c = c
SPECIFICATION FairSpec
INVARIANTS
    AtMostOnce
    OwedAreRun
PROPERTIES
    AcceptedRuns
    TerminateReturns
