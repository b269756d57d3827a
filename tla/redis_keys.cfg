CONSTANTS
    c1 = c1
    c2 = c2
    c3 = c3
    None = None
    Clients = {c1, c2, c3}
    m_maxexpire = 2
    Sequence_min = 1
    Sequence_max = 2
    Sequence_step = 1
    MaxClock = 4
    MaxFaults = 2
    MaxGiven = 3
SPECIFICATION Spec
INVARIANTS
    ExclusiveWhileStampsLast
    OncePerLap
SYMMETRY Symmetry
CHECK_DEADLOCK FALSE
