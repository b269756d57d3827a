CONSTANTS
    d1 = d1
    d2 = d2
    NULL = NULL
    Paths = {d1, d2}
    MaxFileSize = 3
    MaxChunks = 5
    MaxClock = 3
    MaxMoves = 2
SPECIFICATION OutputSpec
INVARIANTS
    
    AtLeastOnceInOrder
CHECK_DEADLOCK FALSE
