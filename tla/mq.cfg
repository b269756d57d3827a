CONSTANTS
    c1 = c1
    c2 = c2
    q1 = q1
    q2 = q2
    None = None
    Clients = {c1, c2}
    Sessions = {c1, c2}
    Requests = {q1, q2}
    ClientOf <- Owner
    Keys <- TwoKeys
    Timeouts = {}
    MaxSizes = {}
    MaxAge = 1
    Timeout = 1
    MaxSize = 0
    RecvMax = 1
    MaxReplies = 2
SPECIFICATION FairSpec
INVARIANTS
    RightClient
PROPERTIES
    AtMostOnce
    
    OpenSettles
