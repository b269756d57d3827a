CONSTANTS
    p1 = p1
    p2 = p2
    client = client
    Providers = {p1, p2}
    MaxSessions = 4
    MaxFaults = 1
    MaxCrashes = 1
SPECIFICATION Spec
INVARIANTS
    AbsentOnlyIfMisled
    
SYMMETRY ProviderSymmetry
CHECK_DEADLOCK FALSE
