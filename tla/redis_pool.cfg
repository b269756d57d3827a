CONSTANTS
    t1 = t1
    t2 = t2
    k1 = k1
    k2 = k2
    k3 = k3
    NULL = NULL
    Threads = {t1, t2}
    Conns = {k1, k2, k3}
    RQST_RETRY_TIMES = 3
SPECIFICATION PoolFairSpec

    
PROPERTIES
    OnlyRepairMisplaces
    
