CONSTANTS
    Threads = {t1, t2, t3}
    t1 = t1
    t2 = t2
    t3 = t3
    a = a
    Values = {a, b}
    b = b
    m_max_elements = 2
    Calls <- MixedCalls
    SpuriousWakeups = TRUE
SPECIFICATION FairSpec
INVARIANTS
    
    Bounded
    NoLostWakeup
PROPERTIES
    ImplementsDeque
    SleepersServed
    TimedCallsReturn
