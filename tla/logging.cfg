CONSTANTS
    Readers = {r1, r2}
    r1 = r1
    r2 = r2
    BufferSize = 2
    MaxBuffers = 2
    MaxLines = 8
SPECIFICATION FairSpec
INVARIANTS
    PopBackSafe
    InOrder
    DropsReported
PROPERTY
    EveryLineLeaves
