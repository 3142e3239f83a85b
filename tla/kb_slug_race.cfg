\* Two creates that probe the same slug.
CONSTANTS
    NULL = NULL
    r1 = r1
    r2 = r2
    r3 = r3
    r4 = r4
    a1 = a1
    a2 = a2
    b1 = b1
    b2 = b2
    Requests <- TwoRequests
    Articles <- TwoArticles
    Bases <- OneBase
    MaxSuffix = 2
    CronBatch = 1
    MaxNow = 0
    MaxFaults = 0
SPECIFICATION Spec
SYMMETRY AllSymmetry
INVARIANTS
    CollisionsGetSuffix
CHECK_DEADLOCK FALSE
