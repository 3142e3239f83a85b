\* Four requests, one at a time, on two articles that compete for slugs.
CONSTANTS
    NULL = NULL
    r1 = r1
    r2 = r2
    r3 = r3
    r4 = r4
    a1 = a1
    a2 = a2
    b1 = b1
    b2 = b2
    Requests <- FourRequests
    Articles <- TwoArticles
    Bases <- OneBase
    MaxSuffix = 2
    CronBatch = 1
    MaxNow = 1
    MaxFaults = 0
SPECIFICATION SerialSpec
SYMMETRY AllSymmetry
INVARIANTS
    CollisionsGetSuffix
    ScheduleFiresOnce
CHECK_DEADLOCK FALSE
