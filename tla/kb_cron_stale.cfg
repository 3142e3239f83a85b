\* A cron run overtaken by an edit of the schedule.
CONSTANTS
    NULL = NULL
    r1 = r1
    r2 = r2
    r3 = r3
    r4 = r4
    a1 = a1
    a2 = a2
    b1 = b1
    b2 = b2
    Requests <- ThreeRequests
    Articles <- OneArticle
    Bases <- OneBase
    MaxSuffix = 1
    CronBatch = 1
    MaxNow = 1
    MaxFaults = 0
SPECIFICATION Spec
SYMMETRY AllSymmetry
PROPERTIES
    CronPublishesDueOnly
CHECK_DEADLOCK FALSE
