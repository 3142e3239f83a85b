\* Two requests of any kind, cron runs among them, on a due draft and another article.
CONSTANTS
    NULL = NULL
    r1 = r1
    r2 = r2
    r3 = r3
    r4 = r4
    a1 = a1
    a2 = a2
    b1 = b1
    b2 = b2
    Requests <- TwoRequests
    Articles <- TwoArticles
    Bases <- TwoBases
    MaxSuffix = 1
    CronBatch = 2
    MaxNow = 1
    MaxFaults = 1
SPECIFICATION MixedSpec
INVARIANTS
    TypeOK
    AnnouncementsMatch
PROPERTIES
    EarlyOnlyIfOvertaken
    CronServesItsList
CHECK_DEADLOCK FALSE
