\* Two requests of any kind, cron runs among them, interleaved at every statement,
\* one fault, under fairness.
CONSTANTS
    NULL = NULL
    t1 = t1
    t2 = t2
    r1 = r1
    r2 = r2
    r3 = r3
    a1 = a1
    Tickets <- TwoTickets
    Requests <- TwoRequests
    Admins <- OneAdmin
    AutoCloseEnabled = TRUE
    ResolvedAfterDays = 1
    WaitingAfterDays = 1
    ReopenWindow = 1
    CronBatch = 200
    MaxNow = 2
    MaxFaults = 1
SPECIFICATION FocusSpec
PROPERTY IdleIsClosed
INVARIANTS
    TypeOK
    StampsMatchStatus
    TrailMatches
PROPERTIES
    ClosedSettles
    CurrentMovesAllowed
CHECK_DEADLOCK FALSE
