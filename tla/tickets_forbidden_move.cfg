\* Two requests that read the same row.
CONSTANTS
    NULL = NULL
    t1 = t1
    t2 = t2
    r1 = r1
    r2 = r2
    r3 = r3
    a1 = a1
    Tickets <- OneTicket
    Requests <- TwoRequests
    Admins <- OneAdmin
    AutoCloseEnabled = TRUE
    ResolvedAfterDays = 1
    WaitingAfterDays = 2
    ReopenWindow = 1
    CronBatch = 200
    MaxNow = 2
    MaxFaults = 0
SPECIFICATION Spec
INVARIANT MovesAllowed
CHECK_DEADLOCK FALSE
