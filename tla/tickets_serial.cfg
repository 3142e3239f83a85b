\* Three requests one after the other on one ticket.
CONSTANTS
    NULL = NULL
    t1 = t1
    t2 = t2
    r1 = r1
    r2 = r2
    r3 = r3
    r4 = r4
    a1 = a1
    Tickets <- OneTicket
    Requests <- ThreeRequests
    Admins <- OneAdmin
    AutoCloseEnabled = TRUE
    ResolvedAfterDays = 1
    WaitingAfterDays = 2
    ReopenWindow = 1
    CronBatch = 200
    MaxNow = 4
    MaxFaults = 1
SPECIFICATION SerialSpec
SYMMETRY RequestSymmetry
PROPERTIES
    ImplementsContract
CHECK_DEADLOCK FALSE
