\* Actions of one customer interleaved, one failed statement.
CONSTANTS
    NULL = NULL
    r1 = r1
    r2 = r2
    r3 = r3
    c1 = c1
    c2 = c2
    f1 = f1
    Requests <- TwoRequests
    Customers <- OneCustomer
    Fields <- OneField
    MinInterval = 2
    MaxOpen = 1
    MaxNow = 2
    MaxFaults = 1
SPECIFICATION Spec
INVARIANT SpacingKept
CHECK_DEADLOCK FALSE
