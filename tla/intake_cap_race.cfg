\* Two creates of one customer interleaved.
CONSTANTS
    NULL = NULL
    r1 = r1
    r2 = r2
    r3 = r3
    c1 = c1
    c2 = c2
    f1 = f1
    Requests <- TwoRequests
    Customers <- OneCustomer
    Fields <- OneField
    MinInterval = 1
    MaxOpen = 1
    MaxNow = 1
    MaxFaults = 0
SPECIFICATION Spec
PROPERTY CapKept
CHECK_DEADLOCK FALSE
