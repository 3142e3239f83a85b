\* Two browsers of two customers save results on one endpoint.
CONSTANTS
    NULL = NULL
    s1 = s1
    s2 = s2
    c1 = c1
    c2 = c2
    e1 = e1
    Sessions <- TwoSessions
    Customers <- TwoCustomers
    Endpoints <- OneEndpoint
    Interval = 2
    MaxNow = 2
    MaxResults = 2
    MaxFaults = 1
SPECIFICATION Spec
SYMMETRY MCSymmetry
INVARIANT EveryTestAnnounced
CHECK_DEADLOCK FALSE
