\* Three requests of any kind beside changes of the two articles.
CONSTANTS
    NULL = NULL
    a1 = a1
    a2 = a2
    c1 = c1
    c2 = c2
    i1 = i1
    r1 = r1
    r2 = r2
    r3 = r3
    Articles <- TwoArticles
    Customers <- TwoCustomers
    Images <- OneImage
    Requests <- ThreeRequests
    Day = 1
    MinVotes = 2
    MaxNow = 1
    MaxViews = 2
    MaxFaults = 1
SPECIFICATION StartSpec
SYMMETRY MCSymmetry
INVARIANTS
    TypeOK
    OneViewADayUnlessOvertaken
    SweepReachesAll
    ShownIsOwned
PROPERTIES
    UnhelpfulIsPublished
CHECK_DEADLOCK FALSE
