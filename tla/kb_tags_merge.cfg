\* A merge loses the links saved between its statements.
CONSTANTS
    NULL = NULL
    r1 = r1
    r2 = r2
    a1 = a1
    a2 = a2
    t1 = t1
    t2 = t2
    t3 = t3
    s1 = s1
    s2 = s2
    Requests <- TwoRequests
    Articles <- OneArticle
    Tags <- ThreeTags
    Slugs <- TwoSlugs
    MaxLabels = 1
    MaxFaults = 1
SPECIFICATION Spec
PROPERTY MergeMovesAll
