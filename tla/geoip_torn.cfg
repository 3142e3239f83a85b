\* One source, two downloads at a time, Configures and lookups.
CONSTANTS
    NULL = NULL
    s1 = s1
    j1 = j1
    j2 = j2
    f1 = f1
    f2 = f2
    f3 = f3
    f4 = f4
    Sources <- OneSource
    Jobs <- TwoJobs
    Files <- FourFiles
    MaxFaults = 1
SPECIFICATION FocusSpec
SYMMETRY MCSymmetry
INVARIANT NeverTorn
CHECK_DEADLOCK FALSE
