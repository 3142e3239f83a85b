\* Three Configures, a PATCH, two databases, one fault.
CONSTANTS
    NULL = NULL
    d1 = d1
    d2 = d2
    c1 = c1
    c2 = c2
    c3 = c3
    r1 = r1
    tickets = tickets
    ai = ai
    Databases <- TwoDatabases
    Configures <- ThreeConfigures
    Requests <- OnePatch
    Modules <- TwoModules
    DefaultModules <- Shipped
    HostSerializes = TRUE
    MaxFaults = 1
SPECIFICATION Spec
SYMMETRY CallSymmetry
INVARIANTS
    TypeOK
    MountedPoolOpen
    PoolsAccounted
    MountedFitsRow
CHECK_DEADLOCK FALSE
