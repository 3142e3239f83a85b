\* A Configure of a row whose slow threshold is 0.
CONSTANTS
    NULL = NULL
    d1 = d1
    d2 = d2
    c1 = c1
    c2 = c2
    c3 = c3
    r1 = r1
    tickets = tickets
    ai = ai
    Databases <- OneDatabase
    Configures <- TwoConfigures
    Requests <- OnePatch
    Modules <- TwoModules
    DefaultModules <- Shipped
    HostSerializes = TRUE
    MaxFaults = 0
SPECIFICATION Spec
SYMMETRY CallSymmetry
PROPERTY SettingsRoundTrip
CHECK_DEADLOCK FALSE
