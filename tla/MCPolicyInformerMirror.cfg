SPECIFICATION Spec
CONSTANTS
    Names = 2
    PageLimit = 0
    MaxLog = 4
    MaxFaults = 0
    Convertible = {TRUE}
CHECK_DEADLOCK FALSE
INVARIANT
    MirrorsServer
