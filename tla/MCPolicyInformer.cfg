SPECIFICATION FairSpec
CONSTANTS
    Names = 2
    PageLimit = 1
    MaxLog = 4
    MaxFaults = 1
    Convertible = {TRUE, FALSE}
CHECK_DEADLOCK FALSE
INVARIANTS
    TypeOK
    MirrorsOutsideGaps
PROPERTIES
    CatchesUp
