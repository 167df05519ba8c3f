SPECIFICATION FairSpec
CONSTANTS
    Kind = {k1, k2}
    CrdKind = crd
    Caller = {c1, c2}
    MaxSchema = 2
    MaxEvents = 2
    MaxCalls = 3
CHECK_DEADLOCK FALSE
INVARIANTS
    TypeOK
PROPERTIES
    MissIsFresh
    CallsReturn
