SPECIFICATION FairSpec
CONSTANTS
    Key = {k1, k2}
    Worker = {w1, w2}
    Runner = runner
    NoKey = noKey
    MaxVersion = 2
    MaxPending = 2
    MaxFailures = 1
CHECK_DEADLOCK FALSE
PROPERTIES
    EventuallyObserved
    RunReturns
