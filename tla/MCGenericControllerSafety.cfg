SPECIFICATION Spec
CONSTANTS
    Key = {k1, k2}
    Worker = {w1, w2}
    Runner = runner
    NoKey = noKey
    MaxVersion = 3
    MaxPending = 2
    MaxFailures = 1
SYMMETRY Symmetry
CHECK_DEADLOCK FALSE
INVARIANTS
    TypeOK
    QueueConsistent
    ExclusiveProcessing
    NoLostChange
    NoLostWakeup
    DrainedIfServed
PROPERTIES
    NeverBackwards
    QuietAfterReturn
    ImplementsKeyedWork
