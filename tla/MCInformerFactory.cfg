SPECIFICATION Spec
CONSTANTS
    Type = {policy, binding}
    User = {u1, u2}
INVARIANTS
    TypeOK
    OneRunPerInformer
    ShutdownIsFinal
PROPERTIES
    SyncCoversMine
    RequestedThenSynced
    ShutdownReturns
    WaitReturns
