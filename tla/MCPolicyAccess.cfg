SPECIFICATION Spec
CONSTANTS
    Lister = {lister}
    Wrapped = {wrapped}
    Proxied = {proxied}
    MaxWrites = 3
CHECK_DEADLOCK FALSE
INVARIANTS
    TypeOK
    CacheFaithful
    AckedIsStored
    NoLostUpdate
    SpecStatusSeparate
    RefusedForCause
