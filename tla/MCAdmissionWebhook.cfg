SPECIFICATION FairSpec
CONSTANTS
    Request = {r1}
    NumValidators = 2
    Class = {policy, pod}
    PolicyClass = {policy}
    MaxChanges = 2
CHECK_DEADLOCK FALSE
INVARIANTS
    TypeOK
    AllowedMeansAccepted
    DeniedMeansRefused
PROPERTIES
    EveryRequestAnswered
    PoliciesEnforced
