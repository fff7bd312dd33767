SPECIFICATION Spec
CONSTANTS
    Clients = {c1, c2}
    Keys = {k1, k2}
    NoKey = NoKey
    NeedsApproval = TRUE
    MaxAttempts = 4
    LeaseTerm = 2
INVARIANTS
    OneHolder
    OneEffect
    RowsAgree
    SuccessBacked
PROPERTIES
    SuccessUnderLease
    EffectRecorded
\* An item may end, with nothing left to do but approve it again.
CHECK_DEADLOCK FALSE
