SPECIFICATION Spec
CONSTANTS
    Clients = {c1}
    Keys = {k1}
    NoKey = NoKey
    NeedsApproval = FALSE
    MaxAttempts = 1
    LeaseTerm = 1
INVARIANT CompletedEffectStands
CHECK_DEADLOCK FALSE
