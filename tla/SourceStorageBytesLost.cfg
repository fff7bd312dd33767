CONSTANTS
    Sources = {v1}
    Quarantined = {}
    Documents = {d1}
    Clients = {c1}
    Held = {}
    NoDocument = NoDocument
    NoVersion = NoVersion
    MaxRequests = 2
    MaxMishaps = 1
SPECIFICATION Spec
INVARIANT MissingStaysZero
CHECK_DEADLOCK FALSE
