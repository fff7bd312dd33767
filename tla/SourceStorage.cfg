CONSTANTS
    v1 = v1
    v2 = v2
    v3 = v3
    Sources = {v1, v2, v3}
    Quarantined = {v3}
    Documents = {d1}
    Clients = {c1, c2}
    Held <- OneHeldOriginal
    NoDocument = NoDocument
    NoVersion = NoVersion
    MaxRequests = 3
    MaxMishaps = 1
SPECIFICATION Spec
INVARIANTS
    ServedVersionIntact
    CitedVersionIntact
    VersionsNumbered
    ChunksOutliveObjects
PROPERTIES
    RegisteredBytesKept
    VaultRefined
    AbandonedStagingSwept
CONSTRAINTS OneMaintenance QuarantinedFirst
CHECK_DEADLOCK FALSE
