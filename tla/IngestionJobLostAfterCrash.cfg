\* One worker is killed while it holds the lease.
CONSTANTS
    Workers = {w1, w2}
    Dispatchers = {d1}
    PlainStages = 4
    MaxRetries = 3
    Slow = FALSE
    MaxAttempts = 2
    MaxWorkerCrashes = 1
    MaxDispatcherCrashes = 0
    MaxFaults = 0
    MaxOutages = 0
    MaxCancels = 0
SYMMETRY WorkerSymmetry
SPECIFICATION Spec
INVARIANTS JobHasCarrier
CHECK_DEADLOCK FALSE
