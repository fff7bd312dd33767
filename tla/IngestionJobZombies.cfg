\* Two workers that may outlast their leases, a message published twice by a
\* dispatcher that was killed, and a database failure.
CONSTANTS
    Workers = {w1, w2}
    Dispatchers = {d1}
    PlainStages = 0
    MaxRetries = 0
    Slow = TRUE
    MaxAttempts = 2
    MaxWorkerCrashes = 0
    MaxDispatcherCrashes = 1
    MaxFaults = 0
    MaxOutages = 1
    MaxCancels = 0
SYMMETRY WorkerSymmetry
SPECIFICATION Spec
INVARIANTS TypeOK LeaseWhileRunning VersionFollowsJob OneCompletion
PROPERTIES EndedJobIsFrozen
CHECK_DEADLOCK FALSE
