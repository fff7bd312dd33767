\* A running job is cancelled and nothing fails.
CONSTANTS
    Workers = {w1}
    Dispatchers = {d1}
    PlainStages = 4
    MaxRetries = 3
    Slow = FALSE
    MaxAttempts = 2
    MaxWorkerCrashes = 0
    MaxDispatcherCrashes = 0
    MaxFaults = 0
    MaxOutages = 0
    MaxCancels = 1
SPECIFICATION FairSpec
PROPERTIES CancelRequestEndsJob
CHECK_DEADLOCK FALSE
