\* One more transient failure than Celery retries.
CONSTANTS
    Workers = {w1}
    Dispatchers = {d1}
    PlainStages = 1
    MaxRetries = 3
    Slow = FALSE
    MaxAttempts = 4
    MaxWorkerCrashes = 0
    MaxDispatcherCrashes = 0
    MaxFaults = 4
    MaxOutages = 0
    MaxCancels = 0
SPECIFICATION FairSpec
PROPERTIES EveryJobEnds
CHECK_DEADLOCK FALSE
