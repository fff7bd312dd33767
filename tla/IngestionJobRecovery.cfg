\* One worker process that is killed, fails, outlasts its lease and is cancelled,
\* with the lease reconciler: the attempts of the job follow one another.
CONSTANTS
    Workers = {w1}
    Dispatchers = {d1}
    PlainStages = 0
    MaxRetries = 1
    Slow = TRUE
    MaxAttempts = 2
    MaxWorkerCrashes = 1
    MaxDispatcherCrashes = 0
    MaxFaults = 1
    MaxOutages = 0
    MaxCancels = 1
CONSTRAINTS TwoMishaps
SPECIFICATION Spec
PROPERTIES ActiveVersionIndexed LifecycleRefined
CHECK_DEADLOCK FALSE
