\* A worker that lost its lease and the worker that took the job over.
CONSTANTS
    Workers = {w1, w2}
    Dispatchers = {d1}
    PlainStages = 0
    MaxRetries = 0
    Slow = TRUE
    MaxAttempts = 2
    MaxWorkerCrashes = 0
    MaxDispatcherCrashes = 1
    MaxFaults = 0
    MaxOutages = 0
    MaxCancels = 0
SYMMETRY WorkerSymmetry
SPECIFICATION Spec
PROPERTIES CompletedIndexUntouched
CHECK_DEADLOCK FALSE
