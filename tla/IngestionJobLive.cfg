\* The stages and the retries of the deployed settings.  Workers keep their leases
\* and are not killed; a dispatcher is, and one attempt loses to another job.
CONSTANTS
    Workers = {w1, w2}
    Dispatchers = {d1, d2}
    PlainStages = 4
    MaxRetries = 3
    Slow = FALSE
    MaxAttempts = 3
    MaxWorkerCrashes = 0
    MaxDispatcherCrashes = 1
    MaxFaults = 0
    MaxOutages = 0
    MaxCancels = 0
SPECIFICATION FairSpec
INVARIANTS OneWorkerAtATime JobHasCarrier DocumentStatusSettles
PROPERTIES EveryJobEnds
CHECK_DEADLOCK FALSE
