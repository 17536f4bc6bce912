\* Crash recovery: the contract and liveness, all calls succeed.
SPECIFICATION FairSpec
CONSTANTS
    Submits = {q1}
    Audits = {}
    Workers = {w1, w2}
    MaxRuns = 3
    MaxMessages = 5
    MaxRetries <- Attempts2
    Timeout <- Budgets
    IdleTimeout = 3
    MaxCrashes = 1
    MaxFaults = 0
PROPERTIES
    ImplementsContract EnqueuedRunSettles
CHECK_DEADLOCK FALSE
