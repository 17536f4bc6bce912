\* The worker finishes while POST /workflows still writes.
SPECIFICATION Spec
CONSTANTS
    Submits = {q1}
    Audits = {}
    Workers = {w1, w2}
    MaxRuns = 3
    MaxMessages = 3
    MaxRetries <- Attempts2
    Timeout <- Budgets
    IdleTimeout = 3
    MaxCrashes = 0
    MaxFaults = 0
PROPERTIES
    KeepsTaskiqId
CHECK_DEADLOCK FALSE
