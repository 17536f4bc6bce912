\* The default idle timeout lies between the two budgets.
SPECIFICATION Spec
CONSTANTS
    Submits = {q1}
    Audits = {}
    Workers = {w1, w2}
    MaxRuns = 3
    MaxMessages = 3
    MaxRetries <- Attempts2
    Timeout <- Budgets
    IdleTimeout = 2
    MaxCrashes = 0
    MaxFaults = 0
INVARIANTS
    NoDoubleRun
CHECK_DEADLOCK FALSE
