\* A bookkeeping call fails while a timeout is handled.
SPECIFICATION Spec
CONSTANTS
    Submits = {q1}
    Audits = {}
    Workers = {w1, w2}
    MaxRuns = 3
    MaxMessages = 3
    MaxRetries <- Attempts2
    Timeout <- Budgets
    IdleTimeout = 3
    MaxCrashes = 0
    MaxFaults = 1
PROPERTIES
    TimeoutIsTerminal
CHECK_DEADLOCK FALSE
