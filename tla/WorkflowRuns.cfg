\* Crashes and failing calls; the idle timeout exceeds both time budgets.
SPECIFICATION Spec
CONSTANTS
    Submits = {q1}
    Audits = {a1}
    Workers = {w1, w2}
    MaxRuns = 3
    MaxMessages = 3
    MaxRetries <- Attempts2
    Timeout <- CoarseBudgets
    IdleTimeout = 2
    MaxCrashes = 1
    MaxFaults = 1
SYMMETRY Slots
INVARIANTS
    TypeOK RowBeforeMessage NoDoubleRun RunningIsOwed SuccessIsChained
    AttemptsBounded

    
CHECK_DEADLOCK FALSE
