\* A document is deleted while a run still works on it.
SPECIFICATION Spec
CONSTANTS
    NoKey = NoKey
    Docs = {d1}
    PageCount = 1
    Finalizers = {}
    Runs = {r1}
    MaxPuts = 1
    MaxCrashes = 0
    MaxFaults = 0
INVARIANTS
    PurgedLeavesNothing
CHECK_DEADLOCK FALSE
