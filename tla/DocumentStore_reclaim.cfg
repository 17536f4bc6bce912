\* Two documents: everything deleted is reclaimed, although the store fails.
SPECIFICATION FairSpec
CONSTANTS
    NoKey = NoKey
    Docs = {d1, d2}
    PageCount = 1
    Finalizers = {f1}
    Runs = {r1}
    MaxPuts = 1
    MaxCrashes = 0
    MaxFaults = 2
PROPERTIES
    DeletedIsReclaimed
CHECK_DEADLOCK FALSE
