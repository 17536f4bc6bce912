\* Two runs, one finalize request, an overwritten upload, a crash, a store failure.
SPECIFICATION Spec
CONSTANTS
    NoKey = NoKey
    Docs = {d1}
    PageCount = 2
    Finalizers = {f1}
    Runs = {r1, r2}
    MaxPuts = 2
    MaxCrashes = 1
    MaxFaults = 1
SYMMETRY RunSymmetry
INVARIANTS
    TypeOK LiveBlobHasObject ObjectHasRow VisibleIsComplete SweepSparesGood
    CleanPurgeLeavesNothing
PROPERTIES
    VerdictStands
CHECK_DEADLOCK FALSE
