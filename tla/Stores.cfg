SPECIFICATION StoresSpec
CONSTANTS
    Callers = {c1, c2}
    Rate = 2
    Window = 1
    MinTtl = 1
    MaxSleep = 1
    MaxEstimate = 3
    Overshoot = 2
    MaxElapsed = 3
    MaxStepBacks = 1
    Procs = {p1, p2}
    MemOnly = {}
    ViewExpiry = 4
    CacheTtl = 3
    Cooldown = 1
    MaxDelay = 1
    Attempts = {b1, b2}
    Tasks = {t1}
    MaxId = 3
    Ttl = 2
    MaxBreaks = 2
    NoWrite = NoWrite
    MaxSends = 3
    MaxRetries = 2
    Retriers = {r1}
    RuleIds = {r1}
    DossierIds = {d1, d2}
    EntryIds = {n1}
    RuleKeys = {kr}
    DossierKeys = {k1, k2}
    EntryKeys = {kn}
    DocKeys = {x1}
    Editors = {e1, e2}
    Lookups = {l1}
    NoRow = NoRow
    Users = {u1, u2}
    PoolSizes = {1, 2}
    MaxFlips = 2
INVARIANTS
    StoresTypeOK
    BudgetKept
    DebtBounded
    WaitIsEnough
    HandedOutAlive
    LatestNotLost
    SelfExpires
    BoardIsRight
    QuietLookup
    
    
PROPERTIES
    FirstWriteWins
    LoneSetReplaces
SYMMETRY StoresSymmetry
CHECK_DEADLOCK FALSE
