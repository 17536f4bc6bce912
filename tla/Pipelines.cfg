SPECIFICATION PipelinesSpec
CONSTANTS
    PageCount = 2
    PageSignals <- MCSignals
    Concurrency = 1
    ReflectOn = TRUE
    MaxRetries = 3
    MaxAttempts = 2
    Audits = {a1, a2}
    Slots = {s1, s2}
    FindingIds = {f1, f2}
    MaxDeliveries = 2
    NoAudit = NoAudit
    MaxMoneyText = 8
    MaxDates = 4
    Days = {0, 1, 2, 3}
    Today = 2
    Amounts <- MCAmounts
    MaxPages = 3
    ItemKeys = {invoice, order}
    None = None
    x1 = x1
    x2 = x2
    x3 = x3
    Rows <- MCRows
    AuditRows = {x1, x3}
    Similarity <- MCSimilarity
    Threshold = 3
    Asked <- MCAsked
    NoLimit = NoLimit
    DefaultPage = 1
    MaxPage = 2
    MaxRunPage = 2
    Walkers = {w1}
    Viewers = {v1}
    PageNumbers = {1, 2}
INVARIANTS
    PipelinesTypeOK
    SuccessIsComplete
    ResultsOfOneAttempt
    ConclusionOfOneDelivery
    ReportIsWhole
    MoneyReadRight
    DatesInOrder
    RoundedVatMatches
    
PROPERTIES
    OthersUntouched
SYMMETRY PipelinesSymmetry
CHECK_DEADLOCK FALSE
