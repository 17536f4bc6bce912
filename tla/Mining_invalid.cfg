SPECIFICATION MiningSpec
CONSTANTS
    PageCount = 1
    PageSignals <- MCSignals
    Concurrency = 1
    ReflectOn = TRUE
    MaxRetries = 3
    MaxAttempts = 2
INVARIANTS
    MinedIsReady
CHECK_DEADLOCK FALSE
