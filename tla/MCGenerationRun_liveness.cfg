CONSTANTS
    Runs = {r1}
    Books = {b1}
    Workers = {w1}
    Dispatchers = {d1}
    Sweepers = {s1}
    NoRun = NoRun
    DemoMode = TRUE
    InitialCredits = 2
    MaxAttempts = 1
    MaxStalledCount = 1
    LockLosses = 1
    JobLosses = 1
    DispatchFaults = 1
    Deletions = 0
SPECIFICATION FairSpec
CHECK_DEADLOCK FALSE
INVARIANTS
    TypeOK
    QueuedRunIsReachable
PROPERTIES
    
    EveryRunEnds
