CONSTANTS
    Runs = {r1}
    Books = {b1}
    Workers = {w1}
    Dispatchers = {d1}
    Sweepers = {s1}
    NoRun = NoRun
    DemoMode = TRUE
    InitialCredits = 2
    MaxAttempts = 3
    MaxStalledCount = 1
    LockLosses = 2
    JobLosses = 0
    DispatchFaults = 0
    Deletions = 0
SPECIFICATION FairSpec
CHECK_DEADLOCK FALSE
PROPERTY
    BookNeverStuck
