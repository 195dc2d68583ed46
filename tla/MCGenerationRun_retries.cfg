CONSTANTS
    Runs = {r1, r2}
    Books = {b1}
    Workers = {w1, w2}
    Dispatchers = {d1}
    Sweepers = {}
    NoRun = NoRun
    DemoMode = TRUE
    InitialCredits = 2
    MaxAttempts = 1
    MaxStalledCount = 1
    LockLosses = 0
    JobLosses = 0
    DispatchFaults = 0
    Deletions = 1
SPECIFICATION Spec
SYMMETRY ActorsAndRuns
CHECK_DEADLOCK FALSE
INVARIANTS
    MirrorConsistent
    LedgerMatchesRuns
PROPERTIES
    ImplementsContract
