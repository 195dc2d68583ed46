CONSTANTS
    Runs = {r1}
    Books = {b1}
    Workers = {w1, w2}
    Dispatchers = {d1}
    Sweepers = {}
    NoRun = NoRun
    DemoMode = TRUE
    InitialCredits = 2
    MaxAttempts = 2
    MaxStalledCount = 1
    LockLosses = 1
    JobLosses = 0
    DispatchFaults = 0
    Deletions = 0
SPECIFICATION Spec
SYMMETRY Actors
CHECK_DEADLOCK FALSE
INVARIANTS
    ExclusiveClaims
    PublishedEditionIntact
PROPERTIES
    PublicationIsFenced
    EndedRunsAreFinal
    LiveOwnerNotAbandoned
