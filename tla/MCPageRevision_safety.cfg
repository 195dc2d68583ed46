SPECIFICATION Spec
CONSTANTS
    r1 = r1
    r2 = r2
    w1 = w1
    w2 = w2
    NoRevision = NoRevision
    Revisions = {r1, r2}
    Pages = {1, 2}
    Workers = {w1, w2}
    Editors = {1, 2}
    Sweepers = {1}
    InitialCredits = 1
    MaxStalledCount = 1
    Scenarios <- AllScenarios
INVARIANTS
    OneLogicalCall
    RevisionBooksAgree
PROPERTIES
    NoLostUpdate
    VerdictsStand
SYMMETRY ActorSymmetry
CHECK_DEADLOCK FALSE
