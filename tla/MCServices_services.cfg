\* Every part with the bounds of MCServices.
SPECIFICATION Spec
CONSTANTS
    None = None
    Null = Null
    NoPack = NoPack
    Briefs = 2
    MaxRequests = 2
    MaxHttpAttempts = 2
    ResponseAttempts = {1, 2}
    MaxFaults = 2
    DraftHistories <- MCHistories
    Pinned <- MCPinned
    AuthoringLimits <- MCLimits
    MaxExplored = 10
    MaxPublications = 2
    SessionId = "s1"
    Story <- MCStory
    Tabs = {"t1", "t2"}
    ReaderBudgets <- MCReaderBudgets
    Tale <- MCTale
    Route <- MCRoute
    PageSize = 2
    MaxArtInFlight = 1
    MaxArtRetries = 1
    ReadingBudgets <- MCReadingBudgets
    Starters = {"p1", "p2"}
    Targets = {"tale"}
    MaxSessionsPerUser = 3
    LibraryPage = 1
    LibraryBudgets <- MCLibraryBudgets
    s1 = s1
    s2 = s2
    Sweepers = {s1, s2}
    Labels = {"page_1"}
    Inputs = {1}
    NoNs = NoNs
    Dead = Dead
    NoOwner = NoOwner
    MaxRun = 3
    MaxFence = 2
    MaxRevision = 1
    MaxEdit = 1
    MaxObjects = 100
    MaxNamespaces = 100
    Budgets <- MCCleanupBudgets
    BrowserTabs = {b1, b2}
    Nobody = Nobody
    LoginBudgets <- MCLoginBudgets
    Closed = Closed
    Packages <- MCPackages
    OpeningCredits = 1
    PurchaseBudgets <- MCPurchaseBudgets
    QuotaCalls = {"c1", "c2", "c3"}
    ProcessOf <- MCProcessOf
    Permits = 1
    LimiterRetries = 1
    MaxWaits = 1
    QuotaBudgets <- MCQuotaBudgets
    AdmissionBooks = {"b1", "b2"}
    Handlers = {"retry"}
    Requests = {"q1", "q2"}
    MaxConcurrent = 1
    MaxPerWindow = 1
    CircuitMax = 1
    RouteMax = 1
INVARIANT
    PublicationIsControlled
PROPERTIES
    StoriesCanBePlayed
    ExperimentAccountedFor
    PlayersAreToldTheTruth
    DecorationFitsTheText
    LibraryIsTrue
    
    
    
    
    QuotaIsShared
    LimitsHold
CHECK_DEADLOCK FALSE
