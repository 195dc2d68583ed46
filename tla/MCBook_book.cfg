\* Every part with the bounds of MCBook.
SPECIFICATION Spec
CONSTANTS
    Illustrations = {"cover", "page_1"}
    BookInputs = {"i1", "i2"}
    MaxClaims = 3
    PipelineBudgets <- MCPipelineBudgets
    PageBudgets <- MCPageBudgets
    Books = {1, 2, 3}
    PageLimit = 1
    CoverSlots = 1
    ShelfBudgets <- MCShelfBudgets
    DeployBudgets <- MCDeployBudgets
    Formats <- MCFormats
    StorageBudgets <- MCStorageBudgets
INVARIANTS
    
    CheckedDeploymentsWork
    StoredImagesStand
PROPERTIES
    ClaimsWorkInTurn
    
    
CHECK_DEADLOCK FALSE
