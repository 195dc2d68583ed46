SPECIFICATION Spec
CONSTANTS
    cover = cover
    page = page
    Assets = {cover, page}
    MaxFence = 3
    RecordLimit = 2
    Setups <- AllSetups
INVARIANT
    SpendingIsOnRecord
PROPERTY
    WorkIsKept
SYMMETRY AssetSymmetry
CHECK_DEADLOCK FALSE
