SPECIFICATION Spec
CONSTANTS
    photo = photo
    thumbnail = thumbnail
    pages = pages
    s1 = s1
    s2 = s2
    Publishers = {photo}
    Caches = {thumbnail}
    Generation = pages
    Slots = {s1, s2}
    Attempts = 2
    StallLimit = 1
    Budgets <- SafetyBudgets
INVARIANT
    ArtifactsHaveOwners
PROPERTY
    ErasedForGood
SYMMETRY SlotSymmetry
CHECK_DEADLOCK FALSE
