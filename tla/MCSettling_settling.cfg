SPECIFICATION SettlingSpec
CONSTANTS
    r1 = r1
    NoRevision = NoRevision
    photo = photo
    thumbnail = thumbnail
    pages = pages
    s1 = s1
    s2 = s2
    Publishers = {photo}
    Caches = {thumbnail}
    Generation = pages
    Slots = {s1, s2}
    Attempts = 2
    StallLimit = 1
    Budgets <- RestingBudgets
PROPERTIES
    RevisionEnds
    DeletionSettles
CHECK_DEADLOCK FALSE
