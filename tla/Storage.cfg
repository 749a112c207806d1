SPECIFICATION FairSpec
CONSTANTS
    Keys = {k1, k2}
    Values = {v1, v2}
    NoValue = NoValue
    Hints = {"none", "STORAGE_DOES_NOT_EXIST", "STORAGE_IN_MEMORY"}
    MaxChanges = 3
    MaxFailures = 1
    MaxExternal = 1
INVARIANTS IInv PendingIsScheduled CacheIsWritten ClosedIsSaved
PROPERTY WaitersAreReleased
CHECK_DEADLOCK FALSE
