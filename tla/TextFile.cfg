SPECIFICATION FairSpec
CONSTANTS
    MaxVersion = 2
    MaxWrites = 1
    MaxMishaps = 1
INVARIANTS IInv OneSaveAtATime CleanIsSaved
PROPERTIES NoUnseenOverwrite ReloadKeepsEdits QueuedSaveRuns
CHECK_DEADLOCK FALSE
