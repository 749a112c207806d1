SPECIFICATION FairSpec
CONSTANTS
    WorkingCopies = {w1, w2}
    Scratchpads = {w2}
    EmptyWindow = FALSE
    MaxEdits = 2
    MaxFaults = 1
    MaxCloses = 1
    MaxShutdowns = 1
INVARIANTS IInv BackupIsCurrent CleanHasNoBackup
PROPERTIES ExitKeepsEdits UnrestoredBackupsKept ModifiedIsBackedUp
CHECK_DEADLOCK FALSE
