SPECIFICATION Spec
CONSTANTS
    Machines = {m1, m2}
    First = m1
    MaxEdits = 2
    MaxFaults = 1
    MaxPruned = 0
INVARIANT SyncingMeansRunning
CHECK_DEADLOCK FALSE
