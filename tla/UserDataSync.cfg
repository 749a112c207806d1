SPECIFICATION FairSpec
CONSTANTS
    Machines = {m1, m2}
    First = m1
    MaxEdits = 3
    MaxFaults = 1
    MaxPruned = 1
INVARIANTS IInv BaseIsAncestor ConflictIsReal
PROPERTIES ReplacedIsBackedUp OnlyForward Converges
CHECK_DEADLOCK FALSE
