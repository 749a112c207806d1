SPECIFICATION FairSpec
CONSTANTS
    Keys = {k1}
    Values = {v1}
    NoValue = NoValue
    Hints = {"none"}
    MaxChanges = 2
    MaxFailures = 1
    MaxExternal = 0
PROPERTY AlwaysClosed
CHECK_DEADLOCK FALSE
