SPECIFICATION Spec
CONSTANTS
    a = a
    Data = {a}
    NoData = NoData
    IdSpace = 3
    MaxSends = 2
    MaxSockets = 2
    MaxInFlight = 0
    ConnectionTypes = {"Management", "ExtensionHost"}
    Lossy = FALSE
    DataBeforeClose = FALSE
INVARIANTS UndeliveredIsKept HandOffIsSilent NoGapWithoutLoss
PROPERTY ImplementsReliableChannel
CHECK_DEADLOCK FALSE
