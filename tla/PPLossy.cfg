SPECIFICATION Spec
CONSTANTS
    a = a
    Data = {a}
    NoData = NoData
    IdSpace = 3
    MaxSends = 2
    MaxSockets = 1
    MaxInFlight = 1
    ConnectionTypes = {"ExtensionHost"}
    Lossy = TRUE
    DataBeforeClose = FALSE
INVARIANT IInv
CHECK_DEADLOCK FALSE
