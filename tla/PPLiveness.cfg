SPECIFICATION FairSpec
CONSTANTS
    a = a
    Data = {a}
    NoData = NoData
    IdSpace = 2
    MaxSends = 1
    MaxSockets = 2
    MaxInFlight = 0
    ConnectionTypes = {"Management", "ExtensionHost"}
    Lossy = FALSE
    DataBeforeClose = TRUE
PROPERTIES EventuallyDelivered EventuallyAcknowledged
CHECK_DEADLOCK FALSE
