SPECIFICATION Spec
CONSTANTS
    AcknowledgeTime = 2
    KeepAliveSendTime = 3
    TimeoutTime = 4
    MinimumDelay = 1
    MaxUnacked = 3
    MayDispose = TRUE
    ExtHost = TRUE
INVARIANTS IInv WatchdogInTime AcknowledgedByKeepAlive
PROPERTY NoSpuriousTimeout
