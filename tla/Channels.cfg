SPECIFICATION FairSpec
CONSTANTS
    Calls = {c1}
    MaxListens = 3
    MaxFires = 1
    MaxRegistrations = 2
    MayDispose = TRUE
INVARIANTS IInv HandlerIsAwaited CancelIsTold SubscriptionMatches
PROPERTIES ImplementsRemoteCalls EveryCallSettles
CHECK_DEADLOCK FALSE
