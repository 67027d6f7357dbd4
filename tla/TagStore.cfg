CONSTANTS
    Ids = {1, 2, 3}
    Threads <- MCThreads
    Writes <- MCWrites
    Subscribers = {"s"}
    ChannelCap = 2
    MaxCalls = 4
SPECIFICATION Spec
INVARIANTS
    StoreIsConsistent
    OwnCallsHold
    SubscribersKeepUp
CHECK_DEADLOCK FALSE
