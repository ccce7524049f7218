SPECIFICATION LiveSpec
CONSTANTS
    t1 = t1
    t2 = t2
    Threads <- MCThreads
    MaxRequest = 3
    MaxEvent = 1
CHECK_DEADLOCK FALSE
INVARIANTS
    PendingIsOwned
PROPERTIES
    ImplementsChannel
    EveryCallEnds
