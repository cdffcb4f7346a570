SPECIFICATION LoopSpec
CONSTANTS
    Conversations = {v1}
    Consumers = {c1, c2}
    Careless = {c2}
    AckSeqs = {0, 1, 2, 3}
    MaxSeq = 2
    MaxLeases = 6
    MaxCrashes = 1
    PageLimit = 1
    MaxRestarts = 1
    MaxExpiries = 1
    CarelessLeases = 2
INVARIANTS
    TypeOK
    PendingWorkStaysListed
    LeaseCoversPendingWork
    CursorCoversStoredMessages
PROPERTIES
    EveryMessageReachesConsumer
CHECK_DEADLOCK FALSE
