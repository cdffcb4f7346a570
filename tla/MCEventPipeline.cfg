SPECIFICATION Spec
CONSTANTS
    MaxEvents = 2
    RetryMaxAttempts = 2
    MaxCrashes = 1
    MaxKafkaErrors = 1
    MaxOutboxErrors = 1
    MaxInboxErrors = 1
    MaxRefusals = 1
    MaxReplays = 1
    MaxFaults = 2
INVARIANTS
    TypeOK
    PublishedIsPersisted
    CommittedIsSettled
    HandlerRunsOncePerFault
PROPERTIES
    PersistedIsSettled
    ImplementsQueue
CHECK_DEADLOCK FALSE
