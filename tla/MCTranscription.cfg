SPECIFICATION Spec
CONSTANTS
    Messages = {m1}
    MaxRequests = 3
    MaxOps = 3
    MaxFaults = 2
INVARIANTS
    OpenHasDelivery
    NoOrphanTranscript
    DeniedTextIsNotStored
PROPERTIES
    CompletedIsKept
    RequestedIsSettled
CHECK_DEADLOCK FALSE
