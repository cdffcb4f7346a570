SPECIFICATION Spec
CONSTANTS
    Keys = {k1, k2}
    Bodies = {text, empty}
    EmptyBodies = {empty}
    ReceiptTypes = {"delivered"}
    MaxMessages = 2
    MaxSends = 3
    MaxReceipts = 1
    MaxCrashes = 1
    MaxMarkErrors = 1
    MaxSendErrors = 1
    MaxDrops = 1
    MaxRemovals = 1
    MaxFaults = 2
    RetryMaxAttempts = 2
INVARIANTS
    RequestedKeyIsKnown
    KeySendsOneMessage
    SentOncePerFault
PROPERTIES
    OutcomeIsRecorded
    ImplementsSend
CHECK_DEADLOCK FALSE
