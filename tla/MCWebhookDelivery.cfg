SPECIFICATION WebhookSpec
CONSTANTS
    MaxEventIds = 2
    Callbacks = {c1, c2}
    Keys = {k1}
    MaxRetries = 2
    MaxDisturbances = 2
INVARIANTS
    WebhookTypeOK
    ReceivedOncePerFault
PROPERTIES
    OwedIsReceived
CHECK_DEADLOCK FALSE
