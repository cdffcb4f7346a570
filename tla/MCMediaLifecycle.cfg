SPECIFICATION Spec
CONSTANTS
    Uploads = {u1, u2}
    Inbound = {i1}
    Pictures = {p1}
    Entities = {e1, e2}
    Targets = {i1, p1}
    Bodies = {b1, b2}
    MaxOps = 2
    MaxFaults = 1
INVARIANTS
    InflightHasOneOwner
    KeyStoresOneMedia
    RecordHasBytes
    NoBytesLeftBehind
    RemovedMessageLeavesNoMedia
PROPERTIES
    UploadIsAnswered
CHECK_DEADLOCK FALSE
