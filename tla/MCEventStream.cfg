SPECIFICATION Spec
CONSTANTS
    Sessions = {s1}
    Slots = 1
    MaxEvents = 3
    MaxConnects = 1
    MaxCrashes = 1
INVARIANTS
    NoSilentGap
PROPERTIES
    WorkIsHandled
CHECK_DEADLOCK FALSE
