SPECIFICATION Spec
CONSTANTS
    MaxOps = 2
    MaxFaults = 3
INVARIANTS
    OneClient
    DeadSessionIsFlagged
    ConnectedSessionIsSaved
PROPERTIES
    DroppedChannelComesBack
