SPECIFICATION MirrorSpec
CONSTANTS
    MaxIds = 3
    MaxWa = 1
    MaxChanges = 4
    MaxFaults = 1
INVARIANTS
    SeqIsNeverTakenTwice
PROPERTIES
    MirrorCatchesUp
CHECK_DEADLOCK FALSE
