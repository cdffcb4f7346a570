SPECIFICATION Spec
CONSTANTS
    MaxEvents = 1
    RetryMaxAttempts = 2
    MaxCrashes = 1
    MaxKafkaErrors = 0
    MaxOutboxErrors = 0
    MaxInboxErrors = 0
    MaxRefusals = 0
    MaxReplays = 0
    MaxFaults = 1
INVARIANTS
    CommittedEffectsSurvive
CHECK_DEADLOCK FALSE
