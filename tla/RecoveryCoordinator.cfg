CONSTANTS
    MaxAttempts = 1
    QueueCapacity = 2
    MaxGeneration = 3
    Overlap = FALSE
    Controlled = TRUE
SPECIFICATION Spec
INVARIANTS
    GateFollowsTransport
    ResetsSucceed
    
PROPERTIES
    OneProducer
    StopTerminates
    RecoveryProgresses
