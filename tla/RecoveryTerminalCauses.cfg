CONSTANTS
    MaxAttempts = 1
    QueueCapacity = 2
    MaxGeneration = 1
    Overlap = FALSE
    Controlled = FALSE
SPECIFICATION Spec
INVARIANT OnlyTerminalCausesEnd
