CONSTANTS
    QueueCapacity = 3
    MaxSequence = 7
    Generation = 1
    MaxUpdates = 6
SPECIFICATION Spec
INVARIANTS
    AcknowledgeMatches
PROPERTIES
    Delivery
