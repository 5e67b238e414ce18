CONSTANTS
    s1 = s1
    Sessions = {s1}
    IngressCapacity = 2
    BootstrapCapacity = 1
    PendingCapacity = 1
    ActiveCapacity = 1
    QueueCapacity = 2
    MaxSequence = 4
    MaxTicket = 3
    MaxGeneration = 2
SPECIFICATION Spec
INVARIANTS
    TicketsAccountedFor
    BarrierCoversOverflow
    OneGeneration
PROPERTIES
    CutIsStable
    CallersReturn
