CONSTANTS
    s1 = s1
    s2 = s2
    Sessions = {s1, s2}
    IngressCapacity = 1
    BootstrapCapacity = 1
    PendingCapacity = 1
    ActiveCapacity = 2
    QueueCapacity = 2
    MaxSequence = 4
    MaxTicket = 3
    MaxGeneration = 2
SYMMETRY SessionSymmetry
SPECIFICATION Spec
INVARIANTS
    ActiveSessionHasBook
    SessionContiguous
    NoOrphanSession
