\* Two status calls and a stream against start and shutdown of the server.
SPECIFICATION FairSpec
CONSTANTS
    c1 = c1
    s1 = s1
    s2 = s2
    Calls = {c1}
    StatusCalls = {s1, s2}
    ProductCount = 2
    MaxTracked = 1
INVARIANTS
    DrainedWhenDown
PROPERTIES
    ShutdownReturns
