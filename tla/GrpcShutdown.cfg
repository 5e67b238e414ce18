\* Three streams, two of them tracked at most, against a shutdown.
SPECIFICATION Spec
CONSTANTS
    c1 = c1
    c2 = c2
    c3 = c3
    Calls = {c1, c2, c3}
    StatusCalls = {}
    ProductCount = 1
    MaxTracked = 2
SYMMETRY Symmetry
INVARIANTS
    NoDanglingCancel
    NothingBehindSnapshot
    NoSessionBehindShutdown
