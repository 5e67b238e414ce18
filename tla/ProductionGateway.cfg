\* Two products, and two threads that stop beside the daemon.
SPECIFICATION FairSpec
CONSTANTS
    p1 = p1
    p2 = p2
    t1 = t1
    t2 = t2
    Products = {p1, p2}
    Stoppers = {t1, t2}
INVARIANTS
    ServerWithinProducts
    StoppedIsComplete
    ExitIsClean
PROPERTIES
    StopsAreHeard
