\* One connection, stopped by its owner and by its destructor.
SPECIFICATION Spec
CONSTANTS
    t1 = t1
    t2 = t2
    Stoppers = {t1, t2}
    Stages = 3
    MaxFrames = 1
    Overlap = FALSE
INVARIANTS
    FailureSurvivesStop
    TimeoutIsTheStagesOwn
    NothingLeftBehind
PROPERTIES
    
    NothingHangs
