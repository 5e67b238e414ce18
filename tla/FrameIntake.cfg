\* Two frames and a snapshot on every route.
SPECIFICATION Spec
CONSTANTS
    Inputs <- MCInputs
    MaxFrames = 2
INVARIANTS
    NoSilentLoss
    BookFollowsEvents
    
