SPECIFICATION Spec
CONSTANTS
    Capacity = 2
    Sector = 1
    Texts = {"t1"}
    Avatars = {"a1"}
    Frames <- AllFrames
    None = None
    PollLength = 1
    MaxSessions = 2
    Faults = TRUE
INVARIANTS TypeOK ImageWhole ShownIntact ProfileAgrees
PROPERTIES KeptUntilBegin LateIsLast
