SPECIFICATION FairSpec
CONSTANTS
    FrameSize = 3
    MaxData = 2
    Retries = 1
    Width = 8
    Strips = 2
    Book <- TwoSnapshots
    Capacities = {0, 1, 2}
    Touched = FALSE
    MaxSessions = 2
    MaxShots = 2
INVARIANTS SessionAgrees
PROPERTIES HeardInOrder Thaws
