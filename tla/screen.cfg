SPECIFICATION Spec
CONSTANTS
    FrameSize = 1
    MaxData = 1
    Retries = 0
    Width = 4
    Strips = 1
    Book <- TwoSnapshots
    Capacities = {1}
    Touched = TRUE
    MaxSessions = 1
    MaxShots = 1
INVARIANTS TypeOK CaptureIsPublic RevealHolds PageWhole
