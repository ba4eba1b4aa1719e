SPECIFICATION FairSpec
CONSTANTS
    QueueLength = 1
    TxQueueLength = 2
    Idle = 1
    SessionLimit = 8
    MaxLinks = 2
    MaxWrites = 2
    MaxClock = 1
INVARIANTS TypeOK FrameIntact PacketToItsLink NoLostWakeup
PROPERTIES Unblocks WritesTaken
