SPECIFICATION FairSpec
CONSTANTS
    MaxLength = 2
    Lengths <- TwoThenUpToTwo
    NoStatus = NoStatus
INVARIANTS DoneIsCommitted StoppedIsStopped
PROPERTY Ends
CHECK_DEADLOCK FALSE
