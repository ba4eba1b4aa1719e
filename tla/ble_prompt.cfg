SPECIFICATION Spec
CONSTANTS
    MaxLength = 2
    ph1 = ph1
    ph2 = ph2
    None = None
    Peers = {ph1}
    StockMode = TRUE
    Messages <- NoMessages
    Passkeys = {1, 2}
    UiCalls = {"render", "open", "accept"}
    QueueLength = 2
    MaxGeneration = 2
    MaxCalls = 1
    Crashes = FALSE
    HostFaults = FALSE
    Faults = FALSE
INVARIANT ReleasedKeyWasShown
