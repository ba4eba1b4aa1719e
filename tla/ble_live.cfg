SPECIFICATION FairSpec
CONSTANTS
    MaxLength = 2
    ph1 = ph1
    ph2 = ph2
    None = None
    Peers = {ph1}
    StockMode = TRUE
    Messages <- Begins
    Passkeys = {1}
    UiCalls = {"open", "reset"}
    QueueLength = 1
    MaxGeneration = 3
    MaxCalls = 2
    Crashes = FALSE
    HostFaults = FALSE
    Faults = FALSE
INVARIANT UploadAgrees
PROPERTIES StaleUploadGoes ResetEnds DeadLinkGoes
