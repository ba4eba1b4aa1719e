SPECIFICATION Spec
CONSTANTS
    MaxLength = 2
    ph1 = ph1
    ph2 = ph2
    None = None
    Peers = {ph1}
    StockMode = FALSE
    Messages <- UploadMessages
    Passkeys = {1}
    UiCalls = {"open", "close", "render"}
    QueueLength = 1
    MaxGeneration = 3
    MaxCalls = 2
    Crashes = FALSE
    HostFaults = TRUE
    Faults = FALSE
INVARIANTS UploadAgrees SecureIsOwner
