SPECIFICATION Spec
CONSTANTS
    MaxLength = 2
    ph1 = ph1
    ph2 = ph2
    None = None
    Peers = {ph1, ph2}
    StockMode = TRUE
    Messages <- NoMessages
    Passkeys = {1}
    UiCalls = {"open", "close", "reset", "accept", "reject"}
    QueueLength = 1
    MaxGeneration = 3
    MaxCalls = 2
    Crashes = FALSE
    HostFaults = FALSE
    Faults = TRUE
INVARIANTS SecureIsOwner
SYMMETRY PhoneSymmetry
