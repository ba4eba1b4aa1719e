SPECIFICATION Spec
CONSTANTS
    MaxLength = 2
    ph1 = ph1
    ph2 = ph2
    None = None
    Peers = {ph1, ph2}
    StockMode = TRUE
    Messages <- NoMessages
    Passkeys = {1}
    UiCalls = {"open", "reset", "accept"}
    QueueLength = 1
    MaxGeneration = 3
    MaxCalls = 2
    Crashes = TRUE
    HostFaults = FALSE
    Faults = FALSE
INVARIANTS TypeOK SecureIsOwner OwnerApproved
PROPERTY ResetWipes
SYMMETRY PhoneSymmetry
