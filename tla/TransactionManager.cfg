CONSTANTS
    NumSends = 3
    FairPrice = 2
    MaxPrice = 2
    MaxFaults = 2
SPECIFICATION Spec
INVARIANTS
    OneActionPerNonce
    PendingIsStored
PROPERTIES
    StoredIsMined
    SendsEnd
CHECK_DEADLOCK FALSE
