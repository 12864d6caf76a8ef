CONSTANTS
    NumSends = 3
    FairPrice = 2
    MaxPrice = 2
    MaxFaults = 0
SPECIFICATION Spec
INVARIANTS
    RemovesOnlyConfirmed
CHECK_DEADLOCK FALSE
