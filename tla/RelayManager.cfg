CONSTANTS
    Histories <- MCHistories
    MaxOwnerActions = 2
    MaxTrouble = 1
SPECIFICATION Spec
INVARIANTS
    ReadyMeansRegistered
    OneRegistrationPending
PROPERTIES
    StakedBecomesReady
    FundsReturned
CHECK_DEADLOCK FALSE
