CONSTANTS
    c1 = c1  c2 = c2  m1 = m1  m2 = m2  u1 = u1  u2 = u2
    Calls <- MCCalls
    Managers <- MCManagers
    Urls <- MCUrls
    Cheap <- MCCheap
    Worlds <- MCWorlds
    SliceSize = 2
    AuditorsCount = 1
    MaxHubEvents <- MCMaxHubEvents
SPECIFICATION Spec
INVARIANTS
    NeverTheSameRelayTwice
    ExtraRunsNeedLostAnswers
    NoRelayersMeansNone
PROPERTIES
    EveryCallCalledBack
CHECK_DEADLOCK FALSE
