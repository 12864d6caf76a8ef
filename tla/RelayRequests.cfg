CONSTANTS
    r1 = r1
    r2 = r2
    Requests = {r1, r2}
    Worlds <- MCWorlds
    Config <- MCConfig
SPECIFICATION Spec
INVARIANTS
    ThrottledApart
    AbuseShutsOut
    LoneRequestKeepsTerms
PROPERTIES
    EventsAreCounted
CHECK_DEADLOCK FALSE
