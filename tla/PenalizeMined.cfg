\* As in Penalizer.cfg; the audit of a transaction mined at another price.
CONSTANTS
    a1 = a1  a2 = a2  h1 = h1  h2 = h2  incoming = incoming  notx = notx
    Audits <- MCAudits
    Handlers <- MCHandlers
    Txs <- MCTxs
    Worlds <- MCWorlds
    Incoming <- incoming
    NoTx <- notx
    PageSize = 2
    Delay = 1
    MaxFailures = 1
SPECIFICATION Spec
INVARIANTS
    OnlyPenalizable
CHECK_DEADLOCK FALSE
