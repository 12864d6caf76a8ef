\* A block falls on a week bound: supply recorded, then a lock, in that block.
SPECIFICATION MCSpec
CONSTANTS
    u1 = u1
    u2 = u2
    a1 = a1
    a2 = a2
    c1 = c1
    c2 = c2
    none = none
    Blocks <- BoundBlocks
    Users = {u1, u2}
    Contracts = {u1, u2}
    Checkers = {c1, c2}
    Approves <- MCApproves
    Admins = {a1, a2}
    NoAddress = none
    WEEK = 2
    MAXTIME = 7
    LOOPS = 6
    BlockTimes = {3, 4, 7}
    Amounts = {7}
    UnlockTimes = {4, 8}
    Horizon = 14
    MaxPoints = 9
    MaxUserPoints = 3
    StartTimes = {2}
    TOKEN_CHECKPOINT_DEADLINE = 1
    TOKEN_LOOPS = 4
    SUPPLY_LOOPS = 4
    CLAIM_LOOPS = 3
    Fees = {6}
    MaxReceived = 6
INVARIANTS
    VeSupplyIsTotal
SYMMETRY UserSymmetry
\* Histories, tokens and clock are bounded.
CHECK_DEADLOCK FALSE
