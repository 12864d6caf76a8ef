\* Two users lock, extend and withdraw; admins and checkers change; fees
\* arrive and are claimed, also by a user that locks again. No block of the
\* claims falls on a week bound.
SPECIFICATION MCSpec
CONSTANTS
    u1 = u1
    u2 = u2
    a1 = a1
    a2 = a2
    c1 = c1
    c2 = c2
    none = none
    Blocks <- MCBlocks
    Users = {u1, u2}
    Contracts = {u1, u2}
    Checkers = {c1, c2}
    Approves <- MCApproves
    Admins = {a1, a2}
    NoAddress = none
    WEEK = 2
    MAXTIME = 7
    LOOPS = 6
    BlockTimes = {1, 3, 5, 7}
    Amounts = {7}
    UnlockTimes = {4, 8}
    Horizon = 14
    MaxPoints = 7
    MaxUserPoints = 3
    StartTimes = {2}
    TOKEN_CHECKPOINT_DEADLINE = 1
    TOKEN_LOOPS = 4
    SUPPLY_LOOPS = 4
    CLAIM_LOOPS = 3
    Fees = {6}
    MaxReceived = 6
INVARIANTS
    BalanceIsLockPower
    HistoryAddsUp
    VeSupplyIsTotal
    PaidExactly
    Solvent
PROPERTIES
    ClaimedWeeksFinal
SYMMETRY UserSymmetry
\* Histories, tokens and clock are bounded.
CHECK_DEADLOCK FALSE
