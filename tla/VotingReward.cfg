\* Two users stake, get rewarded and claim over three epochs, one of them
\* without a block; fees and bribes with every setting; and the binary search
\* on every list of up to seven checkpoints.
SPECIFICATION MCSpec
CONSTANTS
    u1 = u1
    u2 = u2
    t1 = t1
    Users = {u1, u2}
    Tokens = {t1}
    WEEK = 4
    HOUR = 1
    BlockTimes = {4, 8, 9, 17}
    Votes = {1}
    Rewards = {5}
    DaoFees = {0, 1, 3}
    FEE_DIVISOR = 2
    MaxVotes = 2
    MaxPot = 5
    MaxTime = 7
    Lists <- MCLists
    Times <- MCTimes
INVARIANTS
    SharesAddUp
    Solvent
    ReturnsPrior
PROPERTIES
    ImplementsLedger
SYMMETRY UserSymmetry
\* The clock stops at the last block time, a search at its return.
CHECK_DEADLOCK FALSE
