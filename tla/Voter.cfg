\* Two users, two pools, two epochs: ballots, refreshes, resets and batches
\* with a balance that changes between any two of them; and governance
\* interleaved with the votes of one user and its operator.
SPECIFICATION MCSpec
CONSTANTS
    u1 = u1
    u2 = u2
    p1 = p1
    p2 = p2
    Users = {u1, u2}
    Accounts = {u1, u2}
    Pools = {p1, p2}
    Powers = {0, 3, 5}
    Weights = {1, 2}
    WEEK = 7
    HOUR = 2
    BlockTimes = {10, 13, 16, 17}
    MaxBallot = 2
    MIN_MAXVOTINGNUM = 1
    INITIAL_MAXVOTINGNUM = 2
    VotingNums = {0, 1}
    Restrictable = {u1}
    Whitelistable = {u1}
    Bannable = {p1}
INVARIANTS
    BooksBalance
    RewardsMirrorVotes
    ExitOpen
PROPERTIES
    OneChoicePerEpoch
\* The clock stops at the last block time.
CHECK_DEADLOCK FALSE
