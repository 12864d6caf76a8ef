-------------------------------- MODULE Voter --------------------------------
(***************************************************************************)
(* contracts/Voter.sol: who votes for which pool with how much weight, and *)
(* the balances it keeps for each vote in the two reward contracts of the  *)
(* pool (contracts/rewards/VotingReward.sol, of which this module keeps    *)
(* balanceOf and totalSupply; its checkpoints are in VotingReward.tla).    *)
(*                                                                         *)
(* A transaction is one step: it either runs to its end or reverts, and a  *)
(* revert is a step that is not enabled.  The escrow is external here: the *)
(* balance a handler reads is any member of Powers, since locks are made,  *)
(* extended, decay and expire between any two calls.                       *)
(***************************************************************************)
EXTENDS Integers, Sequences, EpochTime, UnitSum

CONSTANTS
    Users,                  \* holders of veAPW
    Accounts,               \* message senders: the users and their operators
    Pools,                  \* pool identifiers (uint160)
    Powers,                 \* what VotingEscrow.balanceOf may return
    Weights,                \* relative weights a ballot may carry
    BlockTimes,             \* block timestamps of the instance
    MaxBallot,              \* bound: length of the ballots submitted
    MIN_MAXVOTINGNUM,       \* 10 in the source
    INITIAL_MAXVOTINGNUM,   \* 30 in the source
    VotingNums,             \* values given to setMaxVotingNum
    Restrictable,           \* bound: users the governor restricts
    Whitelistable,          \* bound: users the governor whitelists
    Bannable                \* bound: pools the emergency council bans

ASSUME VoterAssumption ==
    /\ IsFiniteSet(Users) /\ Users \subseteq Accounts
    /\ IsFiniteSet(Pools)
    /\ Powers \subseteq Nat /\ Weights \subseteq Nat /\ VotingNums \subseteq Nat
    /\ BlockTimes \subseteq Nat /\ BlockTimes # {}
    /\ \A t \in BlockTimes : WEEK <= t      \* no deployment in epoch zero
    /\ MaxBallot \in Nat
    /\ MIN_MAXVOTINGNUM \in Nat /\ INITIAL_MAXVOTINGNUM \in Nat
    /\ MIN_MAXVOTINGNUM <= INITIAL_MAXVOTINGNUM
    /\ Restrictable \subseteq Users /\ Whitelistable \subseteq Users
    /\ Bannable \subseteq Pools

VARIABLES
    now,                \* block.timestamp
    totalWeight,
    weights,            \* pool -> weight
    votes,              \* user -> pool -> weight
    poolVote,           \* user -> sequence of the pools voted for
    usedWeights,        \* user -> weight
    lastVoted,          \* user -> timestamp
    voted,              \* user -> BOOLEAN
    rewardBalance,      \* reward contract -> user -> VotingReward.balanceOf
    rewardSupply,       \* reward contract -> VotingReward.totalSupply
    registered,         \* GovernanceRegistry: the registered pools
    hasVotingRewards,   \* the pools with reward contracts
    isVoteAuthorized,   \* the pools that may be voted for
    isRestrictedUser,   \* the users barred from voting
    isWhitelistedUser,  \* the users that may vote in the last hour
    maxVotingNum,
    ownerToOperators,   \* user -> accounts it approved
    readPower           \* history: the escrow balance last read for each user

books == <<totalWeight, weights, votes, poolVote, usedWeights, voted,
           rewardBalance, rewardSupply>>
governance == <<registered, hasVotingRewards, isVoteAuthorized,
                isRestrictedUser, isWhitelistedUser, maxVotingNum>>
vars == <<now, books, lastVoted, governance, ownerToOperators, readPower>>

Kinds == {"fees", "bribe"}
RewardContracts == Kinds \X Pools

Listed(s) == {s[i] : i \in 1 .. Len(s)}

Lists(S) == UNION {[1 .. n -> S] : n \in 0 .. MaxBallot}

-----------------------------------------------------------------------------
(* Conditions of the handlers. *)

isApprovedOrOwner(operator, user) ==
    operator = user \/ operator \in ownerToOperators[user]

DistributeWindow == now <= epochVoteStart(now)

NewEpoch_SinceLastBlock(user) == lastVoted[user] < now  \* mutant

NewEpoch(user) == lastVoted[user] < epochStart(now)

onlyNewEpoch(user) == NewEpoch(user) /\ ~DistributeWindow

VoteWindowOpen(user) == now <= epochVoteEnd(now) \/ user \in isWhitelistedUser

(* What _reset takes off pool p for the user, and what it leaves behind.   *)
Removed(user, p) == IF p \in Listed(poolVote[user]) THEN votes[user][p] ELSE 0
Residual(user, p) == votes[user][p] - Removed(user, p)
RemovedTotal_LastPool(user) ==    \* mutant
    IF poolVote[user] = <<>> THEN 0 ELSE votes[user][poolVote[user][Len(poolVote[user])]]

RemovedTotal(user) == Total([p \in Pools |-> Removed(user, p)])

(* The calls _withdraw(votes, user) of _reset and _deposit(weight, user) of *)
(* _vote on reward contract c.                                              *)
Withdrawn_FeesOnly(c, user) ==    \* mutant
    IF c[1] = "fees" THEN Removed(user, c[2]) ELSE 0

Withdrawn(c, user) == Removed(user, c[2])

Deposited(c, allocation) == allocation[c[2]]

ResetSucceeds_OnlyAuthorized(user) ==    \* mutant
    \A p \in Listed(poolVote[user]) : p \in isVoteAuthorized

(* The checked subtractions of _reset and of the _withdraw calls it makes. *)
ResetSucceeds(user) ==
    /\ \A p \in Pools :
         /\ Removed(user, p) <= weights[p]
         /\ \A k \in Kinds : /\ Withdrawn(<<k, p>>, user) <= rewardBalance[<<k, p>>][user]
                             /\ Withdrawn(<<k, p>>, user) <= rewardSupply[<<k, p>>]
    /\ RemovedTotal(user) <= totalWeight

(* The weight _vote gives to the i-th pool of a ballot.                    *)
PoolWeight(power, ws, i) == (ws[i] * power) \div Total(ws)

(* _vote gets through its loop: no panic on an empty total, every pool may *)
(* be voted for, gets a weight, and is not met with votes on it already.   *)
CastSucceeds(user, power, pv, ws) ==
    /\ pv # <<>> => Total(ws) > 0
    /\ \A i \in 1 .. Len(pv) :
         /\ pv[i] \in hasVotingRewards
         /\ pv[i] \in isVoteAuthorized
         /\ PoolWeight(power, ws, i) > 0
         /\ Residual(user, pv[i]) = 0
         /\ \A j \in 1 .. i - 1 : pv[j] # pv[i]

Allocation(power, pv, ws) ==
    [p \in Pools |-> IF p \in Listed(pv)
                       THEN PoolWeight(power, ws, CHOOSE i \in 1 .. Len(pv) : pv[i] = p)
                       ELSE 0]

(* The weights _poke votes with: the votes as they stand.                  *)
CurrentWeights(user) == [i \in 1 .. Len(poolVote[user]) |-> votes[user][poolVote[user][i]]]

-----------------------------------------------------------------------------
(* _reset of every user of S followed by _vote's writes for it: the user   *)
(* is left voting for the pools of pv[u] with the weights of new[u].  The  *)
(* users' votes touch the sums independently, so a batch is one step.      *)
Recast(S, pv, new) ==
    LET Change(old, cast) == Total(cast) - Total(old) IN
    /\ votes' = [u \in Users |-> [p \in Pools |->
                   IF u \in S THEN Residual(u, p) + new[u][p] ELSE votes[u][p]]]
    /\ weights' = [p \in Pools |-> weights[p]
                     + Change([u \in S |-> Removed(u, p)], [u \in S |-> new[u][p]])]
    /\ totalWeight' = totalWeight
                        + Change([u \in S |-> RemovedTotal(u)], [u \in S |-> Total(new[u])])
    /\ usedWeights' = [u \in Users |-> IF u \in S THEN Total(new[u]) ELSE usedWeights[u]]
    /\ voted' = [u \in Users |-> IF u \in S THEN Total(new[u]) > 0 ELSE voted[u]]
    /\ poolVote' = [u \in Users |-> IF u \in S THEN pv[u] ELSE poolVote[u]]
    /\ rewardBalance' = [c \in RewardContracts |-> [u \in Users |->
                           IF u \in S
                             THEN rewardBalance[c][u] - Withdrawn(c, u) + Deposited(c, new[u])
                             ELSE rewardBalance[c][u]]]
    /\ rewardSupply' = [c \in RewardContracts |-> rewardSupply[c]
                          + Change([u \in S |-> Withdrawn(c, u)],
                                   [u \in S |-> Deposited(c, new[u])])]

Cast(S, power, pv, ws) ==
    /\ \A u \in S : ResetSucceeds(u) /\ CastSucceeds(u, power[u], pv[u], ws[u])
    /\ Recast(S, pv, [u \in S |-> Allocation(power[u], pv[u], ws[u])])
    /\ readPower' = [u \in Users |-> IF u \in S THEN power[u] ELSE readPower[u]]

-----------------------------------------------------------------------------
(* Votes. *)

reset(sender, user) ==
    /\ onlyNewEpoch(user)
    /\ isApprovedOrOwner(sender, user)
    /\ ResetSucceeds(user)
    /\ Recast({user}, [u \in {user} |-> <<>>], [u \in {user} |-> [p \in Pools |-> 0]])
    /\ UNCHANGED <<now, lastVoted, governance, ownerToOperators, readPower>>

(* vote is batchVote of one user: the two check the same conditions.       *)
batchVote(sender, S, pv, ws, power) ==
    /\ Len(pv) = Len(ws)
    /\ Len(pv) <= maxVotingNum
    /\ ~DistributeWindow
    /\ \A u \in S : /\ NewEpoch(u)
                    /\ VoteWindowOpen(u)
                    /\ isApprovedOrOwner(sender, u)
                    /\ u \notin isRestrictedUser
    /\ lastVoted' = [u \in Users |-> IF u \in S THEN now ELSE lastVoted[u]]
    /\ Cast(S, power, [u \in S |-> pv], [u \in S |-> ws])
    /\ UNCHANGED <<now, governance, ownerToOperators>>

vote(sender, user, pv, ws, power) ==
    batchVote(sender, {user}, pv, ws, [u \in {user} |-> power])

(* poke is batchPoke of one user; neither asks who is calling.             *)
batchPoke(S, power) ==
    /\ ~DistributeWindow
    /\ Cast(S, power, [u \in S |-> poolVote[u]], [u \in S |-> CurrentWeights(u)])
    /\ UNCHANGED <<now, lastVoted, governance, ownerToOperators>>

poke(user, power) == batchPoke({user}, [u \in {user} |-> power])

-----------------------------------------------------------------------------
(* Delegation, governance, and the passing of time. *)

setApprovalForAll(sender, operator, approved) ==
    /\ operator # sender
    /\ ownerToOperators' =
         [ownerToOperators EXCEPT ![sender] = IF approved THEN @ \cup {operator}
                                                          ELSE @ \ {operator}]
    /\ UNCHANGED <<now, books, lastVoted, governance, readPower>>

createVotingRewards(p) ==
    /\ p \notin hasVotingRewards
    /\ p \in registered
    /\ hasVotingRewards' = hasVotingRewards \cup {p}
    /\ isVoteAuthorized' = isVoteAuthorized \cup {p}
    /\ UNCHANGED <<now, books, lastVoted, registered, isRestrictedUser,
                   isWhitelistedUser, maxVotingNum, ownerToOperators, readPower>>

banVote(p) ==
    /\ p \in hasVotingRewards
    /\ p \in isVoteAuthorized
    /\ isVoteAuthorized' = isVoteAuthorized \ {p}
    /\ UNCHANGED <<now, books, lastVoted, registered, hasVotingRewards, isRestrictedUser,
                   isWhitelistedUser, maxVotingNum, ownerToOperators, readPower>>

reauthorizeVote(p) ==
    /\ p \in hasVotingRewards
    /\ p \notin isVoteAuthorized
    /\ isVoteAuthorized' = isVoteAuthorized \cup {p}
    /\ UNCHANGED <<now, books, lastVoted, registered, hasVotingRewards, isRestrictedUser,
                   isWhitelistedUser, maxVotingNum, ownerToOperators, readPower>>

setRestrictedUser(user, flag) ==
    /\ isRestrictedUser' = IF flag THEN isRestrictedUser \cup {user}
                                   ELSE isRestrictedUser \ {user}
    /\ UNCHANGED <<now, books, lastVoted, registered, hasVotingRewards, isVoteAuthorized,
                   isWhitelistedUser, maxVotingNum, ownerToOperators, readPower>>

whitelistUser(user, flag) ==
    /\ isWhitelistedUser' = IF flag THEN isWhitelistedUser \cup {user}
                                    ELSE isWhitelistedUser \ {user}
    /\ UNCHANGED <<now, books, lastVoted, registered, hasVotingRewards, isVoteAuthorized,
                   isRestrictedUser, maxVotingNum, ownerToOperators, readPower>>

setMaxVotingNum(n) ==
    /\ n >= MIN_MAXVOTINGNUM
    /\ n # maxVotingNum
    /\ maxVotingNum' = n
    /\ UNCHANGED <<now, books, lastVoted, registered, hasVotingRewards, isVoteAuthorized,
                   isRestrictedUser, isWhitelistedUser, ownerToOperators, readPower>>

setPoolRegistration(p, flag) ==
    /\ registered' = IF flag THEN registered \cup {p} ELSE registered \ {p}
    /\ UNCHANGED <<now, books, lastVoted, hasVotingRewards, isVoteAuthorized,
                   isRestrictedUser, isWhitelistedUser, maxVotingNum, ownerToOperators,
                   readPower>>

NextBlock ==
    /\ now' \in {t \in BlockTimes : t > now}
    /\ UNCHANGED <<books, lastVoted, governance, ownerToOperators, readPower>>

-----------------------------------------------------------------------------
Init ==
    /\ now \in BlockTimes
    /\ totalWeight = 0
    /\ weights = [p \in Pools |-> 0]
    /\ votes = [u \in Users |-> [p \in Pools |-> 0]]
    /\ poolVote = [u \in Users |-> <<>>]
    /\ usedWeights = [u \in Users |-> 0]
    /\ lastVoted = [u \in Users |-> 0]
    /\ voted = [u \in Users |-> FALSE]
    /\ rewardBalance = [c \in RewardContracts |-> [u \in Users |-> 0]]
    /\ rewardSupply = [c \in RewardContracts |-> 0]
    /\ registered = {}
    /\ hasVotingRewards = {}
    /\ isVoteAuthorized = {}
    /\ isRestrictedUser = {}
    /\ isWhitelistedUser = {}
    /\ maxVotingNum = INITIAL_MAXVOTINGNUM
    /\ ownerToOperators = [u \in Accounts |-> {}]
    /\ readPower = [u \in Users |-> 0]

Voting ==
    \/ \E sender \in Accounts, user \in Users : reset(sender, user)
    \/ \E sender \in Accounts, user \in Users, pv \in Lists(Pools),
          ws \in Lists(Weights), power \in Powers : vote(sender, user, pv, ws, power)
    \/ \E user \in Users, power \in Powers : poke(user, power)
    \/ \E sender \in Accounts, S \in SUBSET Users, pv \in Lists(Pools), ws \in Lists(Weights) :
          \E power \in [S -> Powers] : batchVote(sender, S, pv, ws, power)
    \/ \E S \in SUBSET Users : \E power \in [S -> Powers] : batchPoke(S, power)

Governing ==
    \/ \E sender \in Accounts, operator \in Accounts, approved \in BOOLEAN :
          setApprovalForAll(sender, operator, approved)
    \/ \E p \in Pools : createVotingRewards(p)
    \/ \E p \in Bannable : banVote(p) \/ reauthorizeVote(p)
    \/ \E user \in Restrictable, flag \in BOOLEAN : setRestrictedUser(user, flag)
    \/ \E user \in Whitelistable, flag \in BOOLEAN : whitelistUser(user, flag)
    \/ \E n \in VotingNums : setMaxVotingNum(n)
    \/ \E p \in Pools, flag \in BOOLEAN : setPoolRegistration(p, flag)

Next == Voting \/ Governing \/ NextBlock

Spec == Init /\ [][Next]_vars

-----------------------------------------------------------------------------
(* Correctness. *)

(* Every variable keeps the type the contract declares; a negative weight  *)
(* would be a checked subtraction that reverts in the code.                *)
TypeOK ==
    /\ now \in BlockTimes
    /\ totalWeight \in Nat
    /\ weights \in [Pools -> Nat]
    /\ votes \in [Users -> [Pools -> Nat]]
    /\ poolVote \in [Users -> Seq(Pools)]
    /\ usedWeights \in [Users -> Nat]
    /\ lastVoted \in [Users -> BlockTimes \cup {0}]
    /\ voted \in [Users -> BOOLEAN]
    /\ rewardBalance \in [RewardContracts -> [Users -> Nat]]
    /\ rewardSupply \in [RewardContracts -> Nat]
    /\ registered \subseteq Pools
    /\ hasVotingRewards \subseteq Pools
    /\ isVoteAuthorized \subseteq hasVotingRewards
    /\ isRestrictedUser \subseteq Users
    /\ isWhitelistedUser \subseteq Users
    /\ maxVotingNum \in Nat
    /\ ownerToOperators \in [Accounts -> SUBSET Accounts]
    /\ readPower \in [Users -> Nat]

(* The three views the Voter keeps of the same votes agree: per pool, per  *)
(* user and in total, whatever mix of vote, poke, reset and batches ran.   *)
BooksBalance ==
    /\ \A p \in Pools : weights[p] = Total([u \in Users |-> votes[u][p]])
    /\ \A u \in Users : usedWeights[u] = Total(votes[u])
    /\ totalWeight = Total(usedWeights)

(* Both reward contracts of a pool hold exactly the votes the Voter has on *)
(* record for it: neither half of a pair is ever deposited or withdrawn    *)
(* without the other.                                                      *)
RewardsMirrorVotes ==
    \A c \in RewardContracts :
        /\ \A u \in Users : rewardBalance[c][u] = votes[u][c[2]]
        /\ rewardSupply[c] = weights[c[2]]

(* poolVote lists, without repetition, exactly the pools a user has weight *)
(* on: _reset walks that list, so weight outside it could never be removed.*)
PoolVoteExact ==
    \A u \in Users :
        /\ \A p \in Pools : votes[u][p] > 0 <=> p \in Listed(poolVote[u])
        /\ \A i, j \in 1 .. Len(poolVote[u]) :
               poolVote[u][i] = poolVote[u][j] => i = j
        /\ voted[u] <=> poolVote[u] # <<>>

(* A vote can always be taken back: no mix of bans, restrictions, pokes    *)
(* and batches makes a subtraction on _reset's path revert.                *)
ExitOpen == \A u \in Users : ResetSucceeds(u)

(* Once per epoch: after a user's vote the pools it votes for stay what    *)
(* they are for the rest of the epoch, through pokes, batches and resets.  *)
OneChoicePerEpoch ==
    [][\A u \in Users : epochStart(lastVoted[u]) = epochStart(now)
                           => poolVote'[u] = poolVote[u]]_vars

==============================================================================
