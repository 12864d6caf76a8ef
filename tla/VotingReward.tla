---------------------------- MODULE VotingReward ----------------------------
(***************************************************************************)
(* contracts/rewards/VotingReward.sol and its two children: one reward     *)
(* contract of one pool.  The Voter deposits and withdraws the votes for   *)
(* the pool; rewards are notified per epoch; a user claims its share of    *)
(* the epochs that are over, however late.                                 *)
(*                                                                         *)
(* External here: the Voter's _deposit and _withdraw calls (Voter.tla has  *)
(* them; any amounts are allowed here), its list of bribe tokens, its bans *)
(* and the ERC20 tokens, of which only this contract's balances are kept.  *)
(* ETH is one of the tokens.                                               *)
(***************************************************************************)
EXTENDS Checkpoints

CONSTANTS
    Users,
    Tokens,
    BlockTimes,     \* block timestamps of the instance
    Votes,          \* amounts the Voter deposits or withdraws
    Rewards,        \* amounts notified
    DaoFees,        \* fees given to the constructor and to setDaoFee
    FEE_DIVISOR,    \* 10000 in the source
    MaxVotes,       \* bound: votes one user may reach
    MaxPot          \* bound: rewards of one token in one epoch

ASSUME RewardAssumption ==
    /\ IsFiniteSet(Users) /\ IsFiniteSet(Tokens)
    /\ IsFiniteSet(BlockTimes) /\ BlockTimes \subseteq Nat
    /\ \A t \in BlockTimes : WEEK <= t
    /\ Votes \subseteq Nat /\ Rewards \subseteq Nat /\ DaoFees \subseteq Nat
    /\ FEE_DIVISOR \in Nat \ {0}
    /\ MaxVotes \in Nat /\ MaxPot \in Nat

VARIABLES
    kind,                   \* "fees" or "bribe": which child is deployed
    now,                    \* block.timestamp
    totalSupply,
    balanceOf,              \* user -> votes
    checkpoints,            \* user -> list of checkpoints
    supplyCheckpoints,
    tokenRewardsPerEpoch,   \* token -> epoch start -> amount
    lastEarn,               \* token -> user -> timestamp
    isReward,               \* the tokens that are or were rewards
    daoFee,
    isVoteAuthorized,       \* Voter: the pool is not banned
    isWhitelistedBribeToken,\* Voter: tokens that may become bribes
    held,                   \* token -> balance of this contract
    paid                    \* history: token -> user -> rewards received

stakes == <<totalSupply, balanceOf, checkpoints, supplyCheckpoints>>
rewards == <<tokenRewardsPerEpoch, isReward, held>>
claims == <<lastEarn, paid>>
settings == <<kind, daoFee, isVoteAuthorized, isWhitelistedBribeToken>>
vars == <<now, stakes, rewards, claims, settings>>

Epochs == {epochStart(t) : t \in BlockTimes}

earned(token, user) ==
    Earned(checkpoints[user], supplyCheckpoints, tokenRewardsPerEpoch[token],
           lastEarn[token][user], now)

-----------------------------------------------------------------------------
(* The Voter's calls. *)

SetStake(user, balance, supply) ==
    /\ totalSupply' = supply
    /\ balanceOf' = [balanceOf EXCEPT ![user] = balance]
    /\ checkpoints' = [checkpoints EXCEPT ![user] = WriteCheckpoint(@, now, balance)]
    /\ supplyCheckpoints' = WriteCheckpoint(supplyCheckpoints, now, supply)
    /\ UNCHANGED <<now, rewards, claims, settings>>

_deposit(amount, user) ==
    /\ balanceOf[user] + amount <= MaxVotes
    /\ SetStake(user, balanceOf[user] + amount, totalSupply + amount)

_withdraw_BalanceOnly(amount, user) ==    \* mutant
    /\ amount <= balanceOf[user]
    /\ SetStake(user, balanceOf[user] - amount, totalSupply)

_withdraw(amount, user) ==
    /\ amount <= totalSupply
    /\ amount <= balanceOf[user]
    /\ SetStake(user, balanceOf[user] - amount, totalSupply - amount)

-----------------------------------------------------------------------------
(* Claims. getReward is getRewards of one token; a list with repetitions   *)
(* earns nothing the second time, so a set stands for the list.            *)

Claimed_NotStamped(user, tokens) == lastEarn    \* mutant

Claimed(user, tokens) ==
    [token \in Tokens |->
       IF token \in tokens THEN [lastEarn[token] EXCEPT ![user] = now] ELSE lastEarn[token]]

getRewards(user, tokens) ==
    /\ \A token \in tokens : earned(token, user) <= held[token]
    /\ lastEarn' = Claimed(user, tokens)
    /\ held' = [token \in Tokens |->
                  IF token \in tokens THEN held[token] - earned(token, user) ELSE held[token]]
    /\ paid' = [token \in Tokens |->
                  IF token \in tokens
                    THEN [paid[token] EXCEPT ![user] = @ + earned(token, user)]
                    ELSE paid[token]]
    /\ UNCHANGED <<now, stakes, tokenRewardsPerEpoch, isReward, settings>>

-----------------------------------------------------------------------------
(* Rewards and fees. *)

DaoShare(amount) == (amount * daoFee) \div FEE_DIVISOR

Credited(amount) == amount - DaoShare(amount)

_notifyRewardAmount(token, amount) ==
    LET e == epochStart(now) IN
    /\ amount # 0
    /\ tokenRewardsPerEpoch[token][e] + Credited(amount) <= MaxPot
    /\ tokenRewardsPerEpoch' = [tokenRewardsPerEpoch EXCEPT ![token][e] = @ + Credited(amount)]
    /\ held' = [held EXCEPT ![token] = @ + amount - DaoShare(amount)]
    /\ isReward' = isReward \cup {token}
    /\ UNCHANGED <<now, stakes, claims, settings>>

(* BribeVotingReward: anyone may bribe, with a listed token, a pool that   *)
(* may be voted for.                                                       *)
notifyBribe(token, amount) ==
    /\ kind = "bribe"
    /\ isVoteAuthorized
    /\ token \in isReward \/ token \in isWhitelistedBribeToken
    /\ _notifyRewardAmount(token, amount)

(* FeesVotingReward: only the fee collector, but any token, ban or not.    *)
notifyFees(token, amount) ==
    /\ kind = "fees"
    /\ _notifyRewardAmount(token, amount)

setDaoFee(fee) ==
    /\ fee <= FEE_DIVISOR
    /\ daoFee' = fee
    /\ UNCHANGED <<now, stakes, rewards, claims, kind, isVoteAuthorized,
                   isWhitelistedBribeToken>>

(* Voter.banVote, reauthorizeVote and whitelistBribeToken.                 *)
authorizeVote(flag) ==
    /\ isVoteAuthorized' = flag
    /\ UNCHANGED <<now, stakes, rewards, claims, kind, daoFee,
                   isWhitelistedBribeToken>>

whitelistBribeToken(token, flag) ==
    /\ isWhitelistedBribeToken' = IF flag THEN isWhitelistedBribeToken \cup {token}
                                          ELSE isWhitelistedBribeToken \ {token}
    /\ UNCHANGED <<now, stakes, rewards, claims, kind, daoFee,
                   isVoteAuthorized>>

NextBlock ==
    /\ now' \in {t \in BlockTimes : t > now}
    /\ UNCHANGED <<stakes, rewards, claims, settings>>

-----------------------------------------------------------------------------
Init ==
    /\ kind \in {"fees", "bribe"}
    /\ now \in BlockTimes
    /\ totalSupply = 0
    /\ balanceOf = [user \in Users |-> 0]
    /\ checkpoints = [user \in Users |-> <<>>]
    /\ supplyCheckpoints = <<>>
    /\ tokenRewardsPerEpoch = [token \in Tokens |-> [e \in Epochs |-> 0]]
    /\ lastEarn = [token \in Tokens |-> [user \in Users |-> 0]]
    /\ isReward = {}
    /\ daoFee \in {fee \in DaoFees : fee <= FEE_DIVISOR}
    /\ isVoteAuthorized = TRUE
    /\ isWhitelistedBribeToken = {}
    /\ held = [token \in Tokens |-> 0]
    /\ paid = [token \in Tokens |-> [user \in Users |-> 0]]

Staking ==
    \E user \in Users, amount \in Votes : _deposit(amount, user) \/ _withdraw(amount, user)

Claiming == \E user \in Users, tokens \in SUBSET Tokens : getRewards(user, tokens)

Funding ==
    \E token \in Tokens, amount \in Rewards :
        notifyBribe(token, amount) \/ notifyFees(token, amount)

Settings ==
    \/ \E fee \in DaoFees : setDaoFee(fee)
    \/ \E flag \in BOOLEAN : authorizeVote(flag)
    \/ \E token \in Tokens, flag \in BOOLEAN : whitelistBribeToken(token, flag)

Next == Staking \/ Claiming \/ Funding \/ Settings \/ NextBlock

Spec == Init /\ [][Next]_vars

-----------------------------------------------------------------------------
(* Correctness. *)

(* What a list of checkpoints says the epoch that starts at e closed with: *)
(* nothing before the first checkpoint.  (The source's search returns the  *)
(* first checkpoint there; earned never asks about such an epoch.)         *)
AtClose(cps, e) ==
    IF \E i \in DOMAIN cps : cps[i].timestamp < e + WEEK THEN Prior(cps, e) ELSE 0

(* For every epoch, over or running, the balances its users close it with  *)
(* add up to the supply it closes with: the shares of a pot are shares of  *)
(* one whole, though each list was written at its own times.               *)
SharesAddUp ==
    \A e \in {x \in Epochs : x <= now} :
        AtClose(supplyCheckpoints, e)
            = Total([user \in Users |-> AtClose(checkpoints[user], e)])

(* What the claims still open will pay, at any later time, is covered by   *)
(* the tokens held: no claim can fail for lack of funds, in whatever order *)
(* and however late the users claim.                                       *)
Solvent ==
    \A token \in Tokens :
        Total([user \in Users |->
                 Earned(checkpoints[user], supplyCheckpoints, tokenRewardsPerEpoch[token],
                        lastEarn[token][user], epochNext(now))])
            <= held[token]

-----------------------------------------------------------------------------
(* The contract implements the ledger that settles every epoch the moment  *)
(* it ends: what it would pay now is what the ledger owes.                 *)
Ledger == INSTANCE RewardLedger WITH
    epoch <- epochStart(now),
    stake <- balanceOf,
    pot <- [token \in Tokens |-> tokenRewardsPerEpoch[token][epochStart(now)]],
    owed <- [token \in Tokens |-> [user \in Users |-> earned(token, user)]],
    paid <- paid

ImplementsLedger == Ledger!Spec

==============================================================================
