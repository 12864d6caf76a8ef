------------------------------- MODULE MCVoter -------------------------------
(* The instance of Voter for TLC: two scenarios side by side, so that the  *)
(* same properties are checked where votes are dense and where governance  *)
(* moves between them.                                                     *)
EXTENDS Voter

CONSTANTS u1, u2, p1, p2

VARIABLE scenario       \* which of the two this behaviour plays; never changes

(* Voting starts where governance has left the contract: every pool        *)
(* registered and with its reward contracts, u2 with an operator, u1       *)
(* allowed to vote in the last hour.                                       *)
VotingInit ==
    /\ now = CHOOSE t \in BlockTimes : \A s \in BlockTimes : t <= s
    /\ totalWeight = 0
    /\ weights = [p \in Pools |-> 0]
    /\ votes = [u \in Users |-> [p \in Pools |-> 0]]
    /\ poolVote = [u \in Users |-> <<>>]
    /\ usedWeights = [u \in Users |-> 0]
    /\ lastVoted = [u \in Users |-> 0]
    /\ voted = [u \in Users |-> FALSE]
    /\ rewardBalance = [c \in RewardContracts |-> [u \in Users |-> 0]]
    /\ rewardSupply = [c \in RewardContracts |-> 0]
    /\ registered = Pools
    /\ hasVotingRewards = Pools
    /\ isVoteAuthorized = Pools
    /\ isRestrictedUser = {}
    /\ isWhitelistedUser = {u1}
    /\ maxVotingNum = INITIAL_MAXVOTINGNUM
    /\ ownerToOperators = [a \in Accounts |-> IF a = u2 THEN {u1} ELSE {}]
    /\ readPower = [u \in Users |-> 0]

(* One user's votes, cast by itself or its operator, between the acts of   *)
(* governance: every ballot of weight one, two balances.                   *)
VotesOfOne ==
    \/ \E sender \in Accounts : reset(sender, u1)
    \/ \E sender \in Accounts, pv \in Lists(Pools), power \in {2, 3} :
          vote(sender, u1, pv, [i \in 1 .. Len(pv) |-> 1], power)
    \/ \E power \in {2, 3} : poke(u1, power)

MCInit ==
    \/ scenario = "voting" /\ VotingInit
    \/ scenario = "governance" /\ Init

MCNext ==
    /\ \/ scenario = "voting" /\ (Voting \/ NextBlock)
       \/ scenario = "governance" /\ (VotesOfOne \/ Governing)
       \/ scenario = "governance" /\ NextBlock /\ now' # 16
    /\ scenario' = scenario

MCSpec == MCInit /\ [][MCNext]_<<vars, scenario>>

==============================================================================
