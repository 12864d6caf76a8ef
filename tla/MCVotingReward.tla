--------------------------- MODULE MCVotingReward ---------------------------
(* The instance of VotingReward and of the search its claims rest on, for  *)
(* TLC: three scenarios side by side.                                      *)
EXTENDS VotingReward, CheckpointSearch

LOCAL INSTANCE SequencesExt
LOCAL INSTANCE TLC

CONSTANTS
    u1, u2, t1,
    MaxTime             \* bound: timestamps of the lists searched

VARIABLES
    scenario,           \* which of the three this behaviour plays; never changes
    actors              \* the users that act in it

UserSymmetry == Permutations(Users)

(* Every list of checkpoints with timestamps up to MaxTime; the values do  *)
(* not matter.                                                             *)
MCTimes == 0 .. MaxTime

MCLists ==
    {LET ts == SetToSortSeq(S, <) IN [i \in DOMAIN ts |-> [timestamp |-> ts[i], value |-> 0]] :
        S \in SUBSET (1 .. MaxTime)}

FirstBlock == CHOOSE t \in BlockTimes : \A s \in BlockTimes : t <= s
LastBlock == CHOOSE t \in BlockTimes : \A s \in BlockTimes : s <= t

(* The search at rest: a call on an empty list that has returned.          *)
NoCall ==
    /\ list = <<>> /\ time = 0
    /\ lower = 0 /\ upper = 0
    /\ result = 1 /\ pc = "returned"

(* Claims: every user stakes and claims on a fee contract, with no fee to  *)
(* the DAO; the settings, which no claim reads, stay as they are.  The     *)
(* last block is there for claims of what was staked and notified before.  *)
FeeContract == Init /\ kind = "fees" /\ now = FirstBlock /\ daoFee = 0

ClaimsNext ==
    \/ now < LastBlock /\ Staking
    \/ now < LastBlock /\ Funding
    \/ Claiming
    \/ NextBlock

(* Settings: one user, one vote, two blocks, and everything the owner, the *)
(* emergency council and the bribers do.                                   *)
SettingsNext ==
    \/ \E user \in actors, amount \in Votes :
          \/ totalSupply = 0 /\ _deposit(amount, user)
          \/ _withdraw(amount, user)
    \/ \E user \in actors, tokens \in SUBSET Tokens : getRewards(user, tokens)
    \/ Funding
    \/ Settings
    \/ NextBlock /\ now' = FirstBlock + WEEK

MCInit ==
    \/ scenario = "claims" /\ actors = Users /\ FeeContract /\ NoCall
    \/ /\ scenario = "settings" /\ \E user \in Users : actors = {user}
       /\ Init /\ now = FirstBlock /\ NoCall
    \/ scenario = "search" /\ actors = {} /\ FeeContract /\ SearchInit

MCNext ==
    /\ \/ scenario = "claims" /\ ClaimsNext /\ UNCHANGED svars
       \/ scenario = "settings" /\ SettingsNext /\ UNCHANGED svars
       \/ scenario = "search" /\ SearchNext /\ UNCHANGED vars
    /\ UNCHANGED <<scenario, actors>>

MCSpec == MCInit /\ [][MCNext]_<<vars, svars, scenario, actors>>

==============================================================================
