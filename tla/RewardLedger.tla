---------------------------- MODULE RewardLedger ----------------------------
(***************************************************************************)
(* What a reward contract promises, without checkpoints: stakes and one    *)
(* pot per token for the running epoch.  When the epoch ends every pot is  *)
(* divided in proportion to the stakes as they are at that moment; what    *)
(* falls to a user is owed to it until it claims, and is paid once.        *)
(* SPECIFICATION.md: "A user is distributed rewards in each epoch          *)
(* proportional to its voting power contribution in that epoch."           *)
(***************************************************************************)
EXTENDS Integers, UnitSum

CONSTANTS Users, Tokens

VARIABLES
    epoch,      \* start of the running epoch
    stake,      \* user -> votes
    pot,        \* token -> rewards of the running epoch
    owed,       \* token -> user -> rewards settled and not claimed
    paid        \* token -> user -> rewards claimed

lvars == <<epoch, stake, pot, owed, paid>>

Portion(token, user) ==
    IF Total(stake) = 0 THEN 0 ELSE (stake[user] * pot[token]) \div Total(stake)

Init ==
    /\ epoch \in Nat
    /\ stake = [user \in Users |-> 0]
    /\ pot = [token \in Tokens |-> 0]
    /\ owed = [token \in Tokens |-> [user \in Users |-> 0]]
    /\ paid = [token \in Tokens |-> [user \in Users |-> 0]]

Stake(user) ==
    /\ stake'[user] \in Nat
    /\ stake' = [stake EXCEPT ![user] = stake'[user]]
    /\ UNCHANGED <<epoch, pot, owed, paid>>

Fund(token) ==
    /\ pot'[token] \in Nat
    /\ pot[token] <= pot'[token]
    /\ pot' = [pot EXCEPT ![token] = pot'[token]]
    /\ UNCHANGED <<epoch, stake, owed, paid>>

Claim(user, tokens) ==
    /\ paid' = [token \in Tokens |-> [paid[token] EXCEPT
                  ![user] = @ + (IF token \in tokens THEN owed[token][user] ELSE 0)]]
    /\ owed' = [token \in Tokens |-> [owed[token] EXCEPT
                  ![user] = IF token \in tokens THEN 0 ELSE @]]
    /\ UNCHANGED <<epoch, stake, pot>>

Settle ==
    /\ epoch' \in Nat
    /\ epoch < epoch'
    /\ owed' = [token \in Tokens |-> [user \in Users |->
                  owed[token][user] + Portion(token, user)]]
    /\ pot' = [token \in Tokens |-> 0]
    /\ UNCHANGED <<stake, paid>>

Next ==
    \/ \E user \in Users : Stake(user)
    \/ \E token \in Tokens : Fund(token)
    \/ \E user \in Users, tokens \in SUBSET Tokens : Claim(user, tokens)
    \/ Settle

Spec == Init /\ [][Next]_lvars

==============================================================================
