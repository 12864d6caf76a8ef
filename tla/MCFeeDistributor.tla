-------------------------- MODULE MCFeeDistributor --------------------------
(* The instance of the escrow and the fee distributor for TLC: five        *)
(* scenarios side by side, each with its blocks and its users.             *)
EXTENDS FeeDistributor

LOCAL INSTANCE TLC

CONSTANTS
    u1, u2, a1, a2, c1, c2, none,
    Blocks(_)               \* bound: the blocks of a scenario

VARIABLES
    scenario,               \* which of the five this behaviour plays; never changes
    actors                  \* the users that act in it

UserSymmetry == Permutations(Users)

MCApproves == [c \in Checkers |-> IF c = c1 THEN Contracts ELSE {}]

LastBlock == CHOOSE t \in Blocks(scenario) : \A s \in Blocks(scenario) : s <= t

(* A distributor just deployed, on an escrow whose admin has set the       *)
(* checker that approves every contract.                                   *)
Deployed ==
    /\ now = CHOOSE t \in BlockTimes : \A s \in BlockTimes : t <= s
    /\ supply = 0
    /\ locked = [user \in Users |-> Escrow!NoLock]
    /\ epoch = 0
    /\ point_history = [e \in {0} |-> [bias |-> 0, slope |-> 0, ts |-> now]]
    /\ user_point_epoch = [user \in Users |-> 0]
    /\ user_point_history = [user \in Users |-> [e \in {0} |-> [bias |-> 0, slope |-> 0, ts |-> 0]]]
    /\ slope_changes = [w \in Weeks |-> 0]
    /\ admin = a1
    /\ future_admin = NoAddress
    /\ smart_wallet_checker = c1
    /\ future_smart_wallet_checker = c1
    /\ start_time \in {WeekOf(t) : t \in StartTimes}
    /\ time_cursor = start_time
    /\ ve_supply = [w \in Weeks |-> 0]
    /\ last_token_time = start_time
    /\ tokens_per_week = [w \in Weeks |-> 0]
    /\ token_last_balance = 0
    /\ token_balance = 0
    /\ time_cursor_of = [user \in Users |-> 0]
    /\ user_epoch_of = [user \in Users |-> 0]
    /\ can_checkpoint_token = TRUE
    /\ is_killed = FALSE
    /\ owner = a1
    /\ future_owner = NoAddress
    /\ received = 0
    /\ paid = [user \in Users |-> 0]

MCInit ==
    \/ scenario \in {"locks", "claims"} /\ actors = Users /\ Deployed
    \/ scenario = "relock" /\ (\E user \in Users : actors = {user}) /\ Deployed
    \/ /\ scenario = "admins" /\ \E user \in Users : actors = {user}
       /\ Init /\ now \in Blocks("admins") /\ owner = a1
    \/ scenario = "owners" /\ actors = {} /\ Deployed

(* What locks do in the claims' scenarios: what tells claims apart.        *)
CreateOrWithdraw ==
    \E user \in actors :
        \/ \E value \in Amounts, unlock \in UnlockTimes : Escrow!create_lock(user, value, unlock)
        \/ Escrow!withdraw(user)

Add == \E user \in actors, value \in Amounts : Escrow!increase_amount(user, value)

(* Two users lock, add, extend and withdraw; the distributor is at rest.   *)
LocksNext == Escrow!Locking /\ epoch' <= 6 /\ UNCHANGED dvars

(* The admin and the checker change under the locks of one contract.       *)
AdminsNext ==
    \/ CreateOrWithdraw /\ UNCHANGED dvars
    \/ \E user \in actors, unlock \in UnlockTimes :
          Escrow!increase_unlock_time(user, unlock) /\ UNCHANGED dvars
    \/ Escrow!Administering /\ UNCHANGED dvars

(* Two users lock and add, fees arrive and are claimed.  The last block is *)
(* there for claims of what came before it.                                *)
ClaimsNext ==
    \/ now < LastBlock /\ (CreateOrWithdraw \/ (now > start_time /\ Add)) /\ UNCHANGED dvars
       /\ \A user \in Users : user_point_epoch'[user] <= 2
    \/ Distributing /\ epoch' <= 7

(* One user locks and locks again; in the last block the owner acts.       *)
RelockNext ==
    \/ now < LastBlock /\ CreateOrWithdraw /\ UNCHANGED dvars
    \/ now = LastBlock /\ (toggle_allow_checkpoint_token(owner) \/ kill_me(owner))
    \/ \E user \in actors : claim(user)
    \/ checkpoint_total_supply
    \/ \E sender \in Admins : checkpoint_token(sender)
    \/ \E amount \in Fees : Receive(amount)

MCNext ==
    /\ \/ scenario = "locks" /\ LocksNext
       \/ scenario = "admins" /\ AdminsNext
       \/ scenario = "claims" /\ ClaimsNext
       \/ scenario = "relock" /\ RelockNext
       \/ scenario = "owners" /\ Owning
       \/ Tick /\ now' \in Blocks(scenario)
    /\ UNCHANGED <<scenario, actors>>

MCSpec == MCInit /\ [][MCNext]_<<vars, scenario, actors>>

MCBlocks(s) ==
    CASE s = "locks" -> {1, 3, 5}
      [] s = "claims" -> {1, 3, 7}
      [] s = "relock" -> {1, 5, 7}
      [] s \in {"admins", "owners"} -> {1, 3}

(* A week bound is a block: supply is recorded, then a lock is made, in it. *)
BoundBlocks(s) == {3, 4, 7}

==============================================================================
