--------------------------- MODULE FeeDistributor ---------------------------
(***************************************************************************)
(* contracts/staking/FeeDistributor.vy, on top of the voting escrow whose  *)
(* histories it reads and whose checkpoint it calls.  Tokens that arrive   *)
(* are spread over the time since the last token checkpoint; a week's      *)
(* tokens are shared by the users in proportion to their voting power at   *)
(* the start of the week; a claim walks the user's history and the weeks   *)
(* side by side.  All loops have a fixed number of turns.                  *)
(*                                                                         *)
(* External: the fee token, of which the contract's balance is kept.  Not  *)
(* modelled: recover_balance, which may not touch that token, and the      *)
(* nonreentrant lock (the token does not call back).                       *)
(***************************************************************************)
EXTENDS Integers, UnitSum

CONSTANTS
    Users, Contracts, Checkers, Approves, Admins, NoAddress, WEEK, MAXTIME, LOOPS,
    BlockTimes, Amounts, UnlockTimes, Horizon, MaxPoints, MaxUserPoints,
    StartTimes,                 \* start times given to the constructor
    TOKEN_CHECKPOINT_DEADLINE,  \* one day in the source
    TOKEN_LOOPS,                \* 20 in the source
    SUPPLY_LOOPS,               \* 20 in the source
    CLAIM_LOOPS,                \* 50 in the source
    Fees,                       \* amounts of the fee token that arrive at once
    MaxReceived                 \* bound: fee tokens that arrive in all

ASSUME EscrowAssumption ==
    /\ IsFiniteSet(Users) /\ Contracts \subseteq Users
    /\ NoAddress \notin Admins \cup Checkers
    /\ Approves \in [Checkers -> SUBSET Contracts]
    /\ WEEK \in Nat \ {0} /\ MAXTIME \in Nat \ {0} /\ LOOPS \in Nat \ {0}
    /\ BlockTimes \subseteq Nat \ {0} /\ BlockTimes # {}
    /\ Amounts \subseteq Nat /\ UnlockTimes \subseteq Nat /\ Horizon \in Nat
    /\ \A t \in BlockTimes : t + MAXTIME <= Horizon
    /\ MaxPoints \in Nat /\ MaxUserPoints \in Nat

ASSUME DistributorAssumption ==
    /\ StartTimes \subseteq Nat
    /\ \A t \in StartTimes : WEEK <= t /\ t <= Horizon    \* cursor 0 means none
    /\ TOKEN_CHECKPOINT_DEADLINE \in Nat
    /\ TOKEN_LOOPS \in Nat \ {0} /\ SUPPLY_LOOPS \in Nat \ {0} /\ CLAIM_LOOPS \in Nat \ {0}
    /\ Fees \subseteq Nat /\ MaxReceived \in Nat

VARIABLES                       \* of the escrow
    now, supply, locked, epoch, point_history, user_point_epoch, user_point_history,
    slope_changes, admin, future_admin, smart_wallet_checker, future_smart_wallet_checker

VARIABLES                       \* of the distributor
    start_time,
    time_cursor,                \* the first week without a recorded supply
    ve_supply,                  \* week -> the escrow's total at its start
    last_token_time,
    tokens_per_week,            \* week -> tokens to share
    token_last_balance,         \* tokens accounted for
    token_balance,              \* the token's balanceOf(self)
    time_cursor_of,             \* user -> the first week it has not claimed
    user_epoch_of,              \* user -> the point of its history in force then
    can_checkpoint_token,
    is_killed,
    owner, future_owner,        \* self.admin, self.future_admin
    received,                   \* history: tokens that ever arrived
    paid                        \* history: user -> tokens claimed

Escrow == INSTANCE VotingEscrow

supplies == <<time_cursor, ve_supply>>
tokens == <<last_token_time, tokens_per_week, token_last_balance>>
claims == <<time_cursor_of, user_epoch_of, paid>>
control == <<start_time, can_checkpoint_token, is_killed, owner, future_owner>>
dvars == <<supplies, tokens, claims, control, token_balance, received>>
escrow == <<now, supply, locked, epoch, point_history, user_point_epoch, user_point_history,
            slope_changes, admin, future_admin, smart_wallet_checker,
            future_smart_wallet_checker>>
vars == <<escrow, dvars>>

Weeks == Escrow!Weeks
WeekOf(t) == Escrow!WeekOf(t)
Least(a, b) == IF a < b THEN a ELSE b
Most(a, b) == IF a < b THEN b ELSE a

-----------------------------------------------------------------------------
(* Token checkpoints. *)

Spread_SinceStart(amount, w) ==    \* mutant: spreads over the whole past
    IF w < start_time \/ w > WeekOf(now) \/ now = start_time THEN 0
    ELSE (amount * (Least(w + WEEK, now) - w)) \div (now - start_time)

(* The part of an amount that _checkpoint_token gives to week w: what      *)
(* arrived since the last checkpoint counts as arrived evenly.             *)
Spread(amount, w) ==
    LET from == Most(w, last_token_time)
        to == Least(w + WEEK, now)
    IN  IF \/ w < WeekOf(last_token_time) \/ w > WeekOf(now)
           \/ w >= WeekOf(last_token_time) + TOKEN_LOOPS * WEEK THEN 0
        ELSE IF now = last_token_time THEN amount
        ELSE (amount * (to - from)) \div (now - last_token_time)

(* _checkpoint_token at a given balance, but for token_last_balance.       *)
CheckpointToken(balance) ==
    /\ balance >= token_last_balance
    /\ now >= last_token_time
    /\ tokens_per_week' = [w \in Weeks |->
                             tokens_per_week[w] + Spread(balance - token_last_balance, w)]
    /\ last_token_time' = now

MayCheckpointToken == can_checkpoint_token /\ now > last_token_time + TOKEN_CHECKPOINT_DEADLINE

checkpoint_token(sender) ==
    /\ sender = owner \/ MayCheckpointToken
    /\ CheckpointToken(token_balance)
    /\ token_last_balance' = token_balance
    /\ UNCHANGED <<escrow, supplies, claims, control, token_balance, received>>

-----------------------------------------------------------------------------
(* Supply checkpoints. *)

(* The escrow's total at week w, read off its last point not after w.      *)
SupplyRead(history, last, w) ==
    LET p == history[Escrow!LastAt(history, last, w)]
    IN  Escrow!AtLeastZero(p.bias - p.slope * Escrow!AtLeastZero(w - p.ts))

CheckpointTotalSupply_Stale ==    \* mutant: does not checkpoint the escrow
    LET recorded == {w \in Weeks : time_cursor <= w /\ w <= WeekOf(now)}
    IN  /\ UNCHANGED escrow
        /\ ve_supply' = [w \in Weeks |->
                           IF w \in recorded THEN SupplyRead(point_history, epoch, w)
                                             ELSE ve_supply[w]]
        /\ time_cursor' = Most(time_cursor, WeekOf(now) + WEEK)

(* _checkpoint_total_supply.                                               *)
CheckpointTotalSupply ==
    LET recorded == {w \in Weeks : /\ time_cursor <= w /\ w <= WeekOf(now)
                                   /\ w < time_cursor + SUPPLY_LOOPS * WEEK}
    IN  /\ Escrow!checkpoint
        /\ ve_supply' = [w \in Weeks |->
                           IF w \in recorded THEN SupplyRead(point_history', epoch', w)
                                             ELSE ve_supply[w]]
        /\ time_cursor' = IF recorded = {} THEN time_cursor
                          ELSE WEEK + CHOOSE w \in recorded : \A v \in recorded : v <= w

checkpoint_total_supply ==
    /\ CheckpointTotalSupply
    /\ UNCHANGED <<tokens, claims, control, token_balance, received>>

-----------------------------------------------------------------------------
(* Claims. *)

(* Where a user's walk starts: at its first claim, the point in force at   *)
(* start_time, or its first point.                                         *)
StartPoint(user) ==
    IF time_cursor_of[user] # 0 THEN Most(user_epoch_of[user], 1)
    ELSE Most(1, Escrow!LastAt(user_point_history[user], user_point_epoch[user], start_time))

StartWeek(user) ==
    IF time_cursor_of[user] # 0 THEN time_cursor_of[user]
    ELSE WeekOf(user_point_history[user][StartPoint(user)].ts + WEEK - 1)

FeeShare_RoundedUp(power, week_tokens, week_supply) ==    \* mutant
    (power * week_tokens + week_supply - 1) \div week_supply

FeeShare(power, week_tokens, week_supply) == (power * week_tokens) \div week_supply

NextTurn_PointAfterWeek(user, last, perWeek, total, s) ==    \* mutant: the point in force a week later
    LET power == Escrow!UserPowerFrom(user_point_history[user][s.point - 1], s.week)
        ended == s.point > user_point_epoch[user]
    IN  IF s.status # "going" \/ s.week >= last THEN s
        ELSE IF ~ended /\ s.week + WEEK > user_point_history[user][s.point].ts
          THEN [s EXCEPT !.point = @ + 1]
        ELSE IF power = 0 /\ ended THEN [s EXCEPT !.status = "stopped"]
        ELSE IF total[s.week] = 0 THEN [s EXCEPT !.status = "reverted"]
        ELSE [s EXCEPT !.week = @ + WEEK,
                       !.amount = @ + FeeShare(power, perWeek[s.week], total[s.week])]

(* One turn of _claim's loop: on to the user's next point when that is in  *)
(* force at the week, else on to the next week with the share of this one. *)
(* s.point is user_epoch, one more than the index of old_user_point.       *)
NextTurn(user, last, perWeek, total, s) ==
    LET power == Escrow!UserPowerFrom(user_point_history[user][s.point - 1], s.week)
        ended == s.point > user_point_epoch[user]
    IN  IF s.status # "going" \/ s.week >= last THEN s
        ELSE IF ~ended /\ s.week >= user_point_history[user][s.point].ts
          THEN [s EXCEPT !.point = @ + 1]
        ELSE IF power = 0
          THEN IF ended THEN [s EXCEPT !.status = "stopped"] ELSE [s EXCEPT !.week = @ + WEEK]
        ELSE IF total[s.week] = 0 THEN [s EXCEPT !.status = "reverted"]
        ELSE [s EXCEPT !.week = @ + WEEK,
                       !.amount = @ + FeeShare(power, perWeek[s.week], total[s.week])]

(* _claim up to week last: the amount, and the user's cursor after it.     *)
_claim(user, last, perWeek, total) ==
    LET turn[i \in 0 .. CLAIM_LOOPS] ==
            IF i = 0 THEN [week |-> Most(StartWeek(user), start_time),
                           point |-> StartPoint(user), amount |-> 0, status |-> "going"]
            ELSE NextTurn(user, last, perWeek, total, turn[i - 1])
        end == turn[CLAIM_LOOPS]
    IN  IF user_point_epoch[user] = 0 \/ StartWeek(user) >= last
          THEN [week |-> time_cursor_of[user], point |-> user_epoch_of[user], amount |-> 0,
                status |-> "nothing"]
          ELSE [end EXCEPT !.point = Least(user_point_epoch[user], @ - 1)]

Open == ~is_killed

(* claim is claim_many of one user; a repeated receiver is a second call.  *)
claim_many(S) ==
    /\ Open
    /\ IF now >= time_cursor THEN CheckpointTotalSupply
                             ELSE UNCHANGED <<escrow, supplies>>
    /\ IF MayCheckpointToken THEN CheckpointToken(token_balance)
                             ELSE UNCHANGED <<tokens_per_week, last_token_time>>
    /\ LET c == [user \in S |-> _claim(user, WeekOf(last_token_time'), tokens_per_week',
                                       ve_supply')]
           total == Total([user \in S |-> c[user].amount])
           accounted == IF MayCheckpointToken THEN token_balance ELSE token_last_balance
       IN  /\ \A user \in S : c[user].status # "reverted"
           /\ total <= token_balance /\ total <= accounted
           /\ token_last_balance' = accounted - total
           /\ token_balance' = token_balance - total
           /\ time_cursor_of' = [user \in Users |->
                                   IF user \in S THEN c[user].week ELSE time_cursor_of[user]]
           /\ user_epoch_of' = [user \in Users |->
                                  IF user \in S THEN c[user].point ELSE user_epoch_of[user]]
           /\ paid' = [user \in Users |->
                         IF user \in S THEN paid[user] + c[user].amount ELSE paid[user]]
    /\ UNCHANGED <<control, received>>

claim(user) == claim_many({user})

-----------------------------------------------------------------------------
(* Tokens arriving, and the owner's calls. *)

(* A transfer of the fee token to the contract.                            *)
Receive(amount) ==
    /\ received + amount <= MaxReceived
    /\ token_balance' = token_balance + amount
    /\ received' = received + amount
    /\ UNCHANGED <<escrow, supplies, tokens, claims, control>>

(* burn brings all tokens of its sender and checkpoints them at once.      *)
burn(amount) ==
    /\ Open
    /\ amount > 0
    /\ received + amount <= MaxReceived
    /\ token_balance' = token_balance + amount
    /\ received' = received + amount
    /\ IF MayCheckpointToken
         THEN /\ CheckpointToken(token_balance + amount)
              /\ token_last_balance' = token_balance + amount
         ELSE UNCHANGED tokens
    /\ UNCHANGED <<escrow, supplies, claims, control>>

toggle_allow_checkpoint_token(sender) ==
    /\ sender = owner
    /\ can_checkpoint_token' = ~can_checkpoint_token
    /\ UNCHANGED <<escrow, supplies, tokens, claims, token_balance, received,
                   start_time, is_killed, owner, future_owner>>

kill_me(sender) ==
    /\ sender = owner
    /\ is_killed' = TRUE
    /\ token_balance' = 0
    /\ UNCHANGED <<escrow, supplies, tokens, claims, received,
                   start_time, can_checkpoint_token, owner, future_owner>>

commit_admin(sender, addr) ==
    /\ sender = owner
    /\ future_owner' = addr
    /\ UNCHANGED <<escrow, supplies, tokens, claims, token_balance, received,
                   start_time, can_checkpoint_token, is_killed, owner>>

apply_admin(sender) ==
    /\ sender = owner
    /\ future_owner # NoAddress
    /\ owner' = future_owner
    /\ UNCHANGED <<escrow, supplies, tokens, claims, token_balance, received,
                   start_time, can_checkpoint_token, is_killed, future_owner>>

-----------------------------------------------------------------------------
Init ==
    /\ Escrow!Init
    /\ start_time \in {WeekOf(t) : t \in StartTimes}
    /\ time_cursor = start_time
    /\ ve_supply = [w \in Weeks |-> 0]
    /\ last_token_time = start_time
    /\ tokens_per_week = [w \in Weeks |-> 0]
    /\ token_last_balance = 0
    /\ token_balance = 0
    /\ time_cursor_of = [user \in Users |-> 0]
    /\ user_epoch_of = [user \in Users |-> 0]
    /\ can_checkpoint_token = FALSE
    /\ is_killed = FALSE
    /\ owner \in Admins
    /\ future_owner = NoAddress
    /\ received = 0
    /\ paid = [user \in Users |-> 0]

Locking == Escrow!Locking /\ UNCHANGED dvars

Distributing ==
    \/ \E sender \in Admins : checkpoint_token(sender)
    \/ checkpoint_total_supply
    \/ \E user \in Users : claim(user)
    \/ \E S \in SUBSET Users : claim_many(S)
    \/ \E amount \in Fees : Receive(amount) \/ burn(amount)

Owning ==
    \/ \E sender \in Admins : toggle_allow_checkpoint_token(sender) \/ kill_me(sender)
    \/ \E sender \in Admins : apply_admin(sender)
    \/ \E sender \in Admins, addr \in Admins \cup {NoAddress} : commit_admin(sender, addr)

Tick == Escrow!NextBlock /\ UNCHANGED dvars

Next == Locking \/ (Escrow!Administering /\ UNCHANGED dvars) \/ Distributing \/ Owning \/ Tick

Spec == Init /\ [][Next]_vars

-----------------------------------------------------------------------------
(* Correctness. *)

(* The escrow's own promises, which every share rests on: what a history   *)
(* says of a user is the power of its lock, and the total's history, which *)
(* learns of a lock's end by a scheduled change of slope, is at every      *)
(* moment since the deployment the sum of the users' powers.               *)
BalanceIsLockPower == Escrow!BalanceIsLockPower
HistoryAddsUp == Escrow!HistoryAddsUp

(* What user is entitled to of week w's tokens.                            *)
Entitled(user, w) ==
    IF ve_supply[w] = 0 THEN 0
    ELSE FeeShare(Escrow!UserPowerAt(user, w), tokens_per_week[w], ve_supply[w])

(* FeeDistributor.vy:65 calls ve_supply the total voting power at week     *)
(* bounds: what is recorded for a week is the sum of what the users'       *)
(* histories give them at its start.                                       *)
VeSupplyIsTotal ==
    \A w \in {v \in Weeks : start_time <= v /\ v < time_cursor} :
        ve_supply[w] = Total([user \in Users |-> Escrow!UserPowerAt(user, w)])

(* A user has been paid its share of every week before its cursor, once:   *)
(* whenever it claimed, however its lock changed since, and wherever a     *)
(* loop ran out of turns.                                                  *)
PaidExactly ==
    \A user \in Users :
        paid[user] = Total([w \in {v \in Weeks : start_time <= v /\ v < time_cursor_of[user]}
                              |-> Entitled(user, w)])

(* The weeks a user may claim, once supply and tokens are recorded.        *)
Unclaimed(user) ==
    {w \in Weeks : /\ start_time <= w /\ time_cursor_of[user] <= w
                   /\ w < Least(time_cursor, WeekOf(last_token_time))}

StillDue(user) == Total([w \in Unclaimed(user) |-> Entitled(user, w)])

(* What all users may still claim is covered by the tokens accounted for,  *)
(* and these by the balance.                                               *)
Solvent ==
    ~is_killed =>
        /\ Total([user \in Users |-> StillDue(user)]) <= token_last_balance
        /\ token_last_balance <= token_balance

(* A week's tokens and its supply are final once claims may read them.     *)
ClaimedWeeksFinal ==
    [][\A w \in {v \in Weeks : v < Least(time_cursor, WeekOf(last_token_time))} :
         tokens_per_week'[w] = tokens_per_week[w] /\ ve_supply'[w] = ve_supply[w]]_vars

==============================================================================
