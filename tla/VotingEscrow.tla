---------------------------- MODULE VotingEscrow ----------------------------
(***************************************************************************)
(* contracts/staking/VotingEscrow.vy: locks of APW and the voting power    *)
(* they give, which decays linearly to zero at the end of the lock.  The   *)
(* contract keeps, for each user and in total, a history of points (bias,  *)
(* slope, time); between two points the power falls along the slope.  The  *)
(* total's slope changes when a lock ends: such changes are scheduled per  *)
(* week, and the total's history gets a point at every week it passes.     *)
(*                                                                         *)
(* External: the APW token (a deposit's transfer succeeds or the call      *)
(* reverts) and the checker of smart wallets.  Left out: block numbers,    *)
(* which only the views balanceOfAt and totalSupplyAt read.                *)
(***************************************************************************)
EXTENDS Integers, UnitSum

CONSTANTS
    Users,
    Contracts,      \* the users that are contracts (msg.sender # tx.origin)
    Checkers,       \* smart wallet checkers, and for each what it approves
    Approves,
    Admins,
    NoAddress,      \* ZERO_ADDRESS
    WEEK,           \* 7 days in the source
    MAXTIME,        \* 2 years in the source, not a whole number of weeks
    LOOPS,          \* 255 in the source: turns of a loop over weeks
    BlockTimes,     \* block timestamps of the instance
    Amounts,        \* amounts that users lock or add
    UnlockTimes,    \* unlock times that users ask for
    Horizon,        \* bound: no lock ends later
    MaxPoints,      \* bound: points in the total's history
    MaxUserPoints   \* bound: points in a user's history

VARIABLES
    now,                    \* block.timestamp
    supply,                 \* APW locked
    locked,                 \* user -> [amount, end]
    epoch,                  \* index of the total's last point
    point_history,          \* 0 .. epoch -> point
    user_point_epoch,       \* user -> index of its last point
    user_point_history,     \* user -> (0 .. its last index -> point)
    slope_changes,          \* week -> change of the total's slope
    admin, future_admin,
    smart_wallet_checker, future_smart_wallet_checker

points == <<epoch, point_history, user_point_epoch, user_point_history, slope_changes>>
ownership == <<admin, future_admin, smart_wallet_checker, future_smart_wallet_checker>>
evars == <<now, supply, locked, points, ownership>>

Locks == [amount : Nat, end : Nat]
NoLock == [amount |-> 0, end |-> 0]
Point == [bias : Int, slope : Int, ts : Nat]

WeekOf(t) == (t \div WEEK) * WEEK
Weeks == {w \in 0 .. Horizon : w % WEEK = 0}
AtLeastZero(n) == IF n < 0 THEN 0 ELSE n

-----------------------------------------------------------------------------
(* Loops over the weeks from time a to time b: turn i stops at the i-th    *)
(* week bound after a, or at b when that comes first; the loop ends at b,  *)
(* or when its turns are used up.                                          *)
Bound(a, i) == WeekOf(a) + i * WEEK
Stop(a, b, i) == IF Bound(a, i) > b THEN b ELSE Bound(a, i)
Turns(a, b) ==
    CHOOSE n \in 1 .. LOOPS :
        /\ Stop(a, b, n) = b \/ n = LOOPS
        /\ \A i \in 1 .. n - 1 : Stop(a, b, i) # b

SlopeChange(a, b, i) == IF Bound(a, i) > b THEN 0 ELSE slope_changes[Bound(a, i)]

(* The line from point p on to time t, where the slope changes by d.       *)
Glide(p, t, d) ==
    [bias |-> p.bias - p.slope * (t - p.ts), slope |-> p.slope + d, ts |-> t]

(* One turn of _checkpoint.                                                *)
Advance(p, t, d) == [Glide(p, t, d) EXCEPT !.bias = AtLeastZero(@), !.slope = AtLeastZero(@)]

LastPoint ==
    IF epoch > 0 THEN point_history[epoch] ELSE [bias |-> 0, slope |-> 0, ts |-> now]

(* The points _checkpoint passes through from the last one to now.         *)
Walk ==
    LET a == LastPoint.ts
        walk[i \in 0 .. Turns(a, now)] ==
            IF i = 0 THEN LastPoint
            ELSE Advance(walk[i - 1], Stop(a, now, i), SlopeChange(a, now, i))
    IN  walk

UserPoint_FromWeek(l) ==    \* mutant: counts from the start of the week
    LET slope == IF l.end > now /\ l.amount > 0 THEN l.amount \div MAXTIME ELSE 0
    IN  [bias |-> slope * (l.end - WeekOf(now)), slope |-> slope, ts |-> now]

(* The point of a user with lock l.                                        *)
UserPoint(l) ==
    LET slope == IF l.end > now /\ l.amount > 0 THEN l.amount \div MAXTIME ELSE 0
    IN  [bias |-> slope * (l.end - now), slope |-> slope, ts |-> now]

(* The changes of slope that _checkpoint schedules at week w.              *)
Unscheduled(old, new, w) ==
    IF w = old.end /\ old.end > now
      THEN UserPoint(old).slope - (IF new.end = old.end THEN UserPoint(new).slope ELSE 0)
      ELSE 0

Scheduled_AlsoSameEnd(old, new, w) ==    \* mutant: >= for >
    IF w = new.end /\ new.end > now /\ new.end >= old.end THEN UserPoint(new).slope ELSE 0

Scheduled(old, new, w) ==
    IF w = new.end /\ new.end > now /\ new.end > old.end THEN UserPoint(new).slope ELSE 0

Joined_KeepsOldBias(p, old, new) ==    \* mutant
    [p EXCEPT !.slope = AtLeastZero(@ + UserPoint(new).slope - UserPoint(old).slope),
              !.bias = @ + UserPoint(new).bias]

(* The total's point p once the user's old lock is replaced by the new.    *)
Joined(p, old, new) ==
    [p EXCEPT !.slope = AtLeastZero(@ + UserPoint(new).slope - UserPoint(old).slope),
              !.bias = AtLeastZero(@ + UserPoint(new).bias - UserPoint(old).bias)]

(* Fills the total's history up to now; the last point is final.           *)
Fill(final) ==
    LET last == epoch + Turns(LastPoint.ts, now) IN
    /\ last <= MaxPoints
    /\ epoch' = last
    /\ point_history' = [e \in 0 .. last |->
                           CASE e <= epoch -> point_history[e]
                             [] e > epoch /\ e < last -> Walk[e - epoch]
                             [] e = last -> final]

WalkEnd == Walk[Turns(LastPoint.ts, now)]

_checkpoint(user, old, new) ==
    /\ user_point_epoch[user] < MaxUserPoints
    /\ Fill(Joined(WalkEnd, old, new))
    /\ slope_changes' = [w \in Weeks |-> slope_changes[w] + Unscheduled(old, new, w)
                                                          - Scheduled(old, new, w)]
    /\ user_point_epoch' = [user_point_epoch EXCEPT ![user] = @ + 1]
    /\ user_point_history' =
         [user_point_history EXCEPT ![user] =
            [e \in 0 .. user_point_epoch[user] + 1 |->
               IF e <= user_point_epoch[user] THEN @[e] ELSE UserPoint(new)]]

_deposit_for(user, value, lock) ==
    /\ supply' = supply + value
    /\ locked' = [locked EXCEPT ![user] = lock]
    /\ _checkpoint(user, locked[user], lock)
    /\ UNCHANGED <<now, ownership>>

-----------------------------------------------------------------------------
(* Calls. *)

MayLock(user) ==
    user \in Contracts => /\ smart_wallet_checker # NoAddress
                          /\ user \in Approves[smart_wallet_checker]

checkpoint ==
    /\ Fill(WalkEnd)
    /\ UNCHANGED <<now, supply, locked, user_point_epoch, user_point_history, slope_changes,
                   ownership>>

(* deposit_for may be called by anyone, on an empty lock too.              *)
deposit_for(user, value) ==
    /\ value > 0
    /\ locked[user].end > now
    /\ _deposit_for(user, value, [locked[user] EXCEPT !.amount = @ + value])

create_lock(user, value, unlock) ==
    /\ MayLock(user)
    /\ locked[user].amount = 0
    /\ WeekOf(unlock) > now
    /\ WeekOf(unlock) <= now + MAXTIME
    /\ _deposit_for(user, value, [amount |-> value, end |-> WeekOf(unlock)])

increase_amount(user, value) ==
    /\ MayLock(user)
    /\ value > 0
    /\ locked[user].amount > 0
    /\ locked[user].end > now
    /\ _deposit_for(user, value, [locked[user] EXCEPT !.amount = @ + value])

increase_unlock_time(user, unlock) ==
    /\ MayLock(user)
    /\ locked[user].end > now
    /\ WeekOf(unlock) > locked[user].end
    /\ WeekOf(unlock) <= now + MAXTIME
    /\ _deposit_for(user, 0, [locked[user] EXCEPT !.end = WeekOf(unlock)])

withdraw(user) ==
    /\ now >= locked[user].end
    /\ locked[user].amount <= supply
    /\ locked' = [locked EXCEPT ![user] = NoLock]
    /\ supply' = supply - locked[user].amount
    /\ _checkpoint(user, locked[user], NoLock)
    /\ UNCHANGED <<now, ownership>>

commit_transfer_ownership(sender, addr) ==
    /\ sender = admin
    /\ future_admin' = addr
    /\ UNCHANGED <<now, supply, locked, points, admin, smart_wallet_checker,
                   future_smart_wallet_checker>>

apply_transfer_ownership(sender) ==
    /\ sender = admin
    /\ future_admin # NoAddress
    /\ admin' = future_admin
    /\ UNCHANGED <<now, supply, locked, points, future_admin, smart_wallet_checker,
                   future_smart_wallet_checker>>

commit_smart_wallet_checker(sender, addr) ==
    /\ sender = admin
    /\ future_smart_wallet_checker' = addr
    /\ UNCHANGED <<now, supply, locked, points, admin, future_admin, smart_wallet_checker>>

apply_smart_wallet_checker(sender) ==
    /\ sender = admin
    /\ smart_wallet_checker' = future_smart_wallet_checker
    /\ UNCHANGED <<now, supply, locked, points, admin, future_admin,
                   future_smart_wallet_checker>>

NextBlock ==
    /\ now' \in {t \in BlockTimes : t > now}
    /\ UNCHANGED <<supply, locked, points, ownership>>

-----------------------------------------------------------------------------
Init ==
    /\ now \in BlockTimes
    /\ supply = 0
    /\ locked = [user \in Users |-> NoLock]
    /\ epoch = 0
    /\ point_history = [e \in {0} |-> [bias |-> 0, slope |-> 0, ts |-> now]]
    /\ user_point_epoch = [user \in Users |-> 0]
    /\ user_point_history = [user \in Users |-> [e \in {0} |-> [bias |-> 0, slope |-> 0, ts |-> 0]]]
    /\ slope_changes = [w \in Weeks |-> 0]
    /\ admin \in Admins
    /\ future_admin = NoAddress
    /\ smart_wallet_checker = NoAddress
    /\ future_smart_wallet_checker = NoAddress

Locking ==
    \/ \E user \in Users, value \in Amounts : deposit_for(user, value) \/ increase_amount(user, value)
    \/ \E user \in Users, value \in Amounts, unlock \in UnlockTimes : create_lock(user, value, unlock)
    \/ \E user \in Users, unlock \in UnlockTimes : increase_unlock_time(user, unlock)
    \/ \E user \in Users : withdraw(user)
    \/ checkpoint

Administering ==
    \/ \E sender \in Admins, addr \in Admins \cup {NoAddress} : commit_transfer_ownership(sender, addr)
    \/ \E sender \in Admins : apply_transfer_ownership(sender) \/ apply_smart_wallet_checker(sender)
    \/ \E sender \in Admins, addr \in Checkers \cup {NoAddress} : commit_smart_wallet_checker(sender, addr)

Next == Locking \/ Administering \/ NextBlock

Spec == Init /\ [][Next]_evars

-----------------------------------------------------------------------------
(* Views. *)

LastUserPoint(user) == user_point_history[user][user_point_epoch[user]]

UserPowerFrom(p, t) == AtLeastZero(p.bias - p.slope * (t - p.ts))

balanceOf(user, t) ==
    IF user_point_epoch[user] = 0 THEN 0 ELSE UserPowerFrom(LastUserPoint(user), t)

supply_at(p, t) ==
    LET glide[i \in 0 .. Turns(p.ts, t)] ==
            IF i = 0 THEN p
            ELSE Glide(glide[i - 1], Stop(p.ts, t, i), SlopeChange(p.ts, t, i))
    IN  AtLeastZero(glide[Turns(p.ts, t)].bias)

totalSupply(t) == supply_at(point_history[epoch], t)

-----------------------------------------------------------------------------
(* Correctness. *)

(* The voting power of lock l at time t: what the histories stand for.     *)
Power(l, t) == (l.amount \div MAXTIME) * AtLeastZero(l.end - t)

(* What a user's history says of its power is, now and at every later      *)
(* time, the power of the lock it has.                                     *)
BalanceIsLockPower ==
    \A user \in Users, t \in now .. Horizon : balanceOf(user, t) = Power(locked[user], t)

(* Power at a time t that is past, as the histories have it: the last      *)
(* point not after t, and the way on from there.                           *)
LastAt(history, last, t) == CHOOSE e \in 0 .. last :
    /\ e = 0 \/ history[e].ts <= t
    /\ \A f \in e + 1 .. last : history[f].ts > t

UserPowerAt(user, t) ==
    LET e == LastAt(user_point_history[user], user_point_epoch[user], t)
    IN  IF e = 0 THEN 0 ELSE UserPowerFrom(user_point_history[user][e], t)

TotalPowerAt(t) == supply_at(point_history[LastAt(point_history, epoch, t)], t)

(* The same holds of every moment of the past since the deployment: who    *)
(* had how much of which total can be read off at any later time.          *)
HistoryAddsUp ==
    \A t \in point_history[0].ts .. now :
        TotalPowerAt(t) = Total([user \in Users |-> UserPowerAt(user, t)])

==============================================================================
