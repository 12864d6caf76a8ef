------------------------ MODULE FeeDistributorProofs ------------------------
(***************************************************************************)
(* Proofs about the escrow (VotingEscrow.vy) and the fee distributor that  *)
(* pays by it (FeeDistributor.vy), for every set of users, week and        *)
(* MAXTIME:                                                                *)
(*   BalancesFollowLocks - a balance is the power of the user's lock;      *)
(*   HistoryHolds        - balances of any past moment add up to the total *)
(*                         of that moment;                                 *)
(*   WeeksAreFinal       - what is recorded for a closed week stays;       *)
(*   SuppliesAreTotals   - a recorded supply is the sum of the balances;   *)
(*   ClaimsPayExactly    - a user is paid its share of each week, once;    *)
(*   DistributorSolvent  - what users may still claim is there.            *)
(* BalancesFollowLocks rests on EscrowInv, each user's last point being on *)
(* the line along which the lock's power falls.  HistoryHolds adds SumInv: *)
(* the total's last point is on the sum of those lines, and every moment   *)
(* before it is explained by one assignment of locks to users, whose sum   *)
(* the total gives and whose terms the users' histories give.  A recorded  *)
(* supply is then explained too, and no later call takes the explanation   *)
(* away.  The loops of the contracts are functions of the turn, and what   *)
(* they do is read off turn by turn (StepByStep).  ClaimsPayExactly rests  *)
(* on PayInv, which says where a user's cursors may be, and solvency on    *)
(* CoveredInv too: the weeks' tokens are no more than what is accounted    *)
(* for or was paid.                                                        *)
(***************************************************************************)
EXTENDS FeeDistributor, UnitSumProofs, TLAPS

-----------------------------------------------------------------------------
(* The steps of the composition, as the escrow's locks and histories see   *)
(* them: a user's lock is replaced, the total's history is filled up, time *)
(* passes, or nothing of theirs changes.                                   *)

(* The slope of a lock's power, and the weeks' bounds.                     *)
Slope(l) == l.amount \div MAXTIME

IsBound(t) == \E k \in Nat : t = k * WEEK

(* How a call may replace a lock.                                          *)
Swap(old, new) ==
    \/ new.end = old.end /\ new.amount > 0
    \/ old.amount = 0 /\ new.amount \in Amounts /\ IsBound(new.end)
    \/ new.end > old.end /\ old.end > now /\ new.amount = old.amount /\ IsBound(new.end)
    \/ new = Escrow!NoLock /\ now >= old.end

(* The three kinds of step.  A call on a lock checkpoints it; anybody may  *)
(* checkpoint the total alone.                                             *)
Relocks(user, new) ==
    /\ Swap(locked[user], new)
    /\ locked' = [locked EXCEPT ![user] = new]
    /\ Escrow!_checkpoint(user, locked[user], new)
    /\ now' = now

FillsUp ==
    /\ Escrow!Fill(Escrow!WalkEnd)
    /\ UNCHANGED <<now, locked, user_point_epoch, user_point_history, slope_changes>>

Still ==
    /\ UNCHANGED <<locked, epoch, point_history, user_point_epoch, user_point_history,
                   slope_changes>>
    /\ now' # now => now' \in BlockTimes /\ now' > now

(* The types that the steps need.                                          *)
LocksTyped ==
    /\ now \in BlockTimes
    /\ locked \in [Users -> Escrow!Locks]
    /\ epoch \in Nat
    /\ user_point_epoch \in [Users -> Nat]
    /\ DOMAIN user_point_history = Users

(* What the assumption on the constants says, for the leaves to cite.      *)
LEMMA ConstantsTyped ==
    /\ IsFiniteSet(Users) /\ WEEK \in Nat /\ WEEK > 0 /\ MAXTIME \in Nat /\ MAXTIME > 0
    /\ LOOPS \in Nat /\ LOOPS > 0
    /\ \A t \in BlockTimes : t \in Nat /\ t > 0 /\ t + MAXTIME <= Horizon
    /\ \A a \in Amounts : a \in Nat
    /\ \A t \in UnlockTimes : t \in Nat
    /\ Horizon \in Nat
BY EscrowAssumption

(* A week starts at a multiple of WEEK, not after the times in it.         *)
LEMMA WeekStarts ==
    ASSUME NEW t \in Nat
    PROVE  /\ t \div WEEK \in Nat /\ Escrow!WeekOf(t) = (t \div WEEK) * WEEK
           /\ Escrow!WeekOf(t) \in Nat /\ Escrow!WeekOf(t) <= t
           /\ t < Escrow!WeekOf(t) + WEEK
           /\ IsBound(Escrow!WeekOf(t))
<1>1. WEEK \in Nat /\ WEEK > 0
  BY ConstantsTyped
<1>2. (t % WEEK) \in 0 .. WEEK - 1
  BY <1>1
<1>3. t \div WEEK \in Nat
  BY <1>1
<1>4. t = WEEK * (t \div WEEK) + (t % WEEK)
  BY <1>1
<1>5. WEEK * (t \div WEEK) = (t \div WEEK) * WEEK /\ (t \div WEEK) * WEEK \in Nat
  BY <1>1, <1>3
<1> QED
  BY <1>1, <1>2, <1>3, <1>4, <1>5 DEF Escrow!WeekOf, IsBound

(* Every call of the two contracts is one of the three kinds of step.      *)
LEMMA LocksSwapped ==
    ASSUME LocksTyped, [Next]_vars
    PROVE  \/ \E user \in Users, new \in Escrow!Locks : Relocks(user, new)
           \/ FillsUp
           \/ Still
<1> DEFINE Goal == \/ \E user \in Users, new \in Escrow!Locks : Relocks(user, new)
                   \/ FillsUp
                   \/ Still
<1> USE DEF Relocks, LocksTyped
<1>0. ASSUME NEW user \in Users
      PROVE  /\ locked[user] \in Escrow!Locks
             /\ locked[user].amount \in Nat /\ locked[user].end \in Nat
  BY DEF Escrow!Locks
<1>1. ASSUME NEW user \in Users, NEW value \in Amounts,
             Escrow!deposit_for(user, value) \/ Escrow!increase_amount(user, value)
      PROVE  Goal
  <2> DEFINE new == [locked[user] EXCEPT !.amount = @ + value]
  <2>1. value \in Nat /\ value > 0
    BY <1>1, ConstantsTyped DEF Escrow!deposit_for, Escrow!increase_amount
  <2>2. /\ new \in Escrow!Locks /\ new.end = locked[user].end
        /\ new.amount = locked[user].amount + value
    BY <1>0, <2>1 DEF Escrow!Locks
  <2>3. Escrow!_deposit_for(user, value, new)
    BY <1>1 DEF Escrow!deposit_for, Escrow!increase_amount
  <2> HIDE DEF new
  <2>4. Swap(locked[user], new)
    BY <1>0, <2>1, <2>2 DEF Swap
  <2> QED
    BY <2>2, <2>3, <2>4 DEF Escrow!_deposit_for
<1>2. ASSUME NEW user \in Users, NEW value \in Amounts, NEW unlock \in UnlockTimes,
             Escrow!create_lock(user, value, unlock)
      PROVE  Goal
  <2> DEFINE new == [amount |-> value, end |-> Escrow!WeekOf(unlock)]
  <2>1. value \in Nat /\ Escrow!WeekOf(unlock) \in Nat /\ IsBound(Escrow!WeekOf(unlock))
    BY ConstantsTyped, WeekStarts
  <2>2. new \in Escrow!Locks /\ Swap(locked[user], new)
    BY <2>1, <1>2 DEF Escrow!Locks, Swap, Escrow!create_lock
  <2> QED
    BY <1>2, <2>2 DEF Escrow!create_lock, Escrow!_deposit_for
<1>3. ASSUME NEW user \in Users, NEW unlock \in UnlockTimes,
             Escrow!increase_unlock_time(user, unlock)
      PROVE  Goal
  <2> DEFINE new == [locked[user] EXCEPT !.end = Escrow!WeekOf(unlock)]
  <2>1. Escrow!WeekOf(unlock) \in Nat /\ IsBound(Escrow!WeekOf(unlock))
    BY ConstantsTyped, WeekStarts
  <2>2. /\ new \in Escrow!Locks /\ new.end = Escrow!WeekOf(unlock)
        /\ new.amount = locked[user].amount
    BY <1>0, <2>1 DEF Escrow!Locks
  <2>3. /\ Escrow!_deposit_for(user, 0, new)
        /\ locked[user].end > now /\ Escrow!WeekOf(unlock) > locked[user].end
    BY <1>3 DEF Escrow!increase_unlock_time
  <2> HIDE DEF new
  <2>4. Swap(locked[user], new)
    BY <2>1, <2>2, <2>3 DEF Swap
  <2> QED
    BY <2>2, <2>3, <2>4 DEF Escrow!_deposit_for
<1>4. ASSUME NEW user \in Users, Escrow!withdraw(user)
      PROVE  Goal
  <2>1. Escrow!NoLock \in Escrow!Locks
    BY DEF Escrow!NoLock, Escrow!Locks
  <2> QED
    BY <1>4, <2>1 DEF Escrow!withdraw, Swap
<1>5. ASSUME Escrow!checkpoint
      PROVE  Goal
  BY <1>5 DEF Escrow!checkpoint, FillsUp
<1>6. ASSUME UNCHANGED escrow
      PROVE  Goal
  BY <1>6 DEF escrow, Still
<1> SUFFICES Goal
  OBVIOUS
<1> HIDE DEF Goal
<1>7. CASE Locking
  BY <1>1, <1>2, <1>3, <1>4, <1>5, <1>7 DEF Locking, Escrow!Locking
<1>8. CASE Escrow!Administering /\ UNCHANGED dvars
  <2>1. Still
    BY <1>8 DEF Escrow!Administering, Escrow!commit_transfer_ownership, Still, Escrow!points,
                Escrow!apply_transfer_ownership, Escrow!commit_smart_wallet_checker,
                Escrow!apply_smart_wallet_checker
  <2> QED
    BY <2>1 DEF Goal
<1>9. CASE Distributing
  <2>1. UNCHANGED escrow \/ Escrow!checkpoint
    BY <1>9 DEF Distributing, checkpoint_token, checkpoint_total_supply, claim, claim_many,
                Receive, burn, CheckpointTotalSupply
  <2> QED
    BY <2>1, <1>5, <1>6
<1>10. CASE Owning
  BY <1>10, <1>6 DEF Owning, toggle_allow_checkpoint_token, kill_me, apply_admin, commit_admin
<1>11. CASE Tick
  BY <1>11 DEF Tick, Escrow!NextBlock, Escrow!points, Still, Goal
<1>12. CASE UNCHANGED vars
  BY <1>12, <1>6 DEF vars
<1> QED
  BY <1>7, <1>8, <1>9, <1>10, <1>11, <1>12 DEF Next

(* A loop over weeks makes its turns: it ends at the first stop that is b, *)
(* or when they are used up.                                               *)
LEMMA TurnsEnd ==
    ASSUME NEW a, NEW b
    PROVE  /\ Escrow!Turns(a, b) \in 1 .. LOOPS
           /\ Escrow!Stop(a, b, Escrow!Turns(a, b)) = b \/ Escrow!Turns(a, b) = LOOPS
           /\ \A i \in 1 .. Escrow!Turns(a, b) - 1 : Escrow!Stop(a, b, i) # b
<1> DEFINE Ends(n) == Escrow!Stop(a, b, n) = b \/ n = LOOPS
           T == {n \in 1 .. LOOPS : Ends(n)}
<1>1. LOOPS \in Nat /\ LOOPS > 0
  BY ConstantsTyped
<1>2. LOOPS \in T
  BY <1>1
<1>3. T \subseteq Nat
  BY <1>1
<1> HIDE DEF T
<1>4. PICK m \in T : \A k \in T : m <= k
  BY <1>2, <1>3, Smallest
<1>5. m \in 1 .. LOOPS /\ Ends(m)
  BY <1>4 DEF T
<1>6. ASSUME NEW i \in 1 .. m - 1 PROVE Escrow!Stop(a, b, i) # b
  <2>1. i \in 1 .. LOOPS /\ i \notin T
    BY <1>1, <1>4, <1>5
  <2> QED
    BY <2>1 DEF T
<1> QED
  BY <1>5, <1>6 DEF Escrow!Turns

(* What Fill adds to the total's history.                                  *)
LEMMA FillGrows ==
    ASSUME LocksTyped, NEW final, Escrow!Fill(final)
    PROVE  /\ epoch' = epoch + Escrow!Turns(Escrow!LastPoint.ts, now)
           /\ epoch' \in Nat /\ epoch' > epoch /\ epoch' > 0
           /\ \A e \in 0 .. epoch : point_history'[e] = point_history[e]
           /\ \A i \in 1 .. Escrow!Turns(Escrow!LastPoint.ts, now) - 1 :
                 point_history'[epoch + i] = Escrow!Walk[i]
           /\ point_history'[epoch'] = final
<1> DEFINE n == Escrow!Turns(Escrow!LastPoint.ts, now)
<1>1. n \in Nat /\ n >= 1 /\ epoch \in Nat
  BY TurnsEnd, ConstantsTyped DEF LocksTyped
<1>2. /\ epoch' = epoch + n
      /\ point_history' = [e \in 0 .. epoch + n |->
                             CASE e <= epoch -> point_history[e]
                               [] e > epoch /\ e < epoch + n -> Escrow!Walk[e - epoch]
                               [] e = epoch + n -> final]
  BY DEF Escrow!Fill
<1> HIDE DEF n
<1>3. \A e \in 0 .. epoch : point_history'[e] = point_history[e]
  BY <1>1, <1>2
<1>4. ASSUME NEW i \in 1 .. n - 1 PROVE point_history'[epoch + i] = Escrow!Walk[i]
  <2>1. /\ epoch + i \in 0 .. epoch + n /\ ~(epoch + i <= epoch) /\ epoch + i > epoch
        /\ epoch + i < epoch + n /\ (epoch + i) - epoch = i /\ epoch + i # epoch + n
    BY <1>1
  <2> QED
    BY <1>2, <2>1
<1>5. point_history'[epoch + n] = final
  <2>1. /\ epoch + n \in 0 .. epoch + n /\ ~(epoch + n <= epoch) /\ ~(epoch + n < epoch + n)
    BY <1>1
  <2> QED
    BY <1>2, <2>1
<1> QED
  BY <1>1, <1>2, <1>3, <1>4, <1>5 DEF n

-----------------------------------------------------------------------------
(* A user's last point is the line along which the power of its lock falls. *)

OnLine(p, l) ==
    /\ p \in Escrow!Point
    /\ p.slope = IF l.end > p.ts THEN Slope(l) ELSE 0
    /\ p.bias = p.slope * (l.end - p.ts)

(* Whoever has a lock has points, and the last lies on the lock's line.    *)
UserLines ==
    \A user \in Users :
        /\ user_point_epoch[user] = 0 => locked[user] = Escrow!NoLock
        /\ user_point_epoch[user] > 0 =>
              /\ OnLine(user_point_history[user][user_point_epoch[user]], locked[user])
              /\ user_point_history[user][user_point_epoch[user]].ts <= now

(* The invariant that BalancesFollowLocks needs.                           *)
EscrowInv == LocksTyped /\ UserLines

(* A lock's numbers, and its slope: tokens are worth nothing alone.        *)
LEMMA SlopeTyped ==
    ASSUME NEW l \in Escrow!Locks
    PROVE  /\ l.amount \in Nat /\ l.end \in Nat /\ Slope(l) \in Nat
           /\ l.amount = 0 => Slope(l) = 0
<1>1. l.amount \in Nat /\ l.end \in Nat /\ MAXTIME \in Nat /\ MAXTIME > 0
  BY ConstantsTyped DEF Escrow!Locks
<1> QED
  BY <1>1 DEF Slope

(* A line falls by its slope: the arithmetic of (end - a) and (end - t).   *)
LEMMA Falls ==
    ASSUME NEW s \in Nat, NEW e \in Int, NEW a \in Int, NEW t \in Int
    PROVE  /\ s * (e - a) - s * (t - a) = s * (e - t)
           /\ e >= t => s * (e - t) \in Nat
           /\ e <= t => s * (e - t) <= 0
<1>1. s * (e - a) - s * (t - a) = s * ((e - a) - (t - a))
  OBVIOUS
<1>2. (e - a) - (t - a) = e - t
  OBVIOUS
<1>3. ASSUME e >= t PROVE s * (e - t) \in Nat
  <2>1. PICK d \in Nat : d = e - t
    BY <1>3
  <2> QED
    BY <2>1
<1>4. ASSUME e <= t PROVE s * (e - t) <= 0
  <2>1. PICK d \in Nat : d = t - e
    BY <1>4
  <2>2. s * (e - t) = - (s * d)
    BY <2>1
  <2>3. s * d \in Nat
    OBVIOUS
  <2> QED
    BY <2>2, <2>3
<1> QED
  BY <1>1, <1>2, <1>3, <1>4

(* What is read off such a point later is the power of the lock.           *)
LEMMA LineIsPower ==
    ASSUME NEW l \in Escrow!Locks, NEW p, OnLine(p, l), NEW t \in Nat, p.ts <= t
    PROVE  Escrow!UserPowerFrom(p, t) = Escrow!Power(l, t)
<1>1. /\ l.end \in Nat /\ Slope(l) \in Nat /\ p.ts \in Nat /\ p.slope \in Int /\ p.bias \in Int
  BY SlopeTyped DEF OnLine, Escrow!Point
<1>2. CASE l.end > p.ts
  <2>1. p.bias - p.slope * (t - p.ts) = Slope(l) * (l.end - t)
    BY <1>1, <1>2, Falls DEF OnLine
  <2>2. CASE l.end >= t
    <3>1. Slope(l) * (l.end - t) \in Nat
      BY <1>1, <2>2, Falls
    <3> QED
      BY <1>1, <2>1, <2>2, <3>1 DEF Escrow!UserPowerFrom, Escrow!AtLeastZero, Escrow!Power, Slope
  <2>3. CASE l.end < t
    <3>1. Slope(l) * (l.end - t) <= 0 /\ Slope(l) * (l.end - t) \in Int
      BY <1>1, <2>3, Falls
    <3>2. Escrow!UserPowerFrom(p, t) = 0
      BY <2>1, <3>1 DEF Escrow!UserPowerFrom, Escrow!AtLeastZero
    <3>3. Escrow!AtLeastZero(l.end - t) = 0
      BY <1>1, <2>3 DEF Escrow!AtLeastZero
    <3> QED
      BY <1>1, <3>2, <3>3 DEF Escrow!Power, Slope
  <2> QED
    BY <1>1, <2>2, <2>3
<1>3. CASE ~(l.end > p.ts)
  <2>1. p.slope = 0 /\ p.bias = 0
    BY <1>1, <1>3 DEF OnLine
  <2>2. Escrow!UserPowerFrom(p, t) = 0
    BY <1>1, <2>1 DEF Escrow!UserPowerFrom, Escrow!AtLeastZero
  <2>3. Escrow!AtLeastZero(l.end - t) = 0
    BY <1>1, <1>3 DEF Escrow!AtLeastZero
  <2> QED
    BY <1>1, <2>2, <2>3 DEF Escrow!Power, Slope
<1> QED
  BY <1>2, <1>3

(* The point that _checkpoint writes for a lock lies on the lock's line.   *)
LEMMA UserPointOnLine ==
    ASSUME NEW l \in Escrow!Locks, now \in Nat
    PROVE  OnLine(Escrow!UserPoint(l), l) /\ Escrow!UserPoint(l).ts = now
<1>1. l.end \in Nat /\ Slope(l) \in Nat /\ (l.amount = 0 => Slope(l) = 0) /\ l.amount \in Nat
  BY SlopeTyped
<1> DEFINE s == IF l.end > now /\ l.amount > 0 THEN l.amount \div MAXTIME ELSE 0
<1>2. s = IF l.end > now THEN Slope(l) ELSE 0
  BY <1>1 DEF Slope
<1>3. s \in Int /\ s * (l.end - now) \in Int
  BY <1>1, <1>2
<1>4. Escrow!UserPoint(l) = [bias |-> s * (l.end - now), slope |-> s, ts |-> now]
  BY DEF Escrow!UserPoint
<1> HIDE DEF s
<1> QED
  BY <1>2, <1>3, <1>4 DEF OnLine, Escrow!Point

(* The empty lock has no power.                                            *)
LEMMA NoLockTyped ==
    /\ Escrow!NoLock \in Escrow!Locks /\ Escrow!NoLock.amount = 0 /\ Escrow!NoLock.end = 0
    /\ Slope(Escrow!NoLock) = 0
    /\ \A t \in Nat : Escrow!Power(Escrow!NoLock, t) = 0
<1>1. /\ Escrow!NoLock \in Escrow!Locks /\ Escrow!NoLock.amount = 0
      /\ Escrow!NoLock.end = 0
  BY DEF Escrow!NoLock, Escrow!Locks
<1>2. Slope(Escrow!NoLock) = 0
  BY <1>1, SlopeTyped
<1>3. ASSUME NEW t \in Nat PROVE Escrow!Power(Escrow!NoLock, t) = 0
  <2>1. Escrow!AtLeastZero(Escrow!NoLock.end - t) = 0
    BY <1>1 DEF Escrow!AtLeastZero
  <2> QED
    BY <1>2, <2>1 DEF Escrow!Power, Slope
<1> QED
  BY <1>1, <1>2, <1>3

(* The invariant holds when the contracts are deployed.                    *)
LEMMA EscrowInit == Init => EscrowInv
<1> SUFFICES ASSUME Init PROVE EscrowInv
  OBVIOUS
<1>1. /\ now \in BlockTimes /\ epoch = 0
      /\ locked = [user \in Users |-> Escrow!NoLock]
      /\ user_point_epoch = [user \in Users |-> 0]
      /\ DOMAIN user_point_history = Users
  BY DEF Init, Escrow!Init
<1> QED
  BY <1>1, NoLockTyped DEF EscrowInv, LocksTyped, UserLines

(* After a checkpoint of a user: its new last point, those of the others.  *)
LEMMA UserFiled ==
    ASSUME LocksTyped, NEW user \in Users, NEW old, NEW new,
           Escrow!_checkpoint(user, old, new)
    PROVE  /\ user_point_epoch' \in [Users -> Nat] /\ DOMAIN user_point_history' = Users
           /\ user_point_epoch'[user] = user_point_epoch[user] + 1
           /\ user_point_history'[user] =
                [e \in 0 .. user_point_epoch[user] + 1 |->
                   IF e <= user_point_epoch[user] THEN user_point_history[user][e]
                                                  ELSE Escrow!UserPoint(new)]
           /\ user_point_history'[user][user_point_epoch'[user]] = Escrow!UserPoint(new)
           /\ \A other \in Users \ {user} :
                 /\ user_point_epoch'[other] = user_point_epoch[other]
                 /\ user_point_history'[other] = user_point_history[other]
<1> DEFINE n == user_point_epoch[user]
<1>1. n \in Nat
  BY DEF LocksTyped
<1>2. /\ user_point_epoch' = [user_point_epoch EXCEPT ![user] = n + 1]
      /\ user_point_history' =
           [user_point_history EXCEPT ![user] =
              [e \in 0 .. n + 1 |-> IF e <= n THEN user_point_history[user][e]
                                              ELSE Escrow!UserPoint(new)]]
  BY DEF Escrow!_checkpoint
<1>3. /\ user_point_epoch' \in [Users -> Nat] /\ DOMAIN user_point_history' = Users
      /\ user_point_epoch'[user] = n + 1
  BY <1>1, <1>2 DEF LocksTyped
<1>4. user_point_history'[user] =
        [e \in 0 .. n + 1 |-> IF e <= n THEN user_point_history[user][e]
                                        ELSE Escrow!UserPoint(new)]
  BY <1>2 DEF LocksTyped
<1>5. user_point_history'[user][n + 1] = Escrow!UserPoint(new)
  BY <1>1, <1>4
<1>6. \A other \in Users \ {user} :
         /\ user_point_epoch'[other] = user_point_epoch[other]
         /\ user_point_history'[other] = user_point_history[other]
  BY <1>2 DEF LocksTyped
<1> HIDE DEF n
<1> QED
  BY <1>3, <1>4, <1>5, <1>6 DEF n

(* Every call keeps the invariant.                                         *)
LEMMA EscrowStep == EscrowInv /\ [Next]_vars => EscrowInv'
<1> SUFFICES ASSUME EscrowInv, [Next]_vars PROVE EscrowInv'
  OBVIOUS
<1>0. LocksTyped /\ UserLines /\ now \in Nat
  BY ConstantsTyped DEF EscrowInv, LocksTyped
<1>1. ASSUME NEW user \in Users, NEW new \in Escrow!Locks, Relocks(user, new)
      PROVE  EscrowInv'
  <2>1. epoch' \in Nat
    BY <1>0, <1>1, FillGrows DEF Relocks, Escrow!_checkpoint
  <2>2. /\ locked' = [locked EXCEPT ![user] = new] /\ now' = now
    BY <1>1 DEF Relocks
  <2>3. locked' \in [Users -> Escrow!Locks] /\ locked'[user] = new
    BY <1>0, <2>2 DEF LocksTyped
  <2>4. /\ user_point_epoch' \in [Users -> Nat] /\ DOMAIN user_point_history' = Users
        /\ user_point_epoch'[user] = user_point_epoch[user] + 1
        /\ user_point_history'[user][user_point_epoch'[user]] = Escrow!UserPoint(new)
        /\ \A other \in Users \ {user} :
              /\ user_point_epoch'[other] = user_point_epoch[other]
              /\ user_point_history'[other] = user_point_history[other]
    BY <1>0, <1>1, UserFiled DEF Relocks
  <2>5. LocksTyped'
    BY <1>0, <2>1, <2>2, <2>3, <2>4 DEF LocksTyped
  <2>6. UserLines'
    <3> SUFFICES ASSUME NEW u \in Users
                 PROVE  /\ user_point_epoch'[u] = 0 => locked'[u] = Escrow!NoLock
                        /\ user_point_epoch'[u] > 0 =>
                              /\ OnLine(user_point_history'[u][user_point_epoch'[u]], locked'[u])
                              /\ user_point_history'[u][user_point_epoch'[u]].ts <= now'
      BY DEF UserLines, Escrow!NoLock, OnLine, Slope, Escrow!Point
    <3>1. CASE u = user
      <4>1. OnLine(Escrow!UserPoint(new), new) /\ Escrow!UserPoint(new).ts = now
        BY <1>0, UserPointOnLine
      <4>2. user_point_epoch[user] \in Nat
        BY <1>0 DEF LocksTyped
      <4> QED
        BY <1>0, <2>2, <2>3, <2>4, <3>1, <4>1, <4>2
    <3>2. CASE u # user
      BY <1>0, <2>2, <2>4, <3>2 DEF UserLines, LocksTyped
    <3> QED
      BY <3>1, <3>2
  <2> QED
    BY <2>5, <2>6 DEF EscrowInv
<1>2. CASE FillsUp
  <2>1. epoch' \in Nat
    BY <1>0, <1>2, FillGrows DEF FillsUp
  <2>2. UNCHANGED <<now, locked, user_point_epoch, user_point_history>>
    BY <1>2 DEF FillsUp
  <2>3. LocksTyped'
    BY <1>0, <2>1, <2>2 DEF LocksTyped
  <2>4. UserLines'
    BY <1>0, <2>2 DEF UserLines
  <2> QED
    BY <2>3, <2>4 DEF EscrowInv
<1>3. CASE Still
  <2>1. now <= now' /\ now' \in BlockTimes /\ now' \in Nat
    <3>1. now' \in BlockTimes
      BY <1>0, <1>3 DEF Still, LocksTyped
    <3>2. now' \in Nat
      BY <3>1, ConstantsTyped
    <3>3. now <= now'
      BY <1>0, <1>3, <3>2 DEF Still
    <3> QED
      BY <3>1, <3>2, <3>3
  <2>2. LocksTyped'
    BY <1>0, <1>3, <2>1 DEF Still, LocksTyped
  <2>3. UserLines'
    <3> SUFFICES ASSUME NEW u \in Users
                 PROVE  /\ user_point_epoch'[u] = 0 => locked'[u] = Escrow!NoLock
                        /\ user_point_epoch'[u] > 0 =>
                              /\ OnLine(user_point_history'[u][user_point_epoch'[u]], locked'[u])
                              /\ user_point_history'[u][user_point_epoch'[u]].ts <= now'
      BY DEF UserLines, Escrow!NoLock, OnLine, Slope, Escrow!Point
    <3>1. user_point_epoch[u] > 0 =>
             /\ user_point_history[u][user_point_epoch[u]].ts \in Nat
             /\ user_point_history[u][user_point_epoch[u]].ts <= now
      BY <1>0 DEF UserLines, OnLine, Escrow!Point
    <3>2. user_point_epoch[u] > 0 => user_point_history[u][user_point_epoch[u]].ts <= now'
      BY <1>0, <2>1, <3>1
    <3> QED
      BY <1>0, <1>3, <3>2 DEF Still, UserLines
  <2> QED
    BY <2>2, <2>3 DEF EscrowInv
<1>4. (\E user \in Users, new \in Escrow!Locks : Relocks(user, new)) \/ FillsUp \/ Still
  BY <1>0, LocksSwapped
<1> QED
  BY <1>1, <1>2, <1>3, <1>4

(* It holds of every behaviour.                                            *)
LEMMA EscrowInvHolds == Spec => []EscrowInv
BY EscrowInit, EscrowStep, PTL DEF Spec

(* Read off the invariant, a balance is its lock's power.                  *)
LEMMA BalanceFollows == EscrowInv => BalanceIsLockPower
<1> SUFFICES ASSUME EscrowInv, NEW user \in Users, NEW t \in now .. Horizon
             PROVE  Escrow!balanceOf(user, t) = Escrow!Power(locked[user], t)
  BY DEF BalanceIsLockPower, Escrow!BalanceIsLockPower
<1>1. /\ now \in Nat /\ Horizon \in Nat /\ locked[user] \in Escrow!Locks
      /\ user_point_epoch[user] \in Nat
  BY ConstantsTyped DEF EscrowInv, LocksTyped
<1>2. t \in Nat /\ now <= t
  BY <1>1
<1>3. CASE user_point_epoch[user] = 0
  BY <1>2, <1>3, NoLockTyped DEF EscrowInv, UserLines, Escrow!balanceOf
<1>4. CASE user_point_epoch[user] > 0
  <2> DEFINE p == user_point_history[user][user_point_epoch[user]]
  <2>1. OnLine(p, locked[user]) /\ p.ts <= now
    BY <1>4 DEF EscrowInv, UserLines
  <2>2. p.ts \in Nat
    BY <2>1 DEF OnLine, Escrow!Point
  <2>3. Escrow!balanceOf(user, t) = Escrow!UserPowerFrom(p, t)
    BY <1>4 DEF Escrow!balanceOf, Escrow!LastUserPoint
  <2> HIDE DEF p
  <2>4. p.ts <= t
    BY <1>1, <1>2, <2>1, <2>2
  <2> QED
    BY <1>1, <1>2, <2>1, <2>3, <2>4, LineIsPower
<1> QED
  BY <1>1, <1>3, <1>4

(* A balance is at every moment, and from now on, the power of the user's  *)
(* lock: _checkpoint (VotingEscrow.vy:261-318) files the right point.      *)
THEOREM BalancesFollowLocks == Spec => []BalanceIsLockPower
BY EscrowInvHolds, BalanceFollows, PTL

-----------------------------------------------------------------------------
(* Multiples of WEEK are at least WEEK apart.                              *)
LEMMA BoundsApart ==
    ASSUME NEW v \in Nat, NEW w \in Nat, IsBound(v), IsBound(w), v < w
    PROVE  v + WEEK <= w
<1>1. PICK j \in Nat, k \in Nat : v = j * WEEK /\ w = k * WEEK
  BY DEF IsBound
<1>2. WEEK \in Nat /\ WEEK > 0
  BY ConstantsTyped
<1>3. j < k
  <2>1. CASE k <= j
    <3>1. PICK d \in Nat : j = k + d
      <4>1. j - k \in Nat /\ j = k + (j - k)
        BY <2>1
      <4> QED
        BY <4>1
    <3>2. j * WEEK = k * WEEK + d * WEEK
      BY <1>2, <3>1
    <3>3. d * WEEK \in Nat /\ k * WEEK \in Nat
      BY <1>2
    <3> QED
      BY <1>1, <3>2, <3>3
  <2> QED
    BY <2>1
<1>4. PICK d \in Nat : k = j + 1 + d
  <2>1. k - j - 1 \in Nat /\ k = j + 1 + (k - j - 1)
    BY <1>3
  <2> QED
    BY <2>1
<1>5. k * WEEK = j * WEEK + WEEK + d * WEEK
  BY <1>2, <1>4
<1>6. d * WEEK \in Nat /\ j * WEEK \in Nat
  BY <1>2
<1> QED
  BY <1>1, <1>2, <1>5, <1>6

(* The bounds that a loop from moment a visits are one week apart.         *)
LEMMA BoundsOfLoop ==
    ASSUME NEW a \in Nat, NEW i \in Nat
    PROVE  /\ Escrow!Bound(a, i) \in Nat /\ IsBound(Escrow!Bound(a, i))
           /\ Escrow!Bound(a, i + 1) = Escrow!Bound(a, i) + WEEK
           /\ Escrow!Bound(a, 0) <= a /\ a < Escrow!Bound(a, 1)
<1> DEFINE q == a \div WEEK
<1>1. WEEK \in Nat /\ WEEK > 0
  BY ConstantsTyped
<1>2. /\ q \in Nat /\ Escrow!WeekOf(a) = q * WEEK /\ Escrow!WeekOf(a) <= a
      /\ a < Escrow!WeekOf(a) + WEEK
  BY WeekStarts
<1> HIDE DEF q
<1>3. q * WEEK + i * WEEK = (q + i) * WEEK /\ q + i \in Nat
  BY <1>1, <1>2
<1>4. (q + i) * WEEK \in Nat
  BY <1>1, <1>3
<1>5. (i + 1) * WEEK = i * WEEK + WEEK /\ i * WEEK \in Nat /\ q * WEEK \in Nat
  BY <1>1, <1>2
<1>6. 0 * WEEK = 0 /\ 1 * WEEK = WEEK
  BY <1>1
<1> QED
  BY <1>1, <1>2, <1>3, <1>4, <1>5, <1>6 DEF Escrow!Bound, IsBound

(* A bound up to the horizon is one of the weeks of the model.             *)
LEMMA BoundIsWeek ==
    ASSUME NEW w \in Nat, IsBound(w), w <= Horizon
    PROVE  w \in Escrow!Weeks
<1>1. PICK k \in Nat : w = k * WEEK
  BY DEF IsBound
<1>2. WEEK \in Nat /\ WEEK > 0 /\ Horizon \in Nat
  BY ConstantsTyped
<1>3. w % WEEK = 0
  <2>1. Escrow!WeekOf(w) \in Nat /\ IsBound(Escrow!WeekOf(w)) /\ Escrow!WeekOf(w) <= w
        /\ w < Escrow!WeekOf(w) + WEEK
    BY WeekStarts
  <2>2. Escrow!WeekOf(w) = w
    BY <1>2, <2>1, BoundsApart
  <2>3. w = WEEK * (w \div WEEK) + (w % WEEK) /\ (w \div WEEK) \in Nat /\ w % WEEK \in Nat
    BY <1>2
  <2>4. Escrow!WeekOf(w) = WEEK * (w \div WEEK) /\ WEEK * (w \div WEEK) \in Nat
    BY <1>2, <2>3 DEF Escrow!WeekOf
  <2> QED
    BY <2>2, <2>3, <2>4
<1> QED
  BY <1>2, <1>3 DEF Escrow!Weeks

(* The stops of a loop from a to b, a itself being stop 0.                 *)
StopsFrom(a, b, i) == IF i = 0 THEN a ELSE Escrow!Stop(a, b, i)

(* The stops of a loop that reaches b: stop i comes after stop i - 1, with *)
(* no bound strictly between the two, and the last stop is b.              *)
LEMMA StopsInOrder ==
    ASSUME NEW a \in Nat, NEW b \in Nat, a <= b, b <= Escrow!Bound(a, LOOPS),
           NEW i \in 1 .. Escrow!Turns(a, b)
    PROVE  /\ i \in Nat /\ i - 1 \in Nat
           /\ StopsFrom(a, b, i - 1) \in Nat /\ StopsFrom(a, b, i) \in Nat
           /\ StopsFrom(a, b, i - 1) <= StopsFrom(a, b, i) /\ StopsFrom(a, b, i) <= b
           /\ StopsFrom(a, b, i - 1) < Escrow!Bound(a, i) /\ a < Escrow!Bound(a, i)
           /\ Escrow!Bound(a, i) \in Nat /\ IsBound(Escrow!Bound(a, i))
           /\ \A w \in Nat : IsBound(w) /\ StopsFrom(a, b, i - 1) < w => Escrow!Bound(a, i) <= w
           /\ StopsFrom(a, b, i) = IF Escrow!Bound(a, i) > b THEN b ELSE Escrow!Bound(a, i)
           /\ i < Escrow!Turns(a, b) => Escrow!Bound(a, i) < b
           /\ StopsFrom(a, b, Escrow!Turns(a, b)) = b
<1> DEFINE n == Escrow!Turns(a, b)
<1>1. /\ n \in 1 .. LOOPS /\ LOOPS \in Nat /\ WEEK \in Nat /\ WEEK > 0
      /\ Escrow!Stop(a, b, n) = b \/ n = LOOPS
      /\ \A k \in 1 .. n - 1 : Escrow!Stop(a, b, k) # b
  BY TurnsEnd, ConstantsTyped
<1> HIDE DEF n
<1>2. i \in Nat /\ i - 1 \in Nat /\ n \in Nat /\ i >= 1 /\ i <= n
  BY <1>1 DEF n
<1>3. ASSUME NEW k \in Nat
      PROVE  /\ Escrow!Bound(a, k) \in Nat /\ IsBound(Escrow!Bound(a, k))
             /\ Escrow!Bound(a, k + 1) = Escrow!Bound(a, k) + WEEK
  BY BoundsOfLoop
<1>4. Escrow!Bound(a, 0) <= a /\ a < Escrow!Bound(a, 1)
  BY BoundsOfLoop
<1>5. ASSUME NEW k \in 1 .. n - 1
      PROVE  Escrow!Bound(a, k) < b /\ Escrow!Stop(a, b, k) = Escrow!Bound(a, k)
  <2>1. k \in Nat /\ Escrow!Bound(a, k) \in Nat
    BY <1>2, <1>3
  <2> QED
    BY <1>1, <2>1 DEF Escrow!Stop
<1>6. Escrow!Bound(a, i) = Escrow!Bound(a, i - 1) + WEEK /\ Escrow!Bound(a, i - 1) \in Nat
      /\ IsBound(Escrow!Bound(a, i - 1)) /\ IsBound(Escrow!Bound(a, i))
      /\ Escrow!Bound(a, i) \in Nat
  <2>1. i = (i - 1) + 1
    BY <1>2
  <2> QED
    BY <1>2, <1>3, <2>1
<1>7. StopsFrom(a, b, i) = IF Escrow!Bound(a, i) > b THEN b ELSE Escrow!Bound(a, i)
  BY <1>2 DEF StopsFrom, Escrow!Stop
<1>8. \/ i = 1 /\ StopsFrom(a, b, i - 1) = a
      \/ i > 1 /\ StopsFrom(a, b, i - 1) = Escrow!Bound(a, i - 1) /\ Escrow!Bound(a, i - 1) < b
  <2>1. CASE i = 1
    BY <2>1 DEF StopsFrom
  <2>2. CASE i > 1
    <3>1. i - 1 \in 1 .. n - 1
      BY <1>2, <2>2
    <3> QED
      BY <1>2, <1>5, <2>2, <3>1 DEF StopsFrom
  <2> QED
    BY <1>2, <2>1, <2>2
<1>9. /\ StopsFrom(a, b, i - 1) \in Nat
      /\ StopsFrom(a, b, i - 1) <= b
      /\ Escrow!Bound(a, i - 1) <= StopsFrom(a, b, i - 1)
      /\ StopsFrom(a, b, i - 1) < Escrow!Bound(a, i)
  BY <1>1, <1>4, <1>6, <1>8
<1>10. ASSUME NEW w \in Nat, IsBound(w), StopsFrom(a, b, i - 1) < w
       PROVE  Escrow!Bound(a, i) <= w
  BY <1>6, <1>9, <1>10, BoundsApart
<1>11. a < Escrow!Bound(a, i)
  <2>1. i * WEEK = (i - 1) * WEEK + WEEK /\ (i - 1) * WEEK \in Nat /\ 1 * WEEK = WEEK
    BY <1>1, <1>2
  <2>2. Escrow!WeekOf(a) \in Nat
    BY WeekStarts
  <2> QED
    BY <1>1, <1>4, <2>1, <2>2 DEF Escrow!Bound
<1>12. i < n => Escrow!Bound(a, i) < b
  BY <1>2, <1>5
<1>13. StopsFrom(a, b, n) = b
  <2>1. CASE n = LOOPS
    <3>1. Escrow!Bound(a, LOOPS) \in Nat
      BY <1>1, <1>3
    <3> QED
      BY <1>2, <2>1, <3>1 DEF StopsFrom, Escrow!Stop
  <2>2. CASE n # LOOPS
    BY <1>1, <1>2, <2>2 DEF StopsFrom
  <2> QED
    BY <2>1, <2>2
<1>14. StopsFrom(a, b, i) \in Nat /\ StopsFrom(a, b, i - 1) <= StopsFrom(a, b, i)
       /\ StopsFrom(a, b, i) <= b
  BY <1>6, <1>7, <1>9
<1> QED
  BY <1>2, <1>6, <1>7, <1>9, <1>10, <1>11, <1>12, <1>13, <1>14 DEF n

-----------------------------------------------------------------------------
(* The sum of the locks L, as a point of the total's history has it: the   *)
(* power they have together and the slope along which it falls.            *)

(* What a lock adds to the total: its slope while it runs, the change of   *)
(* slope at its end, and their sums over an assignment L of locks to       *)
(* users.                                                                  *)
Running(l, t) == IF l.end > t THEN Slope(l) ELSE 0
EndingAt(l, w) == IF l.end = w THEN Slope(l) ELSE 0

PowerSum(L, t) == Total([user \in Users |-> Escrow!Power(L[user], t)])
SlopeSum(L, t) == Total([user \in Users |-> Running(L[user], t)])
EndingSum(L, w) == Total([user \in Users |-> EndingAt(L[user], w)])

(* Point p is where the locks L put the total at the point's time.         *)
OnSum(p, L) ==
    /\ p \in Escrow!Point
    /\ p.bias = PowerSum(L, p.ts)
    /\ p.slope = SlopeSum(L, p.ts)

(* Assignments of locks that end on bounds, as the contract's locks do.    *)
BoundLocks == {L \in [Users -> Escrow!Locks] : \A user \in Users : IsBound(L[user].end)}

(* The terms are natural numbers, whatever the lock and the moment.        *)
LEMMA TermsTyped ==
    ASSUME NEW l \in Escrow!Locks, NEW t \in Nat
    PROVE  Escrow!Power(l, t) \in Nat /\ Running(l, t) \in Nat /\ EndingAt(l, t) \in Nat
<1>1. l.end \in Nat /\ Slope(l) \in Nat
  BY SlopeTyped
<1>2. Escrow!AtLeastZero(l.end - t) \in Nat
  BY <1>1 DEF Escrow!AtLeastZero
<1>3. Slope(l) * Escrow!AtLeastZero(l.end - t) \in Nat
  BY <1>1, <1>2
<1> QED
  BY <1>1, <1>3 DEF Escrow!Power, Running, EndingAt, Slope

(* So are their sums.                                                      *)
LEMMA SumsTyped ==
    ASSUME NEW L \in [Users -> Escrow!Locks], NEW t \in Nat
    PROVE  /\ [user \in Users |-> Escrow!Power(L[user], t)] \in [Users -> Nat]
           /\ [user \in Users |-> Running(L[user], t)] \in [Users -> Nat]
           /\ [user \in Users |-> EndingAt(L[user], t)] \in [Users -> Nat]
           /\ PowerSum(L, t) \in Nat /\ SlopeSum(L, t) \in Nat /\ EndingSum(L, t) \in Nat
<1>1. \A user \in Users : /\ Escrow!Power(L[user], t) \in Nat /\ Running(L[user], t) \in Nat
                          /\ EndingAt(L[user], t) \in Nat
  BY TermsTyped
<1>2. /\ [user \in Users |-> Escrow!Power(L[user], t)] \in [Users -> Nat]
      /\ [user \in Users |-> Running(L[user], t)] \in [Users -> Nat]
      /\ [user \in Users |-> EndingAt(L[user], t)] \in [Users -> Nat]
  BY <1>1
<1> QED
  BY <1>2, TotalNat, ConstantsTyped DEF PowerSum, SlopeSum, EndingSum

(* One lock over a time in which it does not end.                          *)
LEMMA LockFalls ==
    ASSUME NEW l \in Escrow!Locks, NEW s \in Nat, NEW t \in Nat, s <= t,
           l.end > s => l.end >= t
    PROVE  Escrow!Power(l, s) = Escrow!Power(l, t) + (t - s) * Running(l, s)
<1>1. l.end \in Nat /\ Slope(l) \in Nat
  BY SlopeTyped
<1>2. CASE l.end > s
  <2>1. Slope(l) * (l.end - s) = Slope(l) * (l.end - t) + (t - s) * Slope(l)
    BY <1>1
  <2> QED
    BY <1>1, <1>2, <2>1 DEF Escrow!Power, Running, Slope, Escrow!AtLeastZero
<1>3. CASE ~(l.end > s)
  <2>1. Escrow!AtLeastZero(l.end - s) = 0 /\ Escrow!AtLeastZero(l.end - t) = 0
    BY <1>1, <1>3 DEF Escrow!AtLeastZero
  <2>2. Slope(l) * 0 = 0 /\ (t - s) * 0 = 0
    BY <1>1
  <2> QED
    BY <1>1, <1>3, <2>1, <2>2 DEF Escrow!Power, Running, Slope
<1> QED
  BY <1>2, <1>3

(* All locks over a time in which none ends.                               *)
LEMMA SumFalls ==
    ASSUME NEW L \in [Users -> Escrow!Locks], NEW s \in Nat, NEW t \in Nat, s <= t,
           \A user \in Users : L[user].end > s => L[user].end >= t
    PROVE  PowerSum(L, s) = PowerSum(L, t) + (t - s) * SlopeSum(L, s)
<1> DEFINE f == [user \in Users |-> Escrow!Power(L[user], t)]
           g == [user \in Users |-> Running(L[user], s)]
           h == [user \in Users |-> Escrow!Power(L[user], s)]
           k == [user \in Users |-> (t - s) * g[user]]
<1>1. /\ f \in [Users -> Nat] /\ g \in [Users -> Nat] /\ h \in [Users -> Nat]
      /\ IsFiniteSet(Users) /\ t - s \in Nat
  BY SumsTyped, ConstantsTyped
<1>2. \A user \in Users : h[user] = f[user] + k[user]
  BY LockFalls
<1>3. Total(k) = (t - s) * Total(g)
  <2> HIDE DEF g
  <2> QED
    BY <1>1, TotalTimes
<1>4. k \in [Users -> Nat]
  <2> HIDE DEF g
  <2> QED
    BY <1>1
<1>5. Total(h) = Total(f) + Total(k)
  <2> HIDE DEF f, g, h, k
  <2> QED
    BY <1>1, <1>2, <1>4, TotalPlus
<1> QED
  BY <1>3, <1>5 DEF PowerSum, SlopeSum

(* The slope loses what ends at w, when nothing ends between s and w.      *)
LEMMA SlopeDrops ==
    ASSUME NEW L \in [Users -> Escrow!Locks], NEW s \in Nat, NEW w \in Nat, s < w,
           \A user \in Users : L[user].end > s => L[user].end >= w
    PROVE  SlopeSum(L, s) = SlopeSum(L, w) + EndingSum(L, w)
<1> DEFINE f == [user \in Users |-> Running(L[user], w)]
           g == [user \in Users |-> EndingAt(L[user], w)]
           h == [user \in Users |-> Running(L[user], s)]
<1>1. f \in [Users -> Nat] /\ g \in [Users -> Nat] /\ h \in [Users -> Nat] /\ IsFiniteSet(Users)
  BY SumsTyped, ConstantsTyped
<1>2. ASSUME NEW user \in Users PROVE h[user] = f[user] + g[user]
  <2>1. L[user].end \in Nat /\ Slope(L[user]) \in Nat
    BY SlopeTyped
  <2> QED
    BY <2>1 DEF Running, EndingAt
<1>3. Total(h) = Total(f) + Total(g)
  <2> HIDE DEF f, g, h
  <2> QED
    BY <1>1, <1>2, TotalPlus
<1> QED
  BY <1>3 DEF SlopeSum, EndingSum

(* While no lock ends the slope of the total stays.                        *)
LEMMA SlopeStays ==
    ASSUME NEW L \in [Users -> Escrow!Locks], NEW s \in Nat, NEW t \in Nat, s <= t,
           \A user \in Users : L[user].end > s => L[user].end > t
    PROVE  SlopeSum(L, s) = SlopeSum(L, t)
<1>1. ASSUME NEW user \in Users PROVE Running(L[user], s) = Running(L[user], t)
  <2>1. L[user].end \in Nat
    BY SlopeTyped
  <2> QED
    BY <2>1 DEF Running
<1>2. [user \in Users |-> Running(L[user], s)] = [user \in Users |-> Running(L[user], t)]
  BY <1>1
<1> QED
  BY <1>2 DEF SlopeSum

(* One turn of a loop keeps a point on the sum, and clamps nothing.        *)
LEMMA TurnOnSum ==
    ASSUME NEW L \in [Users -> Escrow!Locks], NEW p, OnSum(p, L), NEW t \in Nat, p.ts <= t,
           \A user \in Users : L[user].end > p.ts => L[user].end >= t,
           NEW d, d = SlopeSum(L, t) - SlopeSum(L, p.ts)
    PROVE  /\ OnSum(Escrow!Glide(p, t, d), L) /\ Escrow!Glide(p, t, d).ts = t
           /\ OnSum(Escrow!Advance(p, t, d), L) /\ Escrow!Advance(p, t, d).ts = t
<1>1. /\ p.ts \in Nat /\ p.bias = PowerSum(L, p.ts) /\ p.slope = SlopeSum(L, p.ts)
      /\ p \in Escrow!Point
  BY DEF OnSum, Escrow!Point
<1>2. /\ PowerSum(L, p.ts) \in Nat /\ SlopeSum(L, p.ts) \in Nat
      /\ PowerSum(L, t) \in Nat /\ SlopeSum(L, t) \in Nat
  BY <1>1, SumsTyped
<1>3. PowerSum(L, p.ts) = PowerSum(L, t) + (t - p.ts) * SlopeSum(L, p.ts)
  BY <1>1, SumFalls
<1>4. /\ p.bias - p.slope * (t - p.ts) = PowerSum(L, t)
      /\ p.slope + d = SlopeSum(L, t)
  BY <1>1, <1>2, <1>3
<1>5. Escrow!Glide(p, t, d) = [bias |-> PowerSum(L, t), slope |-> SlopeSum(L, t), ts |-> t]
  BY <1>4 DEF Escrow!Glide
<1>6. OnSum(Escrow!Glide(p, t, d), L) /\ Escrow!Glide(p, t, d).ts = t
  BY <1>2, <1>5 DEF OnSum, Escrow!Point
<1>7. /\ Escrow!AtLeastZero(PowerSum(L, t)) = PowerSum(L, t)
      /\ Escrow!AtLeastZero(SlopeSum(L, t)) = SlopeSum(L, t)
  BY <1>2 DEF Escrow!AtLeastZero
<1>8. OnSum(Escrow!Advance(p, t, d), L) /\ Escrow!Advance(p, t, d).ts = t
  <2>1. PICK b, c : b = PowerSum(L, t) /\ c = SlopeSum(L, t)
    OBVIOUS
  <2>2. PICK g : g = Escrow!Glide(p, t, d)
    OBVIOUS
  <2>3. g = [bias |-> b, slope |-> c, ts |-> t]
    BY <1>5, <2>1, <2>2
  <2>4. Escrow!AtLeastZero(g.bias) = b /\ Escrow!AtLeastZero(g.slope) = c
    BY <1>7, <2>1, <2>3
  <2>5. Escrow!Advance(p, t, d) = [g EXCEPT !.bias = b, !.slope = c]
    BY <2>2, <2>4 DEF Escrow!Advance
  <2>6. PICK x : x = [g EXCEPT !.bias = b, !.slope = c]
    OBVIOUS
  <2>7. g \in Escrow!Point /\ b \in Int /\ c \in Int
    BY <1>2, <2>1, <2>3 DEF Escrow!Point
  <2>8. x \in Escrow!Point /\ x.bias = b /\ x.slope = c /\ x.ts = t
    BY <2>3, <2>6, <2>7 DEF Escrow!Point
  <2> QED
    BY <2>1, <2>5, <2>6, <2>8 DEF OnSum
<1> QED
  BY <1>6, <1>8

-----------------------------------------------------------------------------
(* The loops over weeks, by which _checkpoint and supply_at go on from a   *)
(* point on the sum of the locks L, along the scheduled changes of slope.  *)

(* A function over 0 .. n may be defined step by step, in the set S from p. *)
Steps(S, n, step) == step \in [1 .. n -> [S -> S]]

Follows(f, S, p, n, step) ==
    /\ f \in [0 .. n -> S]
    /\ f[0] = p
    /\ \A i \in 1 .. n : f[i] = step[i][f[i - 1]]

(* A table filled from one entry to the next is a function.                *)
LEMMA StepByStep ==
    ASSUME NEW S, NEW p \in S, NEW n \in Nat, NEW step, Steps(S, n, step)
    PROVE  \E f : Follows(f, S, p, n, step)
<1> USE DEF Steps, Follows
<1> DEFINE Bad == {m \in 0 .. n : ~\E f : Follows(f, S, p, m, step)}
<1>1. CASE Bad = {}
  <2>1. PICK f : Follows(f, S, p, n, step)
    BY <1>1
  <2> QED
    BY <2>1
<1>2. CASE Bad # {}
  <2>1. Bad \subseteq Nat
    OBVIOUS
  <2>2. PICK m \in Bad : \A k \in Bad : m <= k
    <3> HIDE DEF Bad
    <3> QED
      BY <1>2, <2>1, Smallest
  <2>3. m \in 0 .. n /\ ~\E f : Follows(f, S, p, m, step)
    BY <2>2
  <2>4. CASE m = 0
    <3> DEFINE f == [i \in 0 .. 0 |-> p]
    <3>1. Follows(f, S, p, 0, step)
      OBVIOUS
    <3> QED
      BY <2>3, <2>4, <3>1
  <2>5. CASE m > 0
    <3>1. m - 1 \in 0 .. n /\ m - 1 \notin Bad
      <4>1. m \in Nat /\ m - 1 \in 0 .. n /\ ~(m <= m - 1)
        BY <2>3, <2>5
      <4> HIDE DEF Bad
      <4> QED
        BY <2>2, <4>1
    <3>2. PICK f : Follows(f, S, p, m - 1, step)
      BY <3>1
    <3>3. f[m - 1] \in S
      BY <2>3, <2>5, <3>2
    <3> DEFINE g == [i \in 0 .. m |-> IF i < m THEN f[i] ELSE step[m][f[m - 1]]]
    <3>4. step[m][f[m - 1]] \in S
      BY <2>3, <2>5, <3>3
    <3>5. g \in [0 .. m -> S]
      <4>1. \A i \in 0 .. m : i < m => f[i] \in S
        BY <2>3, <2>5, <3>2
      <4> QED
        BY <3>4, <4>1
    <3>6. g[0] = p
      BY <2>3, <2>5, <3>2
    <3>7. ASSUME NEW i \in 1 .. m PROVE g[i] = step[i][g[i - 1]]
      <4>1. CASE i < m
        <5>1. i \in 1 .. m - 1 /\ i \in 0 .. m /\ i - 1 \in 0 .. m /\ i - 1 < m
          BY <2>3, <2>5, <4>1
        <5>2. g[i] = f[i] /\ g[i - 1] = f[i - 1]
          BY <4>1, <5>1
        <5> QED
          BY <3>2, <5>1, <5>2
      <4>2. CASE i = m
        <5>1. m \in 0 .. m /\ m - 1 \in 0 .. m /\ m - 1 < m /\ ~(m < m)
          BY <2>3, <2>5
        <5> QED
          BY <4>2, <5>1
      <4> QED
        BY <2>3, <2>5, <4>1, <4>2
    <3> HIDE DEF g
    <3>8. Follows(g, S, p, m, step)
      BY <3>5, <3>6, <3>7
    <3> QED
      BY <2>3, <3>8
  <2> QED
    BY <2>3, <2>4, <2>5
<1> QED
  BY <1>1, <1>2

(* What holds at the start and after each turn holds throughout.           *)
LEMMA StaysIn ==
    ASSUME NEW S, NEW n \in Nat, NEW f, f[0] \in S,
           \A i \in 1 .. n : f[i - 1] \in S => f[i] \in S
    PROVE  \A i \in 0 .. n : f[i] \in S
<1> DEFINE Bad == {i \in 0 .. n : f[i] \notin S}
<1>1. Bad \subseteq Nat
  OBVIOUS
<1>2. CASE Bad # {}
  <2>1. PICK m \in Bad : \A k \in Bad : m <= k
    <3> HIDE DEF Bad
    <3> QED
      BY <1>1, <1>2, Smallest
  <2>2. m \in 1 .. n /\ m - 1 \in 0 .. n /\ m - 1 \notin Bad
    BY <2>1
  <2> QED
    BY <2>1, <2>2
<1> QED
  BY <1>2

(* The slope changes scheduled between a and b are those of the locks L.   *)
Foreseen(L, a, b) ==
    \A w \in Escrow!Weeks : a < w /\ w <= b => slope_changes[w] = - EndingSum(L, w)

(* What the loops add to the slope at a turn is what ends there.           *)
LEMMA TurnChange ==
    ASSUME NEW L \in BoundLocks, NEW a \in Nat, NEW b \in Nat, a <= b, b <= Horizon,
           b <= Escrow!Bound(a, LOOPS), Foreseen(L, a, b),
           NEW i \in 1 .. Escrow!Turns(a, b)
    PROVE  /\ \A user \in Users :
                 L[user].end > StopsFrom(a, b, i - 1) => L[user].end >= StopsFrom(a, b, i)
           /\ Escrow!SlopeChange(a, b, i) =
                SlopeSum(L, StopsFrom(a, b, i)) - SlopeSum(L, StopsFrom(a, b, i - 1))
<1> DEFINE s == StopsFrom(a, b, i - 1)
           t == StopsFrom(a, b, i)
           w == Escrow!Bound(a, i)
<1>1. /\ s \in Nat /\ t \in Nat /\ s <= t /\ t <= b /\ s < w /\ a < w /\ w \in Nat /\ IsBound(w)
      /\ \A v \in Nat : IsBound(v) /\ s < v => w <= v
      /\ t = IF w > b THEN b ELSE w
  BY StopsInOrder
<1>2. Escrow!SlopeChange(a, b, i) = IF w > b THEN 0 ELSE slope_changes[w]
  BY DEF Escrow!SlopeChange
<1> HIDE DEF s, t, w
<1>3. L \in [Users -> Escrow!Locks] /\ \A user \in Users : IsBound(L[user].end)
  BY DEF BoundLocks
<1>4. \A user \in Users : L[user].end > s => L[user].end >= w
  BY <1>1, <1>3, SlopeTyped
<1>5. ASSUME NEW user \in Users, L[user].end > s PROVE L[user].end >= t
  <2>1. L[user].end \in Nat
    BY <1>3, SlopeTyped
  <2> QED
    BY <1>1, <1>4, <1>5, <2>1
<1>6. SlopeSum(L, s) \in Nat /\ SlopeSum(L, t) \in Nat
  BY <1>1, <1>3, SumsTyped
<1>7. CASE w > b
  <2>1. ASSUME NEW user \in Users, L[user].end > s PROVE L[user].end > t
    <3>1. L[user].end \in Nat
      BY <1>3, SlopeTyped
    <3> QED
      BY <1>1, <1>4, <1>7, <2>1, <3>1
  <2>2. SlopeSum(L, s) = SlopeSum(L, t)
    BY <1>1, <1>3, <2>1, SlopeStays
  <2>3. Escrow!SlopeChange(a, b, i) = SlopeSum(L, t) - SlopeSum(L, s)
    BY <1>2, <1>6, <1>7, <2>2
  <2> QED
    BY <1>5, <2>3 DEF s, t
<1>8. CASE ~(w > b)
  <2>1. w <= b /\ w <= Horizon /\ t = w
    BY <1>1, <1>8, ConstantsTyped
  <2>2. w \in Escrow!Weeks
    BY <1>1, <2>1, BoundIsWeek
  <2>3. slope_changes[w] = - EndingSum(L, w)
    BY <1>1, <2>1, <2>2 DEF Foreseen
  <2>4. SlopeSum(L, s) = SlopeSum(L, w) + EndingSum(L, w)
    BY <1>1, <1>3, <1>4, SlopeDrops
  <2>5. EndingSum(L, w) \in Nat
    BY <1>1, <1>3, SumsTyped
  <2>6. Escrow!SlopeChange(a, b, i) = SlopeSum(L, t) - SlopeSum(L, s)
    BY <1>2, <1>6, <1>8, <2>1, <2>3, <2>4, <2>5
  <2> QED
    BY <1>5, <2>6 DEF s, t
<1> QED
  BY <1>7, <1>8

(* Every point a loop passes is on the sum.                                *)
LEMMA LoopOnSum ==
    ASSUME NEW L \in BoundLocks, NEW p, OnSum(p, L), NEW b \in Nat, p.ts <= b, b <= Horizon,
           b <= Escrow!Bound(p.ts, LOOPS), Foreseen(L, p.ts, b),
           NEW f, f[0] = p,
           \A i \in 1 .. Escrow!Turns(p.ts, b) :
              LET t == Escrow!Stop(p.ts, b, i)
                  d == Escrow!SlopeChange(p.ts, b, i)
              IN  f[i] = Escrow!Glide(f[i - 1], t, d) \/ f[i] = Escrow!Advance(f[i - 1], t, d)
    PROVE  \A i \in 0 .. Escrow!Turns(p.ts, b) :
              OnSum(f[i], L) /\ f[i].ts = StopsFrom(p.ts, b, i)
<1> DEFINE n == Escrow!Turns(p.ts, b)
           Good(i) == OnSum(f[i], L) /\ f[i].ts = StopsFrom(p.ts, b, i)
           Bad == {i \in 0 .. n : ~Good(i)}
<1>0. p.ts \in Nat
  BY DEF OnSum, Escrow!Point
<1>1. n \in Nat
  BY TurnsEnd, ConstantsTyped
<1>2. Good(0)
  BY <1>0 DEF StopsFrom
<1>3. ASSUME NEW i \in 1 .. n, Good(i - 1) PROVE Good(i)
  <2> DEFINE s == StopsFrom(p.ts, b, i - 1)
             t == StopsFrom(p.ts, b, i)
             d == Escrow!SlopeChange(p.ts, b, i)
  <2>1. s \in Nat /\ t \in Nat /\ s <= t /\ t = Escrow!Stop(p.ts, b, i)
    BY <1>0, <1>1, StopsInOrder DEF StopsFrom
  <2>2. /\ \A user \in Users : L[user].end > s => L[user].end >= t
        /\ d = SlopeSum(L, t) - SlopeSum(L, s)
    BY <1>0, TurnChange
  <2>3. OnSum(f[i - 1], L) /\ f[i - 1].ts = s
    BY <1>3
  <2>4. f[i] = Escrow!Glide(f[i - 1], t, d) \/ f[i] = Escrow!Advance(f[i - 1], t, d)
    BY <2>1
  <2>5. L \in [Users -> Escrow!Locks]
    BY DEF BoundLocks
  <2> HIDE DEF s, t, d
  <2>6. /\ OnSum(Escrow!Glide(f[i - 1], t, d), L) /\ Escrow!Glide(f[i - 1], t, d).ts = t
        /\ OnSum(Escrow!Advance(f[i - 1], t, d), L) /\ Escrow!Advance(f[i - 1], t, d).ts = t
    BY <2>1, <2>2, <2>3, <2>5, TurnOnSum
  <2> QED
    BY <2>4, <2>6 DEF t
<1> HIDE DEF Good, n
<1>4. CASE Bad # {}
  <2>1. Bad \subseteq Nat
    BY <1>1
  <2>2. PICK m \in Bad : \A k \in Bad : m <= k
    <3> HIDE DEF Bad
    <3> QED
      BY <1>4, <2>1, Smallest
  <2>3. m \in 0 .. n /\ ~Good(m) /\ m # 0
    BY <1>2, <2>2
  <2>4. m \in 1 .. n /\ m - 1 \in 0 .. n /\ m - 1 \notin Bad
    BY <1>1, <2>1, <2>2, <2>3
  <2> QED
    BY <1>3, <2>3, <2>4
<1> QED
  BY <1>4 DEF Good, n

(* A turn of the escrow's loops leads from a point to a point.             *)
LEMMA GlideTyped ==
    ASSUME NEW q \in Escrow!Point, NEW t \in Nat, NEW d \in Int
    PROVE  Escrow!Glide(q, t, d) \in Escrow!Point /\ Escrow!Advance(q, t, d) \in Escrow!Point
<1> DEFINE g == Escrow!Glide(q, t, d)
<1>1. q.bias \in Int /\ q.slope \in Int /\ q.ts \in Nat
  BY DEF Escrow!Point
<1>2. q.bias - q.slope * (t - q.ts) \in Int /\ q.slope + d \in Int
  BY <1>1
<1>3. g \in Escrow!Point
  BY <1>2 DEF Escrow!Glide, Escrow!Point
<1>4. Escrow!Advance(q, t, d) = [g EXCEPT !.bias = Escrow!AtLeastZero(g.bias),
                                          !.slope = Escrow!AtLeastZero(g.slope)]
  BY DEF Escrow!Advance, g
<1> HIDE DEF g
<1>5. g.bias \in Int /\ g.slope \in Int
  BY <1>3 DEF Escrow!Point
<1>6. Escrow!AtLeastZero(g.bias) \in Int /\ Escrow!AtLeastZero(g.slope) \in Int
  BY <1>5 DEF Escrow!AtLeastZero
<1>7. Escrow!Advance(q, t, d) \in Escrow!Point
  BY <1>3, <1>4, <1>6 DEF Escrow!Point
<1> QED
  BY <1>3, <1>7 DEF g

(* So does a turn with the stop and the slope change that the loops use.   *)
LEMMA TurnTyped ==
    ASSUME slope_changes \in [Escrow!Weeks -> Int],
           NEW a \in Nat, NEW b \in Nat, b <= Horizon, NEW i \in Nat, NEW q \in Escrow!Point
    PROVE  /\ Escrow!Glide(q, Escrow!Stop(a, b, i), Escrow!SlopeChange(a, b, i)) \in Escrow!Point
           /\ Escrow!Advance(q, Escrow!Stop(a, b, i), Escrow!SlopeChange(a, b, i))
                 \in Escrow!Point
<1>1. /\ Escrow!Bound(a, i) \in Nat /\ IsBound(Escrow!Bound(a, i)) /\ Horizon \in Nat
  BY BoundsOfLoop, ConstantsTyped
<1>2. Escrow!Stop(a, b, i) \in Nat
  BY <1>1 DEF Escrow!Stop
<1>3. Escrow!SlopeChange(a, b, i) \in Int
  <2>1. CASE Escrow!Bound(a, i) > b
    BY <2>1 DEF Escrow!SlopeChange
  <2>2. CASE ~(Escrow!Bound(a, i) > b)
    <3>1. Escrow!Bound(a, i) \in Escrow!Weeks
      BY <1>1, <2>2, BoundIsWeek
    <3> QED
      BY <2>2, <3>1 DEF Escrow!SlopeChange
  <2> QED
    BY <2>1, <2>2
<1> QED
  BY <1>2, <1>3, GlideTyped

(* What supply_at reads off a point is the sum of the locks' powers.       *)
LEMMA SupplyAtSum ==
    ASSUME NEW L \in BoundLocks, NEW p, OnSum(p, L), NEW t \in Nat, p.ts <= t, t <= Horizon,
           t <= Escrow!Bound(p.ts, LOOPS), Foreseen(L, p.ts, t),
           slope_changes \in [Escrow!Weeks -> Int]
    PROVE  Escrow!supply_at(p, t) = PowerSum(L, t)
<1> DEFINE n == Escrow!Turns(p.ts, t)
           Turn(q, i) == Escrow!Glide(q, Escrow!Stop(p.ts, t, i), Escrow!SlopeChange(p.ts, t, i))
           step == [i \in 1 .. n |-> [x \in Escrow!Point |-> Turn(x, i)]]
           g == CHOOSE h : h = [i \in 0 .. n |-> IF i = 0 THEN p ELSE Turn(h[i - 1], i)]
<1>1. p \in Escrow!Point /\ p.ts \in Nat
  BY DEF OnSum, Escrow!Point
<1>2. n \in Nat /\ n >= 1
  BY TurnsEnd, ConstantsTyped
<1>3. ASSUME NEW q \in Escrow!Point, NEW i \in 1 .. n PROVE Turn(q, i) \in Escrow!Point
  <2>1. i \in Nat
    BY <1>2
  <2> QED
    BY <1>1, <2>1, TurnTyped
<1>4. Escrow!supply_at(p, t) = Escrow!AtLeastZero(g[n].bias)
  BY DEF Escrow!supply_at
<1> HIDE DEF n, Turn
<1>5. \A x \in Escrow!Point, i \in 1 .. n :
         step[i][x] = Turn(x, i)
  OBVIOUS
<1>6. PICK f \in [0 .. n -> Escrow!Point] :
         f[0] = p /\ \A i \in 1 .. n : f[i] = step[i][f[i - 1]]
  <2>1. step \in [1 .. n -> [Escrow!Point -> Escrow!Point]]
    BY <1>3
  <2>2. Steps(Escrow!Point, n, step)
    BY <2>1 DEF Steps
  <2> HIDE DEF step
  <2>3. \E f : Follows(f, Escrow!Point, p, n, step)
    BY <1>1, <1>2, <2>2, StepByStep
  <2> QED
    BY <2>3 DEF Follows
<1> HIDE DEF step
<1>7. \A i \in 0 .. n : f[i] = IF i = 0 THEN p ELSE Turn(f[i - 1], i)
  <2>1. ASSUME NEW i \in 0 .. n, i # 0 PROVE f[i] = Turn(f[i - 1], i)
    <3>1. i \in 1 .. n /\ i - 1 \in 0 .. n
      BY <1>2, <2>1
    <3> QED
      BY <1>5, <1>6, <3>1
  <2> QED
    BY <1>6, <2>1
<1>8. f = [i \in 0 .. n |-> IF i = 0 THEN p ELSE Turn(f[i - 1], i)]
  <2>1. f = [i \in 0 .. n |-> f[i]]
    BY <1>6
  <2> QED
    BY <1>7, <2>1
<1>9. g = [i \in 0 .. n |-> IF i = 0 THEN p ELSE Turn(g[i - 1], i)]
  BY <1>8
<1> HIDE DEF g
<1>10. /\ g[0] = p
       /\ \A i \in 1 .. n : g[i] = Turn(g[i - 1], i)
  BY <1>2, <1>9
<1>11. OnSum(g[n], L) /\ g[n].ts = StopsFrom(p.ts, t, n)
  BY <1>1, <1>2, <1>10, LoopOnSum DEF n, Turn
<1>12. StopsFrom(p.ts, t, n) = t
  BY <1>1, <1>2, StopsInOrder DEF n
<1>13. g[n].bias = PowerSum(L, t) /\ PowerSum(L, t) \in Nat
  BY <1>11, <1>12, SumsTyped DEF OnSum, BoundLocks
<1> QED
  BY <1>4, <1>13 DEF Escrow!AtLeastZero

(* The points that _checkpoint passes, up to now, turn by turn.             *)
LEMMA WalkSteps ==
    ASSUME slope_changes \in [Escrow!Weeks -> Int], now \in Nat, now <= Horizon,
           Escrow!LastPoint \in Escrow!Point
    PROVE  LET a == Escrow!LastPoint.ts
               n == Escrow!Turns(a, now)
           IN  /\ Escrow!Walk[0] = Escrow!LastPoint
               /\ \A i \in 1 .. n :
                     Escrow!Walk[i] = Escrow!Advance(Escrow!Walk[i - 1], Escrow!Stop(a, now, i),
                                                     Escrow!SlopeChange(a, now, i))
               /\ \A i \in 0 .. n : Escrow!Walk[i] \in Escrow!Point
<1> DEFINE p == Escrow!LastPoint
           n == Escrow!Turns(p.ts, now)
           Turn(q, i) == Escrow!Advance(q, Escrow!Stop(p.ts, now, i),
                                        Escrow!SlopeChange(p.ts, now, i))
           step == [i \in 1 .. n |-> [x \in Escrow!Point |-> Turn(x, i)]]
           g == CHOOSE h : h = [i \in 0 .. n |-> IF i = 0 THEN p ELSE Turn(h[i - 1], i)]
<1>1. p \in Escrow!Point /\ p.ts \in Nat
  BY DEF Escrow!Point
<1>2. n \in Nat /\ n >= 1
  BY TurnsEnd, ConstantsTyped
<1>3. ASSUME NEW q \in Escrow!Point, NEW i \in 1 .. n PROVE Turn(q, i) \in Escrow!Point
  <2>1. i \in Nat
    BY <1>2
  <2> QED
    BY <1>1, <2>1, TurnTyped
<1>4. Escrow!Walk = g
  BY DEF Escrow!Walk
<1> HIDE DEF n, Turn
<1>5. \A x \in Escrow!Point, i \in 1 .. n :
         step[i][x] = Turn(x, i)
  OBVIOUS
<1>6. PICK f \in [0 .. n -> Escrow!Point] :
         f[0] = p /\ \A i \in 1 .. n : f[i] = step[i][f[i - 1]]
  <2>1. step \in [1 .. n -> [Escrow!Point -> Escrow!Point]]
    BY <1>3
  <2>2. Steps(Escrow!Point, n, step)
    BY <2>1 DEF Steps
  <2> HIDE DEF step
  <2>3. \E f : Follows(f, Escrow!Point, p, n, step)
    BY <1>1, <1>2, <2>2, StepByStep
  <2> QED
    BY <2>3 DEF Follows
<1> HIDE DEF step
<1>7. \A i \in 0 .. n : f[i] = IF i = 0 THEN p ELSE Turn(f[i - 1], i)
  <2>1. ASSUME NEW i \in 0 .. n, i # 0 PROVE f[i] = Turn(f[i - 1], i)
    <3>1. i \in 1 .. n /\ i - 1 \in 0 .. n
      BY <1>2, <2>1
    <3> QED
      BY <1>5, <1>6, <3>1
  <2> QED
    BY <1>6, <2>1
<1>8. f = [i \in 0 .. n |-> IF i = 0 THEN p ELSE Turn(f[i - 1], i)]
  <2>1. f = [i \in 0 .. n |-> f[i]]
    BY <1>6
  <2> QED
    BY <1>7, <2>1
<1>9. g = [i \in 0 .. n |-> IF i = 0 THEN p ELSE Turn(g[i - 1], i)]
  BY <1>8
<1> HIDE DEF g
<1>10. /\ g[0] = p
       /\ \A i \in 1 .. n : g[i] = Turn(g[i - 1], i)
  BY <1>2, <1>9
<1>11. \A i \in 0 .. n : g[i] \in Escrow!Point
  <2>1. \A i \in 1 .. n : g[i - 1] \in Escrow!Point => g[i] \in Escrow!Point
    BY <1>3, <1>10
  <2> QED
    BY <1>1, <1>2, <1>10, <2>1, StaysIn
<1> QED
  BY <1>4, <1>10, <1>11 DEF n, Turn

(* They are on the sum.                                                    *)
LEMMA WalkOnSum ==
    ASSUME NEW L \in BoundLocks, OnSum(Escrow!LastPoint, L),
           slope_changes \in [Escrow!Weeks -> Int],
           now \in Nat, now <= Horizon, Escrow!LastPoint.ts <= now,
           now <= Escrow!Bound(Escrow!LastPoint.ts, LOOPS),
           Foreseen(L, Escrow!LastPoint.ts, now)
    PROVE  \A i \in 0 .. Escrow!Turns(Escrow!LastPoint.ts, now) :
              /\ OnSum(Escrow!Walk[i], L)
              /\ Escrow!Walk[i].ts = StopsFrom(Escrow!LastPoint.ts, now, i)
<1>1. Escrow!LastPoint \in Escrow!Point
  BY DEF OnSum
<1> QED
  BY <1>1, WalkSteps, LoopOnSum

-----------------------------------------------------------------------------
(* The total's history.  At moment t a user's history, by its last point   *)
(* not after t, gives the user the power of lock l; without such a point   *)
(* it gives none.                                                          *)
UserExplained(user, l, t) ==
    \E e \in 0 .. user_point_epoch[user] :
        /\ \/ e = 0
           \/ user_point_history[user][e].ts \in Nat /\ user_point_history[user][e].ts <= t
        /\ \A f \in e + 1 .. user_point_epoch[user] :
              user_point_history[user][f].ts \in Nat /\ user_point_history[user][f].ts > t
        /\ IF e = 0 THEN Escrow!Power(l, t) = 0
           ELSE Escrow!UserPowerFrom(user_point_history[user][e], t) = Escrow!Power(l, t)

(* The line from point p reaches the sum at t: no lock ends on the way.    *)
Straight(p, L, t) == p.bias - p.slope * (t - p.ts) = PowerSum(L, t)

(* The total's history gives, at moment t, the sum of the powers of the    *)
(* locks L: its last point not after t is on their sum, and until t the    *)
(* changes of slope are those of their ends.                               *)
TotalExplained(L, t) ==
    \E e \in 0 .. epoch :
        /\ point_history[e].ts <= t
        /\ \A f \in e + 1 .. epoch : point_history[f].ts \in Nat /\ point_history[f].ts > t
        /\ t <= Escrow!Bound(point_history[e].ts, LOOPS)
        /\ OnSum(point_history[e], L)
        /\ Foreseen(L, point_history[e].ts, t)
        /\ t < point_history[epoch].ts => Straight(point_history[e], L, t)

(* One assignment of locks accounts for all that is read of moment t.      *)
Explained(t) ==
    \E L \in BoundLocks :
        /\ TotalExplained(L, t)
        /\ \A user \in Users : UserExplained(user, L[user], t)

(* The moment of the last checkpoint.                                      *)
LastTime == point_history[epoch].ts

(* The last point is on the sum of the locks there are, the slope changes  *)
(* to come are those of their ends, and each moment before it is explained.*)
SumInv ==
    /\ locked \in BoundLocks
    /\ \A user \in Users : locked[user] = Escrow!NoLock \/ locked[user].amount > 0
    /\ epoch = 0 => \A user \in Users : locked[user] = Escrow!NoLock
    /\ OnSum(point_history[epoch], locked)
    /\ LastTime <= now
    /\ point_history[0].ts \in Nat
    /\ slope_changes \in [Escrow!Weeks -> Int]
    /\ Foreseen(locked, LastTime, Horizon)
    /\ \A user \in Users :
          user_point_epoch[user] > 0 =>
             user_point_history[user][user_point_epoch[user]].ts <= LastTime
    /\ \A t \in point_history[0].ts .. LastTime - 1 : Explained(t)

(* No silence is longer than the loops reach, as a comment expects of the  *)
(* protocol's users (VotingEscrow.vy:294).                                 *)
Attended == now <= Escrow!Bound(LastTime, LOOPS)

(* Where nobody has a lock the sums are zero.                              *)
LEMMA NoLocksSum ==
    ASSUME NEW L, L \in [Users -> {Escrow!NoLock}], NEW t \in Nat
    PROVE  /\ L \in BoundLocks
           /\ PowerSum(L, t) = 0 /\ SlopeSum(L, t) = 0 /\ EndingSum(L, t) = 0
<1>1. L \in [Users -> Escrow!Locks] /\ \A user \in Users : L[user] = Escrow!NoLock
  BY NoLockTyped
<1>2. IsBound(0)
  <2>1. 0 \in Nat /\ 0 = 0 * WEEK
    BY ConstantsTyped
  <2> QED
    BY <2>1 DEF IsBound
<1>3. L \in BoundLocks
  BY <1>1, <1>2, NoLockTyped DEF BoundLocks
<1>4. \A user \in Users : /\ Escrow!Power(L[user], t) = 0
                          /\ Running(L[user], t) = 0 /\ EndingAt(L[user], t) = 0
  BY <1>1, NoLockTyped DEF Running, EndingAt
<1> DEFINE f == [user \in Users |-> Escrow!Power(L[user], t)]
           g == [user \in Users |-> Running(L[user], t)]
           h == [user \in Users |-> EndingAt(L[user], t)]
<1>5. f \in [Users -> Nat] /\ g \in [Users -> Nat] /\ h \in [Users -> Nat]
  BY <1>1, SumsTyped
<1>6. \A user \in Users : f[user] = 0 /\ g[user] = 0 /\ h[user] = 0
  BY <1>4
<1> HIDE DEF f, g, h
<1>7. Total(f) = 0 /\ Total(g) = 0 /\ Total(h) = 0
  BY <1>5, <1>6, TotalZero, ConstantsTyped
<1> QED
  BY <1>3, <1>7 DEF PowerSum, SlopeSum, EndingSum, f, g, h

(* The loops go on for at least one week.                                  *)
LEMMA LoopsReach ==
    ASSUME NEW a \in Nat
    PROVE  /\ Escrow!Bound(a, LOOPS) \in Nat /\ Escrow!Bound(a, 1) \in Nat
           /\ a < Escrow!Bound(a, 1) /\ Escrow!Bound(a, 1) <= Escrow!Bound(a, LOOPS)
           /\ IsBound(Escrow!Bound(a, 1))
<1>1. LOOPS \in Nat /\ LOOPS - 1 \in Nat /\ WEEK \in Nat /\ WEEK > 0
  BY ConstantsTyped
<1>2. LOOPS * WEEK = (LOOPS - 1) * WEEK + WEEK /\ (LOOPS - 1) * WEEK \in Nat /\ 1 * WEEK = WEEK
  BY <1>1
<1>3. Escrow!WeekOf(a) \in Nat
  BY WeekStarts
<1>4. Escrow!Bound(a, 1) <= Escrow!Bound(a, LOOPS)
  BY <1>1, <1>2, <1>3 DEF Escrow!Bound
<1> QED
  BY <1>1, <1>4, BoundsOfLoop

(* Up to the next bound no lock ends, and the line is straight.            *)
LEMMA StraightOn ==
    ASSUME NEW L \in BoundLocks, NEW p, OnSum(p, L), NEW t \in Nat, p.ts <= t,
           t <= Escrow!Bound(p.ts, 1)
    PROVE  Straight(p, L, t)
<1>1. p.ts \in Nat /\ L \in [Users -> Escrow!Locks] /\ \A user \in Users : IsBound(L[user].end)
  BY DEF OnSum, Escrow!Point, BoundLocks
<1>2. /\ Escrow!Bound(p.ts, 0) \in Nat /\ IsBound(Escrow!Bound(p.ts, 0))
      /\ Escrow!Bound(p.ts, 0) <= p.ts
      /\ Escrow!Bound(p.ts, 1) = Escrow!Bound(p.ts, 0) + WEEK /\ WEEK \in Nat
  <2>1. 0 \in Nat /\ 0 + 1 = 1
    OBVIOUS
  <2> QED
    BY <1>1, <2>1, BoundsOfLoop, ConstantsTyped
<1>3. ASSUME NEW user \in Users, L[user].end > p.ts PROVE L[user].end >= t
  <2>1. L[user].end \in Nat /\ IsBound(L[user].end)
    BY <1>1, SlopeTyped
  <2>2. Escrow!Bound(p.ts, 0) < L[user].end
    BY <1>1, <1>2, <1>3, <2>1
  <2>3. Escrow!Bound(p.ts, 0) + WEEK <= L[user].end
    BY <1>2, <2>1, <2>2, BoundsApart
  <2> QED
    BY <1>2, <2>1, <2>3
<1> DEFINE d == SlopeSum(L, t) - SlopeSum(L, p.ts)
           g == Escrow!Glide(p, t, d)
<1>4. OnSum(g, L) /\ g.ts = t
  BY <1>1, <1>3, TurnOnSum
<1>5. g.bias = p.bias - p.slope * (t - p.ts)
  BY DEF Escrow!Glide
<1> QED
  BY <1>4, <1>5 DEF OnSum, Straight

(* Where the walk to now starts, and every point on its way.               *)
LEMMA LastOnSum ==
    ASSUME EscrowInv, SumInv, Attended
    PROVE  /\ OnSum(Escrow!LastPoint, locked)
           /\ Escrow!LastPoint.ts \in Nat /\ Escrow!LastPoint.ts <= now
           /\ LastTime \in Nat /\ LastTime <= Escrow!LastPoint.ts
           /\ now <= Escrow!Bound(Escrow!LastPoint.ts, LOOPS)
           /\ Foreseen(locked, Escrow!LastPoint.ts, now)
           /\ now \in Nat /\ now <= Horizon
<1>1. now \in Nat /\ now <= Horizon /\ Horizon \in Nat /\ epoch \in Nat
  BY ConstantsTyped DEF EscrowInv, LocksTyped
<1>2. LastTime \in Nat /\ LastTime <= now
  BY DEF SumInv, OnSum, LastTime, Escrow!Point
<1>3. CASE epoch > 0
  <2>1. Escrow!LastPoint = point_history[epoch] /\ Escrow!LastPoint.ts = LastTime
    BY <1>3 DEF Escrow!LastPoint, LastTime
  <2>2. Foreseen(locked, LastTime, now)
    BY <1>1 DEF SumInv, Foreseen, Escrow!Weeks
  <2> QED
    BY <1>1, <1>2, <2>1, <2>2 DEF SumInv, Attended
<1>4. CASE epoch = 0
  <2>1. Escrow!LastPoint = [bias |-> 0, slope |-> 0, ts |-> now]
    BY <1>4 DEF Escrow!LastPoint
  <2>2. locked \in [Users -> {Escrow!NoLock}]
    BY <1>4 DEF SumInv, BoundLocks
  <2>3. PowerSum(locked, now) = 0 /\ SlopeSum(locked, now) = 0
    BY <1>1, <2>2, NoLocksSum
  <2>4. OnSum(Escrow!LastPoint, locked)
    BY <1>1, <2>1, <2>3 DEF OnSum, Escrow!Point
  <2>5. Escrow!LastPoint.ts = now /\ Foreseen(locked, now, now)
    BY <1>1, <2>1 DEF Foreseen, Escrow!Weeks
  <2>6. now <= Escrow!Bound(now, LOOPS)
    BY <1>1, LoopsReach
  <2> QED
    BY <1>1, <1>2, <2>4, <2>5, <2>6
<1> QED
  BY <1>1, <1>3, <1>4

(* The points that Fill writes are on the sum of the locks, at the stops   *)
(* of the loop, and the last is at the block's time.                       *)
LEMMA WalkPoints ==
    ASSUME EscrowInv, SumInv, Attended
    PROVE  /\ Escrow!Turns(Escrow!LastPoint.ts, now) \in Nat
           /\ Escrow!Turns(Escrow!LastPoint.ts, now) >= 1
           /\ \A i \in 1 .. Escrow!Turns(Escrow!LastPoint.ts, now) :
                 /\ OnSum(Escrow!Walk[i], locked)
                 /\ Escrow!Walk[i].ts = StopsFrom(Escrow!LastPoint.ts, now, i)
                 /\ Escrow!Walk[i].ts \in Nat
                 /\ LastTime <= Escrow!Walk[i].ts /\ Escrow!Walk[i].ts <= now
           /\ OnSum(Escrow!WalkEnd, locked) /\ Escrow!WalkEnd.ts = now
<1> DEFINE a == Escrow!LastPoint.ts
           n == Escrow!Turns(a, now)
<1>1. /\ OnSum(Escrow!LastPoint, locked) /\ a \in Nat /\ a <= now /\ LastTime \in Nat
      /\ LastTime <= a /\ now <= Escrow!Bound(a, LOOPS) /\ Foreseen(locked, a, now)
      /\ now \in Nat /\ now <= Horizon /\ locked \in BoundLocks
  BY LastOnSum DEF SumInv
<1>2. n \in Nat /\ n >= 1
  BY TurnsEnd, ConstantsTyped
<1>3. \A i \in 0 .. n : OnSum(Escrow!Walk[i], locked) /\ Escrow!Walk[i].ts = StopsFrom(a, now, i)
  BY <1>1, WalkOnSum DEF SumInv
<1>4. ASSUME NEW i \in 1 .. n
      PROVE  /\ StopsFrom(a, now, i) \in Nat /\ LastTime <= StopsFrom(a, now, i)
             /\ StopsFrom(a, now, i) <= now /\ StopsFrom(a, now, n) = now
  <2>1. /\ StopsFrom(a, now, i) \in Nat /\ a < Escrow!Bound(a, i)
        /\ Escrow!Bound(a, i) \in Nat
        /\ StopsFrom(a, now, i) = IF Escrow!Bound(a, i) > now THEN now ELSE Escrow!Bound(a, i)
        /\ StopsFrom(a, now, i) <= now /\ StopsFrom(a, now, n) = now
    BY <1>1, StopsInOrder
  <2> QED
    BY <1>1, <2>1
<1> HIDE DEF n
<1>5. n \in 0 .. n /\ n \in 1 .. n
  BY <1>2
<1>6. Escrow!WalkEnd = Escrow!Walk[n]
  BY DEF Escrow!WalkEnd, n
<1>7. OnSum(Escrow!WalkEnd, locked) /\ Escrow!WalkEnd.ts = now
  BY <1>3, <1>4, <1>5, <1>6
<1>8. \A i \in 1 .. n : i \in 0 .. n
  BY <1>2
<1> QED
  BY <1>2, <1>3, <1>4, <1>7, <1>8 DEF n

(* What a step does to the users' histories: points of now are added.      *)
UsersGrow ==
    \A user \in Users :
        /\ user_point_epoch'[user] \in Nat
        /\ user_point_epoch[user] <= user_point_epoch'[user]
        /\ \A e \in 0 .. user_point_epoch[user] :
              user_point_history'[user][e] = user_point_history[user][e]
        /\ \A e \in user_point_epoch[user] + 1 .. user_point_epoch'[user] :
              user_point_history'[user][e].ts = now

(* No call rewrites a point of a user's history, and a new one is written  *)
(* at the block's time.                                                    *)
LEMMA HistoriesGrow ==
    ASSUME LocksTyped, [Next]_vars
    PROVE  UsersGrow
<1>0. now \in Nat /\ \A u \in Users : user_point_epoch[u] \in Nat
  BY ConstantsTyped DEF LocksTyped
<1>1. ASSUME NEW user \in Users, NEW new \in Escrow!Locks, Relocks(user, new)
      PROVE  UsersGrow
  <2>1. /\ user_point_epoch'[user] = user_point_epoch[user] + 1
        /\ user_point_history'[user] =
             [e \in 0 .. user_point_epoch[user] + 1 |->
                IF e <= user_point_epoch[user] THEN user_point_history[user][e]
                                               ELSE Escrow!UserPoint(new)]
        /\ user_point_history'[user][user_point_epoch'[user]] = Escrow!UserPoint(new)
        /\ Escrow!UserPoint(new).ts = now
        /\ \A other \in Users \ {user} :
              /\ user_point_epoch'[other] = user_point_epoch[other]
              /\ user_point_history'[other] = user_point_history[other]
    BY <1>0, <1>1, UserFiled, UserPointOnLine DEF Relocks
  <2> SUFFICES ASSUME NEW u \in Users
               PROVE  /\ user_point_epoch'[u] \in Nat
                      /\ user_point_epoch[u] <= user_point_epoch'[u]
                      /\ \A e \in 0 .. user_point_epoch[u] :
                            user_point_history'[u][e] = user_point_history[u][e]
                      /\ \A e \in user_point_epoch[u] + 1 .. user_point_epoch'[u] :
                            user_point_history'[u][e].ts = now
    BY DEF UsersGrow
  <2>2. CASE u = user
    <3> DEFINE n == user_point_epoch[user]
    <3>1. \A e \in 0 .. n : user_point_history'[user][e] = user_point_history[user][e]
      BY <1>0, <2>1
    <3>2. \A e \in n + 1 .. n + 1 : e = n + 1
      BY <1>0
    <3> QED
      BY <1>0, <2>1, <2>2, <3>1, <3>2
  <2>3. CASE u # user
    <3>1. user_point_epoch[u] + 1 .. user_point_epoch[u] = {}
      BY <1>0
    <3> QED
      BY <1>0, <2>1, <2>3, <3>1
  <2> QED
    BY <2>2, <2>3
<1>2. CASE FillsUp \/ Still
  <2>1. user_point_epoch' = user_point_epoch /\ user_point_history' = user_point_history
    BY <1>2 DEF FillsUp, Still
  <2>2. \A u \in Users : user_point_epoch[u] + 1 .. user_point_epoch[u] = {}
    BY <1>0
  <2> QED
    BY <1>0, <2>1, <2>2 DEF UsersGrow
<1> QED
  BY <1>1, <1>2, LocksSwapped

(* What a checkpoint does to the histories: points are added, none before  *)
(* the last one, and no change of slope in the past is touched.            *)
Grows ==
    /\ epoch' = epoch + Escrow!Turns(Escrow!LastPoint.ts, now)
    /\ \A e \in 0 .. epoch : point_history'[e] = point_history[e]
    /\ \A i \in 1 .. Escrow!Turns(Escrow!LastPoint.ts, now) - 1 :
          point_history'[epoch + i] = Escrow!Walk[i]
    /\ point_history'[epoch'].ts = now
    /\ \A w \in Escrow!Weeks : w <= now => slope_changes'[w] = slope_changes[w]
    /\ UsersGrow

(* The points by which the total's history grows are not older than the    *)
(* last one, and all but the very last are on the sum of the old locks.    *)
LEMMA NewPoints ==
    ASSUME EscrowInv, SumInv, Attended, Grows
    PROVE  /\ epoch \in Nat /\ epoch' \in Nat /\ epoch < epoch'
           /\ now \in Nat /\ LastTime \in Nat /\ LastTime <= now
           /\ \A e \in epoch + 1 .. epoch' :
                 /\ point_history'[e].ts \in Nat /\ LastTime <= point_history'[e].ts
                 /\ point_history'[e].ts = StopsFrom(Escrow!LastPoint.ts, now, e - epoch)
                 /\ e < epoch' => OnSum(point_history'[e], locked)
<1> DEFINE n == Escrow!Turns(Escrow!LastPoint.ts, now)
           Walked(i) == /\ OnSum(Escrow!Walk[i], locked)
                        /\ Escrow!Walk[i].ts = StopsFrom(Escrow!LastPoint.ts, now, i)
                        /\ Escrow!Walk[i].ts \in Nat
                        /\ LastTime <= Escrow!Walk[i].ts
<1>1. n \in Nat /\ n >= 1 /\ \A i \in 1 .. n : Walked(i)
  BY WalkPoints
<1>2. epoch \in Nat /\ now \in Nat /\ LastTime \in Nat /\ LastTime <= now
  BY LastOnSum DEF EscrowInv, LocksTyped, SumInv
<1>3. epoch' = epoch + n
  BY DEF Grows
<1>4. StopsFrom(Escrow!LastPoint.ts, now, n) = now
  <2>1. n \in 1 .. n
    BY <1>1
  <2> QED
    BY <2>1, LastOnSum, StopsInOrder
<1>5. ASSUME NEW e \in epoch + 1 .. epoch', e < epoch'
      PROVE  point_history'[e] = Escrow!Walk[e - epoch] /\ Walked(e - epoch)
  <2>1. e - epoch \in 1 .. n - 1 /\ e - epoch \in 1 .. n /\ epoch + (e - epoch) = e
    BY <1>1, <1>2, <1>3, <1>5
  <2>2. point_history'[epoch + (e - epoch)] = Escrow!Walk[e - epoch]
    BY <2>1 DEF Grows
  <2> HIDE DEF Walked
  <2> QED
    BY <1>1, <2>1, <2>2
<1>6. ASSUME NEW e \in epoch + 1 .. epoch', ~(e < epoch')
      PROVE  e = epoch' /\ e - epoch = n /\ point_history'[e].ts = now
  BY <1>1, <1>2, <1>3, <1>6 DEF Grows
<1> HIDE DEF n
<1>7. ASSUME NEW e \in epoch + 1 .. epoch'
      PROVE  /\ point_history'[e].ts \in Nat /\ LastTime <= point_history'[e].ts
             /\ point_history'[e].ts = StopsFrom(Escrow!LastPoint.ts, now, e - epoch)
             /\ e < epoch' => OnSum(point_history'[e], locked)
  <2>1. CASE e < epoch'
    BY <1>5, <2>1
  <2>2. CASE ~(e < epoch')
    BY <1>2, <1>4, <1>6, <2>2
  <2> QED
    BY <2>1, <2>2
<1> QED
  BY <1>1, <1>2, <1>3, <1>7

(* What a user's history says of a past moment it goes on saying.          *)
LEMMA UserStays ==
    ASSUME LocksTyped, UsersGrow, NEW t \in Nat, t < now, now \in Nat,
           NEW user \in Users, NEW l, UserExplained(user, l, t)
    PROVE  UserExplained(user, l, t)'
<1> DEFINE n == user_point_epoch[user]
           m == user_point_epoch'[user]
<1>1. n \in Nat /\ m \in Nat /\ n <= m
  BY DEF LocksTyped, UsersGrow
<1>2. /\ \A e \in 0 .. n : user_point_history'[user][e] = user_point_history[user][e]
      /\ \A e \in n + 1 .. m : user_point_history'[user][e].ts = now
  BY DEF UsersGrow
<1>3. PICK e \in 0 .. n :
         /\ \/ e = 0
            \/ user_point_history[user][e].ts \in Nat /\ user_point_history[user][e].ts <= t
         /\ \A f \in e + 1 .. n :
               user_point_history[user][f].ts \in Nat /\ user_point_history[user][f].ts > t
         /\ IF e = 0 THEN Escrow!Power(l, t) = 0
            ELSE Escrow!UserPowerFrom(user_point_history[user][e], t) = Escrow!Power(l, t)
  BY DEF UserExplained
<1> HIDE DEF n, m
<1>4. user_point_history'[user][e] = user_point_history[user][e] /\ e \in 0 .. m
  BY <1>1, <1>2
<1>5. ASSUME NEW f \in e + 1 .. m
             PROVE  user_point_history'[user][f].ts \in Nat /\ user_point_history'[user][f].ts > t
  <2>1. CASE f <= n
    <3>1. f \in e + 1 .. n /\ f \in 0 .. n
      BY <1>1, <2>1
    <3> QED
      BY <1>2, <1>3, <3>1
  <2>2. CASE f > n
    <3>1. f \in n + 1 .. m
      BY <1>1, <2>2
    <3> QED
      BY <1>2, <3>1
  <2> QED
    BY <1>1, <2>1, <2>2
<1> QED
  BY <1>3, <1>4, <1>5 DEF UserExplained, m

(* What was explained stays explained, by the same points.                 *)
LEMMA StaysExplained ==
    ASSUME EscrowInv, SumInv, Attended, Grows, NEW t \in Nat, t < LastTime, Explained(t)
    PROVE  Explained(t)'
<1>1. /\ epoch \in Nat /\ epoch' \in Nat /\ epoch < epoch' /\ now \in Nat
      /\ LastTime \in Nat /\ LastTime <= now
      /\ \A e \in epoch + 1 .. epoch' :
            point_history'[e].ts \in Nat /\ LastTime <= point_history'[e].ts
  BY NewPoints
<1>2. PICK L \in BoundLocks : /\ TotalExplained(L, t)
                              /\ \A user \in Users : UserExplained(user, L[user], t)
  BY DEF Explained
<1>3. TotalExplained(L, t)'
  <2>1. PICK e \in 0 .. epoch :
           /\ point_history[e].ts <= t
           /\ \A f \in e + 1 .. epoch : point_history[f].ts \in Nat /\ point_history[f].ts > t
           /\ t <= Escrow!Bound(point_history[e].ts, LOOPS)
           /\ OnSum(point_history[e], L)
           /\ Foreseen(L, point_history[e].ts, t)
           /\ Straight(point_history[e], L, t)
    BY <1>2 DEF TotalExplained, LastTime
  <2>2. point_history'[e] = point_history[e] /\ e \in 0 .. epoch'
    BY <1>1 DEF Grows
  <2>3. ASSUME NEW f \in e + 1 .. epoch'
               PROVE  point_history'[f].ts \in Nat /\ point_history'[f].ts > t
    <3>1. CASE f <= epoch
      <4>1. f \in e + 1 .. epoch /\ f \in 0 .. epoch
        BY <1>1, <3>1
      <4> QED
        BY <2>1, <4>1 DEF Grows
    <3>2. CASE f > epoch
      <4>1. f \in epoch + 1 .. epoch'
        BY <1>1, <3>2
      <4> QED
        BY <1>1, <4>1
    <3> QED
      BY <1>1, <3>1, <3>2
  <2>4. Foreseen(L, point_history[e].ts, t)'
    <3> SUFFICES ASSUME NEW w \in Escrow!Weeks, point_history'[e].ts < w, w <= t
                 PROVE  slope_changes'[w] = - EndingSum(L, w)
      BY DEF Foreseen, EndingSum, EndingAt, Slope, Escrow!Weeks
    <3>1. w \in Nat /\ w <= now
      BY <1>1, ConstantsTyped DEF Escrow!Weeks
    <3> QED
      BY <2>1, <2>2, <3>1 DEF Grows, Foreseen
  <2> QED
    BY <2>1, <2>2, <2>3, <2>4 DEF TotalExplained, Straight, PowerSum, Escrow!Power,
       Escrow!AtLeastZero
<1>4. ASSUME NEW user \in Users PROVE UserExplained(user, L[user], t)'
  BY <1>1, <1>2, UserStays DEF Grows, EscrowInv
<1> QED
  BY <1>2, <1>3, <1>4 DEF Explained

(* The time since the last point is explained by the points on the walk.   *)
LEMMA BecomesExplained ==
    ASSUME EscrowInv, SumInv, Attended, Grows, NEW t \in Nat, LastTime <= t, t < now
    PROVE  Explained(t)'
<1> DEFINE a == Escrow!LastPoint.ts
           n == Escrow!Turns(a, now)
           T == {k \in 0 .. n : point_history'[epoch + (n - k)].ts <= t}
<1>1. /\ epoch \in Nat /\ epoch' \in Nat /\ epoch < epoch' /\ now \in Nat
      /\ LastTime \in Nat /\ LastTime <= now
      /\ \A e \in epoch + 1 .. epoch' :
            /\ point_history'[e].ts \in Nat /\ LastTime <= point_history'[e].ts
            /\ point_history'[e].ts = StopsFrom(a, now, e - epoch)
            /\ e < epoch' => OnSum(point_history'[e], locked)
  BY NewPoints
<1>2. n \in Nat /\ epoch' = epoch + n /\ point_history'[epoch'].ts = now
      /\ \A e \in 0 .. epoch : point_history'[e] = point_history[e]
  BY WalkPoints DEF Grows
<1>3. point_history'[epoch].ts = LastTime /\ point_history'[epoch] = point_history[epoch]
  BY <1>1, <1>2 DEF LastTime
<1> HIDE DEF n
<1>4. n \in T
  <2>1. epoch + (n - n) = epoch /\ n \in 0 .. n
    BY <1>1, <1>2
  <2> QED
    BY <1>3, <2>1
<1>5. T \subseteq Nat
  BY <1>2
<1>6. PICK k \in T : \A j \in T : k <= j
  <2> HIDE DEF T
  <2> QED
    BY <1>4, <1>5, Smallest
<1>7. PICK e \in 0 .. epoch' :
         e = epoch + (n - k) /\ e >= epoch /\ point_history'[e].ts <= t /\ k \in 0 .. n
  BY <1>1, <1>2, <1>6
<1>8. ASSUME NEW f \in e + 1 .. epoch'
               PROVE  point_history'[f].ts \in Nat /\ point_history'[f].ts > t
  <2>1. epoch + n - f \in 0 .. n /\ epoch + n - f < k /\ epoch + (n - (epoch + n - f)) = f
        /\ f \in epoch + 1 .. epoch'
    BY <1>1, <1>2, <1>7
  <2>2. epoch + n - f \notin T
    BY <1>5, <1>6, <2>1
  <2>3. ~(point_history'[f].ts <= t)
    BY <2>1, <2>2
  <2>4. point_history'[f].ts \in Nat
    BY <1>1, <2>1
  <2> QED
    BY <2>3, <2>4
<1> HIDE DEF T
<1>9. e < epoch'
  BY <1>1, <1>2, <1>7
<1>10. /\ OnSum(point_history'[e], locked) /\ point_history'[e].ts \in Nat
       /\ LastTime <= point_history'[e].ts
  <2>1. CASE e = epoch
    BY <1>1, <1>3, <2>1 DEF SumInv, LastTime
  <2>2. CASE e # epoch
    <3>1. e \in epoch + 1 .. epoch'
      BY <1>1, <1>7, <2>2
    <3> QED
      BY <1>1, <1>9, <3>1
  <2> QED
    BY <2>1, <2>2
<1>11. ASSUME ~(epoch = 0 /\ e = epoch)
       PROVE  t <= Escrow!Bound(point_history'[e].ts, 1)
  <2> DEFINE x == point_history'[e].ts
             i == e + 1 - epoch
  <2> SUFFICES t <= Escrow!Bound(x, 1)
    OBVIOUS
  <2>1. /\ e + 1 \in epoch + 1 .. epoch' /\ e + 1 \in e + 1 .. epoch'
        /\ i \in 1 .. n /\ i - 1 = e - epoch /\ e + 1 - epoch = i
    BY <1>1, <1>2, <1>7, <1>9
  <2>2. a \in Nat /\ a <= now /\ now <= Escrow!Bound(a, LOOPS)
    BY LastOnSum
  <2>3. /\ StopsFrom(a, now, i) <= now /\ Escrow!Bound(a, i) \in Nat
        /\ \A w \in Nat : IsBound(w) /\ StopsFrom(a, now, i - 1) < w => Escrow!Bound(a, i) <= w
        /\ StopsFrom(a, now, i) = IF Escrow!Bound(a, i) > now THEN now ELSE Escrow!Bound(a, i)
    BY <1>1, <2>1, <2>2, StopsInOrder DEF n
  <2>4. x = StopsFrom(a, now, i - 1) /\ StopsFrom(a, now, i) > t
    <3>1. CASE e = epoch
      <4>1. x = LastTime /\ i = 1 /\ epoch > 0
        BY <1>1, <1>3, <1>11, <3>1
      <4>2. a = LastTime
        BY <4>1 DEF Escrow!LastPoint, LastTime
      <4> QED
        BY <1>1, <1>8, <2>1, <4>1, <4>2 DEF StopsFrom
    <3>2. CASE e # epoch
      <4>1. e \in epoch + 1 .. epoch'
        BY <1>1, <1>7, <1>9, <3>2
      <4> QED
        BY <1>1, <1>8, <2>1, <4>1
    <3> QED
      BY <3>1, <3>2
  <2>5. Escrow!Bound(x, 1) \in Nat /\ x < Escrow!Bound(x, 1) /\ IsBound(Escrow!Bound(x, 1))
    BY <1>10, LoopsReach
  <2> HIDE DEF x, i
  <2>6. Escrow!Bound(a, i) <= Escrow!Bound(x, 1)
    BY <2>3, <2>4, <2>5
  <2>7. t < Escrow!Bound(a, i)
    BY <1>1, <2>3, <2>4
  <2> QED
    BY <2>3, <2>5, <2>6, <2>7
<1>12. t <= Escrow!Bound(point_history'[e].ts, LOOPS)
  <2>1. CASE epoch = 0 /\ e = epoch
    <3>1. now <= Escrow!Bound(LastTime, LOOPS) /\ Escrow!Bound(LastTime, LOOPS) \in Nat
      BY <1>1, LoopsReach DEF Attended
    <3> QED
      BY <1>1, <1>3, <2>1, <3>1
  <2>2. CASE ~(epoch = 0 /\ e = epoch)
    <3> DEFINE x == point_history'[e].ts
    <3>1. /\ Escrow!Bound(x, 1) \in Nat /\ Escrow!Bound(x, LOOPS) \in Nat
          /\ Escrow!Bound(x, 1) <= Escrow!Bound(x, LOOPS)
      BY <1>10, LoopsReach
    <3>2. t <= Escrow!Bound(x, 1)
      BY <1>11, <2>2
    <3> HIDE DEF x
    <3>3. t <= Escrow!Bound(x, LOOPS)
      BY <3>1, <3>2
    <3> QED
      BY <3>3 DEF x
  <2> QED
    BY <2>1, <2>2
<1>13. Foreseen(locked, point_history'[e].ts, t) /\ Foreseen(locked, LastTime, Horizon)
       /\ now <= Horizon
  <2>1. Foreseen(locked, LastTime, Horizon) /\ now <= Horizon
    BY LastOnSum DEF SumInv
  <2> QED
    BY <1>1, <1>10, <2>1, ConstantsTyped DEF Foreseen, Escrow!Weeks
<1>14. Straight(point_history'[e], locked, t)
  <2>1. CASE epoch = 0 /\ e = epoch
    <3>1. locked \in [Users -> {Escrow!NoLock}]
      BY <2>1 DEF SumInv, BoundLocks
    <3> DEFINE p == point_history'[e]
    <3>2. p \in Escrow!Point /\ p.bias = PowerSum(locked, p.ts) /\ p.slope = SlopeSum(locked, p.ts)
      BY <1>10 DEF OnSum
    <3>3. p.ts \in Nat
      BY <1>10
    <3> HIDE DEF p
    <3>4. p.bias = 0 /\ p.slope = 0 /\ PowerSum(locked, t) = 0
      BY <3>1, <3>2, <3>3, NoLocksSum
    <3> QED
      BY <3>3, <3>4 DEF Straight, p
  <2>2. CASE ~(epoch = 0 /\ e = epoch)
    <3> DEFINE x == point_history'[e].ts
    <3>1. t <= Escrow!Bound(x, 1)
      BY <1>11, <2>2
    <3>2. x \in Nat /\ x <= t /\ OnSum(point_history'[e], locked) /\ locked \in BoundLocks
      BY <1>7, <1>10 DEF SumInv
    <3> QED
      BY <3>1, <3>2, StraightOn
  <2> QED
    BY <2>1, <2>2
<1>15. PICK L \in BoundLocks : L = locked
  BY DEF SumInv
<1>16. TotalExplained(L, t)'
  <2>1. Foreseen(L, point_history[e].ts, t)'
    <3> SUFFICES ASSUME NEW w \in Escrow!Weeks, point_history'[e].ts < w, w <= t
                 PROVE  slope_changes'[w] = - EndingSum(L, w)
      BY DEF Foreseen, EndingSum, EndingAt, Slope, Escrow!Weeks
    <3>1. w \in Nat /\ w <= now
      BY <1>1, ConstantsTyped DEF Escrow!Weeks
    <3> QED
      BY <1>13, <1>15, <3>1 DEF Grows, Foreseen
  <2>2. /\ point_history'[e].ts <= t
        /\ \A f \in e + 1 .. epoch' : point_history'[f].ts \in Nat /\ point_history'[f].ts > t
        /\ t <= Escrow!Bound(point_history'[e].ts, LOOPS)
        /\ OnSum(point_history'[e], L)
        /\ e \in 0 .. epoch'
    BY <1>7, <1>8, <1>10, <1>12, <1>15
  <2>3. Straight(point_history'[e], L, t)
    BY <1>15, <1>14
  <2> QED
    BY <2>1, <2>2, <2>3 DEF TotalExplained, Straight, PowerSum, Escrow!Power, Escrow!AtLeastZero
<1>17. ASSUME NEW user \in Users PROVE UserExplained(user, L[user], t)'
  <2> DEFINE q == user_point_epoch[user]
             m == user_point_epoch'[user]
             p == user_point_history[user][q]
  <2>1. q \in Nat /\ m \in Nat /\ q <= m /\ L[user] \in Escrow!Locks
    BY <1>15 DEF EscrowInv, LocksTyped, Grows, UsersGrow
  <2>2. /\ \A f \in 0 .. q : user_point_history'[user][f] = user_point_history[user][f]
        /\ \A f \in q + 1 .. m : user_point_history'[user][f].ts = now
    BY DEF Grows, UsersGrow
  <2>3. q > 0 => OnLine(p, L[user]) /\ p.ts <= LastTime
    BY <1>15 DEF EscrowInv, UserLines, SumInv
  <2>4. q = 0 => L[user] = Escrow!NoLock
    BY <1>15 DEF EscrowInv, UserLines
  <2>5. p = user_point_history'[user][q] /\ q \in 0 .. m
    BY <2>1, <2>2
  <2>6. \A f \in q + 1 .. m :
           user_point_history'[user][f].ts \in Nat /\ user_point_history'[user][f].ts > t
    BY <1>1, <2>2
  <2>7. CASE q = 0
    <3>1. Escrow!Power(L[user], t) = 0
      BY <2>4, <2>7, NoLockTyped
    <3> QED
      BY <2>5, <2>6, <2>7, <3>1 DEF UserExplained
  <2>8. CASE q # 0
    <3>1. OnLine(p, L[user]) /\ p.ts <= LastTime /\ p.ts \in Nat
      BY <2>1, <2>3, <2>8 DEF OnLine, Escrow!Point
    <3>2. p.ts \in Nat /\ p.ts <= t
      BY <1>1, <3>1
    <3> HIDE DEF p
    <3>3. Escrow!UserPowerFrom(p, t) = Escrow!Power(L[user], t)
      BY <2>1, <3>1, <3>2, LineIsPower
    <3> HIDE DEF q, m
    <3> QED
      BY <2>5, <2>6, <2>8, <3>2, <3>3 DEF UserExplained, m
  <2> QED
    BY <2>7, <2>8
<1> QED
  BY <1>16, <1>17 DEF Explained

(* Replacing one lock changes each sum by the change of that lock's part.  *)
LEMMA SwapTotal ==
    ASSUME NEW f \in [Users -> Nat], NEW g \in [Users -> Nat], NEW user \in Users,
           \A other \in Users \ {user} : g[other] = f[other]
    PROVE  Total(g) = Total(f) - f[user] + g[user]
<1> DEFINE a == [x \in {user} |-> f[x]]
           b == [x \in {user} |-> g[x]]
<1>1. a \in [{user} -> Nat] /\ b \in [{user} -> Nat] /\ a[user] = f[user] /\ b[user] = g[user]
  OBVIOUS
<1>2. \A x \in Users : g[x] = IF x \in {user} THEN f[x] - a[x] + b[x] ELSE f[x]
  OBVIOUS
<1> HIDE DEF a, b
<1>3. Total(g) = Total(f) + (Total(b) - Total(a))
  BY <1>1, <1>2, TotalChange, ConstantsTyped
<1>4. Total(a) = f[user] /\ Total(b) = g[user]
  BY <1>1, TotalSingle
<1>5. Total(f) \in Nat
  BY TotalNat, ConstantsTyped
<1> QED
  BY <1>3, <1>4, <1>5

Replaced(L, user, new, M) == M = [L EXCEPT ![user] = new]

(* Replacing one user's lock changes each sum by that lock's term.         *)
LEMMA SwapSums ==
    ASSUME NEW L \in [Users -> Escrow!Locks], NEW user \in Users, NEW new \in Escrow!Locks,
           NEW M, Replaced(L, user, new, M), NEW t \in Nat
    PROVE  /\ M \in [Users -> Escrow!Locks]
           /\ PowerSum(M, t) = PowerSum(L, t) - Escrow!Power(L[user], t) + Escrow!Power(new, t)
           /\ SlopeSum(M, t) = SlopeSum(L, t) - Running(L[user], t) + Running(new, t)
           /\ EndingSum(M, t) = EndingSum(L, t) - EndingAt(L[user], t) + EndingAt(new, t)
<1>1. /\ M \in [Users -> Escrow!Locks] /\ M[user] = new
      /\ \A other \in Users \ {user} : M[other] = L[other]
  BY DEF Replaced
<1> DEFINE f(N) == [u \in Users |-> Escrow!Power(N[u], t)]
           g(N) == [u \in Users |-> Running(N[u], t)]
           h(N) == [u \in Users |-> EndingAt(N[u], t)]
<1>2. /\ f(L) \in [Users -> Nat] /\ g(L) \in [Users -> Nat] /\ h(L) \in [Users -> Nat]
      /\ f(M) \in [Users -> Nat] /\ g(M) \in [Users -> Nat] /\ h(M) \in [Users -> Nat]
  BY <1>1, SumsTyped
<1>3. \A other \in Users \ {user} : /\ f(M)[other] = f(L)[other]
                                    /\ g(M)[other] = g(L)[other]
                                    /\ h(M)[other] = h(L)[other]
  BY <1>1
<1>4. /\ f(L)[user] = Escrow!Power(L[user], t) /\ f(M)[user] = Escrow!Power(new, t)
      /\ g(L)[user] = Running(L[user], t) /\ g(M)[user] = Running(new, t)
      /\ h(L)[user] = EndingAt(L[user], t) /\ h(M)[user] = EndingAt(new, t)
  BY <1>1
<1>5. /\ PowerSum(L, t) = Total(f(L)) /\ PowerSum(M, t) = Total(f(M))
      /\ SlopeSum(L, t) = Total(g(L)) /\ SlopeSum(M, t) = Total(g(M))
      /\ EndingSum(L, t) = Total(h(L)) /\ EndingSum(M, t) = Total(h(M))
  BY DEF PowerSum, SlopeSum, EndingSum
<1> HIDE DEF f, g, h
<1>6. /\ Total(f(M)) = Total(f(L)) - f(L)[user] + f(M)[user]
      /\ Total(g(M)) = Total(g(L)) - g(L)[user] + g(M)[user]
      /\ Total(h(M)) = Total(h(L)) - h(L)[user] + h(M)[user]
  BY <1>2, <1>3, SwapTotal
<1> QED
  BY <1>1, <1>4, <1>5, <1>6

(* A user's point has what its lock contributes to the sum.                *)
LEMMA UserPointParts ==
    ASSUME NEW l \in Escrow!Locks, now \in Nat
    PROVE  /\ Escrow!UserPoint(l).slope = Running(l, now)
           /\ Escrow!UserPoint(l).bias = Escrow!Power(l, now)
<1> DEFINE p == Escrow!UserPoint(l)
<1>1. /\ p.ts = now /\ p.slope = IF l.end > p.ts THEN Slope(l) ELSE 0
      /\ p.bias = p.slope * (l.end - p.ts)
  BY UserPointOnLine DEF OnLine
<1>2. l.end \in Nat /\ Slope(l) \in Nat
  BY SlopeTyped
<1> HIDE DEF p
<1>3. p.slope = Running(l, now)
  BY <1>1 DEF Running
<1>4. p.bias = Slope(l) * Escrow!AtLeastZero(l.end - now)
  <2>1. CASE l.end > now
    BY <1>1, <1>2, <2>1 DEF Escrow!AtLeastZero
  <2>2. CASE ~(l.end > now)
    <3>1. Escrow!AtLeastZero(l.end - now) = 0 /\ p.bias = 0
      BY <1>1, <1>2, <2>2 DEF Escrow!AtLeastZero
    <3> QED
      BY <1>2, <3>1
  <2> QED
    BY <2>1, <2>2
<1> QED
  BY <1>3, <1>4 DEF p, Escrow!Power, Slope

(* The point corrected for the new lock is on the sum of the new locks.    *)
LEMMA JoinedOnSum ==
    ASSUME NEW L \in [Users -> Escrow!Locks], NEW user \in Users, NEW new \in Escrow!Locks,
           NEW M, Replaced(L, user, new, M), now \in Nat,
           NEW p, OnSum(p, L), p.ts = now
    PROVE  OnSum(Escrow!Joined(p, L[user], new), M) /\ Escrow!Joined(p, L[user], new).ts = now
<1>1. /\ M \in [Users -> Escrow!Locks] /\ L[user] \in Escrow!Locks
      /\ PowerSum(M, now) = PowerSum(L, now) - Escrow!Power(L[user], now) + Escrow!Power(new, now)
      /\ SlopeSum(M, now) = SlopeSum(L, now) - Running(L[user], now) + Running(new, now)
  BY SwapSums
<1>2. /\ PowerSum(M, now) \in Nat /\ SlopeSum(M, now) \in Nat
      /\ PowerSum(L, now) \in Nat /\ SlopeSum(L, now) \in Nat
      /\ Escrow!Power(L[user], now) \in Nat /\ Escrow!Power(new, now) \in Nat
      /\ Running(L[user], now) \in Nat /\ Running(new, now) \in Nat
  BY <1>1, SumsTyped, TermsTyped
<1>3. p \in Escrow!Point /\ p.bias = PowerSum(L, now) /\ p.slope = SlopeSum(L, now)
  BY DEF OnSum
<1> DEFINE b == Escrow!AtLeastZero(p.bias + Escrow!UserPoint(new).bias
                                          - Escrow!UserPoint(L[user]).bias)
           c == Escrow!AtLeastZero(p.slope + Escrow!UserPoint(new).slope
                                           - Escrow!UserPoint(L[user]).slope)
<1>4. b = PowerSum(M, now) /\ c = SlopeSum(M, now)
  BY <1>1, <1>2, <1>3, UserPointParts DEF Escrow!AtLeastZero
<1>5. Escrow!Joined(p, L[user], new) = [p EXCEPT !.slope = c, !.bias = b]
  BY DEF Escrow!Joined
<1> HIDE DEF b, c
<1>6. PICK x : x = [p EXCEPT !.slope = c, !.bias = b]
  OBVIOUS
<1>7. b \in Int /\ c \in Int
  BY <1>2, <1>4
<1>8. x \in Escrow!Point /\ x.bias = b /\ x.slope = c /\ x.ts = now
  BY <1>3, <1>6, <1>7 DEF Escrow!Point
<1> QED
  BY <1>4, <1>5, <1>6, <1>8 DEF OnSum

(* A checkpoint schedules, after now, what the replaced lock requires.     *)
LEMMA Rescheduled ==
    ASSUME NEW old \in Escrow!Locks, NEW new \in Escrow!Locks, now \in Nat, Swap(old, new),
           old = Escrow!NoLock \/ old.amount > 0, NEW w \in Nat
    PROVE  /\ Escrow!Unscheduled(old, new, w) \in Int /\ Escrow!Scheduled(old, new, w) \in Int
           /\ w <= now => /\ Escrow!Unscheduled(old, new, w) = 0
                          /\ Escrow!Scheduled(old, new, w) = 0
           /\ w > now => Escrow!Unscheduled(old, new, w) - Escrow!Scheduled(old, new, w)
                           = EndingAt(old, w) - EndingAt(new, w)
<1>1. /\ old.end \in Nat /\ new.end \in Nat /\ Slope(old) \in Nat /\ Slope(new) \in Nat
      /\ Escrow!UserPoint(old).slope = Running(old, now)
      /\ Escrow!UserPoint(new).slope = Running(new, now)
      /\ old.amount \in Nat /\ new.amount \in Nat
      /\ Escrow!NoLock.end = 0 /\ Escrow!NoLock.amount = 0
  BY SlopeTyped, UserPointParts, NoLockTyped
<1> DEFINE u == Escrow!Unscheduled(old, new, w)
           s == Escrow!Scheduled(old, new, w)
<1>2. /\ u = IF w = old.end /\ old.end > now
               THEN Running(old, now) - (IF new.end = old.end THEN Running(new, now) ELSE 0)
               ELSE 0
      /\ s = IF w = new.end /\ new.end > now /\ new.end > old.end THEN Running(new, now) ELSE 0
  BY <1>1 DEF Escrow!Unscheduled, Escrow!Scheduled
<1>3. Running(old, now) \in Nat /\ Running(new, now) \in Nat
  BY TermsTyped
<1> HIDE DEF u, s
<1>4. u \in Int /\ s \in Int
  BY <1>2, <1>3
<1>5. ASSUME w <= now PROVE u = 0 /\ s = 0
  BY <1>1, <1>2, <1>5
<1>6. ASSUME w > now PROVE u - s = EndingAt(old, w) - EndingAt(new, w)
  <2>1. CASE new.end = old.end
    BY <1>1, <1>2, <1>6, <2>1 DEF EndingAt, Running
  <2>2. CASE new.end > old.end
    BY <1>1, <1>2, <1>6, <2>2 DEF EndingAt, Running
  <2>3. CASE new.end < old.end
    <3>1. old.end <= now /\ new.end <= now
      BY <1>1, <2>3 DEF Swap
    <3> QED
      BY <1>1, <1>2, <1>6, <3>1 DEF EndingAt
  <2> QED
    BY <1>1, <2>1, <2>2, <2>3
<1> QED
  BY <1>4, <1>5, <1>6 DEF u, s

(* The two kinds of checkpoint keep the invariant.                         *)
LEMMA GrownExplained ==
    ASSUME EscrowInv, SumInv, Attended, Grows,
           NEW t \in point_history[0].ts .. now - 1
    PROVE  Explained(t)'
<1>1. now \in Nat /\ LastTime \in Nat /\ point_history[0].ts \in Nat
  BY LastOnSum DEF SumInv
<1>2. t \in Nat /\ t < now
  BY <1>1
<1>3. CASE t < LastTime
  <2>1. t \in point_history[0].ts .. LastTime - 1
    BY <1>1, <1>2, <1>3
  <2>2. Explained(t)
    BY <2>1 DEF SumInv
  <2> QED
    BY <1>2, <1>3, <2>2, StaysExplained
<1>4. CASE ~(t < LastTime)
  BY <1>1, <1>2, <1>4, BecomesExplained
<1> QED
  BY <1>3, <1>4

(* A call that replaces a lock keeps the sums and explains the moments     *)
(* since the last point, when no lock is made of nothing.                  *)
LEMMA RelockSums ==
    ASSUME EscrowInv, SumInv, Attended, [Next]_vars, \A a \in Amounts : a > 0,
           NEW user \in Users, NEW new \in Escrow!Locks, Relocks(user, new)
    PROVE  SumInv'
<1> DEFINE old == locked[user]
           final == Escrow!Joined(Escrow!WalkEnd, old, new)
<1>1. /\ now \in Nat /\ now <= Horizon /\ LastTime \in Nat /\ LastTime <= now
      /\ old \in Escrow!Locks /\ locked \in [Users -> Escrow!Locks]
  BY LastOnSum DEF EscrowInv, LocksTyped, SumInv
<1>2. /\ Swap(old, new) /\ now' = now
      /\ Escrow!_checkpoint(user, old, new)
      /\ Replaced(locked, user, new, locked')
  BY DEF Relocks, Replaced
<1>3. /\ OnSum(Escrow!WalkEnd, locked) /\ Escrow!WalkEnd.ts = now
  BY WalkPoints
<1>4. OnSum(final, locked') /\ final.ts = now
  BY <1>1, <1>2, <1>3, JoinedOnSum
<1>5. /\ Escrow!Fill(final)
      /\ slope_changes' = [w \in Escrow!Weeks |->
            slope_changes[w] + Escrow!Unscheduled(old, new, w) - Escrow!Scheduled(old, new, w)]
  BY <1>2 DEF Escrow!_checkpoint
<1>6. old = Escrow!NoLock \/ old.amount > 0
  BY DEF SumInv
<1>7. ASSUME NEW w \in Escrow!Weeks
      PROVE  /\ w \in Nat /\ slope_changes[w] \in Int
             /\ Escrow!Unscheduled(old, new, w) \in Int /\ Escrow!Scheduled(old, new, w) \in Int
             /\ w <= now => /\ Escrow!Unscheduled(old, new, w) = 0
                            /\ Escrow!Scheduled(old, new, w) = 0
             /\ w > now => Escrow!Unscheduled(old, new, w) - Escrow!Scheduled(old, new, w)
                             = EndingAt(old, w) - EndingAt(new, w)
  <2>1. w \in Nat /\ slope_changes[w] \in Int
    BY ConstantsTyped DEF Escrow!Weeks, SumInv
  <2> HIDE DEF old
  <2> QED
    BY <1>1, <1>2, <1>6, <2>1, Rescheduled
<1> HIDE DEF final
<1>8. /\ epoch' = epoch + Escrow!Turns(Escrow!LastPoint.ts, now)
      /\ epoch' \in Nat /\ epoch' > 0
      /\ \A e \in 0 .. epoch : point_history'[e] = point_history[e]
      /\ \A i \in 1 .. Escrow!Turns(Escrow!LastPoint.ts, now) - 1 :
            point_history'[epoch + i] = Escrow!Walk[i]
      /\ point_history'[epoch'] = final
  BY <1>5, FillGrows DEF EscrowInv
<1>9. slope_changes' \in [Escrow!Weeks -> Int]
  BY <1>5, <1>7
<1>10. \A w \in Escrow!Weeks : w <= now => slope_changes'[w] = slope_changes[w]
  BY <1>5, <1>7
<1>11. /\ user_point_epoch'[user] = user_point_epoch[user] + 1
       /\ user_point_epoch[user] \in Nat
       /\ user_point_history'[user] =
            [e \in 0 .. user_point_epoch[user] + 1 |->
               IF e <= user_point_epoch[user] THEN user_point_history[user][e]
                                              ELSE Escrow!UserPoint(new)]
       /\ user_point_history'[user][user_point_epoch'[user]] = Escrow!UserPoint(new)
       /\ Escrow!UserPoint(new).ts = now
       /\ \A other \in Users \ {user} :
             /\ user_point_epoch'[other] = user_point_epoch[other]
             /\ user_point_history'[other] = user_point_history[other]
  BY <1>1, <1>2, UserFiled, UserPointOnLine DEF EscrowInv, LocksTyped
<1>12. UsersGrow
  BY HistoriesGrow DEF EscrowInv
<1>13. point_history'[epoch'].ts = now
  BY <1>4, <1>8
<1>14. Grows
  BY <1>8, <1>10, <1>12, <1>13 DEF Grows
<1>15. /\ locked' \in BoundLocks
       /\ \A u \in Users : locked'[u] = Escrow!NoLock \/ locked'[u].amount > 0
  <2>1. /\ locked' \in [Users -> Escrow!Locks] /\ locked'[user] = new
        /\ \A u \in Users \ {user} : locked'[u] = locked[u]
    BY <1>1, <1>2 DEF Replaced
  <2>2. IsBound(old.end) /\ IsBound(0)
    <3>1. 0 \in Nat /\ 0 = 0 * WEEK
      BY ConstantsTyped
    <3> QED
      BY <3>1 DEF SumInv, BoundLocks, IsBound
  <2>3. Escrow!NoLock.end = 0 /\ old.end \in Nat
    BY <1>1, NoLockTyped, SlopeTyped
  <2>4. IsBound(new.end)
    BY <1>2, <2>2, <2>3 DEF Swap
  <2>5. new = Escrow!NoLock \/ new.amount > 0
    <3>1. old.end > now => old # Escrow!NoLock
      BY <1>1, <2>3
    <3> QED
      BY <1>2, <1>6, <3>1 DEF Swap
  <2>6. \A u \in Users : IsBound(locked'[u].end)
    BY <2>1, <2>4 DEF SumInv, BoundLocks
  <2> QED
    BY <2>1, <2>5, <2>6 DEF SumInv, BoundLocks
<1>16. ASSUME NEW w \in Escrow!Weeks, now < w
       PROVE  slope_changes'[w] = - EndingSum(locked', w)
  <2>1. w \in Nat /\ w <= Horizon
    BY ConstantsTyped DEF Escrow!Weeks
  <2>2. slope_changes[w] = - EndingSum(locked, w)
    BY <1>1, <1>16, <2>1 DEF SumInv, Foreseen
  <2>3. EndingSum(locked', w) = EndingSum(locked, w) - EndingAt(old, w) + EndingAt(new, w)
    BY <1>1, <1>2, <2>1, SwapSums
  <2>4. EndingSum(locked, w) \in Nat /\ EndingAt(old, w) \in Nat /\ EndingAt(new, w) \in Nat
    BY <1>1, <2>1, SumsTyped, TermsTyped
  <2>5. slope_changes'[w] = slope_changes[w] + Escrow!Unscheduled(old, new, w)
                                             - Escrow!Scheduled(old, new, w)
    BY <1>5
  <2> QED
    BY <1>7, <1>16, <2>2, <2>3, <2>4, <2>5
<1>17. Foreseen(locked, LastTime, Horizon)'
  <2> SUFFICES ASSUME NEW w \in Escrow!Weeks, LastTime' < w
               PROVE  slope_changes'[w] = - EndingSum(locked, w)'
    BY DEF Foreseen, Escrow!Weeks
  <2>1. now < w
    BY <1>13 DEF LastTime
  <2>2. slope_changes'[w] = - EndingSum(locked', w)
    BY <1>16, <2>1
  <2> QED
    BY <2>2 DEF EndingSum, EndingAt, Slope
<1>18. \A u \in Users :
          user_point_epoch'[u] > 0 =>
             user_point_history'[u][user_point_epoch'[u]].ts <= LastTime'
  <2> SUFFICES ASSUME NEW u \in Users, user_point_epoch'[u] > 0
               PROVE  user_point_history'[u][user_point_epoch'[u]].ts <= now
    BY <1>13 DEF LastTime
  <2>1. CASE u = user
    BY <1>1, <1>11, <2>1
  <2>2. CASE u # user
    <3> DEFINE p == user_point_history[u][user_point_epoch[u]]
    <3>1. /\ user_point_epoch[u] > 0 /\ p.ts <= LastTime /\ OnLine(p, locked[u])
          /\ user_point_history'[u][user_point_epoch'[u]] = p
      BY <1>11, <2>2 DEF SumInv, EscrowInv, UserLines
    <3>2. p.ts \in Nat
      BY <3>1 DEF OnLine, Escrow!Point
    <3> HIDE DEF p
    <3> QED
      BY <1>1, <3>1, <3>2
  <2> QED
    BY <2>1, <2>2
<1>19. \A t \in point_history'[0].ts .. LastTime' - 1 : Explained(t)'
  <2>1. point_history'[0].ts = point_history[0].ts
    <3>1. 0 \in 0 .. epoch
      BY DEF EscrowInv, LocksTyped
    <3> QED
      BY <1>8, <3>1
  <2>2. LastTime' = now
    BY <1>13 DEF LastTime
  <2>3. ASSUME NEW t \in point_history[0].ts .. now - 1 PROVE Explained(t)'
    BY <1>14, GrownExplained
  <2> QED
    BY <2>1, <2>2, <2>3
<1>20. OnSum(point_history[epoch], locked)'
  BY <1>4, <1>8 DEF OnSum, PowerSum, SlopeSum, Running, Slope, Escrow!Power, Escrow!AtLeastZero,
     Escrow!Point
<1>21. LastTime' <= now' /\ point_history'[0].ts \in Nat
  <2>1. 0 \in 0 .. epoch
    BY DEF EscrowInv, LocksTyped
  <2> QED
    BY <1>1, <1>2, <1>8, <1>13, <2>1 DEF LastTime, SumInv
<1>22. ~(epoch = 0)'
  BY <1>8
<1> QED
  BY <1>9, <1>15, <1>17, <1>18, <1>19, <1>20, <1>21, <1>22
     DEF SumInv, BoundLocks, Escrow!Locks, Escrow!NoLock, IsBound, LastTime, Escrow!Weeks

(* So does a checkpoint of the total alone.                                *)
LEMMA FillSums ==
    ASSUME EscrowInv, SumInv, Attended, [Next]_vars, FillsUp
    PROVE  SumInv'
<1>1. /\ now \in Nat /\ LastTime \in Nat /\ LastTime <= now /\ Horizon \in Nat
  BY LastOnSum, ConstantsTyped DEF SumInv
<1>2. /\ Escrow!Fill(Escrow!WalkEnd) /\ now' = now /\ locked' = locked
      /\ user_point_epoch' = user_point_epoch /\ user_point_history' = user_point_history
      /\ slope_changes' = slope_changes
  BY DEF FillsUp
<1>3. OnSum(Escrow!WalkEnd, locked) /\ Escrow!WalkEnd.ts = now
  BY WalkPoints
<1>4. /\ epoch' = epoch + Escrow!Turns(Escrow!LastPoint.ts, now)
      /\ epoch' \in Nat /\ epoch' > 0
      /\ \A e \in 0 .. epoch : point_history'[e] = point_history[e]
      /\ \A i \in 1 .. Escrow!Turns(Escrow!LastPoint.ts, now) - 1 :
            point_history'[epoch + i] = Escrow!Walk[i]
      /\ point_history'[epoch'] = Escrow!WalkEnd
  BY <1>2, FillGrows DEF EscrowInv
<1>5. UsersGrow
  BY HistoriesGrow DEF EscrowInv
<1>6. Grows
  BY <1>2, <1>3, <1>4, <1>5 DEF Grows
<1>7. LastTime' = now /\ point_history'[0].ts = point_history[0].ts
  <2>1. 0 \in 0 .. epoch
    BY DEF EscrowInv, LocksTyped
  <2> QED
    BY <1>3, <1>4, <2>1 DEF LastTime
<1>8. \A t \in point_history'[0].ts .. LastTime' - 1 : Explained(t)'
  <2>1. ASSUME NEW t \in point_history[0].ts .. now - 1 PROVE Explained(t)'
    BY <1>6, GrownExplained
  <2> QED
    BY <1>7, <2>1
<1>9. Foreseen(locked, LastTime, Horizon)'
  <2> SUFFICES ASSUME NEW w \in Escrow!Weeks, LastTime' < w, w <= Horizon
               PROVE  slope_changes'[w] = - EndingSum(locked, w)'
    BY DEF Foreseen, Escrow!Weeks
  <2>1. w \in Nat /\ LastTime < w
    BY <1>1, <1>7 DEF Escrow!Weeks
  <2>2. slope_changes[w] = - EndingSum(locked, w)
    BY <2>1 DEF SumInv, Foreseen
  <2> QED
    BY <1>2, <2>2 DEF EndingSum, EndingAt, Slope
<1>10. \A u \in Users :
          user_point_epoch'[u] > 0 =>
             user_point_history'[u][user_point_epoch'[u]].ts <= LastTime'
  <2> SUFFICES ASSUME NEW u \in Users, user_point_epoch[u] > 0
               PROVE  user_point_history[u][user_point_epoch[u]].ts <= now
    BY <1>2, <1>7
  <2> DEFINE p == user_point_history[u][user_point_epoch[u]]
  <2>1. p.ts <= LastTime /\ OnLine(p, locked[u])
    BY DEF SumInv, EscrowInv, UserLines
  <2>2. p.ts \in Nat
    BY <2>1 DEF OnLine, Escrow!Point
  <2> HIDE DEF p
  <2>3. p.ts <= now
    BY <1>1, <2>1, <2>2
  <2> QED
    BY <2>3 DEF p
<1>11. OnSum(point_history[epoch], locked)'
  BY <1>2, <1>3, <1>4 DEF OnSum, PowerSum, SlopeSum, Running, Slope, Escrow!Power,
     Escrow!AtLeastZero, Escrow!Point
<1>12. LastTime' <= now' /\ point_history'[0].ts \in Nat
  BY <1>1, <1>2, <1>7 DEF SumInv
<1>13. /\ locked' \in BoundLocks /\ slope_changes' \in [Escrow!Weeks -> Int]
       /\ \A u \in Users : locked'[u] = Escrow!NoLock \/ locked'[u].amount > 0
  BY <1>2 DEF SumInv
<1>14. ~(epoch = 0)'
  BY <1>4
<1> QED
  BY <1>8, <1>9, <1>10, <1>11, <1>12, <1>13, <1>14
     DEF SumInv, BoundLocks, Escrow!Locks, Escrow!NoLock, IsBound, LastTime, Escrow!Weeks

(* So does a call that leaves the escrow alone.                            *)
LEMMA StillSums ==
    ASSUME EscrowInv, SumInv, Still
    PROVE  SumInv'
<1>1. now \in Nat /\ now' \in Nat /\ now <= now' /\ LastTime \in Nat /\ LastTime <= now
  <2>1. now \in BlockTimes
    BY DEF EscrowInv, LocksTyped
  <2>2. now' \in BlockTimes
    BY <2>1 DEF Still
  <2>3. now \in Nat /\ now' \in Nat
    BY <2>1, <2>2, ConstantsTyped
  <2>4. now <= now'
    BY <2>3 DEF Still
  <2>5. LastTime \in Nat /\ LastTime <= now
    BY DEF SumInv, OnSum, LastTime, Escrow!Point
  <2> QED
    BY <2>3, <2>4, <2>5
<1>2. /\ locked' = locked /\ epoch' = epoch /\ point_history' = point_history
      /\ user_point_epoch' = user_point_epoch /\ user_point_history' = user_point_history
      /\ slope_changes' = slope_changes
  BY DEF Still
<1>3. LastTime' = LastTime /\ LastTime' <= now'
  BY <1>1, <1>2 DEF LastTime
<1>4. ASSUME NEW t, Explained(t) PROVE Explained(t)'
  <2>1. PICK L \in BoundLocks : TotalExplained(L, t) /\ \A u \in Users : UserExplained(u, L[u], t)
    BY <1>4 DEF Explained
  <2>2. TotalExplained(L, t)'
    BY <1>2, <2>1 DEF TotalExplained, Foreseen
  <2>3. ASSUME NEW u \in Users PROVE UserExplained(u, L[u], t)'
    BY <1>2, <2>1 DEF UserExplained
  <2> QED
    BY <2>1, <2>2, <2>3 DEF Explained
<1>5. \A t \in point_history'[0].ts .. LastTime' - 1 : Explained(t)'
  BY <1>2, <1>3, <1>4 DEF SumInv
<1>6. Foreseen(locked, LastTime, Horizon)' /\ OnSum(point_history[epoch], locked)'
  BY <1>2, <1>3 DEF SumInv, Foreseen
<1> QED
  BY <1>2, <1>3, <1>5, <1>6 DEF SumInv

(* At deployment nobody has a lock and no moment is past.                  *)
LEMMA InitSums == Init => SumInv
<1> SUFFICES ASSUME Init PROVE SumInv
  OBVIOUS
<1>1. /\ now \in BlockTimes /\ epoch = 0
      /\ locked = [user \in Users |-> Escrow!NoLock]
      /\ user_point_epoch = [user \in Users |-> 0]
      /\ point_history = [e \in {0} |-> [bias |-> 0, slope |-> 0, ts |-> now]]
      /\ slope_changes = [w \in Escrow!Weeks |-> 0]
  BY DEF Init, Escrow!Init
<1>2. now \in Nat
  BY <1>1, ConstantsTyped
<1>3. point_history[0] = [bias |-> 0, slope |-> 0, ts |-> now] /\ point_history[0].ts = now
  BY <1>1
<1>4. LastTime = now
  BY <1>1, <1>3 DEF LastTime
<1>5. locked \in [Users -> {Escrow!NoLock}]
  BY <1>1
<1>6. locked \in BoundLocks /\ PowerSum(locked, now) = 0 /\ SlopeSum(locked, now) = 0
  BY <1>2, <1>5, NoLocksSum
<1>7. OnSum(point_history[epoch], locked)
  BY <1>1, <1>2, <1>3, <1>6 DEF OnSum, Escrow!Point
<1>8. Foreseen(locked, LastTime, Horizon)
  <2> SUFFICES ASSUME NEW w \in Escrow!Weeks PROVE slope_changes[w] = - EndingSum(locked, w)
    BY DEF Foreseen
  <2>1. w \in Nat
    BY DEF Escrow!Weeks
  <2>2. EndingSum(locked, w) = 0
    BY <1>5, <2>1, NoLocksSum
  <2>3. slope_changes[w] = 0
    BY <1>1
  <2>4. EndingSum(locked, w) \in Int /\ \A n \in Int : n = 0 => - n = 0
    BY <2>2
  <2>5. - EndingSum(locked, w) = 0
    BY <2>2, <2>4, Zenon
  <2> QED
    BY <2>3, <2>5, Zenon
<1>9. slope_changes \in [Escrow!Weeks -> Int]
  BY <1>1
<1>10. point_history[0].ts .. LastTime - 1 = {}
  BY <1>2, <1>3, <1>4
<1> QED
  BY <1>1, <1>2, <1>3, <1>4, <1>6, <1>7, <1>8, <1>9, <1>10 DEF SumInv

(* Every call keeps the sums.                                              *)
LEMMA SumStep ==
    ASSUME \A a \in Amounts : a > 0
    PROVE  EscrowInv /\ SumInv /\ Attended /\ [Next]_vars => SumInv'
<1> SUFFICES ASSUME EscrowInv, SumInv, Attended, [Next]_vars PROVE SumInv'
  OBVIOUS
<1>1. \/ \E user \in Users, new \in Escrow!Locks : Relocks(user, new)
      \/ FillsUp
      \/ Still
  BY LocksSwapped DEF EscrowInv
<1> QED
  BY <1>1, RelockSums, FillSums, StillSums

(* The moment t, read off histories that explain it.                       *)
LEMMA LastAtIs ==
    ASSUME NEW history, NEW last \in Nat, NEW t \in Nat, NEW e \in 0 .. last,
           e = 0 \/ (history[e].ts \in Nat /\ history[e].ts <= t),
           \A f \in e + 1 .. last : history[f].ts > t,
           \A f \in e + 1 .. last : history[f].ts \in Nat
    PROVE  Escrow!LastAt(history, last, t) = e
<1> DEFINE P(f) == /\ f = 0 \/ history[f].ts <= t
                   /\ \A g \in f + 1 .. last : history[g].ts > t
<1>1. P(e)
  OBVIOUS
<1>2. ASSUME NEW f \in 0 .. last, P(f) PROVE f = e
  <2>1. CASE f < e
    <3>1. e \in f + 1 .. last /\ e # 0
      BY <2>1
    <3>2. history[e].ts <= t /\ history[e].ts > t
      BY <1>1, <1>2, <3>1
    <3> QED
      BY <3>1, <3>2
  <2>2. CASE f > e
    <3>1. f \in e + 1 .. last /\ f # 0
      BY <2>2
    <3>2. history[f].ts <= t /\ history[f].ts > t /\ history[f].ts \in Nat
      BY <1>1, <1>2, <3>1
    <3> QED
      BY <3>2
  <2> QED
    BY <2>1, <2>2
<1>3. Escrow!LastAt(history, last, t) = CHOOSE f \in 0 .. last : P(f)
  BY DEF Escrow!LastAt
<1> HIDE DEF P
<1> QED
  BY <1>1, <1>2, <1>3

(* A user's power at a moment that is explained.                           *)
LEMMA UserPowerIs ==
    ASSUME LocksTyped, NEW t \in Nat, NEW user \in Users, NEW l, UserExplained(user, l, t)
    PROVE  Escrow!UserPowerAt(user, t) = Escrow!Power(l, t)
<1> DEFINE n == user_point_epoch[user]
           h == user_point_history[user]
<1>1. n \in Nat
  BY DEF LocksTyped
<1>2. PICK e \in 0 .. n :
         /\ \/ e = 0
            \/ h[e].ts \in Nat /\ h[e].ts <= t
         /\ \A f \in e + 1 .. n : h[f].ts \in Nat /\ h[f].ts > t
         /\ IF e = 0 THEN Escrow!Power(l, t) = 0
            ELSE Escrow!UserPowerFrom(h[e], t) = Escrow!Power(l, t)
  BY DEF UserExplained
<1>3. Escrow!UserPowerAt(user, t) =
         IF Escrow!LastAt(h, n, t) = 0 THEN 0
         ELSE Escrow!UserPowerFrom(h[Escrow!LastAt(h, n, t)], t)
  BY DEF Escrow!UserPowerAt
<1> HIDE DEF n, h
<1>4. Escrow!LastAt(h, n, t) = e
  BY <1>1, <1>2, LastAtIs
<1> QED
  BY <1>2, <1>3, <1>4

(* What is explained adds up.                                              *)
LEMMA ExplainedAddsUp ==
    ASSUME EscrowInv, SumInv, NEW t \in Nat, t <= now, Explained(t)
    PROVE  Escrow!TotalPowerAt(t) = Total([user \in Users |-> Escrow!UserPowerAt(user, t)])
<1>1. epoch \in Nat /\ now \in Nat /\ now <= Horizon /\ Horizon \in Nat
  BY ConstantsTyped DEF EscrowInv, LocksTyped
<1>2. PICK L \in BoundLocks : /\ TotalExplained(L, t)
                              /\ \A user \in Users : UserExplained(user, L[user], t)
  BY DEF Explained
<1>3. Escrow!TotalPowerAt(t) = PowerSum(L, t)
  <2>1. PICK e \in 0 .. epoch :
           /\ point_history[e].ts <= t
           /\ \A f \in e + 1 .. epoch : point_history[f].ts \in Nat /\ point_history[f].ts > t
           /\ t <= Escrow!Bound(point_history[e].ts, LOOPS)
           /\ OnSum(point_history[e], L)
           /\ Foreseen(L, point_history[e].ts, t)
    BY <1>2 DEF TotalExplained
  <2>2. Escrow!LastAt(point_history, epoch, t) = e
    BY <1>1, <2>1, LastAtIs DEF OnSum, Escrow!Point
  <2>3. Escrow!supply_at(point_history[e], t) = PowerSum(L, t)
    BY <1>1, <2>1, SupplyAtSum DEF SumInv
  <2> QED
    BY <2>2, <2>3 DEF Escrow!TotalPowerAt
<1>4. ASSUME NEW user \in Users PROVE Escrow!UserPowerAt(user, t) = Escrow!Power(L[user], t)
  BY <1>2, UserPowerIs DEF EscrowInv
<1> QED
  BY <1>3, <1>4 DEF PowerSum

(* Since the last point nothing but the line from it can be read.          *)
LEMMA LastExplained ==
    ASSUME EscrowInv, SumInv, Attended, NEW t \in Nat, LastTime <= t, t <= now
    PROVE  Explained(t)
<1>1. /\ epoch \in Nat /\ now \in Nat /\ now <= Horizon /\ Horizon \in Nat
      /\ LastTime \in Nat /\ LastTime <= now
  BY LastOnSum, ConstantsTyped DEF EscrowInv, LocksTyped
<1>2. PICK L \in BoundLocks : L = locked
  BY DEF SumInv
<1>3. TotalExplained(L, t)
  <2>1. Foreseen(L, LastTime, t)
    BY <1>1, <1>2 DEF SumInv, Foreseen, Escrow!Weeks
  <2>2. t <= Escrow!Bound(LastTime, LOOPS)
    <3>1. Escrow!Bound(LastTime, LOOPS) \in Nat
      BY <1>1, LoopsReach
    <3> QED
      BY <1>1, <3>1 DEF Attended
  <2>3. epoch \in 0 .. epoch /\ epoch + 1 .. epoch = {}
    BY <1>1
  <2> QED
    BY <1>1, <1>2, <2>1, <2>2, <2>3 DEF TotalExplained, SumInv, LastTime
<1>4. ASSUME NEW user \in Users PROVE UserExplained(user, L[user], t)
  <2> DEFINE q == user_point_epoch[user]
             p == user_point_history[user][q]
  <2>1. q \in Nat /\ L[user] \in Escrow!Locks /\ q \in 0 .. q /\ q + 1 .. q = {}
    BY <1>2 DEF EscrowInv, LocksTyped
  <2>2. q > 0 => OnLine(p, L[user]) /\ p.ts <= LastTime
    BY <1>2 DEF EscrowInv, UserLines, SumInv
  <2>3. q = 0 => L[user] = Escrow!NoLock
    BY <1>2 DEF EscrowInv, UserLines
  <2>4. CASE q = 0
    <3>1. Escrow!Power(L[user], t) = 0
      BY <2>3, <2>4, NoLockTyped
    <3> QED
      BY <2>1, <2>4, <3>1 DEF UserExplained
  <2>5. CASE q # 0
    <3>1. OnLine(p, L[user]) /\ p.ts <= LastTime /\ p.ts \in Nat
      BY <2>1, <2>2, <2>5 DEF OnLine, Escrow!Point
    <3> HIDE DEF p
    <3>2. p.ts \in Nat /\ p.ts <= t
      BY <1>1, <3>1
    <3>3. Escrow!UserPowerFrom(p, t) = Escrow!Power(L[user], t)
      BY <2>1, <3>1, <3>2, LineIsPower
    <3> QED
      BY <2>1, <2>5, <3>2, <3>3 DEF UserExplained, p
  <2> QED
    BY <2>4, <2>5
<1> QED
  BY <1>3, <1>4 DEF Explained

(* Read off them, the balances of a past moment add up to the total.       *)
LEMMA SumsAddUp == EscrowInv /\ SumInv /\ Attended => HistoryAddsUp
<1> SUFFICES ASSUME EscrowInv, SumInv, Attended, NEW t \in point_history[0].ts .. now
             PROVE  Escrow!TotalPowerAt(t) =
                      Total([user \in Users |-> Escrow!UserPowerAt(user, t)])
  <2>1. \A f : Escrow!Total(f) = Total(f)
    BY Zenon DEF Total, Escrow!Total, Units, Escrow!Units, Cardinality, Escrow!Cardinality
  <2> QED
    BY <2>1 DEF HistoryAddsUp, Escrow!HistoryAddsUp
<1>1. now \in Nat /\ LastTime \in Nat /\ point_history[0].ts \in Nat
  BY LastOnSum DEF SumInv
<1>2. t \in Nat /\ t <= now
  BY <1>1
<1>3. CASE t < LastTime
  <2>1. t \in point_history[0].ts .. LastTime - 1
    BY <1>1, <1>2, <1>3
  <2> QED
    BY <1>2, <2>1, ExplainedAddsUp DEF SumInv
<1>4. CASE ~(t < LastTime)
  BY <1>1, <1>2, <1>4, LastExplained, ExplainedAddsUp
<1> QED
  BY <1>3, <1>4

(* Who had how much of which total at any moment since the deployment can  *)
(* be read off the histories at any later one, when no call locks zero     *)
(* tokens (VotingEscrow.vy:437 lets create_lock do so) and no silence is   *)
(* longer than the loops reach.                                            *)
THEOREM HistoryHolds ==
    ASSUME \A a \in Amounts : a > 0
    PROVE  Spec /\ []Attended => []HistoryAddsUp
<1>1. Init => SumInv
  BY InitSums
<1>2. EscrowInv /\ SumInv /\ Attended /\ [Next]_vars => SumInv'
  BY SumStep
<1>3. EscrowInv /\ SumInv /\ Attended => HistoryAddsUp
  BY SumsAddUp
<1> QED
  BY <1>1, <1>2, <1>3, EscrowInvHolds, PTL DEF Spec

-----------------------------------------------------------------------------
(* What the distributor reads and keeps: points, and amounts for weeks.    *)

PointsTyped ==
    /\ slope_changes \in [Escrow!Weeks -> Int]
    /\ \A e \in 0 .. epoch : point_history[e] \in Escrow!Point
    /\ \A user \in Users : \A e \in 0 .. user_point_epoch[user] :
          user_point_history[user][e] \in Escrow!Point

(* A checkpoint starts at a point and passes points.                       *)
LEMMA WalkTyped ==
    ASSUME EscrowInv, PointsTyped
    PROVE  /\ \A i \in 0 .. Escrow!Turns(Escrow!LastPoint.ts, now) : Escrow!Walk[i] \in Escrow!Point
           /\ Escrow!WalkEnd \in Escrow!Point
<1>1. now \in Nat /\ now <= Horizon /\ epoch \in Nat
  BY ConstantsTyped DEF EscrowInv, LocksTyped
<1>2. Escrow!LastPoint \in Escrow!Point
  <2>1. CASE epoch > 0
    <3>1. epoch \in 0 .. epoch
      BY <1>1
    <3> QED
      BY <2>1, <3>1 DEF PointsTyped, Escrow!LastPoint
  <2>2. CASE ~(epoch > 0)
    BY <1>1, <2>2 DEF Escrow!LastPoint, Escrow!Point
  <2> QED
    BY <2>1, <2>2
<1>3. \A i \in 0 .. Escrow!Turns(Escrow!LastPoint.ts, now) : Escrow!Walk[i] \in Escrow!Point
  BY <1>1, <1>2, WalkSteps DEF PointsTyped
<1>4. Escrow!Turns(Escrow!LastPoint.ts, now) \in 0 .. Escrow!Turns(Escrow!LastPoint.ts, now)
  BY TurnsEnd, ConstantsTyped
<1> QED
  BY <1>3, <1>4 DEF Escrow!WalkEnd

(* Fill writes points, for whatever final point.                           *)
LEMMA FillTyped ==
    ASSUME EscrowInv, PointsTyped, NEW final \in Escrow!Point, Escrow!Fill(final)
    PROVE  \A e \in 0 .. epoch' : point_history'[e] \in Escrow!Point
<1> DEFINE n == Escrow!Turns(Escrow!LastPoint.ts, now)
<1>1. /\ epoch' = epoch + n /\ epoch' \in Nat /\ epoch \in Nat
      /\ \A e \in 0 .. epoch : point_history'[e] = point_history[e]
      /\ \A i \in 1 .. n - 1 : point_history'[epoch + i] = Escrow!Walk[i]
      /\ point_history'[epoch'] = final
  BY FillGrows DEF EscrowInv, LocksTyped
<1>2. n \in Nat /\ \A i \in 0 .. n : Escrow!Walk[i] \in Escrow!Point
  BY TurnsEnd, ConstantsTyped, WalkTyped
<1> HIDE DEF n
<1> SUFFICES ASSUME NEW e \in 0 .. epoch' PROVE point_history'[e] \in Escrow!Point
  OBVIOUS
<1>3. CASE e <= epoch
  <2>1. e \in 0 .. epoch
    BY <1>1, <1>3
  <2> QED
    BY <1>1, <2>1 DEF PointsTyped
<1>4. CASE e > epoch /\ e < epoch'
  <2>1. e - epoch \in 1 .. n - 1 /\ e - epoch \in 0 .. n /\ epoch + (e - epoch) = e
    BY <1>1, <1>2, <1>4
  <2> QED
    BY <1>1, <1>2, <2>1
<1>5. CASE e = epoch'
  BY <1>1, <1>5
<1> QED
  BY <1>1, <1>3, <1>4, <1>5

(* Correcting a point for a new lock leaves it a point of the same time.   *)
LEMMA JoinedTyped ==
    ASSUME NEW p \in Escrow!Point, NEW old \in Escrow!Locks, NEW new \in Escrow!Locks, now \in Nat
    PROVE  Escrow!Joined(p, old, new) \in Escrow!Point /\ Escrow!Joined(p, old, new).ts = p.ts
<1> DEFINE b == Escrow!AtLeastZero(p.bias + Escrow!UserPoint(new).bias
                                          - Escrow!UserPoint(old).bias)
           c == Escrow!AtLeastZero(p.slope + Escrow!UserPoint(new).slope
                                           - Escrow!UserPoint(old).slope)
<1>1. Escrow!UserPoint(new) \in Escrow!Point /\ Escrow!UserPoint(old) \in Escrow!Point
  BY UserPointOnLine DEF OnLine
<1>2. b \in Int /\ c \in Int
  BY <1>1 DEF Escrow!AtLeastZero, Escrow!Point
<1>3. Escrow!Joined(p, old, new) = [p EXCEPT !.slope = c, !.bias = b]
  BY DEF Escrow!Joined
<1> HIDE DEF b, c
<1> QED
  BY <1>2, <1>3 DEF Escrow!Point

(* Every call keeps the histories' types.                                  *)
LEMMA PointsStep == EscrowInv /\ PointsTyped /\ [Next]_vars => PointsTyped'
<1> SUFFICES ASSUME EscrowInv, PointsTyped, [Next]_vars PROVE PointsTyped'
  OBVIOUS
<1>0. LocksTyped /\ now \in Nat
  BY ConstantsTyped DEF EscrowInv, LocksTyped
<1>1. ASSUME NEW user \in Users, NEW new \in Escrow!Locks, Relocks(user, new)
      PROVE  PointsTyped'
  <2> DEFINE old == locked[user]
  <2>1. /\ Escrow!_checkpoint(user, old, new) /\ old \in Escrow!Locks
        /\ Escrow!Fill(Escrow!Joined(Escrow!WalkEnd, old, new))
        /\ slope_changes' = [w \in Escrow!Weeks |->
              slope_changes[w] + Escrow!Unscheduled(old, new, w) - Escrow!Scheduled(old, new, w)]
    BY <1>0, <1>1 DEF Relocks, Escrow!_checkpoint, LocksTyped
  <2> HIDE DEF old
  <2>2. /\ Escrow!UserPoint(new) \in Escrow!Point /\ Escrow!UserPoint(old) \in Escrow!Point
        /\ Escrow!UserPoint(new).slope \in Int /\ Escrow!UserPoint(old).slope \in Int
    BY <1>0, <2>1, UserPointOnLine DEF OnLine, Escrow!Point
  <2>3. \A e \in 0 .. epoch' : point_history'[e] \in Escrow!Point
    BY <1>0, <2>1, WalkTyped, JoinedTyped, FillTyped
  <2>4. \A w \in Escrow!Weeks :
           Escrow!Unscheduled(old, new, w) \in Int /\ Escrow!Scheduled(old, new, w) \in Int
    BY <2>2 DEF Escrow!Unscheduled, Escrow!Scheduled
  <2>5. slope_changes' \in [Escrow!Weeks -> Int]
    BY <2>1, <2>4 DEF PointsTyped
  <2>6. /\ user_point_epoch'[user] = user_point_epoch[user] + 1
        /\ user_point_history'[user] =
             [e \in 0 .. user_point_epoch[user] + 1 |->
                IF e <= user_point_epoch[user] THEN user_point_history[user][e]
                                               ELSE Escrow!UserPoint(new)]
        /\ \A other \in Users \ {user} :
              /\ user_point_epoch'[other] = user_point_epoch[other]
              /\ user_point_history'[other] = user_point_history[other]
        /\ user_point_epoch[user] \in Nat
    BY <1>0, <2>1, UserFiled DEF LocksTyped
  <2>7. ASSUME NEW u \in Users, NEW e \in 0 .. user_point_epoch'[u]
        PROVE  user_point_history'[u][e] \in Escrow!Point
    <3>1. CASE u = user
      <4>1. e \in 0 .. user_point_epoch[user] + 1
        BY <2>6, <2>7, <3>1
      <4>2. CASE e <= user_point_epoch[user]
        <5>1. e \in 0 .. user_point_epoch[user]
          BY <2>6, <4>1, <4>2
        <5> QED
          BY <2>6, <3>1, <4>1, <4>2, <5>1 DEF PointsTyped
      <4> QED
        BY <2>2, <2>6, <3>1, <4>1, <4>2
    <3>2. CASE u # user
      BY <2>6, <2>7, <3>2 DEF PointsTyped
    <3> QED
      BY <3>1, <3>2
  <2> QED
    BY <2>3, <2>5, <2>7 DEF PointsTyped, Escrow!Weeks, Escrow!Point
<1>2. CASE FillsUp
  <2>1. \A e \in 0 .. epoch' : point_history'[e] \in Escrow!Point
    BY <1>2, WalkTyped, FillTyped DEF FillsUp
  <2> QED
    BY <1>2, <2>1 DEF FillsUp, PointsTyped, Escrow!Weeks, Escrow!Point
<1>3. CASE Still
  BY <1>3 DEF Still, PointsTyped, Escrow!Weeks, Escrow!Point
<1> QED
  BY <1>0, <1>1, <1>2, <1>3, LocksSwapped

(* They hold at deployment.                                                *)
LEMMA PointsInit == Init => PointsTyped
<1> SUFFICES ASSUME Init PROVE PointsTyped
  OBVIOUS
<1>1. /\ now \in BlockTimes /\ epoch = 0
      /\ point_history = [e \in {0} |-> [bias |-> 0, slope |-> 0, ts |-> now]]
      /\ user_point_epoch = [user \in Users |-> 0]
      /\ user_point_history =
           [user \in Users |-> [e \in {0} |-> [bias |-> 0, slope |-> 0, ts |-> 0]]]
      /\ slope_changes = [w \in Escrow!Weeks |-> 0]
  BY DEF Init, Escrow!Init
<1>2. now \in Nat
  BY <1>1, ConstantsTyped
<1>3. \A e \in 0 .. epoch : point_history[e] \in Escrow!Point
  BY <1>1, <1>2 DEF Escrow!Point
<1>4. \A user \in Users : \A e \in 0 .. user_point_epoch[user] :
         user_point_history[user][e] \in Escrow!Point
  BY <1>1 DEF Escrow!Point
<1>5. slope_changes \in [Escrow!Weeks -> Int]
  BY <1>1
<1> QED
  BY <1>3, <1>4, <1>5 DEF PointsTyped

(* The point of a history in force at a time: the last one not after it.   *)
LEMMA LastAtIn ==
    ASSUME NEW h, NEW last \in Nat, NEW t \in Nat, \A e \in 0 .. last : h[e].ts \in Nat
    PROVE  /\ Escrow!LastAt(h, last, t) \in 0 .. last
           /\ Escrow!LastAt(h, last, t) = 0 \/ h[Escrow!LastAt(h, last, t)].ts <= t
           /\ \A f \in Escrow!LastAt(h, last, t) + 1 .. last : h[f].ts > t
<1> DEFINE T == {e \in 0 .. last : e = 0 \/ h[e].ts <= t}
           P(e) == /\ e = 0 \/ h[e].ts <= t
                   /\ \A f \in e + 1 .. last : h[f].ts > t
<1>1. T \subseteq Nat /\ (\A k \in T : k <= last) /\ 0 \in T
  OBVIOUS
<1>2. PICK m \in T : \A k \in T : k <= m
  <2> HIDE DEF T
  <2> QED
    BY <1>1, Greatest
<1>3. m \in 0 .. last /\ P(m)
  <2>1. ASSUME NEW f \in m + 1 .. last PROVE h[f].ts > t
    <3>1. f \in 0 .. last /\ f \notin T /\ f # 0
      BY <1>1, <1>2
    <3> QED
      BY <3>1
  <2> QED
    BY <1>2, <2>1
<1>4. Escrow!LastAt(h, last, t) = CHOOSE e \in 0 .. last : P(e)
  BY DEF Escrow!LastAt
<1>5. P(Escrow!LastAt(h, last, t)) /\ Escrow!LastAt(h, last, t) \in 0 .. last
  <2> HIDE DEF P
  <2> QED
    BY <1>3, <1>4
<1> QED
  BY <1>5

(* Cursors are week bounds, no cursor is past the history it walks, and    *)
(* what is recorded are natural numbers.                                   *)
DistTyped ==
    /\ start_time \in Nat /\ IsBound(start_time)
    /\ time_cursor \in Nat /\ IsBound(time_cursor)
    /\ ve_supply \in [Weeks -> Nat]
    /\ last_token_time \in Nat /\ last_token_time <= Horizon
    /\ tokens_per_week \in [Weeks -> Nat]
    /\ token_last_balance \in Nat /\ token_balance \in Nat
    /\ time_cursor_of \in [Users -> Nat] /\ \A user \in Users : IsBound(time_cursor_of[user])
    /\ user_epoch_of \in [Users -> Nat]
    /\ \A user \in Users : user_epoch_of[user] <= user_point_epoch[user]

(* The weeks of the model are bounds.                                      *)
LEMMA WeekIsBound ==
    ASSUME NEW w \in Weeks
    PROVE  w \in Nat /\ IsBound(w) /\ w <= Horizon
<1>1. w \in Nat /\ w % WEEK = 0 /\ w <= Horizon /\ WEEK \in Nat /\ WEEK > 0
  BY ConstantsTyped DEF Weeks, Escrow!Weeks
<1>2. w = WEEK * (w \div WEEK) + (w % WEEK) /\ w \div WEEK \in Nat
  BY <1>1
<1>3. w = (w \div WEEK) * WEEK
  BY <1>1, <1>2
<1> QED
  BY <1>1, <1>2, <1>3 DEF IsBound

(* What a token checkpoint gives to a week, and to the weeks before.       *)
LEMMA SpreadTyped ==
    ASSUME now \in Nat, last_token_time \in Nat, last_token_time <= now,
           NEW amount \in Nat, NEW w \in Weeks
    PROVE  /\ Spread(amount, w) \in Nat
           /\ w < WeekOf(last_token_time) => Spread(amount, w) = 0
<1> DEFINE t == last_token_time
           d == Least(w + WEEK, now) - Most(w, t)
<1>1. w \in Nat /\ WEEK \in Nat
  BY ConstantsTyped DEF Weeks, Escrow!Weeks
<1>2. /\ WeekOf(t) \in Nat /\ t < WeekOf(t) + WEEK
      /\ WeekOf(now) \in Nat /\ WeekOf(now) <= now
  BY WeekStarts DEF WeekOf
<1>3. CASE w < WeekOf(t)
  BY <1>3 DEF Spread
<1>4. CASE ~(w < WeekOf(t)) /\ ~(w > WeekOf(now)) /\ now # t
  <2>1. d \in Nat
    BY <1>1, <1>2, <1>4 DEF Least, Most
  <2>2. now - t \in Nat /\ now - t > 0
    BY <1>4
  <2> HIDE DEF d
  <2>3. amount * d \in Nat
    BY <2>1
  <2>4. (amount * d) \div (now - t) \in Nat
    BY <2>2, <2>3
  <2> QED
    BY <1>4, <2>4 DEF Spread, d
<1>5. CASE ~(w < WeekOf(t)) /\ (w > WeekOf(now) \/ now = t)
  BY <1>5 DEF Spread
<1> QED
  BY <1>3, <1>4, <1>5

(* A token checkpoint moves its time to the block's, and records nothing   *)
(* for weeks before that of the previous checkpoint.                       *)
LEMMA TokensMoved ==
    ASSUME LocksTyped, DistTyped, NEW balance \in Nat, CheckpointToken(balance)
    PROVE  /\ tokens_per_week' \in [Weeks -> Nat] /\ last_token_time' = now
           /\ last_token_time' \in Nat /\ last_token_time' <= Horizon
           /\ last_token_time <= last_token_time'
           /\ \A w \in Weeks : w < WeekOf(last_token_time) =>
                 tokens_per_week'[w] = tokens_per_week[w]
<1>1. now \in Nat /\ now <= Horizon
  BY ConstantsTyped DEF LocksTyped
<1>2. /\ last_token_time \in Nat /\ last_token_time <= now
      /\ balance - token_last_balance \in Nat
      /\ tokens_per_week' = [w \in Weeks |->
                               tokens_per_week[w] + Spread(balance - token_last_balance, w)]
      /\ last_token_time' = now
  BY <1>1 DEF DistTyped, CheckpointToken
<1>3. ASSUME NEW w \in Weeks
      PROVE  /\ Spread(balance - token_last_balance, w) \in Nat
             /\ w < WeekOf(last_token_time) => Spread(balance - token_last_balance, w) = 0
  BY <1>1, <1>2, SpreadTyped
<1>4. tokens_per_week \in [Weeks -> Nat]
  BY DEF DistTyped
<1> QED
  BY <1>1, <1>2, <1>3, <1>4

(* What a supply checkpoint records, and for which weeks.                  *)
LEMMA SupplyMoved ==
    ASSUME EscrowInv, EscrowInv', PointsTyped', DistTyped, CheckpointTotalSupply
    PROVE  /\ ve_supply' \in [Weeks -> Nat]
           /\ time_cursor' \in Nat /\ IsBound(time_cursor') /\ time_cursor <= time_cursor'
           /\ \A w \in Weeks : w < time_cursor => ve_supply'[w] = ve_supply[w]
           /\ \A w \in Weeks : time_cursor <= w /\ w < time_cursor' =>
                 w <= now /\ ve_supply'[w] = SupplyRead(point_history', epoch', w)
           /\ now' = now /\ locked' = locked
           /\ user_point_epoch' = user_point_epoch /\ user_point_history' = user_point_history
<1> DEFINE recorded == {w \in Weeks : /\ time_cursor <= w /\ w <= WeekOf(now)
                                      /\ w < time_cursor + SUPPLY_LOOPS * WEEK}
<1>1. /\ WEEK \in Nat /\ WEEK > 0 /\ now \in Nat /\ WeekOf(now) \in Nat /\ WeekOf(now) <= now
      /\ SUPPLY_LOOPS \in Nat /\ epoch' \in Nat /\ time_cursor \in Nat /\ IsBound(time_cursor)
  BY ConstantsTyped, WeekStarts, DistributorAssumption
     DEF EscrowInv, LocksTyped, DistTyped, WeekOf
<1>2. /\ ve_supply' = [w \in Weeks |->
                         IF w \in recorded THEN SupplyRead(point_history', epoch', w)
                                           ELSE ve_supply[w]]
      /\ time_cursor' = IF recorded = {} THEN time_cursor
                        ELSE WEEK + CHOOSE w \in recorded : \A v \in recorded : v <= w
      /\ now' = now /\ locked' = locked
      /\ user_point_epoch' = user_point_epoch /\ user_point_history' = user_point_history
  BY DEF CheckpointTotalSupply, Escrow!checkpoint
<1>3. ASSUME NEW w \in Weeks PROVE w \in Nat /\ IsBound(w)
  BY WeekIsBound
<1>4. ASSUME NEW w \in Weeks PROVE SupplyRead(point_history', epoch', w) \in Nat
  <2> DEFINE e == Escrow!LastAt(point_history', epoch', w)
  <2>1. \A f \in 0 .. epoch' : point_history'[f] \in Escrow!Point /\ point_history'[f].ts \in Nat
    BY DEF PointsTyped, Escrow!Point
  <2>2. e \in 0 .. epoch'
    BY <1>1, <1>3, <2>1, LastAtIn
  <2> HIDE DEF e
  <2>3. PICK p \in Escrow!Point : p = point_history'[e]
    BY <2>1, <2>2
  <2>4. p.bias \in Int /\ p.slope \in Int /\ p.ts \in Nat
    BY DEF Escrow!Point
  <2>5. Escrow!AtLeastZero(w - p.ts) \in Int
    BY <1>3, <2>4 DEF Escrow!AtLeastZero
  <2>6. p.bias - p.slope * Escrow!AtLeastZero(w - p.ts) \in Int
    BY <2>4, <2>5
  <2>7. Escrow!AtLeastZero(p.bias - p.slope * Escrow!AtLeastZero(w - p.ts)) \in Nat
    BY <2>6 DEF Escrow!AtLeastZero
  <2> QED
    BY <2>3, <2>7 DEF SupplyRead, e
<1>5. ve_supply' \in [Weeks -> Nat]
  <2> HIDE DEF recorded
  <2> QED
    BY <1>2, <1>4 DEF DistTyped
<1>6. CASE recorded = {}
  BY <1>1, <1>2, <1>3, <1>5, <1>6
<1>7. CASE recorded # {}
  <2>1. recorded \subseteq Nat /\ \A w \in recorded : w <= WeekOf(now)
    BY <1>3
  <2>2. \E m \in recorded : \A v \in recorded : v <= m
    <3> HIDE DEF recorded
    <3> QED
      BY <1>1, <1>7, <2>1, Greatest
  <2>3. PICK m \in recorded : (\A v \in recorded : v <= m) /\ time_cursor' = WEEK + m
    <3> HIDE DEF recorded
    <3> QED
      BY <1>2, <1>7, <2>2
  <2>4. m \in Nat /\ IsBound(m) /\ time_cursor <= m /\ m <= WeekOf(now) /\ m \in Weeks
        /\ m < time_cursor + SUPPLY_LOOPS * WEEK
    BY <1>3, <2>3
  <2>5. time_cursor' \in Nat /\ IsBound(time_cursor') /\ time_cursor <= time_cursor'
    <3>1. PICK k \in Nat : m = k * WEEK
      BY <2>4 DEF IsBound
    <3>2. WEEK + m = (k + 1) * WEEK /\ k + 1 \in Nat
      BY <1>1, <3>1
    <3>3. time_cursor' = (k + 1) * WEEK
      BY <2>3, <3>2
    <3>4. IsBound(time_cursor')
      BY <3>2, <3>3 DEF IsBound
    <3> QED
      BY <1>1, <2>3, <2>4, <3>4
  <2>6. ASSUME NEW w \in Weeks, time_cursor <= w, w < time_cursor' PROVE w \in recorded
    <3>1. w \in Nat /\ IsBound(w)
      BY <1>3
    <3>2. w <= m
      <4>1. m < w => m + WEEK <= w
        BY <2>4, <3>1, BoundsApart
      <4> QED
        BY <1>1, <2>3, <2>4, <2>6, <3>1, <4>1
    <3>3. SUPPLY_LOOPS * WEEK \in Nat
      BY <1>1
    <3> QED
      BY <1>1, <2>4, <2>6, <3>1, <3>2, <3>3
  <2>7. \A w \in Weeks : w < time_cursor => w \notin recorded
    BY <1>1, <1>3
  <2>8. \A w \in recorded : w <= now
    BY <1>1, <1>3
  <2> HIDE DEF recorded
  <2> QED
    BY <1>2, <1>5, <2>5, <2>6, <2>7, <2>8
<1> QED
  BY <1>6, <1>7

-----------------------------------------------------------------------------
(* Claims: the states _claim's loop passes through.                        *)

ClaimStates(user) ==
    {s \in [week : Nat, point : 1 .. user_point_epoch[user] + 1, amount : Nat,
            status : {"going", "stopped", "reverted"}] : IsBound(s.week)}

(* Where _claim's loop starts.                                             *)
ClaimStart(user) == [week |-> Most(StartWeek(user), start_time), point |-> StartPoint(user),
                     amount |-> 0, status |-> "going"]

(* f is the walk of _claim's loop.                                         *)
ClaimWalk(f, user, last, perWeek, total) ==
    /\ f \in [0 .. CLAIM_LOOPS -> ClaimStates(user)]
    /\ f[0] = ClaimStart(user)
    /\ \A i \in 1 .. CLAIM_LOOPS : f[i] = NextTurn(user, last, perWeek, total, f[i - 1])

(* A week after a bound comes a bound.                                     *)
LEMMA NextBound ==
    ASSUME NEW w \in Nat, IsBound(w)
    PROVE  w + WEEK \in Nat /\ IsBound(w + WEEK)
<1>1. PICK k \in Nat : w = k * WEEK
  BY DEF IsBound
<1>2. WEEK \in Nat /\ (k + 1) * WEEK = k * WEEK + WEEK /\ k + 1 \in Nat
  BY ConstantsTyped
<1>3. w + WEEK = (k + 1) * WEEK
  BY <1>1, <1>2
<1> QED
  BY <1>2, <1>3 DEF IsBound

(* A power read off a point is a natural number.                           *)
LEMMA PowerTyped ==
    ASSUME NEW p \in Escrow!Point, NEW t \in Nat
    PROVE  Escrow!UserPowerFrom(p, t) \in Nat
<1>1. p.bias \in Int /\ p.slope \in Int /\ p.ts \in Nat
  BY DEF Escrow!Point
<1>2. p.bias - p.slope * (t - p.ts) \in Int
  BY <1>1
<1> QED
  BY <1>2 DEF Escrow!UserPowerFrom, Escrow!AtLeastZero

(* So is a share of a week's fees.                                         *)
LEMMA ShareTyped ==
    ASSUME NEW power \in Nat, NEW week_tokens \in Nat, NEW week_supply \in Nat, week_supply # 0
    PROVE  FeeShare(power, week_tokens, week_supply) \in Nat
<1>1. power * week_tokens \in Nat /\ week_supply > 0
  OBVIOUS
<1> QED
  BY <1>1 DEF FeeShare

(* A turn of _claim's loop leads from such a state to such a state: the    *)
(* user's cursor stays on bounds and inside the user's history.            *)
LEMMA TurnOfClaim ==
    ASSUME EscrowInv, PointsTyped, NEW user \in Users, NEW last \in Nat, last <= Horizon,
           NEW perWeek \in [Weeks -> Nat], NEW total \in [Weeks -> Nat],
           NEW s \in ClaimStates(user)
    PROVE  NextTurn(user, last, perWeek, total, s) \in ClaimStates(user)
<1> DEFINE n == user_point_epoch[user]
           p == user_point_history[user][s.point - 1]
           power == Escrow!UserPowerFrom(p, s.week)
           share == FeeShare(power, perWeek[s.week], total[s.week])
           on == [s EXCEPT !.point = @ + 1]
           stop == [s EXCEPT !.status = "stopped"]
           skip == [s EXCEPT !.week = @ + WEEK]
           revert == [s EXCEPT !.status = "reverted"]
           pay == [s EXCEPT !.week = @ + WEEK, !.amount = @ + share]
<1>1. /\ n \in Nat /\ WEEK \in Nat /\ Horizon \in Nat
      /\ s \in [week : Nat, point : 1 .. n + 1, amount : Nat,
                status : {"going", "stopped", "reverted"}]
      /\ s.week \in Nat /\ IsBound(s.week) /\ s.point \in 1 .. n + 1 /\ s.amount \in Nat
  BY ConstantsTyped DEF EscrowInv, LocksTyped, ClaimStates
<1>2. power \in Nat
  <2>1. s.point - 1 \in 0 .. n
    BY <1>1
  <2> QED
    BY <1>1, <2>1, PowerTyped DEF PointsTyped
<1>3. s.week + WEEK \in Nat /\ IsBound(s.week + WEEK)
  BY <1>1, NextBound
<1>4. s.week < last => s.week \in Weeks
  BY <1>1, BoundIsWeek DEF Weeks
<1>5. ASSUME s.week < last, total[s.week] # 0 PROVE share \in Nat
  BY <1>2, <1>4, <1>5, ShareTyped
<1>6. NextTurn(user, last, perWeek, total, s) =
         IF s.status # "going" \/ s.week >= last THEN s
         ELSE IF s.point <= n /\ s.week >= user_point_history[user][s.point].ts THEN on
         ELSE IF power = 0 THEN IF s.point > n THEN stop ELSE skip
         ELSE IF total[s.week] = 0 THEN revert
         ELSE pay
  BY <1>1 DEF NextTurn
<1> HIDE DEF n, p, power, share
<1>7. s.point <= n => on \in ClaimStates(user)
  <2> SUFFICES ASSUME s.point <= n PROVE on \in ClaimStates(user)
    OBVIOUS
  <2>1. s.point + 1 \in 1 .. n + 1
    BY <1>1
  <2> QED
    BY <1>1, <2>1 DEF ClaimStates, n
<1>8. stop \in ClaimStates(user) /\ revert \in ClaimStates(user)
  BY <1>1 DEF ClaimStates, n
<1>9. skip \in ClaimStates(user)
  BY <1>1, <1>3 DEF ClaimStates, n
<1>10. share \in Nat => pay \in ClaimStates(user)
  <2> SUFFICES ASSUME share \in Nat PROVE pay \in ClaimStates(user)
    OBVIOUS
  <2>1. s.amount + share \in Nat
    BY <1>1
  <2> QED
    BY <1>1, <1>3, <2>1 DEF ClaimStates, n
<1> HIDE DEF on, stop, skip, revert, pay
<1> QED
  BY <1>1, <1>5, <1>6, <1>7, <1>8, <1>9, <1>10

(* Where a claim starts.                                                   *)
LEMMA StartTyped ==
    ASSUME EscrowInv, PointsTyped, DistTyped, NEW user \in Users, user_point_epoch[user] # 0
    PROVE  /\ StartPoint(user) \in 1 .. user_point_epoch[user]
           /\ StartWeek(user) \in Nat /\ IsBound(StartWeek(user))
           /\ ClaimStart(user) \in ClaimStates(user)
<1> DEFINE n == user_point_epoch[user]
<1>1. /\ n \in Nat /\ n >= 1 /\ WEEK \in Nat /\ WEEK > 0
      /\ time_cursor_of[user] \in Nat /\ IsBound(time_cursor_of[user])
      /\ user_epoch_of[user] \in Nat /\ user_epoch_of[user] <= n
      /\ start_time \in Nat /\ IsBound(start_time)
  BY ConstantsTyped DEF EscrowInv, LocksTyped, DistTyped
<1>2. \A e \in 0 .. n :
         user_point_history[user][e] \in Escrow!Point /\ user_point_history[user][e].ts \in Nat
  BY DEF PointsTyped, Escrow!Point
<1>3. Escrow!LastAt(user_point_history[user], n, start_time) \in 0 .. n
  BY <1>1, <1>2, LastAtIn
<1>4. StartPoint(user) \in 1 .. n
  BY <1>1, <1>3 DEF StartPoint, Most
<1>5. StartWeek(user) \in Nat /\ IsBound(StartWeek(user))
  <2> DEFINE t == user_point_history[user][StartPoint(user)].ts
  <2>1. StartPoint(user) \in 0 .. n
    BY <1>1, <1>4
  <2>2. t \in Nat
    BY <1>2, <2>1
  <2>3. StartWeek(user) = IF time_cursor_of[user] # 0 THEN time_cursor_of[user]
                          ELSE WeekOf(t + WEEK - 1)
    BY DEF StartWeek
  <2> HIDE DEF t
  <2>4. t + WEEK - 1 \in Nat
    BY <1>1, <2>2
  <2>5. WeekOf(t + WEEK - 1) \in Nat /\ IsBound(WeekOf(t + WEEK - 1))
    BY <2>4, WeekStarts DEF WeekOf
  <2> QED
    BY <1>1, <2>3, <2>5
<1>6. Most(StartWeek(user), start_time) \in Nat /\ IsBound(Most(StartWeek(user), start_time))
  BY <1>1, <1>5 DEF Most
<1>7. StartPoint(user) \in 1 .. n + 1
  BY <1>1, <1>4
<1> QED
  BY <1>4, <1>5, <1>6, <1>7 DEF ClaimStart, ClaimStates

(* A claim is what its loop ends with.                                     *)
LEMMA ClaimIsWalk ==
    ASSUME EscrowInv, PointsTyped, DistTyped, NEW user \in Users, NEW last \in Nat,
           last <= Horizon, NEW perWeek \in [Weeks -> Nat], NEW total \in [Weeks -> Nat],
           user_point_epoch[user] # 0, StartWeek(user) < last
    PROVE  \E f : /\ ClaimWalk(f, user, last, perWeek, total)
                  /\ _claim(user, last, perWeek, total) =
                       [f[CLAIM_LOOPS] EXCEPT !.point = Least(user_point_epoch[user], @ - 1)]
<1> DEFINE n == CLAIM_LOOPS
           S == ClaimStates(user)
           p == ClaimStart(user)
           Turn(s) == NextTurn(user, last, perWeek, total, s)
           step == [i \in 1 .. n |-> [x \in S |-> Turn(x)]]
           g == CHOOSE h : h = [i \in 0 .. n |-> IF i = 0 THEN p ELSE Turn(h[i - 1])]
<1>1. n \in Nat /\ n >= 1 /\ p \in S
  BY StartTyped, DistributorAssumption
<1>2. \A x \in S : Turn(x) \in S
  BY TurnOfClaim
<1>3. _claim(user, last, perWeek, total) =
         [g[n] EXCEPT !.point = Least(user_point_epoch[user], @ - 1)]
  <2>1. StartWeek(user) \in Nat /\ ~(StartWeek(user) >= last)
    BY StartTyped
  <2> QED
    BY <2>1 DEF _claim, ClaimStart
<1> HIDE DEF n, S, p, Turn
<1>4. \A i \in 1 .. n : \A x \in S : step[i][x] = Turn(x)
  OBVIOUS
<1>5. PICK f \in [0 .. n -> S] : f[0] = p /\ \A i \in 1 .. n : f[i] = step[i][f[i - 1]]
  <2>1. step \in [1 .. n -> [S -> S]]
    BY <1>2
  <2>2. Steps(S, n, step)
    BY <2>1 DEF Steps
  <2> HIDE DEF step
  <2>3. \E f : Follows(f, S, p, n, step)
    BY <1>1, <2>2, StepByStep
  <2> QED
    BY <2>3 DEF Follows
<1> HIDE DEF step
<1>6. \A i \in 0 .. n : f[i] = IF i = 0 THEN p ELSE Turn(f[i - 1])
  <2>1. ASSUME NEW i \in 0 .. n, i # 0 PROVE f[i] = Turn(f[i - 1])
    <3>1. i \in 1 .. n /\ i - 1 \in 0 .. n
      BY <1>1, <2>1
    <3> QED
      BY <1>4, <1>5, <3>1
  <2> QED
    BY <1>5, <2>1
<1>7. f = [i \in 0 .. n |-> IF i = 0 THEN p ELSE Turn(f[i - 1])]
  <2>1. f = [i \in 0 .. n |-> f[i]]
    BY <1>5
  <2> QED
    BY <1>6, <2>1
<1>8. g = [i \in 0 .. n |-> IF i = 0 THEN p ELSE Turn(g[i - 1])]
  BY <1>7
<1> HIDE DEF g
<1>9. g[0] = p /\ \A i \in 1 .. n : g[i] = Turn(g[i - 1])
  BY <1>1, <1>8
<1>10. \A i \in 0 .. n : g[i] \in S
  <2>1. \A i \in 1 .. n : g[i - 1] \in S => g[i] \in S
    BY <1>2, <1>9
  <2> QED
    BY <1>1, <1>9, <2>1, StaysIn
<1>11. g \in [0 .. n -> S]
  <2>1. g = [i \in 0 .. n |-> g[i]]
    BY <1>8
  <2> QED
    BY <1>10, <2>1
<1>12. ClaimWalk(g, user, last, perWeek, total)
  BY <1>9, <1>11 DEF ClaimWalk, n, S, p, Turn
<1> QED
  BY <1>3, <1>12 DEF n

(* What _claim returns, to be stored as the user's cursors.                *)
LEMMA ClaimTyped ==
    ASSUME EscrowInv, PointsTyped, DistTyped, NEW user \in Users, NEW last \in Nat,
           last <= Horizon, NEW perWeek \in [Weeks -> Nat], NEW total \in [Weeks -> Nat],
           NEW c, c = _claim(user, last, perWeek, total)
    PROVE  /\ c.week \in Nat /\ IsBound(c.week) /\ c.amount \in Nat
           /\ c.point \in Nat /\ c.point <= user_point_epoch[user]
<1>1. user_point_epoch[user] \in Nat
  BY DEF EscrowInv, LocksTyped
<1>2. CASE user_point_epoch[user] # 0 /\ StartWeek(user) < last
  <2>1. PICK f : /\ ClaimWalk(f, user, last, perWeek, total)
                 /\ c = [f[CLAIM_LOOPS] EXCEPT !.point = Least(user_point_epoch[user], @ - 1)]
    BY <1>2, ClaimIsWalk
  <2>2. CLAIM_LOOPS \in 0 .. CLAIM_LOOPS
    BY DistributorAssumption
  <2>3. PICK s \in ClaimStates(user) : s = f[CLAIM_LOOPS]
    BY <2>1, <2>2 DEF ClaimWalk
  <2>4. /\ s.week \in Nat /\ IsBound(s.week) /\ s.amount \in Nat
        /\ s.point \in 1 .. user_point_epoch[user] + 1
        /\ c = [s EXCEPT !.point = Least(user_point_epoch[user], s.point - 1)]
        /\ c.week = s.week /\ c.amount = s.amount
        /\ c.point = Least(user_point_epoch[user], s.point - 1)
    BY <2>1, <2>3 DEF ClaimStates
  <2> QED
    BY <1>1, <2>4 DEF Least
<1>3. CASE ~(user_point_epoch[user] # 0 /\ StartWeek(user) < last)
  <2>1. user_point_epoch[user] = 0 \/ StartWeek(user) >= last
    BY <1>3, StartTyped
  <2>2. c = [week |-> time_cursor_of[user], point |-> user_epoch_of[user], amount |-> 0,
             status |-> "nothing"]
    BY <2>1 DEF _claim
  <2> QED
    BY <1>1, <2>2 DEF DistTyped
<1> QED
  BY <1>2, <1>3

-----------------------------------------------------------------------------
(* The distributor's steps.  A supply or token checkpoint is the only way  *)
(* in which what is recorded for weeks changes.                            *)

WeeksKept ==
    \A w \in {v \in Weeks : v < Least(time_cursor, WeekOf(last_token_time))} :
        tokens_per_week'[w] = tokens_per_week[w] /\ ve_supply'[w] = ve_supply[w]

(* How a call may touch the recorded supplies and tokens.                  *)
SupplyStep == UNCHANGED supplies \/ CheckpointTotalSupply

TokenStep ==
    \/ UNCHANGED <<last_token_time, tokens_per_week>>
    \/ \E balance \in Nat : CheckpointToken(balance)

(* Every call touches them in these ways only.                             *)
LEMMA StepParts ==
    ASSUME DistTyped, [Next]_vars
    PROVE  /\ SupplyStep /\ TokenStep /\ start_time' = start_time
           /\ \/ UNCHANGED <<time_cursor_of, user_epoch_of>>
              \/ \E S \in SUBSET Users : claim_many(S)
<1> USE DEF SupplyStep, TokenStep
<1>0. token_balance \in Nat /\ \A amount \in Fees : amount \in Nat
  BY DistributorAssumption DEF DistTyped
<1>1. CASE UNCHANGED dvars
  BY <1>1 DEF dvars, supplies, tokens, claims, control
<1>2. ASSUME NEW sender \in Admins, checkpoint_token(sender)
      PROVE  /\ UNCHANGED <<supplies, claims, control>>
             /\ \E balance \in Nat : CheckpointToken(balance)
  BY <1>0, <1>2 DEF checkpoint_token
<1>3. CASE checkpoint_total_supply
  BY <1>3 DEF checkpoint_total_supply, tokens, claims, control
<1>4. ASSUME NEW S \in SUBSET Users, claim_many(S)
      PROVE  SupplyStep /\ TokenStep /\ start_time' = start_time
  BY <1>0, <1>4 DEF claim_many, control
<1>5. ASSUME NEW amount \in Fees, Receive(amount) \/ burn(amount)
      PROVE  UNCHANGED <<supplies, claims, control>> /\ TokenStep
  <2>1. token_balance + amount \in Nat
    BY <1>0
  <2> QED
    BY <1>5, <2>1 DEF Receive, burn, tokens
<1>6. CASE Distributing
  <2>1. ASSUME NEW user \in Users, claim(user) PROVE \E S \in SUBSET Users : claim_many(S)
    BY <2>1 DEF claim
  <2> HIDE DEF SupplyStep, TokenStep
  <2>2. UNCHANGED <<supplies, claims, control>> /\ TokenStep =>
           /\ SupplyStep /\ TokenStep /\ start_time' = start_time
           /\ UNCHANGED <<time_cursor_of, user_epoch_of>>
    BY DEF SupplyStep, claims, control
  <2>3. (\E balance \in Nat : CheckpointToken(balance)) => TokenStep
    BY DEF TokenStep
  <2>4. checkpoint_total_supply =>
           /\ SupplyStep /\ TokenStep /\ start_time' = start_time
           /\ UNCHANGED <<time_cursor_of, user_epoch_of>>
    BY DEF SupplyStep, TokenStep, checkpoint_total_supply, tokens, claims, control
  <2>5. CASE \E sender \in Admins : checkpoint_token(sender)
    BY <1>2, <2>2, <2>3, <2>5
  <2>6. CASE checkpoint_total_supply
    BY <2>4, <2>6
  <2>7. CASE \/ \E user \in Users : claim(user)
             \/ \E S \in SUBSET Users : claim_many(S)
    BY <1>4, <2>1, <2>7
  <2>8. CASE \E amount \in Fees : Receive(amount) \/ burn(amount)
    BY <1>5, <2>2, <2>8
  <2> QED
    BY <1>6, <2>5, <2>6, <2>7, <2>8 DEF Distributing
<1>7. CASE Owning
  BY <1>7 DEF Owning, toggle_allow_checkpoint_token, kill_me, apply_admin, commit_admin,
              supplies, tokens, claims
<1>8. CASE UNCHANGED vars
  BY <1>1, <1>8 DEF vars
<1> QED
  BY <1>1, <1>6, <1>7, <1>8 DEF Next, Locking, Tick

(* Balances and what is accounted for stay natural numbers.                *)
LEMMA BalancesTyped ==
    ASSUME EscrowInv, PointsTyped, DistTyped, [Next]_vars,
           \A S \in SUBSET Users : claim_many(S) =>
              Total([user \in S |-> _claim(user, WeekOf(last_token_time'), tokens_per_week',
                                           ve_supply').amount]) \in Nat
    PROVE  token_last_balance' \in Nat /\ token_balance' \in Nat
<1> DEFINE Goal == token_last_balance' \in Nat /\ token_balance' \in Nat
<1>0. token_balance \in Nat /\ token_last_balance \in Nat /\ \A amount \in Fees : amount \in Nat
  BY DistributorAssumption DEF DistTyped
<1>1. CASE UNCHANGED dvars
  BY <1>0, <1>1 DEF dvars, tokens
<1>2. ASSUME NEW sender \in Admins, checkpoint_token(sender) PROVE Goal
  BY <1>0, <1>2 DEF checkpoint_token
<1>3. CASE checkpoint_total_supply
  BY <1>0, <1>3 DEF checkpoint_total_supply, tokens
<1>4. ASSUME NEW S \in SUBSET Users, claim_many(S) PROVE Goal
  <2> DEFINE total == Total([user \in S |-> _claim(user, WeekOf(last_token_time'),
                                                   tokens_per_week', ve_supply').amount])
             accounted == IF MayCheckpointToken THEN token_balance ELSE token_last_balance
             c == [user \in S |-> _claim(user, WeekOf(last_token_time'), tokens_per_week',
                                         ve_supply')]
  <2>1. total \in Nat
    BY <1>4
  <2>2. [user \in S |-> c[user].amount] =
           [user \in S |-> _claim(user, WeekOf(last_token_time'), tokens_per_week',
                                  ve_supply').amount]
    OBVIOUS
  <2>3. /\ total <= token_balance /\ total <= accounted
        /\ token_last_balance' = accounted - total /\ token_balance' = token_balance - total
    BY <1>4, <2>2 DEF claim_many
  <2> HIDE DEF total
  <2> QED
    BY <1>0, <2>1, <2>3
<1>5. ASSUME NEW amount \in Fees, Receive(amount) \/ burn(amount) PROVE Goal
  BY <1>0, <1>5 DEF Receive, burn, tokens
<1>6. CASE Owning
  BY <1>0, <1>6 DEF Owning, toggle_allow_checkpoint_token, kill_me, apply_admin, commit_admin,
                    tokens
<1>7. CASE UNCHANGED vars
  BY <1>1, <1>7 DEF vars
<1>8. CASE Distributing
  <2>1. ASSUME NEW user \in Users, claim(user) PROVE Goal
    BY <1>4, <2>1 DEF claim
  <2> HIDE DEF Goal
  <2> QED
    BY <1>2, <1>3, <1>4, <1>5, <1>8, <2>1 DEF Distributing, Goal
<1> QED
  BY <1>1, <1>6, <1>7, <1>8 DEF Next, Locking, Tick

(* Every call keeps the distributor's types and the closed weeks.          *)
LEMMA DistStep ==
    ASSUME EscrowInv, PointsTyped, DistTyped, [Next]_vars
    PROVE  DistTyped' /\ WeeksKept
<1>0. EscrowInv' /\ PointsTyped' /\ LocksTyped
  BY EscrowStep, PointsStep DEF EscrowInv
<1>1. /\ SupplyStep /\ TokenStep /\ start_time' = start_time
      /\ \/ UNCHANGED <<time_cursor_of, user_epoch_of>>
         \/ \E S \in SUBSET Users : claim_many(S)
  BY StepParts
<1>2. /\ ve_supply' \in [Weeks -> Nat] /\ time_cursor' \in Nat /\ IsBound(time_cursor')
      /\ \A w \in Weeks : w < time_cursor => ve_supply'[w] = ve_supply[w]
  <2>1. CASE UNCHANGED supplies
    BY <2>1 DEF supplies, DistTyped
  <2>2. CASE CheckpointTotalSupply
    BY <1>0, <2>2, SupplyMoved
  <2> QED
    BY <1>1, <2>1, <2>2 DEF SupplyStep
<1>3. /\ tokens_per_week' \in [Weeks -> Nat]
      /\ last_token_time' \in Nat /\ last_token_time' <= Horizon
      /\ \A w \in Weeks : w < WeekOf(last_token_time) => tokens_per_week'[w] = tokens_per_week[w]
  <2>1. CASE UNCHANGED <<last_token_time, tokens_per_week>>
    BY <2>1 DEF DistTyped
  <2>2. ASSUME NEW balance \in Nat, CheckpointToken(balance)
        PROVE  /\ tokens_per_week' \in [Weeks -> Nat]
               /\ last_token_time' \in Nat /\ last_token_time' <= Horizon
               /\ \A w \in Weeks : w < WeekOf(last_token_time) =>
                     tokens_per_week'[w] = tokens_per_week[w]
    BY <1>0, <2>2, TokensMoved
  <2> QED
    BY <1>1, <2>1, <2>2 DEF TokenStep
<1>4. WeeksKept
  <2>1. time_cursor \in Nat /\ WeekOf(last_token_time) \in Nat
    BY WeekStarts DEF DistTyped, WeekOf
  <2> SUFFICES ASSUME NEW w \in Weeks, w < Least(time_cursor, WeekOf(last_token_time))
               PROVE  tokens_per_week'[w] = tokens_per_week[w] /\ ve_supply'[w] = ve_supply[w]
    BY DEF WeeksKept
  <2>2. w \in Nat
    BY WeekIsBound
  <2>3. w < time_cursor /\ w < WeekOf(last_token_time)
    BY <2>1, <2>2 DEF Least
  <2> QED
    BY <1>2, <1>3, <2>3
<1>5. ASSUME NEW user \in Users
      PROVE  LET c == _claim(user, WeekOf(last_token_time'), tokens_per_week', ve_supply')
             IN  /\ c.week \in Nat /\ IsBound(c.week) /\ c.amount \in Nat
                 /\ c.point \in Nat /\ c.point <= user_point_epoch[user]
  <2>1. WeekOf(last_token_time') \in Nat /\ WeekOf(last_token_time') <= last_token_time'
    BY <1>3, WeekStarts DEF WeekOf
  <2>2. WeekOf(last_token_time') <= Horizon
    BY <1>3, <2>1, ConstantsTyped
  <2> QED
    BY <1>2, <1>3, <2>1, <2>2, ClaimTyped
<1>6. token_last_balance' \in Nat /\ token_balance' \in Nat
  <2>1. ASSUME NEW S \in SUBSET Users
        PROVE  Total([user \in S |-> _claim(user, WeekOf(last_token_time'), tokens_per_week',
                                            ve_supply').amount]) \in Nat
    <3> DEFINE f == [user \in S |-> _claim(user, WeekOf(last_token_time'), tokens_per_week',
                                           ve_supply').amount]
    <3>1. f \in [S -> Nat]
      BY <1>5
    <3>2. IsFiniteSet(S)
      BY ConstantsTyped, FS_Subset
    <3> HIDE DEF f
    <3>3. Total(f) \in Nat
      BY <3>1, <3>2, TotalNat
    <3> QED
      BY <3>3 DEF f
  <2> QED
    BY <2>1, BalancesTyped
<1>7. /\ time_cursor_of' \in [Users -> Nat]
      /\ \A user \in Users : IsBound(time_cursor_of'[user])
      /\ user_epoch_of' \in [Users -> Nat]
      /\ \A user \in Users : user_epoch_of'[user] <= user_point_epoch'[user]
  <2>1. ASSUME NEW user \in Users
        PROVE  /\ user_point_epoch[user] \in Nat /\ user_point_epoch'[user] \in Nat
               /\ user_point_epoch[user] <= user_point_epoch'[user]
               /\ time_cursor_of[user] \in Nat /\ IsBound(time_cursor_of[user])
               /\ user_epoch_of[user] \in Nat /\ user_epoch_of[user] <= user_point_epoch[user]
    BY <1>0, HistoriesGrow DEF DistTyped, LocksTyped, UsersGrow
  <2>2. CASE UNCHANGED <<time_cursor_of, user_epoch_of>>
    BY <2>1, <2>2 DEF DistTyped
  <2>3. ASSUME NEW S \in SUBSET Users, claim_many(S)
        PROVE  /\ time_cursor_of' \in [Users -> Nat]
               /\ \A user \in Users : IsBound(time_cursor_of'[user])
               /\ user_epoch_of' \in [Users -> Nat]
               /\ \A user \in Users : user_epoch_of'[user] <= user_point_epoch'[user]
    <3> DEFINE c(user) == _claim(user, WeekOf(last_token_time'), tokens_per_week', ve_supply')
    <3>1. /\ time_cursor_of' = [user \in Users |->
                                  IF user \in S THEN c(user).week ELSE time_cursor_of[user]]
          /\ user_epoch_of' = [user \in Users |->
                                 IF user \in S THEN c(user).point ELSE user_epoch_of[user]]
      BY <2>3 DEF claim_many
    <3>2. \A user \in Users : /\ c(user).week \in Nat /\ IsBound(c(user).week)
                              /\ c(user).point \in Nat
                              /\ c(user).point <= user_point_epoch[user]
      BY <1>5
    <3> HIDE DEF c
    <3>3. ASSUME NEW user \in Users
          PROVE  /\ time_cursor_of'[user] \in Nat /\ IsBound(time_cursor_of'[user])
                 /\ user_epoch_of'[user] \in Nat
                 /\ user_epoch_of'[user] <= user_point_epoch[user]
      BY <2>1, <3>1, <3>2
    <3>4. \A user \in Users : user_epoch_of'[user] <= user_point_epoch'[user]
      BY <2>1, <3>3
    <3> QED
      BY <3>1, <3>3, <3>4
  <2> QED
    BY <1>1, <2>2, <2>3
<1> QED
  BY <1>1, <1>2, <1>3, <1>4, <1>6, <1>7 DEF DistTyped, IsBound, Weeks, Escrow!Weeks

(* The types hold at deployment.                                           *)
LEMMA DistInit == Init => DistTyped
<1> SUFFICES ASSUME Init PROVE DistTyped
  OBVIOUS
<1>1. PICK t \in StartTimes : start_time = WeekOf(t)
  BY DEF Init
<1>2. /\ time_cursor = start_time /\ last_token_time = start_time
      /\ ve_supply = [w \in Weeks |-> 0] /\ tokens_per_week = [w \in Weeks |-> 0]
      /\ token_last_balance = 0 /\ token_balance = 0
      /\ time_cursor_of = [user \in Users |-> 0] /\ user_epoch_of = [user \in Users |-> 0]
      /\ user_point_epoch = [user \in Users |-> 0]
  BY DEF Init, Escrow!Init
<1>3. t \in Nat /\ t <= Horizon /\ Horizon \in Nat
  BY DistributorAssumption, ConstantsTyped
<1>4. start_time \in Nat /\ IsBound(start_time) /\ start_time <= t
  BY <1>1, <1>3, WeekStarts DEF WeekOf
<1>5. IsBound(0)
  <2>1. 0 \in Nat /\ 0 = 0 * WEEK
    BY ConstantsTyped
  <2> QED
    BY <2>1 DEF IsBound
<1> QED
  BY <1>2, <1>3, <1>4, <1>5 DEF DistTyped

(* The invariant that WeeksAreFinal needs.                                 *)
DistInv == EscrowInv /\ PointsTyped /\ DistTyped

(* It holds of every behaviour.                                            *)
LEMMA DistInvHolds == Spec => []DistInv
<1>1. Init => DistInv
  BY EscrowInit, PointsInit, DistInit DEF DistInv
<1>2. DistInv /\ [Next]_vars => DistInv'
  BY EscrowStep, PointsStep, DistStep DEF DistInv
<1> QED
  BY <1>1, <1>2, PTL DEF Spec

(* Once claims may read a week, neither its tokens nor its supply change   *)
(* again: FeeDistributor.vy:107 spreads from the last checkpoint on, and   *)
(* :198 goes on from time_cursor.                                          *)
THEOREM WeeksAreFinal == Spec => ClaimedWeeksFinal
<1>1. DistInv /\ [Next]_vars => [WeeksKept]_vars
  BY DistStep DEF DistInv
<1> QED
  BY <1>1, DistInvHolds, PTL DEF Spec, ClaimedWeeksFinal, WeeksKept

-----------------------------------------------------------------------------
(* The supplies recorded for past weeks.  The first point of the total's   *)
(* history is zero and no point is older.                                  *)

FirstInv ==
    /\ point_history[0].bias = 0 /\ point_history[0].slope = 0
    /\ \A e \in 0 .. epoch : point_history[0].ts <= point_history[e].ts
    /\ \A user \in Users : \A e \in 1 .. user_point_epoch[user] :
          point_history[0].ts <= user_point_history[user][e].ts

(* A fill writes no point older than the first.                            *)
LEMMA FirstFill ==
    ASSUME EscrowInv, SumInv, Attended, PointsTyped, FirstInv, UsersGrow,
           NEW final, final.ts = now, Escrow!Fill(final)
    PROVE  FirstInv'
<1> DEFINE n == Escrow!Turns(Escrow!LastPoint.ts, now)
<1>1. /\ epoch' = epoch + n /\ epoch' \in Nat /\ epoch \in Nat
      /\ \A e \in 0 .. epoch : point_history'[e] = point_history[e]
      /\ \A i \in 1 .. n - 1 : point_history'[epoch + i] = Escrow!Walk[i]
      /\ point_history'[epoch'] = final
  BY FillGrows DEF EscrowInv, LocksTyped
<1>2. /\ n \in Nat
      /\ \A i \in 1 .. n : Escrow!Walk[i].ts \in Nat /\ LastTime <= Escrow!Walk[i].ts
      /\ now \in Nat /\ LastTime \in Nat /\ LastTime <= now
  BY WalkPoints, LastOnSum
<1> HIDE DEF n
<1>3. /\ 0 \in 0 .. epoch /\ epoch \in 0 .. epoch /\ point_history'[0] = point_history[0]
      /\ point_history[0].ts \in Nat /\ point_history[0].ts <= LastTime
  BY <1>1 DEF FirstInv, SumInv, LastTime
<1>4. ASSUME NEW e \in 0 .. epoch' PROVE point_history[0].ts <= point_history'[e].ts
  <2>1. CASE e <= epoch
    <3>1. e \in 0 .. epoch
      BY <1>1, <2>1
    <3> QED
      BY <1>1, <3>1 DEF FirstInv
  <2>2. CASE e > epoch /\ e < epoch'
    <3>1. e - epoch \in 1 .. n - 1 /\ e - epoch \in 1 .. n /\ epoch + (e - epoch) = e
      BY <1>1, <1>2, <2>2
    <3>2. point_history'[e] = Escrow!Walk[e - epoch]
      BY <1>1, <3>1
    <3>3. Escrow!Walk[e - epoch].ts \in Nat /\ LastTime <= Escrow!Walk[e - epoch].ts
      BY <1>2, <3>1
    <3> QED
      BY <1>2, <1>3, <3>2, <3>3
  <2>3. CASE e = epoch'
    BY <1>1, <1>2, <1>3, <2>3
  <2> QED
    BY <1>1, <2>1, <2>2, <2>3
<1>5. ASSUME NEW user \in Users, NEW e \in 1 .. user_point_epoch'[user]
      PROVE  point_history[0].ts <= user_point_history'[user][e].ts
  <2>1. user_point_epoch[user] \in Nat /\ user_point_epoch'[user] \in Nat
    BY DEF EscrowInv, LocksTyped, UsersGrow
  <2>2. CASE e <= user_point_epoch[user]
    <3>1. e \in 0 .. user_point_epoch[user] /\ e \in 1 .. user_point_epoch[user]
      BY <2>1, <2>2
    <3> QED
      BY <3>1 DEF FirstInv, UsersGrow
  <2>3. CASE ~(e <= user_point_epoch[user])
    <3>1. e \in user_point_epoch[user] + 1 .. user_point_epoch'[user]
      BY <2>1, <2>3
    <3>2. user_point_history'[user][e].ts = now
      BY <3>1 DEF UsersGrow
    <3> QED
      BY <1>2, <1>3, <3>2
  <2> QED
    BY <2>2, <2>3
<1> QED
  BY <1>3, <1>4, <1>5 DEF FirstInv

(* No call does.                                                           *)
LEMMA FirstStep ==
    ASSUME EscrowInv, SumInv, Attended, PointsTyped, FirstInv, [Next]_vars
    PROVE  FirstInv'
<1>0. UsersGrow /\ now \in Nat /\ LocksTyped
  BY HistoriesGrow, ConstantsTyped DEF EscrowInv, LocksTyped
<1>1. Escrow!WalkEnd \in Escrow!Point /\ Escrow!WalkEnd.ts = now
  BY WalkTyped, WalkPoints
<1>2. ASSUME NEW user \in Users, NEW new \in Escrow!Locks, Relocks(user, new)
      PROVE  FirstInv'
  <2>1. locked[user] \in Escrow!Locks
    BY <1>0 DEF LocksTyped
  <2>2. Escrow!Joined(Escrow!WalkEnd, locked[user], new).ts = now
    BY <1>0, <1>1, <2>1, JoinedTyped
  <2>3. Escrow!Fill(Escrow!Joined(Escrow!WalkEnd, locked[user], new))
    BY <1>2 DEF Relocks, Escrow!_checkpoint
  <2> QED
    BY <1>0, <2>2, <2>3, FirstFill
<1>3. CASE FillsUp
  BY <1>0, <1>1, <1>3, FirstFill DEF FillsUp
<1>4. CASE Still
  BY <1>4 DEF Still, FirstInv
<1> QED
  BY <1>0, <1>2, <1>3, <1>4, LocksSwapped

(* Nor is there one at deployment.                                         *)
LEMMA FirstInit == Init => FirstInv
<1> SUFFICES ASSUME Init PROVE FirstInv
  OBVIOUS
<1>1. /\ now \in BlockTimes /\ epoch = 0
      /\ point_history = [e \in {0} |-> [bias |-> 0, slope |-> 0, ts |-> now]]
      /\ user_point_epoch = [user \in Users |-> 0]
  BY DEF Init, Escrow!Init
<1>2. now \in Nat /\ now <= now /\ 0 .. 0 = {0} /\ 1 .. 0 = {}
  BY <1>1, ConstantsTyped
<1>3. point_history[0] = [bias |-> 0, slope |-> 0, ts |-> now]
  BY <1>1
<1> QED
  BY <1>1, <1>2, <1>3 DEF FirstInv

(* A recorded supply is the sum of the powers of one assignment of locks,  *)
(* and of each user's lock in it its history tells.                        *)
SupplyExplained(w) ==
    /\ w <= now
    /\ \E L \in BoundLocks :
          /\ ve_supply[w] = PowerSum(L, w)
          /\ \A user \in Users : UserExplained(user, L[user], w)

(* Every supply recorded so far is explained.                              *)
SuppliesInv ==
    \A w \in Weeks : start_time <= w /\ w < time_cursor => SupplyExplained(w)

(* What a supply checkpoint reads for a week that is past.                 *)
LEMMA ReadExplained ==
    ASSUME EscrowInv, SumInv, PointsTyped, FirstInv, NEW w \in Nat, w < LastTime
    PROVE  \E L \in BoundLocks :
              /\ SupplyRead(point_history, epoch, w) = PowerSum(L, w)
              /\ \A user \in Users : UserExplained(user, L[user], w)
<1> DEFINE last == Escrow!LastAt(point_history, epoch, w)
           p == point_history[last]
<1>1. /\ epoch \in Nat /\ LastTime \in Nat
      /\ \A e \in 0 .. epoch : point_history[e] \in Escrow!Point /\ point_history[e].ts \in Nat
      /\ point_history[0].ts \in Nat
  BY DEF EscrowInv, LocksTyped, PointsTyped, SumInv, OnSum, LastTime, Escrow!Point
<1>2. SupplyRead(point_history, epoch, w) =
         Escrow!AtLeastZero(p.bias - p.slope * Escrow!AtLeastZero(w - p.ts))
  BY DEF SupplyRead
<1>3. CASE w >= point_history[0].ts
  <2>1. w \in point_history[0].ts .. LastTime - 1
    BY <1>1, <1>3
  <2>2. PICK L \in BoundLocks :
           /\ TotalExplained(L, w)
           /\ \A user \in Users : UserExplained(user, L[user], w)
    BY <2>1 DEF SumInv, Explained
  <2>3. PICK e \in 0 .. epoch :
           /\ point_history[e].ts <= w
           /\ \A f \in e + 1 .. epoch : point_history[f].ts \in Nat /\ point_history[f].ts > w
           /\ Straight(point_history[e], L, w)
    BY <2>2 DEF TotalExplained, LastTime
  <2>4. last = e
    BY <1>1, <2>3, LastAtIs
  <2>5. p.bias - p.slope * (w - p.ts) = PowerSum(L, w) /\ p.ts \in Nat /\ p.ts <= w
    BY <1>1, <2>3, <2>4 DEF Straight
  <2>6. PowerSum(L, w) \in Nat
    BY SumsTyped DEF BoundLocks
  <2> HIDE DEF p, last
  <2>7. Escrow!AtLeastZero(w - p.ts) = w - p.ts
    BY <2>5 DEF Escrow!AtLeastZero
  <2>8. Escrow!AtLeastZero(PowerSum(L, w)) = PowerSum(L, w)
    BY <2>6 DEF Escrow!AtLeastZero
  <2> QED
    BY <1>2, <2>2, <2>5, <2>7, <2>8
<1>4. CASE ~(w >= point_history[0].ts)
  <2>1. w < point_history[0].ts
    BY <1>1, <1>4
  <2>2. last \in 0 .. epoch /\ (last = 0 \/ p.ts <= w)
    BY <1>1, LastAtIn
  <2>3. last = 0
    <3>1. point_history[0].ts <= p.ts /\ p.ts \in Nat
      BY <1>1, <2>2 DEF FirstInv
    <3> HIDE DEF p, last
    <3> QED
      BY <1>1, <2>1, <2>2, <3>1
  <2>4. p.bias = 0 /\ p.slope = 0 /\ p.ts \in Nat
    BY <1>1, <2>3 DEF FirstInv
  <2> HIDE DEF p, last
  <2>5. Escrow!AtLeastZero(w - p.ts) \in Int
    BY <2>4 DEF Escrow!AtLeastZero
  <2>6. SupplyRead(point_history, epoch, w) = 0
    BY <1>2, <2>4, <2>5 DEF Escrow!AtLeastZero
  <2>7. PICK L : L = [user \in Users |-> Escrow!NoLock]
    OBVIOUS
  <2>8. L \in BoundLocks /\ PowerSum(L, w) = 0
    <3>1. L \in [Users -> {Escrow!NoLock}]
      BY <2>7
    <3> QED
      BY <3>1, NoLocksSum
  <2>9. ASSUME NEW user \in Users PROVE UserExplained(user, L[user], w)
    <3>1. user_point_epoch[user] \in Nat
      BY DEF EscrowInv, LocksTyped
    <3>2. \A f \in 0 + 1 .. user_point_epoch[user] :
             user_point_history[user][f].ts \in Nat /\ user_point_history[user][f].ts > w
      <4> SUFFICES ASSUME NEW f \in 1 .. user_point_epoch[user]
                   PROVE  /\ user_point_history[user][f].ts \in Nat
                          /\ user_point_history[user][f].ts > w
        OBVIOUS
      <4>1. f \in 0 .. user_point_epoch[user]
        BY <3>1
      <4>2. user_point_history[user][f].ts \in Nat
        BY <4>1 DEF PointsTyped, Escrow!Point
      <4>3. point_history[0].ts <= user_point_history[user][f].ts
        BY DEF FirstInv
      <4> QED
        BY <1>1, <2>1, <4>2, <4>3
    <3>3. Escrow!Power(L[user], w) = 0
      BY <2>7, NoLockTyped
    <3>4. 0 \in 0 .. user_point_epoch[user]
      BY <3>1
    <3> QED
      BY <3>2, <3>3, <3>4 DEF UserExplained
  <2> QED
    BY <2>6, <2>8, <2>9
<1> QED
  BY <1>3, <1>4

(* So it is for every week.                                                *)
ReadsExplained ==
    \A w \in Weeks :
       w < LastTime =>
          \E L \in BoundLocks :
             /\ SupplyRead(point_history, epoch, w) = PowerSum(L, w)
             /\ \A user \in Users : UserExplained(user, L[user], w)

(* The same for every week, from the invariants of the escrow.             *)
LEMMA ReadsAreExplained ==
    EscrowInv /\ SumInv /\ PointsTyped /\ FirstInv => ReadsExplained
<1> QED
  BY ReadExplained, WeekIsBound DEF ReadsExplained

(* No block falls on a week bound.                                         *)
OffBounds == \A t \in BlockTimes : ~IsBound(t)

(* Every call keeps the supplies explained: a week is recorded when it is  *)
(* past, from points that the escrow will not change.                      *)
LEMMA SuppliesStep ==
    ASSUME DistInv, DistInv', SumInv, Attended, ReadsExplained', SuppliesInv, OffBounds,
           [Next]_vars
    PROVE  SuppliesInv'
<1>0. /\ EscrowInv /\ LocksTyped /\ EscrowInv' /\ PointsTyped' /\ DistTyped
      /\ UsersGrow /\ SupplyStep /\ start_time' = start_time
      /\ now \in Nat /\ ~IsBound(now)
  BY HistoriesGrow, StepParts, ConstantsTyped DEF DistInv, EscrowInv, LocksTyped, OffBounds
<1>1. now' \in Nat /\ now <= now'
  <2>1. now' \in Nat
    BY <1>0, ConstantsTyped DEF EscrowInv, LocksTyped
  <2>2. now' = now \/ now' > now
    BY <1>0, LocksSwapped DEF Relocks, FillsUp, Still
  <2> QED
    BY <1>0, <2>1, <2>2
<1> SUFFICES ASSUME NEW w \in Weeks, start_time <= w, w < time_cursor'
             PROVE  SupplyExplained(w)'
  BY <1>0 DEF SuppliesInv, Weeks, Escrow!Weeks
<1>2. w \in Nat /\ IsBound(w)
  BY WeekIsBound
<1>3. time_cursor \in Nat
  BY <1>0 DEF DistTyped
<1>4. CASE w < time_cursor
  <2>1. SupplyExplained(w)
    BY <1>4 DEF SuppliesInv
  <2>2. w < now
    BY <1>0, <1>2, <2>1 DEF SupplyExplained
  <2>3. ve_supply'[w] = ve_supply[w]
    <3>1. CASE UNCHANGED supplies
      BY <3>1 DEF supplies
    <3>2. CASE CheckpointTotalSupply
      BY <1>0, <1>4, <3>2, SupplyMoved
    <3> QED
      BY <1>0, <3>1, <3>2 DEF SupplyStep
  <2>4. PICK L \in BoundLocks :
           /\ ve_supply[w] = PowerSum(L, w)
           /\ \A user \in Users : UserExplained(user, L[user], w)
    BY <2>1 DEF SupplyExplained
  <2>5. \A user \in Users : UserExplained(user, L[user], w)'
    BY <1>0, <1>2, <2>2, <2>4, UserStays
  <2>6. w <= now'
    BY <1>0, <1>1, <1>2, <2>2
  <2> QED
    BY <2>3, <2>4, <2>5, <2>6
       DEF SupplyExplained, BoundLocks, IsBound, Escrow!Locks, PowerSum, Escrow!Power,
           Escrow!AtLeastZero
<1>5. CASE ~(w < time_cursor)
  <2>1. time_cursor <= w
    BY <1>2, <1>3, <1>5
  <2>2. CheckpointTotalSupply
    BY <1>0, <1>5 DEF SupplyStep, supplies
  <2>3. /\ w <= now /\ now' = now
        /\ ve_supply'[w] = SupplyRead(point_history', epoch', w)
    BY <1>0, <2>1, <2>2, SupplyMoved
  <2>4. w < now
    BY <1>0, <1>2, <2>3
  <2>5. LastTime' = now
    <3>1. Escrow!Fill(Escrow!WalkEnd)
      BY <2>2 DEF CheckpointTotalSupply, Escrow!checkpoint
    <3>2. Escrow!WalkEnd.ts = now
      BY <1>0, WalkPoints
    <3> QED
      BY <1>0, <3>1, <3>2, FillGrows DEF LastTime
  <2>6. w < LastTime'
    BY <2>4, <2>5
  <2>7. \E L \in BoundLocks :
           /\ SupplyRead(point_history', epoch', w) = PowerSum(L, w)
           /\ \A user \in Users : UserExplained(user, L[user], w)'
    BY <2>6 DEF ReadsExplained, Weeks, Escrow!Weeks, BoundLocks, IsBound, Escrow!Locks,
                PowerSum, Escrow!Power, Escrow!AtLeastZero, SupplyRead
  <2> QED
    BY <2>3, <2>7
       DEF SupplyExplained, BoundLocks, IsBound, Escrow!Locks, PowerSum, Escrow!Power,
           Escrow!AtLeastZero
<1> QED
  BY <1>4, <1>5

(* Read off the invariant, a recorded supply is the sum of the balances.   *)
LEMMA SuppliesTotal ==
    ASSUME EscrowInv, SuppliesInv
    PROVE  VeSupplyIsTotal
<1> SUFFICES ASSUME NEW w \in Weeks, start_time <= w, w < time_cursor
             PROVE  ve_supply[w] = Total([user \in Users |-> Escrow!UserPowerAt(user, w)])
  BY DEF VeSupplyIsTotal
<1>1. PICK L \in BoundLocks :
         /\ ve_supply[w] = PowerSum(L, w)
         /\ \A user \in Users : UserExplained(user, L[user], w)
  BY DEF SuppliesInv, SupplyExplained
<1>2. \A user \in Users : Escrow!UserPowerAt(user, w) = Escrow!Power(L[user], w)
  BY <1>1, WeekIsBound, UserPowerIs DEF EscrowInv
<1> QED
  BY <1>1, <1>2 DEF PowerSum

(* The supply recorded for a week is what the users' histories give them   *)
(* at its start, in sum (FeeDistributor.vy:65), when moreover no block has *)
(* the timestamp of a week bound: one that does lets a lock be made after  *)
(* the week was recorded, in the moment it was recorded for.               *)
THEOREM SuppliesAreTotals ==
    ASSUME \A a \in Amounts : a > 0, \A t \in BlockTimes : t % WEEK # 0
    PROVE  Spec /\ []Attended => []VeSupplyIsTotal
<1> DEFINE Inv == DistInv /\ SumInv /\ FirstInv
<1>1. OffBounds
  <2> SUFFICES ASSUME NEW t \in BlockTimes, IsBound(t) PROVE FALSE
    BY DEF OffBounds
  <2>1. t \in Nat /\ t <= Horizon /\ MAXTIME \in Nat
    BY ConstantsTyped
  <2>2. t \in Escrow!Weeks
    BY <2>1, BoundIsWeek
  <2> QED
    BY <2>2 DEF Escrow!Weeks
<1>2. Init => Inv
  BY EscrowInit, PointsInit, DistInit, InitSums, FirstInit DEF DistInv
<1>3. Inv /\ Attended /\ [Next]_vars => Inv'
  BY EscrowStep, PointsStep, DistStep, SumStep, FirstStep DEF DistInv
<1>4. Inv => ReadsExplained
  BY ReadsAreExplained DEF DistInv
<1>5. Init /\ Inv => SuppliesInv
  <2> SUFFICES ASSUME Init, Inv PROVE SuppliesInv
    OBVIOUS
  <2>1. time_cursor = start_time /\ start_time \in Nat
    BY DEF Init, DistInv, DistTyped
  <2> QED
    BY <2>1, WeekIsBound DEF SuppliesInv
<1>6. /\ Inv /\ Inv' /\ Attended /\ ReadsExplained' /\ SuppliesInv
      /\ [Next]_vars
      => SuppliesInv'
  BY <1>1, SuppliesStep
<1>7. Inv /\ SuppliesInv => VeSupplyIsTotal
  BY SuppliesTotal DEF DistInv
<1> QED
  BY <1>2, <1>3, <1>4, <1>5, <1>6, <1>7, PTL DEF Spec

-----------------------------------------------------------------------------
(* Payments.  The users' histories are in order: they start at a zero      *)
(* point and no point is older than the one before it.                     *)
UsersInOrder ==
    \A user \in Users :
        /\ user_point_history[user][0].bias = 0 /\ user_point_history[user][0].slope = 0
        /\ \A e \in 1 .. user_point_epoch[user] : user_point_history[user][e].ts <= now
        /\ \A e, f \in 1 .. user_point_epoch[user] :
              e <= f => user_point_history[user][e].ts <= user_point_history[user][f].ts

(* The blocks' times only grow.                                            *)
LEMMA TimePasses ==
    ASSUME LocksTyped, LocksTyped', [Next]_vars
    PROVE  now \in Nat /\ now' \in Nat /\ now <= now'
<1>1. now \in Nat /\ now' \in Nat
  BY ConstantsTyped DEF LocksTyped
<1>2. now' = now \/ now' > now
  BY LocksSwapped DEF Relocks, FillsUp, Still
<1> QED
  BY <1>1, <1>2

(* Every call keeps the histories in order.                                *)
LEMMA OrderStep ==
    ASSUME EscrowInv, EscrowInv', PointsTyped, UsersInOrder, [Next]_vars
    PROVE  UsersInOrder'
<1>1. now \in Nat /\ now' \in Nat /\ now <= now' /\ UsersGrow
  BY TimePasses, HistoriesGrow DEF EscrowInv
<1> SUFFICES ASSUME NEW user \in Users
    PROVE  /\ user_point_history'[user][0].bias = 0 /\ user_point_history'[user][0].slope = 0
           /\ \A e \in 1 .. user_point_epoch'[user] : user_point_history'[user][e].ts <= now'
           /\ \A e, f \in 1 .. user_point_epoch'[user] :
                 e <= f => user_point_history'[user][e].ts <= user_point_history'[user][f].ts
  BY DEF UsersInOrder
<1> DEFINE n == user_point_epoch[user]
           m == user_point_epoch'[user]
           h == user_point_history[user]
           g == user_point_history'[user]
<1>2. /\ n \in Nat /\ m \in Nat /\ n <= m
      /\ \A e \in 0 .. n : g[e] = h[e]
      /\ \A e \in n + 1 .. m : g[e].ts = now
  BY <1>1 DEF UsersGrow, EscrowInv, LocksTyped
<1>3. /\ h[0].bias = 0 /\ h[0].slope = 0
      /\ \A e \in 1 .. n : h[e].ts <= now
      /\ \A e, f \in 1 .. n : e <= f => h[e].ts <= h[f].ts
  BY DEF UsersInOrder
<1>4. \A e \in 0 .. n : h[e].ts \in Nat
  BY DEF PointsTyped, Escrow!Point
<1> HIDE DEF n, m, g, h
<1>5. ASSUME NEW e \in 1 .. m
      PROVE  /\ g[e].ts \in Nat /\ g[e].ts <= now
             /\ e <= n => g[e] = h[e]
             /\ e > n => g[e].ts = now
  <2>1. CASE e <= n
    <3>1. e \in 0 .. n /\ e \in 1 .. n
      BY <1>2, <2>1
    <3> QED
      BY <1>2, <1>3, <1>4, <2>1, <3>1
  <2>2. CASE e > n
    <3>1. e \in n + 1 .. m
      BY <1>2, <2>2
    <3> QED
      BY <1>1, <1>2, <2>2, <3>1
  <2> QED
    BY <1>2, <2>1, <2>2
<1>6. ASSUME NEW e \in 1 .. m, NEW f \in 1 .. m, e <= f PROVE g[e].ts <= g[f].ts
  <2>1. CASE f <= n
    <3>1. e \in 1 .. n /\ f \in 1 .. n /\ e <= n
      BY <1>2, <1>6, <2>1
    <3> QED
      BY <1>3, <1>5, <1>6, <2>1, <3>1
  <2>2. CASE f > n
    BY <1>5, <2>2
  <2> QED
    BY <1>2, <2>1, <2>2
<1>7. 0 \in 0 .. n
  BY <1>2
<1>8. g[0] = h[0]
  BY <1>2, <1>7
<1>9. \A e \in 1 .. m : g[e].ts <= now'
  BY <1>1, <1>5
<1> QED
  BY <1>3, <1>6, <1>8, <1>9 DEF g, m

(* At deployment nobody has a point.                                       *)
LEMMA OrderInit == Init => UsersInOrder
<1> SUFFICES ASSUME Init PROVE UsersInOrder
  OBVIOUS
<1>1. /\ user_point_epoch = [user \in Users |-> 0]
      /\ user_point_history =
            [user \in Users |-> [e \in {0} |-> [bias |-> 0, slope |-> 0, ts |-> 0]]]
  BY DEF Init, Escrow!Init
<1>2. \A user \in Users : user_point_history[user][0] = [bias |-> 0, slope |-> 0, ts |-> 0]
  BY <1>1
<1>3. \A user \in Users : 1 .. user_point_epoch[user] = {}
  BY <1>1
<1> QED
  BY <1>2, <1>3 DEF UsersInOrder

(* The point by which a power at time t is read, in a history in order.    *)
LEMMA PowerRead ==
    ASSUME EscrowInv, PointsTyped, UsersInOrder, NEW user \in Users, NEW t \in Nat,
           NEW e \in 0 .. user_point_epoch[user],
           e = 0 \/ user_point_history[user][e].ts <= t,
           e = user_point_epoch[user] \/ user_point_history[user][e + 1].ts > t
    PROVE  /\ Escrow!LastAt(user_point_history[user], user_point_epoch[user], t) = e
           /\ Escrow!UserPowerAt(user, t) = Escrow!UserPowerFrom(user_point_history[user][e], t)
<1> DEFINE n == user_point_epoch[user]
           h == user_point_history[user]
<1>1. n \in Nat /\ e \in Nat
  BY DEF EscrowInv, LocksTyped
<1>2. \A f \in 0 .. n : h[f].ts \in Nat
  BY DEF PointsTyped, Escrow!Point
<1>3. h[0].bias = 0 /\ h[0].slope = 0 /\ \A f, g \in 1 .. n : f <= g => h[f].ts <= h[g].ts
  BY DEF UsersInOrder
<1>4. ASSUME NEW f \in e + 1 .. n PROVE h[f].ts \in Nat /\ h[f].ts > t
  <2>1. f \in 0 .. n /\ f \in 1 .. n /\ e + 1 \in 1 .. n /\ e + 1 \in 0 .. n /\ e + 1 <= f /\ e # n
    BY <1>1
  <2>2. h[e + 1].ts > t /\ h[e + 1].ts \in Nat /\ h[f].ts \in Nat /\ h[e + 1].ts <= h[f].ts
    BY <1>2, <1>3, <2>1
  <2> QED
    BY <2>2
<1>5. h[e].ts \in Nat
  BY <1>2
<1>6. Escrow!LastAt(h, n, t) = e
  BY <1>1, <1>4, <1>5, LastAtIs
<1>7. e = 0 => Escrow!UserPowerFrom(h[e], t) = 0
  <2> SUFFICES ASSUME e = 0 PROVE Escrow!UserPowerFrom(h[0], t) = 0
    OBVIOUS
  <2>1. h[0].ts \in Nat
    BY <1>1, <1>2
  <2>2. t - h[0].ts \in Int
    BY <2>1
  <2>3. 0 - 0 * (t - h[0].ts) = 0
    BY <2>2
  <2> QED
    BY <1>3, <2>3 DEF Escrow!UserPowerFrom, Escrow!AtLeastZero
<1> QED
  BY <1>6, <1>7 DEF Escrow!UserPowerAt

(* A power read off a history is a natural number.                         *)
LEMMA PowerNat ==
    ASSUME EscrowInv, PointsTyped, NEW user \in Users, NEW t \in Nat
    PROVE  Escrow!UserPowerAt(user, t) \in Nat
<1> DEFINE n == user_point_epoch[user]
           h == user_point_history[user]
           e == Escrow!LastAt(h, n, t)
<1>1. n \in Nat
  BY DEF EscrowInv, LocksTyped
<1>2. \A f \in 0 .. n : h[f] \in Escrow!Point /\ h[f].ts \in Nat
  BY DEF PointsTyped, Escrow!Point
<1>3. Escrow!UserPowerAt(user, t) = IF e = 0 THEN 0 ELSE Escrow!UserPowerFrom(h[e], t)
  BY DEF Escrow!UserPowerAt
<1> HIDE DEF n, h
<1>4. e \in 0 .. n
  BY <1>1, <1>2, LastAtIn
<1> QED
  BY <1>2, <1>3, <1>4, PowerTyped

(* Powers of the past are what they were.                                  *)
LEMMA PowerStays ==
    ASSUME EscrowInv, PointsTyped, UsersGrow, NEW user \in Users, NEW t \in Nat, t < now
    PROVE  /\ Escrow!UserPowerAt(user, t)' = Escrow!UserPowerAt(user, t)
           /\ Escrow!UserPowerAt(user, t) \in Nat
<1> DEFINE n == user_point_epoch[user]
           h == user_point_history[user]
           m == user_point_epoch'[user]
           g == user_point_history'[user]
           e == Escrow!LastAt(h, n, t)
<1>1. now \in Nat /\ n \in Nat /\ m \in Nat /\ n <= m
  BY ConstantsTyped DEF UsersGrow, EscrowInv, LocksTyped
<1>2. \A f \in 0 .. n : h[f] \in Escrow!Point /\ h[f].ts \in Nat
  BY DEF PointsTyped, Escrow!Point
<1>3. (\A f \in 0 .. n : g[f] = h[f]) /\ (\A f \in n + 1 .. m : g[f].ts = now)
  BY DEF UsersGrow
<1>4. Escrow!UserPowerAt(user, t) = IF e = 0 THEN 0 ELSE Escrow!UserPowerFrom(h[e], t)
  BY DEF Escrow!UserPowerAt
<1>5. Escrow!UserPowerAt(user, t)' =
         IF Escrow!LastAt(g, m, t) = 0 THEN 0
         ELSE Escrow!UserPowerFrom(g[Escrow!LastAt(g, m, t)], t)
  BY DEF Escrow!UserPowerAt, Escrow!LastAt, Escrow!UserPowerFrom, Escrow!AtLeastZero
<1> HIDE DEF n, m, g, h
<1>6. e \in 0 .. n /\ (e = 0 \/ h[e].ts <= t) /\ \A f \in e + 1 .. n : h[f].ts > t
  BY <1>1, <1>2, LastAtIn
<1> HIDE DEF e
<1>7. g[e] = h[e] /\ e \in 0 .. m /\ (e = 0 \/ (g[e].ts \in Nat /\ g[e].ts <= t))
  BY <1>1, <1>2, <1>3, <1>6
<1>8. ASSUME NEW f \in e + 1 .. m PROVE g[f].ts \in Nat /\ g[f].ts > t
  <2>1. CASE f <= n
    <3>1. f \in e + 1 .. n /\ f \in 0 .. n
      BY <1>1, <1>6, <2>1
    <3> QED
      BY <1>2, <1>3, <1>6, <3>1
  <2>2. CASE f > n
    <3>1. f \in n + 1 .. m
      BY <1>1, <1>6, <2>2
    <3> QED
      BY <1>1, <1>3, <3>1
  <2> QED
    BY <1>1, <1>6, <2>1, <2>2
<1>9. Escrow!LastAt(g, m, t) = e
  BY <1>1, <1>7, <1>8, LastAtIs
<1>10. Escrow!UserPowerFrom(h[e], t) \in Nat
  BY <1>2, <1>6, PowerTyped
<1> QED
  BY <1>4, <1>5, <1>7, <1>9, <1>10

-----------------------------------------------------------------------------
(* What a claim adds up.  A user's share of week w, of the tokens and the  *)
(* supply recorded, and the sum of the shares from week a to week b.       *)

Share(user, w, perWeek, total) ==
    IF total[w] = 0 THEN 0 ELSE FeeShare(Escrow!UserPowerAt(user, w), perWeek[w], total[w])

WeeksFrom(a, b) == {w \in Weeks : a <= w /\ w < b}

ShareSum(user, a, b, perWeek, total) ==
    Total([w \in WeeksFrom(a, b) |-> Share(user, w, perWeek, total)])

(* The weeks are finitely many.                                            *)
LEMMA WeeksFinite ==
    /\ IsFiniteSet(Weeks)
    /\ \A a, b : IsFiniteSet(WeeksFrom(a, b))
<1>1. Weeks \subseteq 0 .. Horizon
  BY DEF Weeks, Escrow!Weeks
<1>2. IsFiniteSet(0 .. Horizon)
  BY ConstantsTyped, FS_Interval
<1>3. IsFiniteSet(Weeks)
  BY <1>1, <1>2, FS_Subset
<1>4. \A a, b : WeeksFrom(a, b) \subseteq Weeks
  BY DEF WeeksFrom
<1> QED
  BY <1>3, <1>4, FS_Subset

(* From a bound to the next there is one week more.                        *)
LEMMA WeekMore ==
    ASSUME NEW a \in Nat, NEW w \in Weeks, a <= w
    PROVE  WeeksFrom(a, w + WEEK) = WeeksFrom(a, w) \cup {w} /\ w \notin WeeksFrom(a, w)
<1>1. w \in Nat /\ IsBound(w) /\ WEEK \in Nat /\ WEEK > 0
  BY WeekIsBound, ConstantsTyped
<1>2. ASSUME NEW v \in Weeks PROVE v \in Nat /\ (v < w + WEEK <=> v < w \/ v = w)
  <2>1. v \in Nat /\ IsBound(v)
    BY WeekIsBound
  <2>2. w < v => w + WEEK <= v
    BY <1>1, <2>1, BoundsApart
  <2> QED
    BY <1>1, <2>1, <2>2
<1>3. ASSUME NEW v
      PROVE  v \in WeeksFrom(a, w + WEEK) <=> v \in WeeksFrom(a, w) \cup {w}
  BY <1>2 DEF WeeksFrom
<1>4. w \notin WeeksFrom(a, w)
  BY <1>1 DEF WeeksFrom
<1> QED
  BY <1>3, <1>4

(* Shares and their sums are natural numbers.                              *)
LEMMA SharesTyped ==
    ASSUME EscrowInv, PointsTyped, NEW user \in Users, NEW a, NEW b,
           NEW perWeek \in [Weeks -> Nat], NEW total \in [Weeks -> Nat]
    PROVE  /\ \A w \in Weeks : Share(user, w, perWeek, total) \in Nat
           /\ [w \in WeeksFrom(a, b) |-> Share(user, w, perWeek, total)]
                 \in [WeeksFrom(a, b) -> Nat]
           /\ ShareSum(user, a, b, perWeek, total) \in Nat
<1>1. ASSUME NEW w \in Weeks PROVE Share(user, w, perWeek, total) \in Nat
  <2>1. Escrow!UserPowerAt(user, w) \in Nat
    BY WeekIsBound, PowerNat
  <2>2. perWeek[w] \in Nat /\ total[w] \in Nat
    OBVIOUS
  <2>3. total[w] # 0 => FeeShare(Escrow!UserPowerAt(user, w), perWeek[w], total[w]) \in Nat
    BY <2>1, <2>2, ShareTyped
  <2> QED
    BY <2>3 DEF Share
<1>2. [w \in WeeksFrom(a, b) |-> Share(user, w, perWeek, total)] \in [WeeksFrom(a, b) -> Nat]
  BY <1>1 DEF WeeksFrom
<1>3. ShareSum(user, a, b, perWeek, total) \in Nat
  BY <1>2, WeeksFinite, TotalNat DEF ShareSum
<1> QED
  BY <1>1, <1>2, <1>3

(* The sum over one week more, of any shares.                              *)
LEMMA MoreWeeks ==
    ASSUME NEW share \in [Weeks -> Nat], NEW a \in Nat, NEW w \in Weeks, a <= w
    PROVE  Total([v \in WeeksFrom(a, w + WEEK) |-> share[v]]) =
              Total([v \in WeeksFrom(a, w) |-> share[v]]) + share[w]
<1> DEFINE S == WeeksFrom(a, w)
           U == WeeksFrom(a, w + WEEK)
           f == [v \in S |-> share[v]]
           g == [v \in U |-> share[v]]
<1>1. U = S \cup {w} /\ w \notin S
  BY WeekMore
<1>2. f \in [S -> Nat] /\ g \in [U -> Nat]
  BY DEF WeeksFrom
<1>3. IsFiniteSet(S)
  BY WeeksFinite
<1>4. (\A v \in S : g[v] = f[v]) /\ g[w] = share[w]
  BY <1>1
<1> HIDE DEF S, U, f, g
<1>6. Total(g) = Total(f) + g[w]
  BY ONLY <1>1, <1>2, <1>3, <1>4, TotalMore
<1> QED
  BY <1>4, <1>6 DEF f, g, S, U

(* The sum over one week more.                                             *)
LEMMA ShareMore ==
    ASSUME EscrowInv, PointsTyped, NEW user \in Users, NEW a \in Nat, NEW w \in Weeks, a <= w,
           NEW perWeek \in [Weeks -> Nat], NEW total \in [Weeks -> Nat]
    PROVE  ShareSum(user, a, w + WEEK, perWeek, total) =
              ShareSum(user, a, w, perWeek, total) + Share(user, w, perWeek, total)
<1>1. PICK share : share = [v \in Weeks |-> Share(user, v, perWeek, total)]
  OBVIOUS
<1>2. share \in [Weeks -> Nat] /\ share[w] = Share(user, w, perWeek, total)
  BY <1>1, SharesTyped
<1>3. \A b : [v \in WeeksFrom(a, b) |-> Share(user, v, perWeek, total)] =
             [v \in WeeksFrom(a, b) |-> share[v]]
  BY <1>1 DEF WeeksFrom
<1>4. \A b : ShareSum(user, a, b, perWeek, total) =
             Total([v \in WeeksFrom(a, b) |-> share[v]])
  BY <1>3 DEF ShareSum
<1> QED
  BY <1>2, <1>4, MoreWeeks

(* The states a claim from week a is in: what it has added up are the      *)
(* shares of the weeks it has passed, the point it has reached is no later *)
(* than its week, and a week without a supply gave the user no share.      *)
GoodClaims(user, a, last, perWeek, total) ==
    {s \in ClaimStates(user) :
        /\ a <= s.week /\ s.week <= last
        /\ s.point = 1 \/ user_point_history[user][s.point - 1].ts <= s.week
        /\ s.amount = ShareSum(user, a, s.week, perWeek, total)
        /\ \A w \in WeeksFrom(a, s.week) : total[w] = 0 => Escrow!UserPowerAt(user, w) = 0}

(* A power of zero gives no share.                                         *)
LEMMA NoShare ==
    ASSUME NEW user, NEW w \in Weeks, NEW perWeek \in [Weeks -> Nat],
           NEW total \in [Weeks -> Nat], Escrow!UserPowerAt(user, w) = 0
    PROVE  Share(user, w, perWeek, total) = 0
<1>1. perWeek[w] \in Nat /\ total[w] \in Nat
  OBVIOUS
<1>2. 0 * perWeek[w] = 0
  BY <1>1
<1>3. total[w] # 0 => 0 \div total[w] = 0
  BY <1>1
<1> QED
  BY <1>2, <1>3 DEF Share, FeeShare

(* A turn of _claim's loop leads from such a state to such a state.        *)
LEMMA TurnKeepsGood ==
    ASSUME EscrowInv, PointsTyped, UsersInOrder, NEW user \in Users, NEW a \in Nat,
           NEW last \in Nat, IsBound(last), last <= Horizon,
           NEW perWeek \in [Weeks -> Nat], NEW total \in [Weeks -> Nat],
           NEW s \in GoodClaims(user, a, last, perWeek, total)
    PROVE  NextTurn(user, last, perWeek, total, s) \in GoodClaims(user, a, last, perWeek, total)
<1> DEFINE n == user_point_epoch[user]
           h == user_point_history[user]
           power == Escrow!UserPowerFrom(h[s.point - 1], s.week)
           at == Escrow!UserPowerAt(user, s.week)
           share == FeeShare(power, perWeek[s.week], total[s.week])
           Good == GoodClaims(user, a, last, perWeek, total)
           on == [s EXCEPT !.point = @ + 1]
           stop == [s EXCEPT !.status = "stopped"]
           skip == [s EXCEPT !.week = @ + WEEK]
           revert == [s EXCEPT !.status = "reverted"]
           pay == [s EXCEPT !.week = @ + WEEK, !.amount = @ + share]
           next == NextTurn(user, last, perWeek, total, s)
           Sum(w) == ShareSum(user, a, w, perWeek, total)
           NoSupply(w) == \A v \in WeeksFrom(a, w) : total[v] = 0 => Escrow!UserPowerAt(user, v) = 0
           InForce(p, w) == p = 1 \/ h[p - 1].ts <= w
<1>1. /\ n \in Nat /\ WEEK \in Nat /\ WEEK > 0 /\ Horizon \in Nat
      /\ s \in ClaimStates(user)
      /\ s \in [week : Nat, point : 1 .. n + 1, amount : Nat,
                status : {"going", "stopped", "reverted"}]
      /\ s.week \in Nat /\ IsBound(s.week) /\ s.point \in 1 .. n + 1 /\ s.amount \in Nat
  BY ConstantsTyped DEF EscrowInv, LocksTyped, ClaimStates, GoodClaims
<1>2. /\ a <= s.week /\ s.week <= last /\ InForce(s.point, s.week)
      /\ s.amount = Sum(s.week) /\ NoSupply(s.week)
  BY DEF GoodClaims
<1>3. next \in ClaimStates(user)
  BY <1>1, TurnOfClaim
<1>4. next = IF s.status # "going" \/ s.week >= last THEN s
             ELSE IF s.point <= n /\ s.week >= h[s.point].ts THEN on
             ELSE IF power = 0 THEN IF s.point > n THEN stop ELSE skip
             ELSE IF total[s.week] = 0 THEN revert
             ELSE pay
  BY <1>1 DEF NextTurn
<1>5. ASSUME NEW t \in ClaimStates(user), a <= t.week, t.week <= last,
             InForce(t.point, t.week), t.amount = Sum(t.week), NoSupply(t.week)
      PROVE  t \in Good
  BY <1>5 DEF GoodClaims
<1>6. ASSUME next = on, s.point <= n /\ s.week >= h[s.point].ts PROVE next \in Good
  <2>1. /\ next.week = s.week /\ next.amount = s.amount /\ next.point = s.point + 1
    BY <1>1, <1>6
  <2>2. h[(s.point + 1) - 1].ts <= s.week
    <3>1. (s.point + 1) - 1 = s.point /\ s.point \in 0 .. n
      BY <1>1, <1>6
    <3>2. h[s.point].ts \in Nat
      BY <3>1 DEF PointsTyped, Escrow!Point
    <3> QED
      BY <1>1, <1>6, <3>1, <3>2
  <2> HIDE DEF next, Good, Sum, NoSupply, h
  <2> QED
    BY <1>2, <1>3, <1>5, <2>1, <2>2
<1>7. ASSUME next = stop \/ next = revert \/ next = s PROVE next \in Good
  <2>1. next.week = s.week /\ next.amount = s.amount /\ next.point = s.point
    BY <1>1, <1>7
  <2> HIDE DEF next, Good, Sum, NoSupply, InForce
  <2> QED
    BY <1>2, <1>3, <1>5, <2>1
<1>8. ASSUME \/ next = skip /\ power = 0
             \/ next = pay /\ total[s.week] # 0,
             s.week < last, ~(s.point <= n /\ s.week >= h[s.point].ts)
      PROVE  next \in Good
  <2>1. s.week \in Weeks
    <3>1. s.week <= Horizon
      BY <1>1, <1>8
    <3> HIDE DEF h
    <3> QED
      BY <1>1, <3>1, BoundIsWeek DEF Weeks
  <2>2. at = power
    <3>1. s.point - 1 \in 0 .. n /\ (s.point - 1) + 1 = s.point
          /\ (s.point - 1 # n => s.point <= n /\ s.point \in 0 .. n)
          /\ (s.point = 1 => s.point - 1 = 0)
      BY <1>1
    <3>2. s.point - 1 = 0 \/ h[s.point - 1].ts <= s.week
      BY <1>2, <3>1
    <3>3. s.point - 1 = n \/ h[(s.point - 1) + 1].ts > s.week
      <4> SUFFICES ASSUME s.point - 1 # n PROVE h[s.point].ts > s.week
        BY <3>1
      <4>1. h[s.point].ts \in Nat
        BY <3>1 DEF PointsTyped, Escrow!Point
      <4> QED
        BY <1>1, <1>8, <3>1, <4>1
    <3> QED
      BY <1>1, <3>1, <3>2, <3>3, PowerRead
  <2>3. Sum(s.week + WEEK) = Sum(s.week) + Share(user, s.week, perWeek, total)
    BY <1>2, <2>1, ShareMore
  <2>4. s.week + WEEK \in Nat /\ a <= s.week + WEEK /\ s.week + WEEK <= last
    BY <1>1, <1>2, <1>8, BoundsApart
  <2>5. NoSupply(s.week + WEEK)
    <3>1. WeeksFrom(a, s.week + WEEK) = WeeksFrom(a, s.week) \cup {s.week}
      BY <1>2, <2>1, WeekMore
    <3>2. total[s.week] = 0 => at = 0
      BY <1>8, <2>2
    <3> QED
      BY <1>2, <3>1, <3>2
  <2>6. /\ next.week = s.week + WEEK /\ next.point = s.point
        /\ next = skip => next.amount = s.amount
        /\ next = pay => next.amount = s.amount + share
    BY <1>1, <1>8
  <2>7. next.amount = Sum(s.week + WEEK)
    <3>1. CASE next = skip /\ power = 0
      <4>1. Share(user, s.week, perWeek, total) = 0
        BY <1>8, <2>1, <2>2, <3>1, NoShare
      <4> HIDE DEF next, skip, pay, Sum
      <4> QED
        BY <1>1, <1>2, <2>3, <2>6, <3>1, <4>1
    <3>2. CASE next = pay /\ total[s.week] # 0
      <4>1. Share(user, s.week, perWeek, total) = share
        BY <1>8, <2>2, <3>2 DEF Share
      <4> HIDE DEF next, skip, pay, Sum, share
      <4> QED
        BY <1>2, <2>3, <2>6, <3>2, <4>1
    <3> QED
      BY <1>8, <3>1, <3>2
  <2>8. InForce(s.point, s.week + WEEK)
    <3>1. s.point = 1 \/ h[s.point - 1].ts \in Nat
      <4>1. s.point - 1 \in 0 .. n
        BY <1>1
      <4> QED
        BY <4>1 DEF PointsTyped, Escrow!Point
    <3> HIDE DEF h
    <3> QED
      BY <1>1, <1>2, <3>1
  <2> HIDE DEF next, Good, Sum, NoSupply, InForce, skip, pay
  <2> QED
    BY <1>3, <1>5, <2>4, <2>5, <2>6, <2>7, <2>8
<1>9. s.week < last \/ s.week >= last
  BY <1>1
<1> HIDE DEF next, Good, on, stop, skip, revert, pay, h, n, power
<1>10. next \in Good
  BY <1>4, <1>6, <1>7, <1>8, <1>9
<1> QED
  BY <1>10 DEF next, Good

(* Where a user's claims start and how far they have come: the week is not *)
(* past the tokens' checkpoint, the point of the history is not later than *)
(* the week, and a week passed before its supply was recorded gave no      *)
(* share, since the user had no power in it.                               *)
CursorPlaced(user) ==
    /\ start_time <= time_cursor_of[user]
    /\ time_cursor_of[user] <= WeekOf(last_token_time)
    /\ \/ user_epoch_of[user] = 0
       \/ user_point_history[user][user_epoch_of[user]].ts <= time_cursor_of[user]
    /\ \A w \in WeeksFrom(start_time, time_cursor_of[user]) :
          time_cursor <= w => Escrow!UserPowerAt(user, w) = 0

(* The week a claim starts from.                                           *)
FirstWeek(user) == Most(StartWeek(user), start_time)

(* The weeks before it were claimed before, or the user had no power.      *)
LEMMA FirstWeekIs ==
    ASSUME EscrowInv, PointsTyped, DistTyped, UsersInOrder, NEW user \in Users,
           user_point_epoch[user] # 0, WEEK <= start_time,
           time_cursor_of[user] # 0 => CursorPlaced(user),
           NEW last \in Nat, StartWeek(user) < last, start_time <= last
    PROVE  /\ FirstWeek(user) \in Nat /\ IsBound(FirstWeek(user))
           /\ start_time <= FirstWeek(user) /\ FirstWeek(user) <= last
           /\ time_cursor_of[user] # 0 => FirstWeek(user) = time_cursor_of[user]
           /\ time_cursor_of[user] = 0 =>
                 \A w \in WeeksFrom(start_time, FirstWeek(user)) : Escrow!UserPowerAt(user, w) = 0
           /\ \/ StartPoint(user) = 1
              \/ user_point_history[user][StartPoint(user) - 1].ts <= FirstWeek(user)
<1> DEFINE n == user_point_epoch[user]
           h == user_point_history[user]
           sp == StartPoint(user)
           a == FirstWeek(user)
           L == Escrow!LastAt(h, n, start_time)
<1>1. /\ n \in Nat /\ n >= 1 /\ WEEK \in Nat /\ WEEK > 0
      /\ time_cursor_of[user] \in Nat /\ IsBound(time_cursor_of[user])
      /\ user_epoch_of[user] \in Nat /\ user_epoch_of[user] <= n
      /\ start_time \in Nat /\ IsBound(start_time)
      /\ sp \in 1 .. n
      /\ StartWeek(user) \in Nat /\ IsBound(StartWeek(user))
  BY ConstantsTyped, StartTyped DEF EscrowInv, LocksTyped, DistTyped
<1>2. \A e \in 0 .. n : h[e].ts \in Nat
  BY DEF PointsTyped, Escrow!Point
<1>3. \A e, f \in 1 .. n : e <= f => h[e].ts <= h[f].ts
  BY DEF UsersInOrder
<1>4. /\ a \in Nat /\ IsBound(a) /\ start_time <= a /\ a <= last /\ StartWeek(user) <= a
      /\ a = StartWeek(user) \/ a = start_time
  BY <1>1 DEF FirstWeek, Most
<1>5. ASSUME h[sp].ts <= a PROVE sp = 1 \/ h[sp - 1].ts <= a
  <2> SUFFICES ASSUME sp # 1 PROVE h[sp - 1].ts <= a
    OBVIOUS
  <2>1. sp - 1 \in 1 .. n /\ sp - 1 \in 0 .. n /\ sp \in 0 .. n /\ sp - 1 <= sp
    BY <1>1
  <2>2. h[sp - 1].ts <= h[sp].ts /\ h[sp - 1].ts \in Nat /\ h[sp].ts \in Nat
    BY <1>1, <1>2, <1>3, <2>1
  <2> QED
    BY <1>4, <1>5, <2>2
<1>6. CASE time_cursor_of[user] # 0
  <2>1. a = time_cursor_of[user]
    BY <1>1, <1>6 DEF FirstWeek, StartWeek, Most, CursorPlaced
  <2>2. sp = 1 \/ h[sp - 1].ts <= a
    <3>1. CASE user_epoch_of[user] = 0
      <4>1. sp = 1
        BY <1>6, <3>1 DEF StartPoint, Most
      <4> QED
        BY <4>1
    <3>2. CASE user_epoch_of[user] # 0
      <4>1. sp = user_epoch_of[user]
        BY <1>1, <1>6, <3>2 DEF StartPoint, Most
      <4>2. h[sp].ts <= a
        BY <1>6, <2>1, <3>2, <4>1 DEF CursorPlaced
      <4> QED
        BY <1>5, <4>2
    <3> QED
      BY <3>1, <3>2
  <2> QED
    BY <1>4, <1>6, <2>1, <2>2
<1>7. CASE time_cursor_of[user] = 0
  <2>1. /\ L \in 0 .. n /\ (L = 0 \/ h[L].ts <= start_time)
        /\ \A f \in L + 1 .. n : h[f].ts > start_time
    BY <1>1, <1>2, LastAtIn
  <2>2. sp = Most(1, L)
    BY <1>7 DEF StartPoint
  <2> DEFINE t == h[sp].ts
  <2>3. t \in Nat /\ StartWeek(user) = WeekOf(t + WEEK - 1)
    <3>1. sp \in 0 .. n
      BY <1>1
    <3> QED
      BY <1>2, <1>7, <3>1 DEF StartWeek
  <2>4. StartWeek(user) <= t + WEEK - 1
    <3> HIDE DEF t
    <3>1. t + WEEK - 1 \in Nat
      BY <1>1, <2>3
    <3> QED
      BY <2>3, <3>1, WeekStarts DEF WeekOf
  <2>5. CASE L # 0
    <3>1. sp = L /\ t <= start_time
      BY <2>1, <2>2, <2>5 DEF Most
    <3>2. StartWeek(user) <= start_time
      <4>1. start_time < StartWeek(user) => start_time + WEEK <= StartWeek(user)
        BY <1>1, BoundsApart
      <4> HIDE DEF t
      <4> QED
        BY <1>1, <2>3, <2>4, <3>1, <4>1
    <3>3. a = start_time
      BY <1>1, <3>2 DEF FirstWeek, Most
    <3>4. WeeksFrom(start_time, a) = {}
      <4>1. \A w \in Weeks : w \in Nat
        BY WeekIsBound
      <4> QED
        BY <1>1, <3>3, <4>1 DEF WeeksFrom
    <3>5. sp = 1 \/ h[sp - 1].ts <= a
      BY <1>5, <3>1, <3>3
    <3> QED
      BY <1>4, <1>7, <3>4, <3>5
  <2>6. CASE L = 0
    <3>1. sp = 1 /\ t > start_time
      <4>1. sp = 1
        BY <2>2, <2>6 DEF Most
      <4>2. 1 \in L + 1 .. n
        BY <1>1, <2>6
      <4> QED
        BY <2>1, <4>1, <4>2
    <3>2. ASSUME NEW w \in WeeksFrom(start_time, a) PROVE Escrow!UserPowerAt(user, w) = 0
      <4>1. w \in Weeks /\ w \in Nat /\ IsBound(w) /\ start_time <= w /\ w < a
        BY WeekIsBound DEF WeeksFrom
      <4>2. a = StartWeek(user) /\ w + WEEK <= a
        BY <1>1, <1>4, <4>1, BoundsApart
      <4>3. t > w
        <5> HIDE DEF t, a
        <5> QED
          BY <1>1, <2>3, <2>4, <4>1, <4>2
      <4>4. 0 \in 0 .. n /\ 0 + 1 = 1
        BY <1>1
      <4>5. h[0 + 1].ts > w
        BY <3>1, <4>3, <4>4
      <4>6. Escrow!LastAt(h, n, w) = 0
        BY <4>1, <4>4, <4>5, PowerRead
      <4> QED
        BY <4>6 DEF Escrow!UserPowerAt
    <3> QED
      BY <1>4, <1>7, <3>1, <3>2
  <2> QED
    BY <2>5, <2>6
<1> QED
  BY <1>6, <1>7

(* What a claim pays and where it leaves the user's cursor.                *)
LEMMA ClaimPays ==
    ASSUME EscrowInv, PointsTyped, DistTyped, UsersInOrder, NEW user \in Users,
           WEEK <= start_time, time_cursor_of[user] # 0 => CursorPlaced(user),
           NEW last \in Nat, IsBound(last), last <= Horizon, start_time <= last,
           NEW perWeek \in [Weeks -> Nat], NEW total \in [Weeks -> Nat],
           user_point_epoch[user] # 0, StartWeek(user) < last,
           NEW c, c = _claim(user, last, perWeek, total)
    PROVE  /\ c.week \in Nat /\ FirstWeek(user) <= c.week /\ c.week <= last
           /\ c.point = 0 \/ user_point_history[user][c.point].ts <= c.week
           /\ c.amount = ShareSum(user, FirstWeek(user), c.week, perWeek, total)
           /\ \A w \in WeeksFrom(FirstWeek(user), c.week) :
                 total[w] = 0 => Escrow!UserPowerAt(user, w) = 0
<1> DEFINE a == FirstWeek(user)
           n == user_point_epoch[user]
           h == user_point_history[user]
           Good == GoodClaims(user, a, last, perWeek, total)
<1>1. /\ n \in Nat /\ a \in Nat /\ IsBound(a) /\ start_time <= a /\ a <= last
      /\ StartPoint(user) = 1 \/ h[StartPoint(user) - 1].ts <= a
  BY FirstWeekIs DEF EscrowInv, LocksTyped
<1>2. PICK f : /\ ClaimWalk(f, user, last, perWeek, total)
               /\ c = [f[CLAIM_LOOPS] EXCEPT !.point = Least(n, @ - 1)]
  BY ClaimIsWalk
<1>3. CLAIM_LOOPS \in Nat
  BY DistributorAssumption
<1>4. f[0] = ClaimStart(user) /\ f[0] \in Good
  <2>1. f[0] = ClaimStart(user) /\ ClaimStart(user) \in ClaimStates(user)
    BY <1>2, StartTyped DEF ClaimWalk
  <2>2. /\ ClaimStart(user).week = a /\ ClaimStart(user).point = StartPoint(user)
        /\ ClaimStart(user).amount = 0
    BY DEF ClaimStart, FirstWeek
  <2>3. WeeksFrom(a, a) = {}
    <3>1. \A w \in Weeks : w \in Nat
      BY WeekIsBound
    <3> HIDE DEF a
    <3> QED
      BY <1>1, <3>1 DEF WeeksFrom
  <2>4. ShareSum(user, a, a, perWeek, total) = 0
    <3> DEFINE g == [w \in WeeksFrom(a, a) |-> Share(user, w, perWeek, total)]
    <3>1. IsFiniteSet(WeeksFrom(a, a)) /\ g \in [WeeksFrom(a, a) -> Nat]
      BY WeeksFinite, SharesTyped
    <3>2. Total(g) = 0 <=> \A w \in WeeksFrom(a, a) : g[w] = 0
      <4> HIDE DEF g, a
      <4> QED
        BY <3>1, TotalZero
    <3>3. Total(g) = 0
      BY <2>3, <3>2
    <3> QED
      BY <3>3 DEF ShareSum
  <2> HIDE DEF a
  <2> QED
    BY <1>1, <2>1, <2>2, <2>3, <2>4 DEF GoodClaims
<1>5. ASSUME NEW i \in 1 .. CLAIM_LOOPS, f[i - 1] \in Good PROVE f[i] \in Good
  <2>1. f[i] = NextTurn(user, last, perWeek, total, f[i - 1])
    BY <1>2 DEF ClaimWalk
  <2> HIDE DEF a
  <2> QED
    BY <1>1, <1>5, <2>1, TurnKeepsGood
<1> HIDE DEF Good
<1>6. \A i \in 0 .. CLAIM_LOOPS : f[i] \in Good
  BY <1>3, <1>4, <1>5, StaysIn
<1>7. PICK s \in Good : s = f[CLAIM_LOOPS]
  BY <1>3, <1>6
<1>8. /\ s \in ClaimStates(user) /\ a <= s.week /\ s.week <= last
      /\ s.point = 1 \/ h[s.point - 1].ts <= s.week
      /\ s.amount = ShareSum(user, a, s.week, perWeek, total)
      /\ \A w \in WeeksFrom(a, s.week) : total[w] = 0 => Escrow!UserPowerAt(user, w) = 0
  BY DEF Good, GoodClaims
<1>9. s.week \in Nat /\ s.point \in 1 .. n + 1 /\ c = [s EXCEPT !.point = Least(n, s.point - 1)]
      /\ c.week = s.week /\ c.amount = s.amount /\ c.point = Least(n, s.point - 1)
  BY <1>2, <1>7, <1>8 DEF ClaimStates
<1>10. c.point = s.point - 1 /\ (s.point = 1 => c.point = 0)
  BY <1>1, <1>9 DEF Least
<1> HIDE DEF a, n, h
<1>11. /\ c.week \in Nat /\ a <= c.week /\ c.week <= last
       /\ c.point = 0 \/ h[c.point].ts <= c.week
       /\ c.amount = ShareSum(user, a, c.week, perWeek, total)
       /\ \A w \in WeeksFrom(a, c.week) : total[w] = 0 => Escrow!UserPowerAt(user, w) = 0
  BY <1>8, <1>9, <1>10
<1> QED
  BY <1>11 DEF a, h

-----------------------------------------------------------------------------
(* The sums of shares over adjoining ranges of weeks add up.               *)
LEMMA SharesJoin ==
    ASSUME EscrowInv, PointsTyped, NEW user \in Users,
           NEW a \in Nat, NEW b \in Nat, NEW c \in Nat, a <= b, b <= c,
           NEW perWeek \in [Weeks -> Nat], NEW total \in [Weeks -> Nat]
    PROVE  /\ ShareSum(user, a, c, perWeek, total) =
                 ShareSum(user, a, b, perWeek, total) + ShareSum(user, b, c, perWeek, total)
           /\ ShareSum(user, a, b, perWeek, total) \in Nat
           /\ ShareSum(user, b, c, perWeek, total) \in Nat
<1> DEFINE F(x, y) == [w \in WeeksFrom(x, y) |-> Share(user, w, perWeek, total)]
<1>1. \A x, y : /\ IsFiniteSet(WeeksFrom(x, y)) /\ F(x, y) \in [WeeksFrom(x, y) -> Nat]
                /\ ShareSum(user, x, y, perWeek, total) = Total(F(x, y))
                /\ ShareSum(user, x, y, perWeek, total) \in Nat
  BY WeeksFinite, SharesTyped DEF ShareSum
<1>2. \A w \in Weeks : w \in Nat
  BY WeekIsBound
<1>3. WeeksFrom(a, c) = WeeksFrom(a, b) \cup WeeksFrom(b, c)
  <2>1. ASSUME NEW w PROVE w \in WeeksFrom(a, c) <=> w \in WeeksFrom(a, b) \cup WeeksFrom(b, c)
    BY <1>2 DEF WeeksFrom
  <2> QED
    BY <2>1
<1>4. \A w \in WeeksFrom(a, b) : w \notin WeeksFrom(b, c)
  BY <1>2 DEF WeeksFrom
<1>5. /\ \A w \in WeeksFrom(a, b) : F(a, c)[w] = F(a, b)[w]
      /\ \A w \in WeeksFrom(b, c) : F(a, c)[w] = F(b, c)[w]
  BY <1>3
<1>6. PICK f, g, h : f = F(a, b) /\ g = F(a, c) /\ h = F(b, c)
  OBVIOUS
<1>7. PICK S, R, U : S = WeeksFrom(a, b) /\ R = WeeksFrom(b, c) /\ U = WeeksFrom(a, c)
  OBVIOUS
<1> HIDE DEF F
<1>8. /\ IsFiniteSet(S) /\ IsFiniteSet(R) /\ U = S \cup R /\ (\A w \in S : w \notin R)
      /\ f \in [S -> Nat] /\ h \in [R -> Nat] /\ g \in [U -> Nat]
      /\ (\A w \in S : g[w] = f[w]) /\ (\A w \in R : g[w] = h[w])
  BY <1>1, <1>3, <1>4, <1>5, <1>6, <1>7
<1>9. Total(g) = Total(f) + Total(h)
  BY ONLY <1>8, TotalSplit
<1> QED
  BY <1>1, <1>6, <1>9

(* Weeks without power add nothing.                                        *)
LEMMA NoShares ==
    ASSUME NEW user \in Users, NEW a \in Nat, NEW b \in Nat,
           NEW perWeek \in [Weeks -> Nat], NEW total \in [Weeks -> Nat],
           \A w \in WeeksFrom(a, b) : Escrow!UserPowerAt(user, w) = 0
    PROVE  ShareSum(user, a, b, perWeek, total) = 0
<1>1. PICK S, f : /\ S = WeeksFrom(a, b)
                  /\ f = [w \in S |-> Share(user, w, perWeek, total)]
  OBVIOUS
<1>2. \A w \in S : w \in Weeks /\ f[w] = 0
  BY <1>1, NoShare DEF WeeksFrom
<1>3. f \in [S -> Nat] /\ IsFiniteSet(S)
  BY <1>1, <1>2, WeeksFinite
<1>4. Total(f) = 0
  BY ONLY <1>2, <1>3, TotalZero
<1> QED
  BY <1>1, <1>4 DEF ShareSum

-----------------------------------------------------------------------------
(* The invariant of the cursors.  Supplies are zero from time_cursor on.   *)
CursorsInv ==
    /\ WEEK <= start_time /\ start_time <= last_token_time
    /\ last_token_time = start_time \/ last_token_time <= now
    /\ \A w \in Weeks : time_cursor <= w => ve_supply[w] = 0
    /\ \A user \in Users : time_cursor_of[user] # 0 => CursorPlaced(user)

(* What no step does to the records.                                       *)
RecordsKept ==
    /\ start_time' = start_time
    /\ last_token_time <= last_token_time'
    /\ last_token_time' = start_time \/ last_token_time' <= now'
    /\ time_cursor <= time_cursor'
    /\ \A w \in Weeks : w < WeekOf(last_token_time) => tokens_per_week'[w] = tokens_per_week[w]
    /\ \A w \in Weeks : w < time_cursor => ve_supply'[w] = ve_supply[w]
    /\ \A w \in Weeks : time_cursor' <= w => ve_supply'[w] = 0

(* A supply checkpoint records nothing from its new cursor on.             *)
LEMMA NoSupplyYet ==
    ASSUME EscrowInv, DistTyped, CheckpointTotalSupply,
           \A w \in Weeks : time_cursor <= w => ve_supply[w] = 0
    PROVE  \A w \in Weeks : time_cursor' <= w => ve_supply'[w] = 0
<1> DEFINE recorded == {w \in Weeks : /\ time_cursor <= w /\ w <= WeekOf(now)
                                      /\ w < time_cursor + SUPPLY_LOOPS * WEEK}
<1>1. /\ WEEK \in Nat /\ WEEK > 0 /\ WeekOf(now) \in Nat /\ time_cursor \in Nat
  BY ConstantsTyped, WeekStarts DEF EscrowInv, LocksTyped, DistTyped, WeekOf
<1>2. /\ ve_supply' = [w \in Weeks |->
                         IF w \in recorded THEN SupplyRead(point_history', epoch', w)
                                           ELSE ve_supply[w]]
      /\ time_cursor' = IF recorded = {} THEN time_cursor
                        ELSE WEEK + CHOOSE w \in recorded : \A v \in recorded : v <= w
  BY DEF CheckpointTotalSupply
<1>3. \A w \in Weeks : w \in Nat
  BY WeekIsBound
<1>4. recorded \subseteq Nat /\ (\A w \in recorded : w <= WeekOf(now) /\ w \in Weeks)
      /\ \A w \in recorded : time_cursor <= w
  BY <1>3
<1> HIDE DEF recorded
<1>5. CASE recorded = {}
  BY <1>2, <1>5
<1>6. CASE recorded # {}
  <2>1. \E m \in recorded : \A v \in recorded : v <= m
    BY <1>1, <1>4, <1>6, Greatest
  <2>2. PICK m \in recorded : (\A v \in recorded : v <= m) /\ time_cursor' = WEEK + m
    BY <1>2, <1>6, <2>1
  <2>3. m \in Nat /\ time_cursor <= m
    BY <1>4
  <2>4. ASSUME NEW w \in Weeks, time_cursor' <= w PROVE w \notin recorded /\ time_cursor <= w
    <3>1. w \in Nat
      BY <1>3
    <3> QED
      BY <1>1, <2>2, <2>3, <2>4, <3>1
  <2> QED
    BY <1>2, <2>4
<1> QED
  BY <1>5, <1>6

(* Every step keeps the records.                                           *)
LEMMA RecordsStep ==
    ASSUME EscrowInv, EscrowInv', PointsTyped', DistTyped, CursorsInv, [Next]_vars
    PROVE  RecordsKept
<1>1. /\ SupplyStep /\ TokenStep /\ start_time' = start_time
      /\ now \in Nat /\ now' \in Nat /\ now <= now' /\ LocksTyped
  BY StepParts, TimePasses DEF EscrowInv
<1>2. /\ time_cursor <= time_cursor'
      /\ \A w \in Weeks : w < time_cursor => ve_supply'[w] = ve_supply[w]
      /\ \A w \in Weeks : time_cursor' <= w => ve_supply'[w] = 0
  <2>1. CASE UNCHANGED supplies
    BY <2>1 DEF supplies, DistTyped, CursorsInv
  <2>2. CASE CheckpointTotalSupply
    <3>1. \A w \in Weeks : time_cursor' <= w => ve_supply'[w] = 0
      BY <2>2, NoSupplyYet DEF CursorsInv
    <3> QED
      BY <2>2, <3>1, SupplyMoved
  <2> QED
    BY <1>1, <2>1, <2>2 DEF SupplyStep
<1>3. /\ last_token_time <= last_token_time'
      /\ last_token_time' = start_time \/ last_token_time' <= now'
      /\ \A w \in Weeks : w < WeekOf(last_token_time) => tokens_per_week'[w] = tokens_per_week[w]
  <2>1. last_token_time \in Nat
    BY DEF DistTyped
  <2>2. CASE UNCHANGED <<last_token_time, tokens_per_week>>
    BY <1>1, <2>1, <2>2 DEF CursorsInv
  <2>3. ASSUME NEW balance \in Nat, CheckpointToken(balance)
        PROVE  /\ last_token_time <= last_token_time' /\ last_token_time' = now
               /\ \A w \in Weeks : w < WeekOf(last_token_time) =>
                     tokens_per_week'[w] = tokens_per_week[w]
    BY <1>1, <2>3, TokensMoved
  <2> QED
    BY <1>1, <2>2, <2>3 DEF TokenStep
<1> QED
  BY <1>1, <1>2, <1>3 DEF RecordsKept

(* Weeks of later times are later.                                         *)
LEMMA WeeksMonotone ==
    ASSUME NEW s \in Nat, NEW t \in Nat, s <= t
    PROVE  /\ WeekOf(s) <= WeekOf(t)
           /\ IsBound(s) => s <= WeekOf(t)
<1>1. /\ WeekOf(s) \in Nat /\ WeekOf(s) <= s /\ IsBound(WeekOf(s))
      /\ WeekOf(t) \in Nat /\ t < WeekOf(t) + WEEK /\ IsBound(WeekOf(t)) /\ WEEK \in Nat
  BY WeekStarts, ConstantsTyped DEF WeekOf
<1>2. ASSUME NEW b \in Nat, IsBound(b), b <= t PROVE b <= WeekOf(t)
  <2>1. WeekOf(t) < b => WeekOf(t) + WEEK <= b
    BY <1>1, <1>2, BoundsApart
  <2> QED
    BY <1>1, <1>2, <2>1
<1> QED
  BY <1>1, <1>2

(* What a user has been paid for stays as it was.                          *)
LEMMA PassedStay ==
    ASSUME EscrowInv, PointsTyped, DistTyped, DistTyped', CursorsInv, UsersGrow, RecordsKept,
           NEW user \in Users, NEW w \in WeeksFrom(start_time, time_cursor_of[user])
    PROVE  /\ Escrow!UserPowerAt(user, w)' = Escrow!UserPowerAt(user, w)
           /\ Share(user, w, tokens_per_week, ve_supply)' =
                 Share(user, w, tokens_per_week, ve_supply)
<1>1. /\ w \in Weeks /\ w \in Nat /\ IsBound(w) /\ start_time <= w /\ w < time_cursor_of[user]
      /\ start_time \in Nat /\ time_cursor_of[user] \in Nat /\ WEEK \in Nat
      /\ time_cursor \in Nat /\ now \in Nat
      /\ last_token_time \in Nat
  BY WeekIsBound, ConstantsTyped DEF WeeksFrom, DistTyped, EscrowInv, LocksTyped
<1>2. CursorPlaced(user)
  BY <1>1 DEF CursorsInv
<1>3. /\ WeekOf(last_token_time) \in Nat /\ WeekOf(last_token_time) <= last_token_time
      /\ w < WeekOf(last_token_time)
  <2>1. WeekOf(last_token_time) \in Nat /\ WeekOf(last_token_time) <= last_token_time
    BY <1>1, WeekStarts DEF WeekOf
  <2>2. time_cursor_of[user] <= WeekOf(last_token_time)
    BY <1>2 DEF CursorPlaced
  <2> QED
    BY <1>1, <2>1, <2>2
<1>4. w < now
  BY <1>1, <1>3 DEF CursorsInv
<1>5. /\ Escrow!UserPowerAt(user, w)' = Escrow!UserPowerAt(user, w)
      /\ Escrow!UserPowerAt(user, w) \in Nat
  BY <1>1, <1>4, PowerStays
<1>6. tokens_per_week'[w] = tokens_per_week[w] /\ tokens_per_week[w] \in Nat
  BY <1>1, <1>3 DEF RecordsKept, DistTyped
<1>7. CASE w < time_cursor
  <2>1. ve_supply'[w] = ve_supply[w]
    BY <1>1, <1>7 DEF RecordsKept
  <2> QED
    BY <1>5, <1>6, <2>1 DEF Share, FeeShare
<1>8. CASE ~(w < time_cursor)
  <2>1. ve_supply[w] = 0 /\ Escrow!UserPowerAt(user, w) = 0
    BY <1>1, <1>2, <1>8 DEF CursorsInv, CursorPlaced
  <2>2. ve_supply'[w] \in Nat /\ 0 * tokens_per_week[w] = 0
    BY <1>1, <1>6 DEF DistTyped, Weeks, Escrow!Weeks
  <2>3. ve_supply'[w] # 0 => 0 \div ve_supply'[w] = 0
    BY <2>2
  <2>4. Share(user, w, tokens_per_week, ve_supply) = 0
    BY <2>1 DEF Share
  <2>5. Share(user, w, tokens_per_week, ve_supply)' =
           IF ve_supply'[w] = 0 THEN 0
           ELSE (Escrow!UserPowerAt(user, w)' * tokens_per_week'[w]) \div ve_supply'[w]
    BY DEF Share, FeeShare
  <2> QED
    BY <1>5, <1>6, <2>1, <2>2, <2>3, <2>4, <2>5
<1> QED
  BY <1>7, <1>8

(* What users have been paid: all their shares up to their cursors.        *)
PaidInv ==
    \A user \in Users :
        paid[user] = ShareSum(user, start_time, time_cursor_of[user], tokens_per_week, ve_supply)

(* The sum of the shares paid for stays as it was, and the cursor placed.  *)
LEMMA CursorStays ==
    ASSUME EscrowInv, EscrowInv', PointsTyped, DistTyped, DistTyped', CursorsInv, UsersGrow,
           RecordsKept, NEW user \in Users
    PROVE  /\ [w \in WeeksFrom(start_time, time_cursor_of[user]) |->
                  Share(user, w, tokens_per_week, ve_supply)'] =
                 [w \in WeeksFrom(start_time, time_cursor_of[user]) |->
                    Share(user, w, tokens_per_week, ve_supply)]
           /\ /\ time_cursor_of'[user] = time_cursor_of[user]
              /\ user_epoch_of'[user] = user_epoch_of[user]
              /\ time_cursor_of[user] # 0
              => CursorPlaced(user)'
<1>1. \A w \in WeeksFrom(start_time, time_cursor_of[user]) :
         /\ Escrow!UserPowerAt(user, w)' = Escrow!UserPowerAt(user, w)
         /\ Share(user, w, tokens_per_week, ve_supply)' =
               Share(user, w, tokens_per_week, ve_supply)
  BY PassedStay
<1>2. ASSUME time_cursor_of'[user] = time_cursor_of[user],
             user_epoch_of'[user] = user_epoch_of[user], time_cursor_of[user] # 0
      PROVE  CursorPlaced(user)'
  <2>1. CursorPlaced(user)
    BY <1>2 DEF CursorsInv
  <2>2. /\ start_time' = start_time /\ start_time <= time_cursor_of'[user]
        /\ last_token_time \in Nat /\ last_token_time' \in Nat
        /\ last_token_time <= last_token_time'
        /\ time_cursor_of[user] \in Nat /\ user_epoch_of[user] \in Nat
        /\ user_epoch_of[user] <= user_point_epoch[user] /\ user_point_epoch[user] \in Nat
        /\ time_cursor \in Nat /\ time_cursor' \in Nat /\ time_cursor <= time_cursor'
    BY <1>2, <2>1 DEF RecordsKept, DistTyped, CursorPlaced, EscrowInv, LocksTyped
  <2>3. WeekOf(last_token_time) <= WeekOf(last_token_time')
    BY <2>2, WeeksMonotone
  <2>4. time_cursor_of'[user] <= WeekOf(last_token_time')
    <3>1. WeekOf(last_token_time) \in Nat /\ WeekOf(last_token_time') \in Nat
      BY <2>2, WeekStarts DEF WeekOf
    <3> QED
      BY <1>2, <2>1, <2>2, <2>3, <3>1 DEF CursorPlaced
  <2>5. user_epoch_of[user] \in 0 .. user_point_epoch[user]
    BY <2>2
  <2>6. user_point_history'[user][user_epoch_of[user]] = user_point_history[user][user_epoch_of[user]]
    BY <2>5 DEF UsersGrow
  <2>7. ASSUME NEW w \in WeeksFrom(start_time, time_cursor_of[user]), time_cursor' <= w
        PROVE  Escrow!UserPowerAt(user, w)' = 0
    <3>1. w \in Nat
      BY WeekIsBound DEF WeeksFrom
    <3>2. time_cursor <= w
      BY <2>2, <2>7, <3>1
    <3> QED
      BY <1>1, <2>1, <3>2 DEF CursorPlaced
  <2>8. \A w \in WeeksFrom(start_time, time_cursor_of[user]) :
           time_cursor' <= w => Escrow!UserPowerAt(user, w)' = 0
    BY <2>7
  <2> QED
    BY <1>2, <2>1, <2>2, <2>4, <2>6, <2>8
       DEF CursorPlaced, WeeksFrom, Weeks, Escrow!Weeks, WeekOf, Escrow!WeekOf
<1> QED
  BY <1>1, <1>2

(* What a claim of user leaves: c is what _claim returned.                 *)
ClaimedUpTo(user, c) ==
    /\ time_cursor_of'[user] = c.week /\ user_epoch_of'[user] = c.point
    /\ paid'[user] = paid[user] + c.amount

(* During claims no lock changes, so no power does.                        *)
HistoriesStill ==
    /\ user_point_epoch' = user_point_epoch /\ user_point_history' = user_point_history

(* Then a power is what it was at any time.                                *)
LEMMA PowersStill ==
    ASSUME HistoriesStill, NEW user, NEW w
    PROVE  Escrow!UserPowerAt(user, w)' = Escrow!UserPowerAt(user, w)
BY DEF HistoriesStill, Escrow!UserPowerAt, Escrow!LastAt, Escrow!UserPowerFrom,
       Escrow!AtLeastZero

(* A claim pays all shares between the old cursor and the new.             *)
LEMMA CursorMoves ==
    ASSUME EscrowInv, EscrowInv', PointsTyped, DistTyped, DistTyped', UsersInOrder,
           CursorsInv, PaidInv, UsersGrow, RecordsKept, HistoriesStill, NEW user \in Users,
           NEW c, c = _claim(user, WeekOf(last_token_time'), tokens_per_week', ve_supply'),
           ClaimedUpTo(user, c)
    PROVE  /\ paid'[user] = Total([w \in WeeksFrom(start_time, time_cursor_of'[user]) |->
                                     Share(user, w, tokens_per_week, ve_supply)'])
           /\ time_cursor_of'[user] # 0 => CursorPlaced(user)'
<1> DEFINE last == WeekOf(last_token_time')
           old == time_cursor_of[user]
           a == FirstWeek(user)
           Sum(x, y) == ShareSum(user, x, y, tokens_per_week', ve_supply')
<1>1. /\ start_time' = start_time /\ start_time \in Nat /\ IsBound(start_time)
      /\ last_token_time \in Nat /\ last_token_time' \in Nat /\ last_token_time' <= Horizon
      /\ last_token_time <= last_token_time' /\ start_time <= last_token_time
      /\ old \in Nat /\ user_epoch_of[user] \in Nat
      /\ user_point_epoch[user] \in Nat /\ WEEK \in Nat /\ Horizon \in Nat
      /\ WEEK <= start_time
      /\ time_cursor \in Nat /\ time_cursor' \in Nat /\ time_cursor <= time_cursor'
      /\ old # 0 => CursorPlaced(user)
  BY ConstantsTyped DEF RecordsKept, DistTyped, EscrowInv, LocksTyped, CursorsInv
<1>2. tokens_per_week' \in [Weeks -> Nat] /\ ve_supply' \in [Weeks -> Nat]
  BY DEF DistTyped, Weeks, Escrow!Weeks
<1>3. /\ last \in Nat /\ IsBound(last) /\ last <= Horizon /\ start_time <= last
  <2>1. last \in Nat /\ IsBound(last) /\ last <= last_token_time'
    BY <1>1, WeekStarts DEF WeekOf
  <2>2. start_time <= last_token_time'
    BY <1>1
  <2>3. start_time <= last
    BY <1>1, <2>2, WeeksMonotone
  <2> HIDE DEF last
  <2> QED
    BY <1>1, <2>1, <2>3
<1>4. /\ \A w \in WeeksFrom(start_time, old) :
            Share(user, w, tokens_per_week, ve_supply)' =
               Share(user, w, tokens_per_week, ve_supply)
      /\ /\ time_cursor_of'[user] = old
         /\ user_epoch_of'[user] = user_epoch_of[user]
         /\ old # 0
         => CursorPlaced(user)'
  BY PassedStay, CursorStays
<1>5. \A w : Share(user, w, tokens_per_week, ve_supply)' =
                Share(user, w, tokens_per_week', ve_supply')
  BY PowersStill DEF Share, FeeShare
<1>6. paid[user] = Sum(start_time, old)
  <2>1. [w \in WeeksFrom(start_time, old) |-> Share(user, w, tokens_per_week, ve_supply)] =
        [w \in WeeksFrom(start_time, old) |-> Share(user, w, tokens_per_week', ve_supply')]
    BY <1>4, <1>5
  <2> QED
    BY <2>1 DEF PaidInv, ShareSum
<1>7. \A x : Sum(start_time, x) = Total([w \in WeeksFrom(start_time, x) |->
                                           Share(user, w, tokens_per_week, ve_supply)'])
  BY <1>5 DEF ShareSum
<1>8. CASE user_point_epoch[user] # 0 /\ StartWeek(user) < last
  <2>1. /\ c.week \in Nat /\ a <= c.week /\ c.week <= last
        /\ c.point = 0 \/ user_point_history[user][c.point].ts <= c.week
        /\ c.amount = Sum(a, c.week)
        /\ \A w \in WeeksFrom(a, c.week) : ve_supply'[w] = 0 => Escrow!UserPowerAt(user, w) = 0
    <3> HIDE DEF last
    <3>1. c = _claim(user, last, tokens_per_week', ve_supply')
      BY DEF last
    <3> QED
      BY <1>1, <1>2, <1>3, <1>8, <3>1, ClaimPays
  <2>2. /\ a \in Nat /\ IsBound(a) /\ start_time <= a /\ a <= last
        /\ old # 0 => a = old
        /\ old = 0 => \A w \in WeeksFrom(start_time, a) : Escrow!UserPowerAt(user, w) = 0
    BY <1>1, <1>3, <1>8, FirstWeekIs
  <2> HIDE DEF a, last
  <2>3. Sum(start_time, a) = paid[user]
    <3>1. CASE old # 0
      BY <1>6, <2>2, <3>1
    <3>2. CASE old = 0
      <4>1. Sum(start_time, a) = 0
        BY <1>1, <1>2, <2>2, <3>2, NoShares
      <4>2. WeeksFrom(start_time, old) = {}
        <5>1. \A w \in Weeks : w \in Nat
          BY WeekIsBound
        <5> QED
          BY <1>1, <3>2, <5>1 DEF WeeksFrom
      <4>3. Sum(start_time, old) = 0
        BY <1>1, <1>2, <4>2, NoShares
      <4> QED
        BY <1>6, <4>1, <4>3
    <3> QED
      BY <3>1, <3>2
  <2>4. Sum(start_time, c.week) = Sum(start_time, a) + Sum(a, c.week)
    <3>1. \A x, y, z \in Nat : x <= y /\ y <= z => Sum(x, z) = Sum(x, y) + Sum(y, z)
      BY <1>2, SharesJoin
    <3> HIDE DEF Sum
    <3> QED
      BY <1>1, <2>1, <2>2, <3>1
  <2>5. paid'[user] = Sum(start_time, time_cursor_of'[user])
    BY <2>1, <2>3, <2>4 DEF ClaimedUpTo
  <2>6. ASSUME NEW w \in WeeksFrom(start_time, c.week), time_cursor' <= w
        PROVE  Escrow!UserPowerAt(user, w)' = 0
    <3>0. w \in Weeks /\ w \in Nat /\ start_time <= w /\ w < c.week
      BY WeekIsBound DEF WeeksFrom
    <3>1. CASE w < a
      <4>1. w \in WeeksFrom(start_time, a) /\ time_cursor <= w
        BY <1>1, <2>6, <3>0, <3>1 DEF WeeksFrom
      <4>2. Escrow!UserPowerAt(user, w) = 0
        BY <1>1, <2>2, <4>1 DEF CursorPlaced
      <4> QED
        BY <4>2, PowersStill
    <3>2. CASE ~(w < a)
      <4>1. w \in WeeksFrom(a, c.week)
        BY <2>2, <3>0, <3>2 DEF WeeksFrom
      <4>2. ve_supply'[w] = 0
        BY <2>6, <3>0 DEF RecordsKept
      <4>3. Escrow!UserPowerAt(user, w) = 0
        BY <2>1, <4>1, <4>2
      <4> QED
        BY <4>3, PowersStill
    <3> QED
      BY <3>1, <3>2
  <2>7. \A w \in WeeksFrom(start_time, c.week) :
           time_cursor' <= w => Escrow!UserPowerAt(user, w)' = 0
    BY <2>6
  <2>8. start_time <= c.week
    BY <1>1, <2>1, <2>2
  <2>9. CursorPlaced(user)'
    BY <1>1, <2>1, <2>7, <2>8
       DEF ClaimedUpTo, CursorPlaced, WeeksFrom, Weeks, Escrow!Weeks, WeekOf, Escrow!WeekOf,
           last, HistoriesStill
  <2> HIDE DEF Sum
  <2> QED
    BY <1>7, <2>5, <2>9
<1>9. CASE ~(user_point_epoch[user] # 0 /\ StartWeek(user) < last)
  <2>1. user_point_epoch[user] = 0 \/ StartWeek(user) >= last
    BY <1>3, <1>9, StartTyped
  <2>2. c = [week |-> old, point |-> user_epoch_of[user], amount |-> 0, status |-> "nothing"]
    BY <2>1 DEF _claim
  <2>3. /\ time_cursor_of'[user] = old /\ user_epoch_of'[user] = user_epoch_of[user]
        /\ paid'[user] = paid[user] + 0
    BY <2>2 DEF ClaimedUpTo
  <2>4. Sum(start_time, old) \in Nat
    BY <1>2, SharesTyped
  <2> QED
    BY <1>4, <1>6, <1>7, <2>3, <2>4
<1> QED
  BY <1>8, <1>9

(* Only claims move cursors and pay.                                       *)
LEMMA ClaimsStep ==
    ASSUME [Next]_vars
    PROVE  UNCHANGED claims \/ \E S \in SUBSET Users : claim_many(S)
<1>1. CASE UNCHANGED dvars
  BY <1>1 DEF dvars
<1>2. CASE Distributing
  <2>1. ASSUME NEW user \in Users, claim(user) PROVE \E S \in SUBSET Users : claim_many(S)
    BY <2>1 DEF claim
  <2> QED
    BY <1>2, <2>1 DEF Distributing, checkpoint_token, checkpoint_total_supply, Receive, burn
<1>3. CASE Owning
  BY <1>3 DEF Owning, toggle_allow_checkpoint_token, kill_me, apply_admin, commit_admin
<1>4. CASE UNCHANGED vars
  BY <1>1, <1>4 DEF vars
<1> QED
  BY <1>1, <1>2, <1>3, <1>4 DEF Next, Locking, Tick

(* What a call of claim_many leaves for each user.                         *)
LEMMA ClaimManyLeaves ==
    ASSUME EscrowInv, EscrowInv', PointsTyped', DistTyped, NEW S \in SUBSET Users, claim_many(S)
    PROVE  /\ HistoriesStill
           /\ \A user \in S :
                 ClaimedUpTo(user, _claim(user, WeekOf(last_token_time'), tokens_per_week',
                                          ve_supply'))
           /\ \A user \in Users \ S :
                 /\ time_cursor_of'[user] = time_cursor_of[user]
                 /\ user_epoch_of'[user] = user_epoch_of[user]
                 /\ paid'[user] = paid[user]
<1>1. HistoriesStill
  <2>1. CASE UNCHANGED <<escrow, supplies>>
    BY <2>1 DEF escrow, HistoriesStill
  <2>2. CASE CheckpointTotalSupply
    BY <2>2, SupplyMoved DEF HistoriesStill
  <2> QED
    BY <2>1, <2>2 DEF claim_many
<1> DEFINE c == [user \in S |-> _claim(user, WeekOf(last_token_time'), tokens_per_week',
                                       ve_supply')]
<1>2. /\ time_cursor_of' = [user \in Users |->
                              IF user \in S THEN c[user].week ELSE time_cursor_of[user]]
      /\ user_epoch_of' = [user \in Users |->
                             IF user \in S THEN c[user].point ELSE user_epoch_of[user]]
      /\ paid' = [user \in Users |->
                    IF user \in S THEN paid[user] + c[user].amount ELSE paid[user]]
  BY DEF claim_many
<1>3. \A user \in S : user \in Users /\
         c[user] = _claim(user, WeekOf(last_token_time'), tokens_per_week', ve_supply')
  OBVIOUS
<1> HIDE DEF c
<1> QED
  BY <1>1, <1>2, <1>3 DEF ClaimedUpTo

(* Every step keeps the cursors and pays exactly.                          *)
LEMMA PaidStep ==
    ASSUME DistInv, DistInv', UsersInOrder, CursorsInv, PaidInv, [Next]_vars
    PROVE  CursorsInv' /\ PaidInv'
<1>1. /\ EscrowInv /\ EscrowInv' /\ PointsTyped /\ PointsTyped' /\ DistTyped /\ DistTyped'
      /\ RecordsKept /\ UsersGrow
  BY RecordsStep, HistoriesGrow DEF DistInv, EscrowInv
<1> DEFINE Kept(user) == /\ time_cursor_of'[user] = time_cursor_of[user]
                         /\ user_epoch_of'[user] = user_epoch_of[user]
                         /\ paid'[user] = paid[user]
           Moved(user) == HistoriesStill /\
              ClaimedUpTo(user, _claim(user, WeekOf(last_token_time'), tokens_per_week',
                                       ve_supply'))
           PaidNow(user) ==
              paid'[user] = Total([w \in WeeksFrom(start_time, time_cursor_of'[user]) |->
                                     Share(user, w, tokens_per_week, ve_supply)'])
<1>2. \A user \in Users : Kept(user) \/ Moved(user)
  <2>1. CASE UNCHANGED claims
    BY <2>1 DEF claims
  <2>2. ASSUME NEW S \in SUBSET Users, claim_many(S)
        PROVE  \A user \in Users : Kept(user) \/ Moved(user)
    BY <1>1, <2>2, ClaimManyLeaves
  <2> QED
    BY <2>1, <2>2, ClaimsStep
<1>3. ASSUME NEW user \in Users
      PROVE  PaidNow(user) /\ (time_cursor_of'[user] # 0 => CursorPlaced(user)')
  <2>1. CASE Moved(user)
    BY <1>1, <2>1, CursorMoves
  <2>2. CASE Kept(user)
    <3>1. time_cursor_of'[user] # 0 => CursorPlaced(user)'
      BY <1>1, <2>2, CursorStays
    <3>2. [w \in WeeksFrom(start_time, time_cursor_of[user]) |->
              Share(user, w, tokens_per_week, ve_supply)'] =
          [w \in WeeksFrom(start_time, time_cursor_of[user]) |->
              Share(user, w, tokens_per_week, ve_supply)]
      BY <1>1, CursorStays
    <3>3. PaidNow(user)
      BY <2>2, <3>2 DEF PaidInv, ShareSum
    <3> QED
      BY <3>1, <3>3
  <2> QED
    BY <1>2, <2>1, <2>2
<1>4. start_time' = start_time
  BY <1>1 DEF RecordsKept
<1>5. PaidInv'
  <2>1. \A user \in Users :
           paid'[user] = Total([w \in WeeksFrom(start_time', time_cursor_of'[user]) |->
                                  Share(user, w, tokens_per_week, ve_supply)'])
    BY <1>3, <1>4
  <2> QED
    BY <2>1 DEF PaidInv, ShareSum, WeeksFrom, Weeks, Escrow!Weeks
<1>6. CursorsInv'
  <2>1. \A user \in Users : time_cursor_of'[user] # 0 => CursorPlaced(user)'
    BY <1>3
  <2>2. /\ WEEK <= start_time' /\ start_time' <= last_token_time'
        /\ last_token_time' = start_time' \/ last_token_time' <= now'
    <3>1. start_time \in Nat /\ last_token_time \in Nat /\ last_token_time' \in Nat
      BY <1>1 DEF DistTyped
    <3> QED
      BY <1>1, <1>4, <3>1 DEF RecordsKept, CursorsInv
  <2>3. \A w \in Weeks : time_cursor' <= w => ve_supply'[w] = 0
    BY <1>1 DEF RecordsKept
  <2> QED
    BY <2>1, <2>2, <2>3 DEF CursorsInv, Weeks, Escrow!Weeks
<1> QED
  BY <1>5, <1>6

(* At deployment nobody has claimed.                                       *)
LEMMA PaidInit == Init => CursorsInv /\ PaidInv
<1> SUFFICES ASSUME Init PROVE CursorsInv /\ PaidInv
  OBVIOUS
<1>1. DistTyped
  BY DistInit
<1>2. PICK t \in StartTimes : start_time = WeekOf(t)
  BY DEF Init
<1>3. /\ last_token_time = start_time /\ ve_supply = [w \in Weeks |-> 0]
      /\ time_cursor_of = [user \in Users |-> 0] /\ paid = [user \in Users |-> 0]
  BY DEF Init
<1>4. start_time \in Nat /\ WEEK <= start_time
  <2>1. t \in Nat /\ WEEK <= t /\ WEEK \in Nat /\ WEEK > 0
    BY DistributorAssumption, ConstantsTyped
  <2>2. IsBound(WEEK)
    <3>1. 1 \in Nat /\ WEEK = 1 * WEEK
      BY <2>1
    <3> QED
      BY <3>1 DEF IsBound
  <2> QED
    BY <1>1, <1>2, <2>1, <2>2, WeeksMonotone DEF DistTyped
<1>5. CursorsInv
  BY <1>3, <1>4 DEF CursorsInv
<1>6. ASSUME NEW user \in Users
      PROVE  paid[user] = ShareSum(user, start_time, time_cursor_of[user], tokens_per_week,
                                   ve_supply)
  <2>1. WeeksFrom(start_time, 0) = {}
    <3>1. \A w \in Weeks : w \in Nat
      BY WeekIsBound
    <3> QED
      BY <1>4, <3>1 DEF WeeksFrom
  <2>2. ShareSum(user, start_time, 0, tokens_per_week, ve_supply) = 0
    BY <1>1, <1>4, <2>1, NoShares DEF DistTyped
  <2> QED
    BY <1>3, <2>2
<1> QED
  BY <1>5, <1>6 DEF PaidInv

(* The invariant that both theorems on payments need.                      *)
PayInv == DistInv /\ UsersInOrder /\ CursorsInv /\ PaidInv

(* It holds of every behaviour.                                            *)
LEMMA PayInvHolds == Spec => []PayInv
<1>1. Init => PayInv
  BY EscrowInit, PointsInit, DistInit, OrderInit, PaidInit DEF DistInv, PayInv
<1>2. PayInv /\ [Next]_vars => PayInv'
  <2> SUFFICES ASSUME PayInv, [Next]_vars PROVE PayInv'
    OBVIOUS
  <2>1. DistInv /\ DistInv'
    BY EscrowStep, PointsStep, DistStep DEF DistInv, PayInv
  <2>2. UsersInOrder'
    BY <2>1, OrderStep DEF PayInv, DistInv
  <2>3. CursorsInv' /\ PaidInv'
    BY <2>1, PaidStep DEF PayInv
  <2> QED
    BY <2>1, <2>2, <2>3 DEF PayInv
<1> QED
  BY <1>1, <1>2, PTL DEF Spec

(* Every user has been paid its share of each week before its cursor,      *)
(* exactly once: wherever _claim's loop (FeeDistributor.vy:266) stopped,   *)
(* whenever the checkpoints were made and however the lock changed since.  *)
THEOREM ClaimsPayExactly == Spec => []PaidExactly
<1>1. PayInv => PaidExactly
  <2> SUFFICES ASSUME PayInv, NEW user \in Users
               PROVE  paid[user] = Total([w \in {v \in Weeks :
                                             start_time <= v /\ v < time_cursor_of[user]}
                                            |-> Entitled(user, w)])
    BY DEF PaidExactly
  <2>1. [w \in WeeksFrom(start_time, time_cursor_of[user]) |-> Entitled(user, w)] =
        [w \in WeeksFrom(start_time, time_cursor_of[user]) |->
           Share(user, w, tokens_per_week, ve_supply)]
    BY DEF Entitled, Share
  <2> QED
    BY <2>1 DEF PayInv, PaidInv, ShareSum, WeeksFrom
<1> QED
  BY <1>1, PayInvHolds, PTL

-----------------------------------------------------------------------------
(* What is due is covered.  A token checkpoint shares an amount out among  *)
(* the weeks it spans, and no more than the amount.                        *)
LEMMA SpreadBelow ==
    ASSUME now \in Nat, last_token_time \in Nat, last_token_time <= now, NEW amount \in Nat
    PROVE  /\ [w \in Weeks |-> Spread(amount, w)] \in [Weeks -> Nat]
           /\ Total([w \in Weeks |-> Spread(amount, w)]) <= amount
<1> DEFINE t == last_token_time
           n == now
           part == [w \in Weeks |-> Spread(amount, w)]
           Out(w) == \/ w < WeekOf(t) \/ w > WeekOf(n)
                     \/ w >= WeekOf(t) + TOKEN_LOOPS * WEEK
           at == [w \in Weeks |-> Most(w, t)]
           len == [w \in Weeks |-> IF Out(w) THEN 0 ELSE Least(w + WEEK, n) - Most(w, t)]
<1>1. IsFiniteSet(Weeks) /\ part \in [Weeks -> Nat]
  BY WeeksFinite, SpreadTyped
<1>2. /\ WEEK \in Nat /\ WEEK > 0 /\ t \in Nat /\ n \in Nat /\ t <= n
      /\ WeekOf(t) \in Nat /\ WeekOf(t) <= t /\ t < WeekOf(t) + WEEK
      /\ WeekOf(n) \in Nat /\ WeekOf(n) <= n /\ n < WeekOf(n) + WEEK
      /\ IsBound(WeekOf(t)) /\ IsBound(WeekOf(n))
  BY ConstantsTyped, WeekStarts DEF WeekOf
<1>3. \A w \in Weeks : w \in Nat /\ IsBound(w)
  BY WeekIsBound
<1>4. \A w \in Weeks : part[w] = IF Out(w) THEN 0 ELSE IF n = t THEN amount
                                 ELSE (amount * len[w]) \div (n - t)
  BY DEF Spread
<1>5. ASSUME NEW w \in Weeks
      PROVE  /\ len[w] \in Nat /\ at[w] \in Nat /\ at[w] = Most(w, t)
             /\ len[w] > 0 => /\ len[w] = Least(w + WEEK, n) - at[w]
                              /\ t <= at[w] /\ at[w] + len[w] <= n
  <2>1. w \in Nat
    BY <1>3
  <2> QED
    BY <1>2, <2>1 DEF Least, Most
<1>6. ASSUME NEW v \in Weeks, NEW w \in Weeks, v # w, len[v] > 0, len[w] > 0
      PROVE  at[v] + len[v] <= at[w] \/ at[w] + len[w] <= at[v]
  <2>1. v \in Nat /\ w \in Nat /\ (v + WEEK <= w \/ w + WEEK <= v)
    BY <1>3, <1>6, BoundsApart
  <2>2. /\ len[v] = Least(v + WEEK, n) - Most(v, t) /\ at[v] = Most(v, t)
        /\ len[w] = Least(w + WEEK, n) - Most(w, t) /\ at[w] = Most(w, t)
    BY <1>5, <1>6
  <2>3. /\ at[v] + len[v] <= v + WEEK /\ at[w] + len[w] <= w + WEEK
        /\ v <= at[v] /\ w <= at[w] /\ at[v] \in Nat /\ at[w] \in Nat
        /\ len[v] \in Nat /\ len[w] \in Nat
    <3> HIDE DEF len, at
    <3> QED
      BY <1>2, <1>5, <2>1, <2>2 DEF Least, Most
  <2> HIDE DEF len, at
  <2> QED
    BY <1>2, <2>1, <2>3
<1>7. len \in [Weeks -> Nat] /\ at \in [Weeks -> Nat]
  BY <1>5
<1> HIDE DEF len, at, t, n, part
<1>8. Total(len) <= n - t /\ Total(len) \in Nat
  <2>1. Total(len) <= n - t
    BY <1>2, <1>5, <1>6, <1>7, SpansBelow
  <2> QED
    BY <1>1, <1>7, <2>1, TotalNat
<1>9. ASSUME n = t PROVE Total(part) <= amount
  <2>1. \A w \in Weeks : part[w] # 0 => w = WeekOf(t)
    <3> SUFFICES ASSUME NEW w \in Weeks, part[w] # 0 PROVE w = WeekOf(t)
      OBVIOUS
    <3>1. w \in Nat /\ ~Out(w)
      BY <1>3, <1>4
    <3> QED
      BY <1>2, <1>9, <3>1
  <2>2. ASSUME NEW w \in Weeks, w = WeekOf(t), part[w] # 0 PROVE Total(part) <= amount
    <3>1. PICK one : one = [x \in {w} |-> part[w]]
      OBVIOUS
    <3>2. one \in [{w} -> Nat] /\ DOMAIN one = {w} /\ one[w] = part[w] /\ part[w] \in Nat
      BY <1>1, <3>1
    <3>3. \A x \in Weeks : part[x] = IF x \in {w} THEN one[x] ELSE 0
      BY <2>1, <2>2, <3>1
    <3>4. {w} \subseteq Weeks
      OBVIOUS
    <3>5. Total(part) = Total(one)
      BY ONLY <1>1, <3>2, <3>3, <3>4, TotalExtend
    <3>6. Total(one) = part[w]
      BY <3>2, TotalSingle
    <3>7. part[w] = amount
      BY <1>4, <1>9, <2>2
    <3> QED
      BY <3>5, <3>6, <3>7
  <2>3. CASE \A w \in Weeks : part[w] = 0
    <3>1. Total(part) = 0
      BY <1>1, <2>3, TotalZero
    <3> QED
      BY <3>1
  <2> QED
    BY <2>1, <2>2, <2>3
<1>10. ASSUME n # t PROVE Total(part) <= amount
  <2>1. PICK d \in Nat : d = n - t /\ d > 0
    <3>1. n - t \in Nat /\ n - t > 0
      BY <1>2, <1>10
    <3> QED
      BY <3>1
  <2>2. ASSUME NEW w \in Weeks
        PROVE  part[w] \in Nat /\ len[w] \in Nat /\ part[w] * d <= len[w] * amount
    <3>1. part[w] \in Nat /\ len[w] \in Nat
      BY <1>1, <1>7
    <3>2. CASE Out(w)
      <4>1. part[w] = 0
        BY <1>4, <3>2
      <4>2. 0 * d = 0 /\ len[w] * amount \in Nat
        BY <3>1
      <4> QED
        BY <3>1, <4>1, <4>2
    <3>3. CASE ~Out(w)
      <4>1. part[w] = (amount * len[w]) \div d
        BY <1>4, <1>10, <2>1, <3>3
      <4>2. PICK m \in Nat : m = amount * len[w]
        BY <3>1
      <4>3. m = d * (m \div d) + (m % d) /\ (m % d) \in Nat /\ m \div d \in Nat
        BY <2>1
      <4>4. d * (m \div d) <= m /\ d * (m \div d) = (m \div d) * d
        <5>1. PICK q \in Nat, r \in Nat : q = m \div d /\ r = m % d
          BY <4>3
        <5>2. m = d * q + r /\ d * q \in Nat /\ d * q = q * d
          BY <4>3, <5>1
        <5> QED
          BY <5>1, <5>2
      <4>5. amount * len[w] = len[w] * amount
        BY <3>1
      <4> QED
        BY <3>1, <4>1, <4>2, <4>4, <4>5
    <3> QED
      BY <3>1, <3>2, <3>3
  <2>3. CASE Total(len) = 0
    <3>1. \A w \in Weeks : len[w] = 0
      BY <1>1, <1>7, <2>3, TotalZero
    <3>2. ASSUME NEW w \in Weeks PROVE part[w] = 0
      <4>1. 0 * amount = 0 /\ part[w] \in Nat /\ part[w] * d <= 0
        BY <2>2, <3>1
      <4>2. part[w] > 0 => part[w] * d > 0
        BY <2>1, <4>1
      <4> QED
        BY <4>1, <4>2
    <3>3. Total(part) = 0
      BY <1>1, <3>2, TotalZero
    <3> QED
      BY <3>3
  <2>4. CASE Total(len) # 0
    <3>1. PICK e \in Nat : e = Total(len) /\ e <= d
      BY <1>8, <2>1
    <3>2. ASSUME NEW w \in Weeks PROVE part[w] * Total(len) <= len[w] * amount
      <4>1. PICK p \in Nat : p = part[w]
        BY <2>2
      <4>2. PICK k \in Nat : d = e + k
        <5>1. d - e \in Nat /\ d = e + (d - e)
          BY <2>1, <3>1
        <5> QED
          BY <5>1
      <4>3. p * d = p * e + p * k /\ p * e \in Nat /\ p * k \in Nat
        BY <4>2
      <4>4. p * d <= len[w] * amount /\ len[w] * amount \in Nat
        BY <2>2, <4>1
      <4>5. p * e <= len[w] * amount
        BY <4>3, <4>4
      <4> QED
        BY <3>1, <4>1, <4>5
    <3> QED
      BY <1>1, <1>7, <2>4, <3>2, PartsBelowWhole
  <2> QED
    BY <2>3, <2>4
<1> QED
  BY <1>1, <1>9, <1>10 DEF part

(* A token checkpoint records no more than has arrived.                    *)
LEMMA TokensAdded ==
    ASSUME LocksTyped, DistTyped, NEW balance \in Nat, CheckpointToken(balance)
    PROVE  /\ Total(tokens_per_week) \in Nat /\ Total(tokens_per_week') \in Nat
           /\ balance >= token_last_balance
           /\ Total(tokens_per_week') <=
                 Total(tokens_per_week) + (balance - token_last_balance)
<1>1. /\ now \in Nat /\ last_token_time \in Nat /\ last_token_time <= now
      /\ token_last_balance \in Nat /\ balance >= token_last_balance
      /\ tokens_per_week \in [Weeks -> Nat] /\ IsFiniteSet(Weeks)
  BY ConstantsTyped, WeeksFinite DEF LocksTyped, DistTyped, CheckpointToken
<1>2. PICK amount \in Nat : amount = balance - token_last_balance
  BY <1>1
<1>3. PICK part : part = [w \in Weeks |-> Spread(amount, w)]
  OBVIOUS
<1>4. part \in [Weeks -> Nat] /\ Total(part) <= amount
  BY <1>1, <1>3, SpreadBelow
<1>5. /\ tokens_per_week' = [w \in Weeks |-> tokens_per_week[w] + Spread(amount, w)]
  BY <1>2 DEF CheckpointToken
<1>6. PICK old, new : old = tokens_per_week /\ new = tokens_per_week'
  OBVIOUS
<1>7. /\ old \in [Weeks -> Nat] /\ new \in [Weeks -> Nat]
      /\ \A w \in Weeks : new[w] = old[w] + part[w]
  BY <1>1, <1>3, <1>4, <1>5, <1>6
<1>8. Total(new) = Total(old) + Total(part)
  BY ONLY <1>1, <1>4, <1>7, TotalPlus
<1>9. Total(new) \in Nat /\ Total(old) \in Nat /\ Total(part) \in Nat
  BY <1>1, <1>4, <1>7, TotalNat
<1> QED
  BY <1>1, <1>2, <1>4, <1>6, <1>8, <1>9

(* What claims add to the payments.                                        *)
LEMMA PaymentsAdded ==
    ASSUME NEW S \in SUBSET Users, NEW old \in [Users -> Nat], NEW new,
           NEW amount \in [S -> Nat],
           new = [user \in Users |-> IF user \in S THEN old[user] + amount[user] ELSE old[user]]
    PROVE  /\ new \in [Users -> Nat] /\ Total(new) = Total(old) + Total(amount)
           /\ Total(new) \in Nat /\ Total(old) \in Nat /\ Total(amount) \in Nat
<1>1. IsFiniteSet(Users) /\ IsFiniteSet(S)
  BY ConstantsTyped, FS_Subset
<1>2. PICK all : all = [user \in Users |-> IF user \in S THEN amount[user] ELSE 0]
  OBVIOUS
<1>3. /\ all \in [Users -> Nat] /\ new \in [Users -> Nat]
      /\ \A user \in Users : new[user] = old[user] + all[user]
  BY <1>2
<1>4. Total(all) = Total(amount)
  BY <1>2, <1>3, TotalExtend
<1>5. Total(new) = Total(old) + Total(all)
  BY <1>1, <1>3, TotalPlus
<1> QED
  BY <1>1, <1>3, <1>4, <1>5, TotalNat

(* No more tokens are recorded for weeks than are accounted for or paid;   *)
(* until the contract is killed, these are there.                          *)
CoveredInv ==
    /\ paid \in [Users -> Nat]
    /\ Total(tokens_per_week) <= token_last_balance + Total(paid)
    /\ ~is_killed => token_last_balance <= token_balance

(* Every step keeps them covered.                                          *)
LEMMA CoveredStep ==
    ASSUME DistInv, DistInv', CoveredInv, [Next]_vars
    PROVE  CoveredInv'
<1>1. /\ EscrowInv /\ LocksTyped /\ PointsTyped /\ DistTyped
      /\ EscrowInv' /\ PointsTyped' /\ DistTyped'
      /\ token_balance \in Nat /\ token_last_balance \in Nat
      /\ token_balance' \in Nat /\ token_last_balance' \in Nat
      /\ paid \in [Users -> Nat] /\ Total(paid) \in Nat /\ Total(tokens_per_week) \in Nat
      /\ \A amount \in Fees : amount \in Nat
  BY ConstantsTyped, WeeksFinite, TotalNat, DistributorAssumption
     DEF DistInv, EscrowInv, DistTyped, CoveredInv
<1>2. ASSUME UNCHANGED <<tokens_per_week, token_last_balance, paid>>,
             ~is_killed' => ~is_killed /\ token_balance <= token_balance'
      PROVE  CoveredInv'
  BY <1>1, <1>2 DEF CoveredInv
<1>3. ASSUME NEW balance \in Nat, CheckpointToken(balance), token_last_balance' = balance,
             token_balance' = balance, paid' = paid
      PROVE  CoveredInv'
  <2>1. /\ balance >= token_last_balance
        /\ Total(tokens_per_week') <= Total(tokens_per_week) + (balance - token_last_balance)
        /\ Total(tokens_per_week') \in Nat
    BY <1>1, <1>3, TokensAdded
  <2> QED
    BY <1>1, <1>3, <2>1 DEF CoveredInv
<1>4. CASE UNCHANGED dvars
  BY <1>1, <1>2, <1>4 DEF dvars, tokens, claims, control
<1>5. ASSUME NEW sender \in Admins, checkpoint_token(sender) PROVE CoveredInv'
  BY <1>1, <1>3, <1>5 DEF checkpoint_token, claims
<1>6. CASE checkpoint_total_supply
  BY <1>1, <1>2, <1>6 DEF checkpoint_total_supply, tokens, claims, control
<1>7. ASSUME NEW amount \in Fees, Receive(amount) PROVE CoveredInv'
  BY <1>1, <1>2, <1>7 DEF Receive, tokens, claims, control
<1>8. ASSUME NEW amount \in Fees, burn(amount) PROVE CoveredInv'
  <2>1. token_balance + amount \in Nat /\ token_balance' = token_balance + amount
        /\ token_balance <= token_balance + amount
    BY <1>1, <1>8 DEF burn
  <2>2. CASE MayCheckpointToken
    BY <1>3, <1>8, <2>1, <2>2 DEF burn, claims
  <2>3. CASE ~MayCheckpointToken
    BY <1>2, <1>8, <2>1, <2>3 DEF burn, tokens, claims, control
  <2> QED
    BY <2>2, <2>3
<1>9. ASSUME NEW S \in SUBSET Users, claim_many(S) PROVE CoveredInv'
  <2> DEFINE c == [user \in S |-> _claim(user, WeekOf(last_token_time'), tokens_per_week',
                                         ve_supply')]
             accounted == IF MayCheckpointToken THEN token_balance ELSE token_last_balance
  <2>1. PICK amount : amount = [user \in S |-> c[user].amount]
    OBVIOUS
  <2>2. /\ Total(amount) <= token_balance /\ Total(amount) <= accounted
        /\ token_last_balance' = accounted - Total(amount)
        /\ token_balance' = token_balance - Total(amount)
        /\ paid' = [user \in Users |->
                      IF user \in S THEN paid[user] + c[user].amount ELSE paid[user]]
        /\ ~is_killed /\ is_killed' = is_killed
    BY <1>9, <2>1 DEF claim_many, control, Open
  <2>3. amount \in [S -> Nat]
    <3>1. /\ WeekOf(last_token_time') \in Nat /\ WeekOf(last_token_time') <= Horizon
          /\ tokens_per_week' \in [Weeks -> Nat] /\ ve_supply' \in [Weeks -> Nat]
      <4>1. last_token_time' \in Nat /\ last_token_time' <= Horizon
        BY <1>1 DEF DistTyped
      <4>2. WeekOf(last_token_time') \in Nat /\ WeekOf(last_token_time') <= last_token_time'
        BY <4>1, WeekStarts DEF WeekOf
      <4> QED
        BY <1>1, <4>1, <4>2, ConstantsTyped DEF DistTyped, Weeks, Escrow!Weeks
    <3>2. ASSUME NEW user \in S PROVE c[user].amount \in Nat
      <4>1. user \in Users
        OBVIOUS
      <4> QED
        BY <1>1, <3>1, <4>1, ClaimTyped
    <3> QED
      BY <2>1, <3>2
  <2>4. paid' = [user \in Users |->
                   IF user \in S THEN paid[user] + amount[user] ELSE paid[user]]
    BY <2>1, <2>2
  <2>5. /\ paid' \in [Users -> Nat] /\ Total(paid') = Total(paid) + Total(amount)
        /\ Total(amount) \in Nat /\ Total(paid') \in Nat
    BY <1>1, <2>3, <2>4, PaymentsAdded
  <2>6. Total(tokens_per_week') \in Nat
        /\ Total(tokens_per_week') <= Total(tokens_per_week) + (accounted - token_last_balance)
    <3>1. CASE MayCheckpointToken
      <4>1. CheckpointToken(token_balance)
        BY <1>9, <3>1 DEF claim_many
      <4> QED
        BY <1>1, <3>1, <4>1, TokensAdded
    <3>2. CASE ~MayCheckpointToken
      <4>1. tokens_per_week' = tokens_per_week
        BY <1>9, <3>2 DEF claim_many
      <4> QED
        BY <1>1, <3>2, <4>1
    <3> QED
      BY <3>1, <3>2
  <2>7. accounted \in Nat /\ accounted <= token_balance
    BY <1>1, <2>2 DEF CoveredInv
  <2> HIDE DEF accounted
  <2>8. Total(tokens_per_week') <= token_last_balance' + Total(paid')
    BY <1>1, <2>2, <2>5, <2>6, <2>7 DEF CoveredInv
  <2>9. token_last_balance' <= token_balance'
    BY <1>1, <2>2, <2>5, <2>7
  <2> QED
    BY <2>5, <2>8, <2>9 DEF CoveredInv
<1>10. CASE Distributing
  <2>1. ASSUME NEW user \in Users, claim(user) PROVE CoveredInv'
    BY <1>9, <2>1 DEF claim
  <2> QED
    BY <1>5, <1>6, <1>7, <1>8, <1>9, <1>10, <2>1 DEF Distributing
<1>11. CASE Owning
  BY <1>1, <1>2, <1>11 DEF Owning, toggle_allow_checkpoint_token, kill_me, apply_admin,
                           commit_admin, tokens, claims
<1>12. CASE UNCHANGED vars
  BY <1>4, <1>12 DEF vars
<1> QED
  BY <1>4, <1>10, <1>11, <1>12 DEF Next, Locking, Tick

-----------------------------------------------------------------------------
(* The shares of all users, summed by users, are covered by what is there  *)
(* for the weeks when those of each week are covered by that week's.       *)
LEMMA RowsBelow ==
    ASSUME NEW share \in [Users -> [Weeks -> Nat]], NEW week \in [Weeks -> Nat],
           NEW a \in Nat, IsBound(a), NEW c \in Nat, IsBound(c),
           \A w \in WeeksFrom(a, c) : Total([user \in Users |-> share[user][w]]) <= week[w]
    PROVE  Total([user \in Users |-> Total([w \in WeeksFrom(a, c) |-> share[user][w]])]) <=
              Total([w \in WeeksFrom(a, c) |-> week[w]])
<1> DEFINE Row(user, b) == Total([w \in WeeksFrom(a, b) |-> share[user][w]])
           Rows(b) == Total([user \in Users |-> Row(user, b)])
           Sum(b) == Total([w \in WeeksFrom(a, b) |-> week[w]])
           Bad == {b \in Nat : IsBound(b) /\ b <= c /\ ~(Rows(b) <= Sum(b))}
<1>1. /\ IsFiniteSet(Users) /\ WEEK \in Nat /\ WEEK > 0 /\ Horizon \in Nat
      /\ \A w \in Weeks : w \in Nat /\ IsBound(w) /\ w <= Horizon
      /\ \A b : IsFiniteSet(WeeksFrom(a, b)) /\ WeeksFrom(a, b) \subseteq Weeks
  BY ConstantsTyped, WeekIsBound, WeeksFinite DEF WeeksFrom
<1>2. ASSUME NEW f \in [Weeks -> Nat], NEW b
      PROVE  /\ [w \in WeeksFrom(a, b) |-> f[w]] \in [WeeksFrom(a, b) -> Nat]
             /\ Total([w \in WeeksFrom(a, b) |-> f[w]]) \in Nat
  <2>1. PICK g : g = [w \in WeeksFrom(a, b) |-> f[w]]
    OBVIOUS
  <2>2. g \in [WeeksFrom(a, b) -> Nat]
    BY <1>1, <2>1
  <2>3. Total(g) \in Nat
    BY <1>1, <2>2, TotalNat
  <2> QED
    BY <2>1, <2>2, <2>3
<1>3. ASSUME NEW b
      PROVE  /\ \A user \in Users : Row(user, b) \in Nat
             /\ Rows(b) \in Nat /\ Sum(b) \in Nat
  <2>1. \A user \in Users : Row(user, b) \in Nat
    BY <1>2
  <2>2. Sum(b) \in Nat
    BY <1>2
  <2> HIDE DEF Row, Sum
  <2>3. PICK g : g = [user \in Users |-> Row(user, b)]
    OBVIOUS
  <2>4. g \in [Users -> Nat]
    BY <2>1, <2>3
  <2>5. Total(g) \in Nat
    BY <1>1, <2>4, TotalNat
  <2> QED
    BY <2>1, <2>2, <2>3, <2>5
<1>4. ASSUME NEW b, WeeksFrom(a, b) = {} PROVE Rows(b) <= Sum(b)
  <2>1. ASSUME NEW user \in Users PROVE Row(user, b) = 0
    <3>1. PICK g : g = [w \in WeeksFrom(a, b) |-> share[user][w]]
      OBVIOUS
    <3>2. g \in [{} -> Nat] /\ IsFiniteSet({})
      BY <1>4, <3>1, FS_EmptySet
    <3>3. Total(g) = 0
      BY <3>2, TotalZero
    <3> QED
      BY <3>1, <3>3
  <2>2. Rows(b) = 0
    <3> HIDE DEF Row
    <3>1. PICK g : g = [user \in Users |-> Row(user, b)]
      OBVIOUS
    <3>2. g \in [Users -> Nat] /\ \A user \in Users : g[user] = 0
      BY <2>1, <3>1
    <3>3. Total(g) = 0
      BY <1>1, <3>2, TotalZero
    <3> QED
      BY <3>1, <3>3
  <2> HIDE DEF Rows, Sum
  <2> QED
    BY <1>3, <2>2
<1>5. ASSUME NEW v \in Weeks, a <= v, v + WEEK <= c, Rows(v) <= Sum(v)
      PROVE  Rows(v + WEEK) <= Sum(v + WEEK)
  <2>0. v \in Nat /\ v \in WeeksFrom(a, c)
    BY <1>1, <1>5 DEF WeeksFrom
  <2>1. Sum(v + WEEK) = Sum(v) + week[v]
    BY <1>5, MoreWeeks
  <2>2. \A user \in Users : Row(user, v + WEEK) = Row(user, v) + share[user][v]
    BY <1>5, MoreWeeks
  <2>3. PICK f, g, h : /\ f = [user \in Users |-> Row(user, v)]
                       /\ g = [user \in Users |-> share[user][v]]
                       /\ h = [user \in Users |-> Row(user, v + WEEK)]
    OBVIOUS
  <2>4. \A user \in Users : Row(user, v) \in Nat /\ Row(user, v + WEEK) \in Nat
    BY <1>3
  <2>5. Rows(v) = Total(f) /\ Rows(v + WEEK) = Total(h) /\ Total(g) <= week[v]
    BY <2>0, <2>3
  <2> HIDE DEF Row, Rows, Sum
  <2>6. /\ f \in [Users -> Nat] /\ g \in [Users -> Nat] /\ h \in [Users -> Nat]
        /\ \A user \in Users : h[user] = f[user] + g[user]
    BY <2>2, <2>3, <2>4
  <2>7. Total(h) = Total(f) + Total(g) /\ Total(g) \in Nat
    <3>1. IsFiniteSet(Users)
      BY <1>1
    <3>2. Total(h) = Total(f) + Total(g)
      BY ONLY <2>6, <3>1, TotalPlus
    <3> QED
      BY ONLY <2>6, <3>1, <3>2, TotalNat
  <2>8. week[v] \in Nat
    OBVIOUS
  <2> QED
    BY <1>3, <1>5, <2>1, <2>5, <2>7, <2>8
<1>6. Bad = {}
  <2> SUFFICES ASSUME Bad # {} PROVE FALSE
    OBVIOUS
  <2>1. Bad \subseteq Nat
    OBVIOUS
  <2>2. PICK b \in Bad : \A k \in Bad : b <= k
    <3> HIDE DEF Bad
    <3> QED
      BY <2>1, Smallest
  <2>3. b \in Nat /\ IsBound(b) /\ b <= c /\ ~(Rows(b) <= Sum(b))
    OBVIOUS
  <2>4. a < b
    <3> SUFFICES ASSUME b <= a PROVE FALSE
      BY <2>3
    <3>1. WeeksFrom(a, b) = {}
      BY <1>1, <2>3 DEF WeeksFrom
    <3> HIDE DEF Rows, Sum
    <3> QED
      BY <1>4, <2>3, <3>1
  <2>5. PICK v \in Nat : b = v + WEEK /\ IsBound(v) /\ a <= v
    <3>1. PICK j \in Nat, k \in Nat : a = j * WEEK /\ b = k * WEEK
      BY <2>3 DEF IsBound
    <3>2. a + WEEK <= b
      BY <2>3, <2>4, BoundsApart
    <3>3. k # 0
      BY <1>1, <2>4, <3>1
    <3>4. k - 1 \in Nat /\ (k - 1) * WEEK = k * WEEK - WEEK /\ (k - 1) * WEEK \in Nat
      BY <1>1, <3>1, <3>3
    <3>5. b - WEEK \in Nat /\ b - WEEK = (k - 1) * WEEK
      BY <1>1, <2>3, <3>1, <3>4
    <3>6. IsBound(b - WEEK)
      BY <3>4, <3>5 DEF IsBound
    <3> QED
      BY <1>1, <2>3, <3>2, <3>5, <3>6
  <2>6. Rows(v) <= Sum(v)
    <3>1. v < b /\ v <= c /\ v \notin Bad
      <4> HIDE DEF Bad
      <4> QED
        BY <1>1, <2>2, <2>3, <2>5
    <3> QED
      BY <2>5, <3>1
  <2>7. CASE v <= Horizon
    <3>1. v \in Weeks
      BY <2>5, <2>7, BoundIsWeek DEF Weeks
    <3> HIDE DEF Rows, Sum
    <3> QED
      BY <1>5, <2>3, <2>5, <2>6, <3>1
  <2>8. CASE ~(v <= Horizon)
    <3>1. WeeksFrom(a, b) = WeeksFrom(a, v)
      <4>1. ASSUME NEW w \in Weeks PROVE w < b <=> w < v
        BY <1>1, <2>5, <2>8
      <4> QED
        BY <4>1 DEF WeeksFrom
    <3> QED
      BY <2>3, <2>6, <3>1
  <2> QED
    BY <2>7, <2>8
<1>7. Rows(c) <= Sum(c)
  BY <1>6
<1> QED
  BY <1>7

(* A quotient times its divisor is no more than what was divided.          *)
LEMMA QuotientBelow ==
    ASSUME NEW m \in Nat, NEW d \in Nat, d > 0
    PROVE  m \div d \in Nat /\ (m \div d) * d <= m
<1>1. m = d * (m \div d) + (m % d) /\ (m % d) \in Nat /\ m \div d \in Nat
  OBVIOUS
<1>2. PICK q \in Nat, r \in Nat : q = m \div d /\ r = m % d
  BY <1>1
<1>3. m = d * q + r /\ d * q \in Nat /\ d * q = q * d
  BY <1>1, <1>2
<1> QED
  BY <1>2, <1>3

(* The users' shares of a week add up to no more than its tokens.          *)
LEMMA WeekCovered ==
    ASSUME EscrowInv, PointsTyped, DistTyped, VeSupplyIsTotal,
           NEW w \in WeeksFrom(start_time, time_cursor)
    PROVE  Total([user \in Users |-> Share(user, w, tokens_per_week, ve_supply)]) <=
              tokens_per_week[w]
<1>1. /\ w \in Weeks /\ w \in Nat /\ start_time <= w /\ w < time_cursor
      /\ tokens_per_week \in [Weeks -> Nat] /\ ve_supply \in [Weeks -> Nat]
      /\ tokens_per_week[w] \in Nat /\ ve_supply[w] \in Nat /\ IsFiniteSet(Users)
  BY WeekIsBound, ConstantsTyped DEF WeeksFrom, DistTyped
<1>2. PICK power, part : /\ power = [user \in Users |-> Escrow!UserPowerAt(user, w)]
                         /\ part = [user \in Users |->
                                      Share(user, w, tokens_per_week, ve_supply)]
  OBVIOUS
<1>3. PICK s \in Nat, t \in Nat : s = ve_supply[w] /\ t = tokens_per_week[w]
  BY <1>1
<1>4. power \in [Users -> Nat] /\ part \in [Users -> Nat]
  BY <1>1, <1>2, PowerNat, SharesTyped
<1>5. Total(power) = s
  BY <1>1, <1>2, <1>3 DEF VeSupplyIsTotal
<1>6. \A user \in Users : part[user] = IF s = 0 THEN 0 ELSE (power[user] * t) \div s
  BY <1>2, <1>3 DEF Share, FeeShare
<1>7. CASE s = 0
  <2>1. Total(part) = 0
    BY <1>1, <1>4, <1>6, <1>7, TotalZero
  <2> QED
    BY <1>2, <1>3, <2>1
<1>8. CASE s # 0
  <2>1. ASSUME NEW user \in Users PROVE part[user] * Total(power) <= power[user] * t
    <3>1. power[user] * t \in Nat /\ s > 0
      BY <1>4, <1>8
    <3> QED
      BY <1>5, <1>6, <1>8, <3>1, QuotientBelow
  <2>2. Total(part) <= t
    BY <1>1, <1>4, <1>5, <1>8, <2>1, PartsBelowWhole
  <2> QED
    BY <1>2, <1>3, <2>2
<1> QED
  BY <1>7, <1>8

(* What a user was paid and what is due to it are shares of weeks that     *)
(* have a supply.                                                          *)
LEMMA UserCovered ==
    ASSUME PayInv, NEW user \in Users
    PROVE  /\ paid[user] \in Nat /\ StillDue(user) \in Nat
           /\ paid[user] + StillDue(user) <=
                 ShareSum(user, start_time, time_cursor, tokens_per_week, ve_supply)
<1>1. /\ EscrowInv /\ PointsTyped /\ DistTyped /\ CursorsInv
      /\ start_time \in Nat /\ time_cursor \in Nat /\ time_cursor_of[user] \in Nat
      /\ tokens_per_week \in [Weeks -> Nat] /\ ve_supply \in [Weeks -> Nat]
      /\ WeekOf(last_token_time) \in Nat
  BY WeekStarts DEF PayInv, DistInv, DistTyped, WeekOf
<1>2. \A w \in Weeks : w \in Nat /\ Share(user, w, tokens_per_week, ve_supply) \in Nat
  BY <1>1, WeekIsBound, SharesTyped
<1>3. PICK share : share = [w \in Weeks |-> Share(user, w, tokens_per_week, ve_supply)]
  OBVIOUS
<1>4. PICK A, B, R : /\ A = WeeksFrom(start_time, time_cursor_of[user])
                     /\ B = Unclaimed(user)
                     /\ R = WeeksFrom(start_time, time_cursor)
  OBVIOUS
<1>5. PICK U, T : U = A \cup B /\ T = U \cap R
  OBVIOUS
<1>6. /\ A \subseteq Weeks /\ B \subseteq Weeks /\ R \subseteq Weeks
      /\ U \subseteq Weeks /\ T \subseteq U /\ T \subseteq R
  BY <1>4, <1>5 DEF WeeksFrom, Unclaimed
<1>7. IsFiniteSet(A) /\ IsFiniteSet(B) /\ IsFiniteSet(R) /\ IsFiniteSet(U)
  BY <1>6, WeeksFinite, FS_Subset
<1>8. PICK f, h, g, r, k : /\ f = [w \in A |-> share[w]] /\ h = [w \in B |-> share[w]]
                           /\ g = [w \in U |-> share[w]] /\ r = [w \in R |-> share[w]]
                           /\ k = [w \in T |-> r[w]]
  OBVIOUS
<1>9. /\ paid[user] = Total(f) /\ StillDue(user) = Total(h)
      /\ ShareSum(user, start_time, time_cursor, tokens_per_week, ve_supply) = Total(r)
  <2>1. f = [w \in A |-> Share(user, w, tokens_per_week, ve_supply)]
    BY <1>3, <1>6, <1>8
  <2>2. r = [w \in R |-> Share(user, w, tokens_per_week, ve_supply)]
    BY <1>3, <1>6, <1>8
  <2>3. h = [w \in Unclaimed(user) |-> Entitled(user, w)]
    BY <1>3, <1>4, <1>6, <1>8 DEF Entitled, Share
  <2> QED
    BY <1>4, <2>1, <2>2, <2>3 DEF StillDue, PayInv, PaidInv, ShareSum
<1>10. share \in [Weeks -> Nat]
  BY <1>2, <1>3
<1>11. /\ f \in [A -> Nat] /\ h \in [B -> Nat] /\ g \in [U -> Nat] /\ r \in [R -> Nat]
       /\ k \in [T -> Nat]
  BY <1>6, <1>8, <1>10
<1>12. Total(g) = Total(f) + Total(h)
  <2>1. \A w \in A : w \notin B
    BY <1>1, <1>2, <1>4, <1>6 DEF WeeksFrom, Unclaimed
  <2>2. (\A w \in A : g[w] = f[w]) /\ (\A w \in B : g[w] = h[w])
    BY <1>5, <1>8
  <2> QED
    <3>1. /\ IsFiniteSet(A) /\ IsFiniteSet(B) /\ U = A \cup B
          /\ f \in [A -> Nat] /\ h \in [B -> Nat] /\ g \in [U -> Nat]
      BY <1>5, <1>7, <1>11
    <3> QED
      BY ONLY <2>1, <2>2, <3>1, TotalSplit
<1>13. Total(g) = Total(k)
  <2>1. ASSUME NEW w \in U, w \notin R PROVE g[w] = 0
    <3>1. w \in Weeks /\ w \in Nat
      BY <1>2, <1>6
    <3>2. start_time <= w
      BY <1>4, <1>5 DEF WeeksFrom, Unclaimed
    <3>3. time_cursor <= w
      BY <1>1, <1>4, <2>1, <3>1, <3>2 DEF WeeksFrom
    <3>4. ve_supply[w] = 0
      BY <1>1, <3>1, <3>3 DEF CursorsInv
    <3>5. share[w] = 0
      BY <1>3, <3>1, <3>4 DEF Share
    <3> QED
      BY <1>8, <3>5
  <2>2. \A w \in U : g[w] = IF w \in T THEN k[w] ELSE 0
    BY <1>5, <1>8, <2>1
  <2> QED
    <3>1. T \subseteq U /\ k \in [T -> Nat] /\ g \in [U -> Nat]
      BY <1>6, <1>11
    <3> QED
      BY ONLY <2>2, <3>1, TotalExtend
<1>14. Total(k) <= Total(r)
  BY <1>6, <1>7, <1>8, <1>11, TotalPart
<1>15. Total(f) \in Nat /\ Total(h) \in Nat /\ Total(r) \in Nat
  BY ONLY <1>7, <1>11, TotalNat
<1> QED
  BY <1>9, <1>12, <1>13, <1>14, <1>15

(* So what all users may still claim is covered by what is accounted for.  *)
LEMMA DueCovered ==
    ASSUME PayInv, CoveredInv, VeSupplyIsTotal
    PROVE  Solvent
<1>1. /\ EscrowInv /\ PointsTyped /\ DistTyped
      /\ start_time \in Nat /\ IsBound(start_time) /\ time_cursor \in Nat /\ IsBound(time_cursor)
      /\ tokens_per_week \in [Weeks -> Nat] /\ ve_supply \in [Weeks -> Nat]
      /\ token_last_balance \in Nat /\ IsFiniteSet(Users) /\ IsFiniteSet(Weeks)
      /\ paid \in [Users -> Nat]
  BY ConstantsTyped, WeeksFinite DEF PayInv, DistInv, DistTyped, CoveredInv
<1>2. PICK share : share = [user \in Users |-> [w \in Weeks |->
                              Share(user, w, tokens_per_week, ve_supply)]]
  OBVIOUS
<1>3. share \in [Users -> [Weeks -> Nat]]
  <2>1. \A user \in Users : [w \in Weeks |-> Share(user, w, tokens_per_week, ve_supply)]
                               \in [Weeks -> Nat]
    BY <1>1, SharesTyped
  <2> QED
    BY <1>2, <2>1
<1>4. PICK R : R = WeeksFrom(start_time, time_cursor)
  OBVIOUS
<1>5. R \subseteq Weeks
  BY <1>4 DEF WeeksFrom
<1>6. PICK due, sum, both : /\ due = [user \in Users |-> StillDue(user)]
                            /\ sum = [user \in Users |-> Total([w \in R |-> share[user][w]])]
                            /\ both = [user \in Users |-> paid[user] + due[user]]
  OBVIOUS
<1>7. ASSUME NEW user \in Users
      PROVE  sum[user] = ShareSum(user, start_time, time_cursor, tokens_per_week, ve_supply)
  <2>1. [w \in R |-> share[user][w]] = [w \in R |-> Share(user, w, tokens_per_week, ve_supply)]
    BY <1>2, <1>5
  <2> QED
    BY <1>4, <1>6, <2>1 DEF ShareSum
<1>8. /\ due \in [Users -> Nat] /\ sum \in [Users -> Nat] /\ both \in [Users -> Nat]
      /\ \A user \in Users : both[user] = paid[user] + due[user] /\ both[user] <= sum[user]
  <2>1. ASSUME NEW user \in Users
        PROVE  /\ due[user] \in Nat /\ sum[user] \in Nat /\ paid[user] \in Nat
               /\ paid[user] + due[user] <= sum[user]
    <3>1. /\ paid[user] \in Nat /\ StillDue(user) \in Nat
          /\ paid[user] + StillDue(user) <=
                ShareSum(user, start_time, time_cursor, tokens_per_week, ve_supply)
      BY UserCovered
    <3>2. ShareSum(user, start_time, time_cursor, tokens_per_week, ve_supply) \in Nat
      BY <1>1, SharesTyped
    <3>3. due[user] = StillDue(user)
      BY <1>6
    <3> QED
      BY <1>7, <3>1, <3>2, <3>3
  <2>2. \A user \in Users : both[user] = paid[user] + due[user]
    BY <1>6
  <2>3. ASSUME NEW user \in Users PROVE both[user] \in Nat
    BY <2>1, <2>2
  <2>4. due \in [Users -> Nat]
    BY <1>6, <2>1
  <2>5. sum \in [Users -> Nat]
    BY <1>6, <2>1
  <2>6. both \in [Users -> Nat]
    BY <1>6, <2>3
  <2> QED
    BY <2>1, <2>2, <2>4, <2>5, <2>6
<1>9. Total(both) = Total(paid) + Total(due)
  BY ONLY <1>1, <1>8, TotalPlus
<1>10. Total(both) <= Total(sum)
  BY <1>1, <1>8, TotalMonotone
<1>11. Total(sum) <= Total([w \in R |-> tokens_per_week[w]])
  <2>1. ASSUME NEW w \in R
        PROVE  Total([user \in Users |-> share[user][w]]) <= tokens_per_week[w]
    <3>1. [user \in Users |-> share[user][w]] =
          [user \in Users |-> Share(user, w, tokens_per_week, ve_supply)]
      BY <1>2, <1>5
    <3> QED
      BY <1>1, <1>4, <3>1, WeekCovered
  <2>2. \A w \in WeeksFrom(start_time, time_cursor) :
           Total([user \in Users |-> share[user][w]]) <= tokens_per_week[w]
    BY <1>4, <2>1
  <2>3. Total([user \in Users |-> Total([w \in WeeksFrom(start_time, time_cursor) |->
                                           share[user][w]])]) <=
        Total([w \in WeeksFrom(start_time, time_cursor) |-> tokens_per_week[w]])
    BY <1>1, <1>3, <2>2, RowsBelow
  <2> QED
    BY <1>4, <1>6, <2>3
<1>12. Total([w \in R |-> tokens_per_week[w]]) <= Total(tokens_per_week)
       /\ Total(tokens_per_week) \in Nat
  BY <1>1, <1>5, TotalPart, TotalNat
<1>13. PICK part : part = [w \in R |-> tokens_per_week[w]]
  OBVIOUS
<1>14. Total(part) \in Nat
  <2>1. part \in [R -> Nat] /\ IsFiniteSet(R)
    BY <1>1, <1>4, <1>5, <1>13, WeeksFinite
  <2> QED
    BY <2>1, TotalNat
<1>15. Total(paid) \in Nat /\ Total(due) \in Nat /\ Total(sum) \in Nat /\ Total(both) \in Nat
  BY ONLY <1>1, <1>8, TotalNat
<1>16. Total(tokens_per_week) <= token_last_balance + Total(paid)
  BY DEF CoveredInv
<1>17. Total(due) <= token_last_balance
  BY <1>1, <1>9, <1>10, <1>11, <1>12, <1>13, <1>14, <1>15, <1>16
<1> QED
  BY <1>6, <1>17 DEF Solvent, CoveredInv

(* Nothing has arrived at deployment.                                      *)
LEMMA CoveredInit == Init => CoveredInv
<1> SUFFICES ASSUME Init PROVE CoveredInv
  OBVIOUS
<1>1. /\ tokens_per_week = [w \in Weeks |-> 0] /\ paid = [user \in Users |-> 0]
      /\ token_last_balance = 0 /\ token_balance = 0
  BY DEF Init
<1>2. PICK f : f = [w \in Weeks |-> 0]
  OBVIOUS
<1>3. f \in [Weeks -> Nat] /\ (\A w \in Weeks : f[w] = 0) /\ IsFiniteSet(Weeks)
  BY <1>2, WeeksFinite
<1>4. Total(f) = 0
  BY ONLY <1>3, TotalZero
<1>5. paid \in [Users -> Nat] /\ IsFiniteSet(Users)
  BY <1>1, ConstantsTyped
<1>6. Total(paid) \in Nat
  BY <1>5, TotalNat
<1> QED
  BY <1>1, <1>2, <1>4, <1>5, <1>6 DEF CoveredInv

(* What all users may still claim is covered by the tokens accounted for,  *)
(* and these by the balance, until kill_me: _checkpoint_token              *)
(* (FeeDistributor.vy:119) rounds down, and so does a claim (:286).  The   *)
(* hypotheses are those of SuppliesAreTotals, by which the shares of a     *)
(* week are parts of one whole.                                            *)
THEOREM DistributorSolvent ==
    ASSUME \A a \in Amounts : a > 0, \A t \in BlockTimes : t % WEEK # 0
    PROVE  Spec /\ []Attended => []Solvent
<1>1. Init => CoveredInv
  BY CoveredInit
<1>2. DistInv /\ DistInv' /\ CoveredInv /\ [Next]_vars => CoveredInv'
  BY CoveredStep
<1>3. PayInv => DistInv
  BY DEF PayInv
<1>4. PayInv /\ CoveredInv /\ VeSupplyIsTotal => Solvent
  BY DueCovered
<1> QED
  BY <1>1, <1>2, <1>3, <1>4, PayInvHolds, SuppliesAreTotals, PTL DEF Spec
=============================================================================
