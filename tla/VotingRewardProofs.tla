-------------------------- MODULE VotingRewardProofs --------------------------
(***************************************************************************)
(* Four results about the reward contract, for any users, tokens, amounts  *)
(* and block times.                                                        *)
(*                                                                         *)
(* The binary search returns PriorIndex on every list, however long: the   *)
(* answer never leaves the range lower .. upper (Bracketed).               *)
(*                                                                         *)
(* The shares of every epoch add up to its supply.  SharesAddUp is not     *)
(* inductive: a checkpoint list is rewritten in place while its epoch      *)
(* runs, and an epoch without a call closes with what an older checkpoint  *)
(* says.  The argument is that the answer for an epoch is the running      *)
(* balance until the epoch is over and never changes from then on          *)
(* (WriteKeepsClosed), in the lists of the users and of the supply alike.  *)
(*                                                                         *)
(* The claims still open are covered.  Solvent looks one epoch ahead and   *)
(* is not inductive either; Covered is: what is due of the epochs that are *)
(* over, plus the running pot, is held.  When an epoch ends its pot turns  *)
(* into shares of one whole, rounded down (PartsBelowWhole).  EarnedIsDue  *)
(* takes the search out of earned.                                         *)
(*                                                                         *)
(* The contract implements RewardLedger: by the same facts what earned     *)
(* returns grows by the ledger's portion when an epoch ends, and by        *)
(* nothing else.                                                           *)
(***************************************************************************)
EXTENDS VotingReward, CheckpointSearch, UnitSumProofs, TLAPS

(* What the list says of the epoch that starts at e is v, and no search is *)
(* needed to see why: nothing was written before its end, or i is the last *)
(* checkpoint that was.                                                    *)
LastBefore(cps, e, i) ==
    /\ i \in 1 .. Len(cps)
    /\ cps[i].timestamp < e + WEEK
    /\ \A j \in i + 1 .. Len(cps) : e + WEEK <= cps[j].timestamp

NoneBefore(cps, e) == \A i \in 1 .. Len(cps) : e + WEEK <= cps[i].timestamp

Settled(cps, e) == NoneBefore(cps, e) \/ \E i \in 1 .. Len(cps) : LastBefore(cps, e, i)

StakeTypes ==
    /\ now \in Nat
    /\ totalSupply \in Nat /\ balanceOf \in [Users -> Nat]
    /\ checkpoints \in [Users -> Seq(Checkpoint)]
    /\ supplyCheckpoints \in Seq(Checkpoint)

(* A list that was written up to now and says what the balance is.         *)
UpToDate(cps, balance) ==
    /\ Increasing(cps)
    /\ \A i \in 1 .. Len(cps) : cps[i].timestamp <= now
    /\ \A e \in Epochs : Settled(cps, e)
    /\ \A e \in Epochs : now < e + WEEK => AtClose(cps, e) = balance

ClosedAddUp ==
    \A e \in Epochs : e + WEEK <= now =>
        AtClose(supplyCheckpoints, e) = Total([user \in Users |-> AtClose(checkpoints[user], e)])

Inv ==
    /\ StakeTypes
    /\ totalSupply = Total(balanceOf)
    /\ \A user \in Users : UpToDate(checkpoints[user], balanceOf[user])
    /\ UpToDate(supplyCheckpoints, totalSupply)
    /\ ClosedAddUp

(* ----------------------------- epochs ---------------------------------- *)

LEMMA EpochIsMultiple ==
    ASSUME NEW t \in Nat
    PROVE  /\ epochStart(t) \in Nat /\ epochStart(t) <= t /\ t < epochStart(t) + WEEK
           /\ epochStart(t) = WEEK * (t \div WEEK) /\ t \div WEEK \in Nat
<1>1. WEEK \in Nat /\ WEEK > 0
  BY TimeAssumption
<1>2. (t % WEEK) \in 0 .. WEEK - 1
  BY <1>1
<1>3. t \div WEEK \in Nat
  BY <1>1
<1>4. t = WEEK * (t \div WEEK) + (t % WEEK)
  BY <1>1
<1>5. WEEK * (t \div WEEK) \in Nat
  BY <1>1, <1>3
<1>6. epochStart(t) = WEEK * (t \div WEEK)
  BY <1>2, <1>4, <1>5 DEF epochStart
<1> QED
  BY <1>1, <1>2, <1>3, <1>4, <1>5, <1>6

(* Of two multiples of WEEK the larger is at least a WEEK further.          *)
LEMMA MultiplesApart ==
    ASSUME NEW q \in Nat, NEW r \in Nat, WEEK * q < WEEK * r
    PROVE  WEEK * q + WEEK <= WEEK * r
<1>1. WEEK \in Nat /\ WEEK > 0
  BY TimeAssumption
<1>2. q < r
  <2>1. CASE r <= q
    <3>1. PICK d \in Nat : q = r + d
      <4>1. q - r \in Nat /\ q = r + (q - r)
        BY <2>1
      <4> QED
        BY <4>1
    <3>2. WEEK * q = WEEK * r + WEEK * d /\ WEEK * d \in Nat /\ WEEK * r \in Nat
      BY <1>1, <3>1
    <3> QED
      BY <3>2
  <2> QED
    BY <2>1
<1>3. PICK d \in Nat : r = q + 1 + d
  <2>1. r - q - 1 \in Nat /\ r = q + 1 + (r - q - 1)
    BY <1>2
  <2> QED
    BY <2>1
<1>4. WEEK * r = WEEK * q + WEEK + WEEK * d /\ WEEK * d \in Nat /\ WEEK * q \in Nat
  BY <1>1, <1>3
<1> QED
  BY <1>1, <1>4

LEMMA EpochsApart ==
    ASSUME NEW s \in Nat, NEW t \in Nat, epochStart(s) < epochStart(t)
    PROVE  epochStart(s) + WEEK <= epochStart(t)
<1> DEFINE q == s \div WEEK
           r == t \div WEEK
<1>1. /\ epochStart(s) = WEEK * q /\ q \in Nat
      /\ epochStart(t) = WEEK * r /\ r \in Nat
  BY EpochIsMultiple
<1> HIDE DEF q, r
<1> QED
  BY <1>1, MultiplesApart

(* An epoch that is over at t was over when the epoch of t began.          *)
LEMMA OverBeforeEpoch ==
    ASSUME NEW t \in Nat, NEW x \in Nat, epochStart(x) + WEEK <= t
    PROVE  epochStart(x) + WEEK <= epochStart(t)
<1>1. WEEK \in Nat /\ epochStart(x) \in Nat /\ epochStart(t) \in Nat
      /\ t < epochStart(t) + WEEK
  BY EpochIsMultiple, TimeAssumption
<1>2. epochStart(x) < epochStart(t)
  BY <1>1
<1> QED
  BY <1>2, EpochsApart

(* Later times are in the same epoch or in a later one.                    *)
LEMMA EpochMonotone ==
    ASSUME NEW s \in Nat, NEW t \in Nat, s <= t
    PROVE  epochStart(s) <= epochStart(t)
<1>1. /\ WEEK \in Nat /\ epochStart(s) \in Nat /\ epochStart(t) \in Nat
      /\ epochStart(s) <= s /\ t < epochStart(t) + WEEK
  BY EpochIsMultiple, TimeAssumption
<1>2. CASE epochStart(t) < epochStart(s)
  <2>1. epochStart(t) + WEEK <= epochStart(s)
    BY <1>2, EpochsApart
  <2> QED
    BY <1>1, <2>1
<1> QED
  BY <1>1, <1>2

(* A multiple of WEEK starts an epoch.                                     *)
LEMMA MultipleIsStart ==
    ASSUME NEW q \in Nat
    PROVE  /\ WEEK * q \in Nat
           /\ epochStart(WEEK * q) = WEEK * q
           /\ (WEEK * q) % WEEK = 0
<1>1. WEEK \in Nat \ {0} /\ WEEK * q \in Nat
  BY TimeAssumption
<1> DEFINE x == WEEK * q
           r == x \div WEEK
<1>2. /\ epochStart(x) \in Nat /\ epochStart(x) <= x /\ x < epochStart(x) + WEEK
      /\ epochStart(x) = WEEK * r /\ r \in Nat
  BY <1>1, EpochIsMultiple
<1>3. epochStart(x) = x
  <2> HIDE DEF r
  <2>1. CASE WEEK * r < WEEK * q
    <3>1. WEEK * r + WEEK <= WEEK * q
      BY <1>2, <2>1, MultiplesApart
    <3> QED
      BY <1>1, <1>2, <3>1
  <2> QED
    BY <1>1, <1>2, <2>1
<1>4. x % WEEK = 0
  <2> HIDE DEF x
  <2>1. x \in Nat /\ x % WEEK \in Nat
    BY <1>1 DEF x
  <2> QED
    BY <1>3, <2>1 DEF epochStart
<1> QED
  BY <1>1, <1>3, <1>4

LEMMA StartIsStart ==
    ASSUME NEW t \in Nat
    PROVE  /\ epochStart(epochStart(t)) = epochStart(t)
           /\ epochStart(t) % WEEK = 0
           /\ epochNext(t) \in Nat
           /\ epochStart(epochNext(t)) = epochNext(t)
<1> DEFINE q == t \div WEEK
<1>1. epochStart(t) = WEEK * q /\ q \in Nat
  BY EpochIsMultiple
<1> HIDE DEF q
<1>2. epochNext(t) = WEEK * (q + 1) /\ q + 1 \in Nat
  BY <1>1, TimeAssumption DEF epochNext
<1> QED
  BY <1>1, <1>2, MultipleIsStart

(* ---------------------------- checkpoints ------------------------------ *)

LEMMA ListTyped ==
    ASSUME NEW cps \in Seq(Checkpoint)
    PROVE  /\ Len(cps) \in Nat /\ DOMAIN cps = 1 .. Len(cps)
           /\ \A i \in 1 .. Len(cps) : cps[i].timestamp \in Nat /\ cps[i].value \in Nat
<1>1. Len(cps) \in Nat /\ DOMAIN cps = 1 .. Len(cps)
  OBVIOUS
<1>2. \A i \in 1 .. Len(cps) : cps[i] \in Checkpoint
  OBVIOUS
<1>3. \A c \in Checkpoint : c.timestamp \in Nat /\ c.value \in Nat
  BY DEF Checkpoint
<1> QED
  BY <1>1, <1>2, <1>3

LEMMA AtCloseNone ==
    ASSUME NEW cps \in Seq(Checkpoint), NEW e \in Nat, NoneBefore(cps, e)
    PROVE  AtClose(cps, e) = 0
<1>1. \A i \in DOMAIN cps : ~(cps[i].timestamp < e + WEEK)
  BY ListTyped, TimeAssumption DEF NoneBefore
<1> QED
  BY <1>1 DEF AtClose

LEMMA AtCloseLast ==
    ASSUME NEW cps \in Seq(Checkpoint), NEW e \in Nat, NEW i, LastBefore(cps, e, i)
    PROVE  AtClose(cps, e) = cps[i].value
<1>1. /\ Len(cps) \in Nat /\ DOMAIN cps = 1 .. Len(cps) /\ i \in 1 .. Len(cps)
      /\ \A j \in 1 .. Len(cps) : cps[j].timestamp \in Nat
      /\ WEEK \in Nat
  BY ListTyped, TimeAssumption DEF LastBefore
<1>2. IsPriorIndex(cps, e + WEEK - 1, i)
  BY <1>1 DEF IsPriorIndex, LastBefore
<1>3. ASSUME NEW k \in 1 .. Len(cps), IsPriorIndex(cps, e + WEEK - 1, k) PROVE k = i
  <2>1. CASE k < i
    <3>1. i \in k + 1 .. Len(cps)
      BY <1>1, <2>1
    <3> QED
      BY <1>1, <1>3, <3>1 DEF IsPriorIndex, LastBefore
  <2>2. CASE i < k
    <3>1. k \in i + 1 .. Len(cps) /\ k # 1
      BY <1>1, <2>2
    <3> QED
      BY <1>1, <1>3, <3>1 DEF IsPriorIndex, LastBefore
  <2> QED
    BY <1>1, <2>1, <2>2
<1>4. cps # <<>>
  BY <1>1
<1>5. PriorIndex(cps, e + WEEK - 1) = i
  BY <1>1, <1>2, <1>3, <1>4 DEF PriorIndex
<1>6. cps[i].timestamp < e + WEEK
  BY DEF LastBefore
<1> QED
  BY <1>1, <1>5, <1>6 DEF AtClose, Prior, Slot

(* ------------------------- the binary search --------------------------- *)

SearchInv == SearchTypeOK /\ Bracketed /\ ReturnsPrior

(* At most one index of a list in order is the prior one, so PriorIndex    *)
(* is it.                                                                  *)
LEMMA PriorIndexUnique ==
    ASSUME NEW xs \in Seq(Checkpoint), Increasing(xs), NEW at \in Nat,
           NEW i, IsPriorIndex(xs, at, i)
    PROVE  PriorIndex(xs, at) = i
<1> DEFINE k == CHOOSE j \in 1 .. Len(xs) : IsPriorIndex(xs, at, j)
<1>1. i \in 1 .. Len(xs)
  BY DEF IsPriorIndex
<1>2. k \in 1 .. Len(xs) /\ IsPriorIndex(xs, at, k)
  BY <1>1
<1>3. xs # <<>> /\ Len(xs) \in Nat
  BY <1>1
<1>4. \A j \in 1 .. Len(xs) : xs[j].timestamp \in Nat
  BY ListTyped
<1> HIDE DEF k
<1>5. k = i
  <2>1. CASE k < i
    <3>1. i \in k + 1 .. Len(xs)
      BY <1>1, <1>2, <1>3, <2>1
    <3>2. at < xs[i].timestamp
      BY <1>2, <3>1 DEF IsPriorIndex
    <3>3. i # 1
      BY <1>1, <1>2, <2>1
    <3> QED
      BY <1>1, <1>4, <3>2, <3>3 DEF IsPriorIndex
  <2>2. CASE i < k
    <3>1. k \in i + 1 .. Len(xs)
      BY <1>1, <1>2, <1>3, <2>2
    <3>2. at < xs[k].timestamp
      BY <3>1 DEF IsPriorIndex
    <3>3. k # 1
      BY <1>1, <1>2, <2>2
    <3> QED
      BY <1>2, <1>4, <3>2, <3>3 DEF IsPriorIndex
  <2> QED
    BY <1>1, <1>2, <2>1, <2>2
<1> QED
  BY <1>3, <1>5 DEF PriorIndex, k

(* Halving rounds the centre up, so it lies above lower and within upper.  *)
LEMMA CenterInRange ==
    ASSUME lower \in Nat, upper \in Nat, upper > lower
    PROVE  Center \in lower + 1 .. upper
BY DEF Center

(* A call starts outside the loop.                                         *)
LEMMA SearchInitInv == SearchInit => SearchInv
BY SearchAssumption DEF SearchInit, SearchInv, SearchTypeOK, Bracketed, ReturnsPrior

(* The invariant is inductive.                                             *)
LEMMA SearchNextInv == SearchInv /\ [SearchNext]_svars => SearchInv'
<1> SUFFICES ASSUME SearchInv, [SearchNext]_svars PROVE SearchInv'
  OBVIOUS
<1> USE DEF SearchInv
<1>1. /\ list \in Seq(Checkpoint) /\ Increasing(list) /\ time \in Nat
      /\ Len(list) \in Nat
      /\ lower \in 0 .. Len(list) /\ upper \in 0 .. Len(list)
      /\ \A j \in 1 .. Len(list) : list[j].timestamp \in Nat
      /\ list # <<>> <=> Len(list) > 0
  BY ListTyped DEF SearchTypeOK
<1>2. ASSUME NEW i, Return(i), i \in 1 .. Len(list) + 1,
             (list = <<>> /\ i = 1) \/ IsPriorIndex(list, time, i)
      PROVE  SearchInv'
  <2>1. i = PriorIndex(list, time)
    BY <1>1, <1>2, PriorIndexUnique DEF PriorIndex
  <2> QED
    BY <1>1, <1>2, <2>1 DEF Return, SearchTypeOK, Bracketed, ReturnsPrior
<1>3. CASE NoCheckpoint
  BY <1>1, <1>2, <1>3 DEF NoCheckpoint
<1>4. CASE MostRecent
  <2>1. IsPriorIndex(list, time, Len(list))
    BY <1>1, <1>4 DEF MostRecent, IsPriorIndex
  <2> QED
    BY <1>1, <1>2, <1>4, <2>1 DEF MostRecent
<1>5. CASE BeforeFirst
  <2>1. \A j \in 2 .. Len(list) : list[1].timestamp < list[j].timestamp
    BY <1>1 DEF Increasing
  <2>2. IsPriorIndex(list, time, 1)
    BY <1>1, <1>5, <2>1 DEF BeforeFirst, IsPriorIndex
  <2> QED
    BY <1>1, <1>2, <1>5, <2>2 DEF BeforeFirst
<1>6. CASE EnterLoop
  BY <1>1, <1>6 DEF EnterLoop, SearchTypeOK, Bracketed, ReturnsPrior
<1>7. CASE Hit
  <2>1. pc = "loop" /\ upper > lower /\ list[Center].timestamp = time /\ Return(Center)
    BY <1>7 DEF Hit
  <2>2. Center \in 1 .. Len(list)
    BY <1>1, <2>1, CenterInRange
  <2>3. \A j \in Center + 1 .. Len(list) : time < list[j].timestamp
    BY <1>1, <2>1, <2>2 DEF Increasing
  <2>4. IsPriorIndex(list, time, Center)
    BY <1>1, <2>1, <2>2, <2>3 DEF IsPriorIndex
  <2> QED
    BY <1>1, <1>2, <2>1, <2>2, <2>4
<1>8. CASE GoUp
  <2>1. /\ pc = "loop" /\ upper > lower /\ list[Center].timestamp < time
        /\ lower' = Center /\ UNCHANGED <<list, time, upper, result, pc>>
    BY <1>8 DEF GoUp
  <2>2. Center \in lower + 1 .. upper
    BY <1>1, <2>1, CenterInRange
  <2> QED
    BY <1>1, <2>1, <2>2 DEF SearchTypeOK, Bracketed, ReturnsPrior
<1>9. CASE GoDown
  <2>1. /\ pc = "loop" /\ upper > lower /\ list[Center].timestamp > time
        /\ upper' = Center - 1 /\ UNCHANGED <<list, time, lower, result, pc>>
    BY <1>9 DEF GoDown
  <2>2. Center \in lower + 1 .. upper
    BY <1>1, <2>1, CenterInRange
  <2>3. ASSUME NEW j \in Center .. Len(list) PROVE time < list[j].timestamp
    <3>1. j \in 1 .. Len(list) /\ Center \in 1 .. Len(list) /\ (j = Center \/ Center < j)
      BY <1>1, <2>2
    <3>2. list[Center].timestamp <= list[j].timestamp
      BY <1>1, <3>1 DEF Increasing
    <3> QED
      BY <1>1, <2>1, <3>1, <3>2
  <2>4. upper' \in lower .. Len(list) /\ 1 <= lower /\ list[lower].timestamp <= time
    BY <1>1, <2>1, <2>2 DEF Bracketed
  <2>5. \A j \in upper' + 1 .. Len(list) : time < list[j].timestamp
    <3>1. upper' + 1 = Center
      BY <1>1, <2>1, <2>2
    <3> QED
      BY <2>3, <3>1
  <2> QED
    BY <1>1, <2>1, <2>4, <2>5 DEF SearchTypeOK, Bracketed, ReturnsPrior
<1>10. CASE LeaveLoop
  <2>1. pc = "loop" /\ upper = lower /\ Return(lower) /\ lower \in 1 .. Len(list)
    BY <1>1, <1>10 DEF LeaveLoop, Bracketed
  <2>2. IsPriorIndex(list, time, lower)
    BY <1>1, <2>1 DEF Bracketed, IsPriorIndex
  <2> QED
    BY <1>1, <1>2, <2>1, <2>2
<1>11. CASE UNCHANGED svars
  BY <1>11 DEF svars, SearchTypeOK, Bracketed, ReturnsPrior
<1> QED
  BY <1>3, <1>4, <1>5, <1>6, <1>7, <1>8, <1>9, <1>10, <1>11 DEF SearchNext

(* For every list and timestamp the search keeps its types, keeps the      *)
(* answer bracketed, and returns PriorIndex: getPriorBalanceIndex and      *)
(* getPriorSupplyIndex are the operator the reward model computes with.    *)
THEOREM SearchCorrect == SearchSpec => [](SearchTypeOK /\ Bracketed /\ ReturnsPrior)
<1>1. SearchInit => SearchInv
  BY SearchInitInv
<1>2. SearchInv /\ [SearchNext]_svars => SearchInv'
  BY SearchNextInv
<1> QED
  BY <1>1, <1>2, PTL DEF SearchSpec, SearchInv

(* ------------------------------ writing -------------------------------- *)

(* A list written at t: it ends with the new checkpoint, and the ones      *)
(* before it are those of the old list, less its last if that is of the    *)
(* same epoch.                                                             *)
IsWrite(cps, new, n, t, v) ==
    /\ new \in Seq(Checkpoint)
    /\ n = Len(new) /\ n \in Nat \ {0} /\ n - 1 <= Len(cps) /\ Len(cps) <= n
    /\ cps # <<>> /\ n = Len(cps) + 1 => cps[Len(cps)].timestamp # t
    /\ new[n].timestamp = t /\ new[n].value = v
    /\ \A i \in 1 .. n - 1 : new[i] = cps[i]
    /\ \A i \in n .. Len(cps) : epochStart(t) <= cps[i].timestamp

LEMMA WriteShape ==
    ASSUME NEW cps \in Seq(Checkpoint), NEW t \in Nat, NEW v \in Nat
    PROVE  LET new == WriteCheckpoint(cps, t, v)
           IN  IsWrite(cps, new, Len(new), t, v)
<1>a. PICK new : new = WriteCheckpoint(cps, t, v)
  OBVIOUS
<1>b. PICK n : n = Len(new)
  OBVIOUS
<1> SUFFICES IsWrite(cps, new, n, t, v)
  BY <1>a, <1>b
<1> DEFINE c == [timestamp |-> t, value |-> v]
<1>1. c \in Checkpoint /\ c.timestamp = t /\ c.value = v
  BY DEF Checkpoint
<1>2. Len(cps) \in Nat /\ \A i \in 1 .. Len(cps) : cps[i].timestamp \in Nat
  BY ListTyped
<1>3. CASE cps # <<>> /\ epochStart(cps[Len(cps)].timestamp) = epochStart(t)
  <2>1. new = [cps EXCEPT ![Len(cps)] = c]
    BY <1>a, <1>3 DEF WriteCheckpoint
  <2>2. Len(cps) \in 1 .. Len(cps) /\ DOMAIN cps = 1 .. Len(cps)
    BY <1>2, <1>3
  <2> HIDE DEF c
  <2>3. new \in Seq(Checkpoint) /\ n = Len(cps)
    BY <1>1, <1>b, <2>1, <2>2
  <2>4. new[n] = c
    BY <2>1, <2>2, <2>3
  <2>5. \A i \in 1 .. n - 1 : new[i] = cps[i]
    <3> SUFFICES ASSUME NEW i \in 1 .. n - 1 PROVE new[i] = cps[i]
      OBVIOUS
    <3>1. i \in 1 .. Len(cps) /\ i # Len(cps)
      BY <1>2, <2>3
    <3>2. i \in DOMAIN cps
      BY <2>2, <3>1
    <3> QED
      BY <2>1, <3>1, <3>2
  <2>6. epochStart(t) <= cps[Len(cps)].timestamp
    BY <1>2, <1>3, <2>2, EpochIsMultiple
  <2>7. /\ \A i \in n .. Len(cps) : i = Len(cps)
        /\ n # Len(cps) + 1
    BY <1>2, <2>3
  <2> QED
    BY <1>1, <1>2, <2>2, <2>3, <2>4, <2>5, <2>6, <2>7, <1>b DEF IsWrite
<1>4. CASE ~(cps # <<>> /\ epochStart(cps[Len(cps)].timestamp) = epochStart(t))
  <2>1. new = Append(cps, c)
    BY <1>a, <1>4 DEF WriteCheckpoint
  <2> HIDE DEF c
  <2>2. new \in Seq(Checkpoint) /\ n = Len(cps) + 1
    BY <1>1, <1>b, <2>1
  <2>3. new[n] = c
    BY <1>1, <1>2, <2>1, <2>2
  <2>4. \A i \in 1 .. n - 1 : new[i] = cps[i]
    BY <1>1, <1>2, <2>1, <2>2
  <2>5. n .. Len(cps) = {}
    BY <1>2, <2>2
  <2>6. cps # <<>> => cps[Len(cps)].timestamp # t
    BY <1>4
  <2> QED
    BY <1>1, <1>2, <2>2, <2>3, <2>4, <2>5, <2>6, <1>b DEF IsWrite
<1> QED
  BY <1>3, <1>4

(* A list stays in order when it is written no earlier than its last       *)
(* checkpoint.                                                             *)
LEMMA WriteIncreasing ==
    ASSUME NEW cps \in Seq(Checkpoint), Increasing(cps), NEW t \in Nat, NEW v,
           \A i \in 1 .. Len(cps) : cps[i].timestamp <= t,
           NEW new, NEW n, IsWrite(cps, new, n, t, v)
    PROVE  Increasing(new)
<1>1. /\ n = Len(new) /\ n \in Nat \ {0} /\ n - 1 <= Len(cps) /\ Len(cps) <= n
      /\ cps # <<>> /\ n = Len(cps) + 1 => cps[Len(cps)].timestamp # t
      /\ new[n].timestamp = t
      /\ \A i \in 1 .. n - 1 : new[i] = cps[i]
  BY DEF IsWrite
<1>2. Len(cps) \in Nat /\ \A i \in 1 .. Len(cps) : cps[i].timestamp \in Nat
  BY ListTyped
<1>3. ASSUME NEW i \in 1 .. n - 1 PROVE cps[i].timestamp < t
  <2>1. i \in 1 .. Len(cps) /\ Len(cps) \in 1 .. Len(cps) /\ cps # <<>>
    BY <1>1, <1>2
  <2>2. cps[i].timestamp \in Nat /\ cps[Len(cps)].timestamp \in Nat
        /\ cps[Len(cps)].timestamp <= t
    BY <1>2, <2>1
  <2>3. CASE i < Len(cps)
    <3>1. cps[i].timestamp < cps[Len(cps)].timestamp
      BY <2>1, <2>3 DEF Increasing
    <3> QED
      BY <2>2, <3>1
  <2>4. CASE i = Len(cps)
    <3>1. n = Len(cps) + 1
      BY <1>1, <1>2, <2>4
    <3> QED
      BY <1>1, <2>1, <2>2, <2>4, <3>1
  <2> QED
    BY <1>2, <2>1, <2>3, <2>4
<1>4. ASSUME NEW i \in 1 .. n, NEW j \in 1 .. n, i < j
      PROVE  new[i].timestamp < new[j].timestamp
  <2>1. i \in 1 .. n - 1 /\ i \in 1 .. Len(cps) /\ new[i] = cps[i]
    BY <1>1, <1>2, <1>4
  <2>2. CASE j = n
    BY <1>1, <1>3, <2>1, <2>2
  <2>3. CASE j # n
    <3>1. j \in 1 .. n - 1 /\ j \in 1 .. Len(cps)
      BY <1>1, <1>2, <2>3
    <3> QED
      BY <1>1, <1>4, <2>1, <3>1 DEF Increasing
  <2> QED
    BY <2>2, <2>3
<1> QED
  BY <1>1, <1>4 DEF Increasing

(* A write answers for the running epoch and those to come, and leaves the *)
(* answer for every epoch that is over as it was.                          *)
LEMMA WriteKeepsClosed ==
    ASSUME NEW cps \in Seq(Checkpoint), NEW t \in Nat, NEW v \in Nat,
           \A i \in 1 .. Len(cps) : cps[i].timestamp <= t,
           NEW new, new = WriteCheckpoint(cps, t, v),
           NEW x \in Nat, NEW e, e = epochStart(x), Settled(cps, e)
    PROVE  /\ Settled(new, e)
           /\ t < e + WEEK => AtClose(new, e) = v
           /\ e + WEEK <= t => AtClose(new, e) = AtClose(cps, e)
<1>0. PICK n : n = Len(new)
  OBVIOUS
<1>1. /\ new \in Seq(Checkpoint)
      /\ n \in Nat \ {0} /\ n - 1 <= Len(cps)
      /\ new[n].timestamp = t /\ new[n].value = v
      /\ \A i \in 1 .. n - 1 : new[i] = cps[i]
      /\ \A i \in n .. Len(cps) : epochStart(t) <= cps[i].timestamp
  <2>1. IsWrite(cps, new, n, t, v)
    BY <1>0, WriteShape
  <2> QED
    BY <2>1 DEF IsWrite
<1>2. /\ e \in Nat /\ WEEK \in Nat /\ Len(cps) \in Nat
      /\ \A i \in 1 .. Len(cps) : cps[i].timestamp \in Nat
      /\ epochStart(t) \in Nat
  BY EpochIsMultiple, TimeAssumption, ListTyped
<1>3. Len(new) = n
  BY <1>0
<1>4. CASE t < e + WEEK
  <2>1. LastBefore(new, e, n)
    BY <1>1, <1>2, <1>3, <1>4 DEF LastBefore
  <2>2. AtClose(new, e) = v
    BY <1>1, <1>2, <2>1, AtCloseLast
  <2> QED
    BY <1>2, <1>4, <2>1, <2>2 DEF Settled, LastBefore
<1>5. CASE e + WEEK <= t
  <2>1. e + WEEK <= epochStart(t)
    BY <1>5, OverBeforeEpoch
  <2>2. ASSUME NEW i \in n .. Len(cps) PROVE e + WEEK <= cps[i].timestamp
    <3>1. i \in 1 .. Len(cps)
      BY <1>1, <1>2
    <3>2. cps[i].timestamp \in Nat
      BY <1>2, <3>1
    <3>3. epochStart(t) <= cps[i].timestamp
      BY <1>1
    <3> QED
      BY <1>2, <2>1, <3>2, <3>3
  <2>3. \A i \in 1 .. n : i = n \/ i \in 1 .. n - 1
    BY <1>1
  <2>4. \A i \in 1 .. n - 1 : i \in 1 .. Len(cps)
    BY <1>1, <1>2
  <2>5. CASE NoneBefore(cps, e)
    <3>1. NoneBefore(new, e)
      <4> SUFFICES ASSUME NEW i \in 1 .. n PROVE e + WEEK <= new[i].timestamp
        BY <1>3 DEF NoneBefore
      <4>1. CASE i = n
        BY <1>1, <1>5, <4>1
      <4>2. CASE i \in 1 .. n - 1
        BY <1>1, <2>4, <2>5, <4>2 DEF NoneBefore
      <4> QED
        BY <2>3, <4>1, <4>2
    <3>2. AtClose(new, e) = 0 /\ AtClose(cps, e) = 0
      BY <1>1, <1>2, <2>5, <3>1, AtCloseNone
    <3> QED
      BY <1>2, <1>5, <3>1, <3>2 DEF Settled
  <2>6. CASE \E i \in 1 .. Len(cps) : LastBefore(cps, e, i)
    <3>1. PICK i \in 1 .. Len(cps) : LastBefore(cps, e, i)
      BY <2>6
    <3>2. i \in 1 .. n - 1
      <4>1. i \notin n .. Len(cps)
        BY <1>2, <2>2, <3>1 DEF LastBefore
      <4> QED
        BY <1>1, <1>2, <4>1
    <3>3. LastBefore(new, e, i)
      <4>1. i \in 1 .. n /\ new[i].timestamp < e + WEEK
        BY <1>1, <3>1, <3>2 DEF LastBefore
      <4>2. ASSUME NEW j \in i + 1 .. n PROVE e + WEEK <= new[j].timestamp
        <5>1. CASE j = n
          BY <1>1, <1>5, <5>1
        <5>2. CASE j # n
          <6>1. j \in 1 .. n - 1 /\ j \in i + 1 .. Len(cps)
            BY <1>1, <1>2, <3>2, <5>2
          <6> QED
            BY <1>1, <3>1, <6>1 DEF LastBefore
        <5> QED
          BY <5>1, <5>2
      <4> QED
        BY <1>3, <4>1, <4>2 DEF LastBefore
    <3>4. AtClose(new, e) = new[i].value /\ AtClose(cps, e) = cps[i].value
      BY <1>1, <1>2, <3>1, <3>3, AtCloseLast
    <3>5. i \in 1 .. Len(new)
      BY <3>3 DEF LastBefore
    <3> QED
      BY <1>1, <1>2, <1>5, <3>2, <3>3, <3>4, <3>5 DEF Settled
  <2> QED
    BY <2>5, <2>6 DEF Settled
<1> QED
  BY <1>2, <1>4, <1>5

(* ------------------------------ steps ---------------------------------- *)

LEMMA EpochsTyped == \A e \in Epochs : e \in Nat /\ \E x \in Nat : e = epochStart(x)
BY RewardAssumption, EpochIsMultiple DEF Epochs

(* A list stays up to date when it is written with the new balance.        *)
LEMMA WriteKeepsUpToDate ==
    ASSUME NEW cps \in Seq(Checkpoint), NEW balance \in Nat, UpToDate(cps, balance),
           NEW v \in Nat, now \in Nat, now' = now
    PROVE  LET new == WriteCheckpoint(cps, now, v)
           IN  /\ new \in Seq(Checkpoint)
               /\ UpToDate(new, v)
               /\ \A e \in Epochs : e + WEEK <= now => AtClose(new, e) = AtClose(cps, e)
<1>1. PICK new : new = WriteCheckpoint(cps, now, v)
  OBVIOUS
<1> SUFFICES /\ new \in Seq(Checkpoint)
             /\ UpToDate(new, v)
             /\ \A e \in Epochs : e + WEEK <= now => AtClose(new, e) = AtClose(cps, e)
  BY <1>1
<1>2. \A i \in 1 .. Len(cps) : cps[i].timestamp <= now
  BY DEF UpToDate
<1>3. PICK n : n = Len(new) /\ IsWrite(cps, new, n, now, v)
  BY <1>1, WriteShape
<1>4. \A i \in 1 .. Len(new) : new[i].timestamp <= now
  <2> SUFFICES ASSUME NEW i \in 1 .. n PROVE new[i].timestamp <= now
    BY <1>3
  <2>1. Len(cps) \in Nat
    OBVIOUS
  <2>2. CASE i = n
    BY <1>3, <2>2 DEF IsWrite
  <2>3. CASE i # n
    <3>1. i \in 1 .. n - 1 /\ i \in 1 .. Len(cps)
      BY <1>3, <2>1, <2>3 DEF IsWrite
    <3> QED
      BY <1>2, <1>3, <3>1 DEF IsWrite
  <2> QED
    BY <2>2, <2>3
<1>5. ASSUME NEW e \in Epochs
      PROVE  /\ Settled(new, e)
             /\ now < e + WEEK => AtClose(new, e) = v
             /\ e + WEEK <= now => AtClose(new, e) = AtClose(cps, e)
  <2>1. PICK x \in Nat : e = epochStart(x)
    BY EpochsTyped
  <2>2. Settled(cps, e)
    BY DEF UpToDate
  <2> QED
    BY <1>1, <1>2, <2>1, <2>2, WriteKeepsClosed
<1>6. new \in Seq(Checkpoint)
  BY <1>3 DEF IsWrite
<1>7. Increasing(new)
  BY <1>2, <1>3, WriteIncreasing DEF UpToDate
<1> QED
  BY <1>4, <1>5, <1>6, <1>7 DEF UpToDate

(* The sum of the balances changes by the change of one of them.           *)
LEMMA OneBalanceChanges ==
    ASSUME NEW f \in [Users -> Nat], NEW user \in Users, NEW b \in Nat
    PROVE  Total([f EXCEPT ![user] = b]) = Total(f) - f[user] + b
<1> DEFINE g == [f EXCEPT ![user] = b]
           old == [x \in {user} |-> f[user]]
           new == [x \in {user} |-> b]
<1>1. IsFiniteSet(Users) /\ {user} \subseteq Users
  BY RewardAssumption
<1>2. ASSUME NEW n \in Nat PROVE Total([x \in {user} |-> n]) = n
  <2>1. Units([x \in {user} |-> n]) = {user} \X (1 .. n)
    BY DEF Units
  <2> QED
    BY <2>1, Block DEF Total
<1>3. g \in [Users -> Nat] /\ old \in [{user} -> Nat] /\ new \in [{user} -> Nat]
  OBVIOUS
<1>4. \A x \in Users : g[x] = IF x \in {user} THEN f[x] - old[x] + new[x] ELSE f[x]
  OBVIOUS
<1>5. Total(old) = f[user] /\ Total(new) = b
  BY <1>2
<1> HIDE DEF g, old, new
<1>6. Total(g) = Total(f) + (Total(new) - Total(old))
  BY <1>1, <1>3, <1>4, TotalChange
<1>7. Total(f) \in Nat
  BY <1>1, TotalNat
<1> QED
  BY <1>5, <1>6, <1>7 DEF g

(* A deposit or a withdrawal.                                              *)
LEMMA SetStakeKeepsInv ==
    ASSUME Inv, NEW user \in Users, NEW b \in Nat, NEW s \in Nat,
           s = totalSupply - balanceOf[user] + b, SetStake(user, b, s)
    PROVE  Inv'
<1>1. now' = now /\ totalSupply' = s /\ balanceOf' = [balanceOf EXCEPT ![user] = b]
  BY DEF SetStake
<1>2. /\ now \in Nat /\ totalSupply \in Nat /\ balanceOf \in [Users -> Nat]
      /\ checkpoints \in [Users -> Seq(Checkpoint)] /\ supplyCheckpoints \in Seq(Checkpoint)
  BY DEF Inv, StakeTypes
<1>3. checkpoints' = [checkpoints EXCEPT ![user] = WriteCheckpoint(checkpoints[user], now, b)]
  BY DEF SetStake
<1>4. supplyCheckpoints' = WriteCheckpoint(supplyCheckpoints, now, s)
  BY DEF SetStake
<1>5. /\ checkpoints'[user] \in Seq(Checkpoint)
      /\ UpToDate(checkpoints'[user], b)
      /\ \A e \in Epochs : e + WEEK <= now
            => AtClose(checkpoints'[user], e) = AtClose(checkpoints[user], e)
  <2>1. UpToDate(checkpoints[user], balanceOf[user])
    BY DEF Inv
  <2>2. checkpoints'[user] = WriteCheckpoint(checkpoints[user], now, b)
    BY <1>2, <1>3
  <2> QED
    BY <1>1, <1>2, <2>1, <2>2, WriteKeepsUpToDate
<1>6. /\ supplyCheckpoints' \in Seq(Checkpoint)
      /\ UpToDate(supplyCheckpoints', s)
      /\ \A e \in Epochs : e + WEEK <= now
            => AtClose(supplyCheckpoints', e) = AtClose(supplyCheckpoints, e)
  BY <1>1, <1>2, <1>4, WriteKeepsUpToDate DEF Inv
<1>7. \A u \in Users \ {user} : checkpoints'[u] = checkpoints[u] /\ balanceOf'[u] = balanceOf[u]
  BY <1>1, <1>2, <1>3
<1>8. StakeTypes'
  BY <1>1, <1>2, <1>3, <1>5, <1>6 DEF StakeTypes
<1>9. totalSupply' = Total(balanceOf')
  BY <1>1, <1>2, OneBalanceChanges DEF Inv
<1>10. \A u \in Users : UpToDate(checkpoints[u], balanceOf[u])'
  <2> SUFFICES ASSUME NEW u \in Users PROVE UpToDate(checkpoints[u], balanceOf[u])'
    OBVIOUS
  <2>1. CASE u = user
    BY <1>1, <1>2, <1>5, <2>1 DEF UpToDate
  <2>2. CASE u # user
    BY <1>1, <1>7, <2>2 DEF UpToDate, Inv
  <2> QED
    BY <2>1, <2>2
<1>11. UpToDate(supplyCheckpoints, totalSupply)'
  BY <1>1, <1>6 DEF UpToDate
<1>12. ClosedAddUp'
  <2> SUFFICES ASSUME NEW e \in Epochs, e + WEEK <= now
               PROVE  AtClose(supplyCheckpoints', e)
                        = Total([u \in Users |-> AtClose(checkpoints'[u], e)])
    BY <1>1 DEF ClosedAddUp
  <2>1. \A u \in Users : AtClose(checkpoints'[u], e) = AtClose(checkpoints[u], e)
    BY <1>5, <1>7
  <2>2. [u \in Users |-> AtClose(checkpoints'[u], e)] = [u \in Users |-> AtClose(checkpoints[u], e)]
    BY <2>1
  <2> QED
    BY <1>6, <2>2 DEF Inv, ClosedAddUp
<1> QED
  BY <1>8, <1>9, <1>10, <1>11, <1>12 DEF Inv

(* An open epoch: every list answers with the running balances.            *)
LEMMA OpenAddsUp ==
    ASSUME Inv, NEW e \in Epochs, now < e + WEEK
    PROVE  AtClose(supplyCheckpoints, e) = Total([user \in Users |-> AtClose(checkpoints[user], e)])
<1>1. AtClose(supplyCheckpoints, e) = totalSupply
  BY DEF Inv, UpToDate
<1>2. \A user \in Users : AtClose(checkpoints[user], e) = balanceOf[user]
  BY DEF Inv, UpToDate
<1>3. balanceOf \in [Users -> Nat]
  BY DEF Inv, StakeTypes
<1>4. [user \in Users |-> AtClose(checkpoints[user], e)] = balanceOf
  BY <1>2, <1>3
<1> QED
  BY <1>1, <1>4 DEF Inv

LEMMA NextBlockKeepsInv == ASSUME Inv, NextBlock PROVE Inv'
<1>1. now' \in Nat /\ now \in Nat /\ now <= now' /\ WEEK \in Nat
  BY RewardAssumption, TimeAssumption DEF NextBlock, Inv, StakeTypes
<1>2. UNCHANGED <<totalSupply, balanceOf, checkpoints, supplyCheckpoints>>
  BY DEF NextBlock, stakes
<1>3. StakeTypes'
  BY <1>1, <1>2 DEF Inv, StakeTypes
<1>4. ASSUME NEW cps \in Seq(Checkpoint), NEW balance, UpToDate(cps, balance)
      PROVE  /\ Increasing(cps)
             /\ \A i \in 1 .. Len(cps) : cps[i].timestamp <= now'
             /\ \A e \in Epochs : Settled(cps, e)
             /\ \A e \in Epochs : now' < e + WEEK => AtClose(cps, e) = balance
  BY <1>1, <1>4, ListTyped, EpochsTyped DEF UpToDate
<1>5. \A user \in Users : UpToDate(checkpoints[user], balanceOf[user])'
  BY <1>2, <1>4 DEF Inv, StakeTypes, UpToDate
<1>6. UpToDate(supplyCheckpoints, totalSupply)'
  BY <1>2, <1>4 DEF Inv, StakeTypes, UpToDate
<1>7. ClosedAddUp'
  <2> SUFFICES ASSUME NEW e \in Epochs
               PROVE  AtClose(supplyCheckpoints, e)
                        = Total([user \in Users |-> AtClose(checkpoints[user], e)])
    BY <1>2 DEF ClosedAddUp
  <2>1. CASE now < e + WEEK
    BY <2>1, OpenAddsUp
  <2>2. CASE e + WEEK <= now
    BY <2>2 DEF Inv, ClosedAddUp
  <2> QED
    BY <1>1, <2>1, <2>2, EpochsTyped
<1> QED
  BY <1>2, <1>3, <1>5, <1>6, <1>7 DEF Inv

(* Claims, rewards and settings leave the stakes alone.                    *)
LEMMA StakesKept == ASSUME Inv, UNCHANGED <<now, stakes>> PROVE Inv'
BY DEF Inv, stakes, StakeTypes, UpToDate, ClosedAddUp

LEMMA InitInv == Init => Inv
<1> SUFFICES ASSUME Init PROVE Inv
  OBVIOUS
<1>1. /\ totalSupply = 0 /\ balanceOf = [user \in Users |-> 0] /\ now \in BlockTimes
      /\ checkpoints = [user \in Users |-> <<>>] /\ supplyCheckpoints = <<>>
  BY DEF Init
<1>2. <<>> \in Seq(Checkpoint) /\ Len(<<>>) = 0
  OBVIOUS
<1>3. StakeTypes
  BY <1>1, <1>2, RewardAssumption DEF StakeTypes
<1>4. Total(balanceOf) = 0
  BY <1>1, <1>3, RewardAssumption, TotalZero DEF StakeTypes
<1>5. ASSUME NEW e \in Epochs PROVE Settled(<<>>, e) /\ AtClose(<<>>, e) = 0
  <2>1. NoneBefore(<<>>, e)
    BY <1>2 DEF NoneBefore
  <2> QED
    BY <1>2, <2>1, AtCloseNone, EpochsTyped DEF Settled
<1>6. UpToDate(<<>>, 0)
  BY <1>2, <1>5 DEF UpToDate, Increasing
<1>7. ClosedAddUp
  <2> SUFFICES ASSUME NEW e \in Epochs
               PROVE  AtClose(supplyCheckpoints, e)
                        = Total([user \in Users |-> AtClose(checkpoints[user], e)])
    BY DEF ClosedAddUp
  <2>1. [user \in Users |-> AtClose(checkpoints[user], e)] = balanceOf
    BY <1>1, <1>5
  <2> QED
    BY <1>1, <1>4, <1>5, <2>1
<1> QED
  BY <1>1, <1>3, <1>4, <1>6, <1>7 DEF Inv

LEMMA NextInv == Inv /\ [Next]_vars => Inv'
<1> SUFFICES ASSUME Inv, [Next]_vars PROVE Inv'
  OBVIOUS
<1>0. /\ Votes \subseteq Nat /\ totalSupply \in Nat /\ balanceOf \in [Users -> Nat]
  BY RewardAssumption DEF Inv, StakeTypes
<1>1. ASSUME NEW user \in Users, NEW amount \in Votes, _deposit(amount, user) PROVE Inv'
  <2>1. SetStake(user, balanceOf[user] + amount, totalSupply + amount)
    BY <1>1 DEF _deposit
  <2>2. /\ balanceOf[user] + amount \in Nat /\ totalSupply + amount \in Nat
        /\ totalSupply + amount = totalSupply - balanceOf[user] + (balanceOf[user] + amount)
    BY <1>0
  <2> QED
    BY <2>1, <2>2, SetStakeKeepsInv
<1>2. ASSUME NEW user \in Users, NEW amount \in Votes, _withdraw(amount, user) PROVE Inv'
  <2>1. /\ SetStake(user, balanceOf[user] - amount, totalSupply - amount)
        /\ amount <= totalSupply /\ amount <= balanceOf[user]
    BY <1>2 DEF _withdraw
  <2>2. /\ balanceOf[user] - amount \in Nat /\ totalSupply - amount \in Nat
        /\ totalSupply - amount = totalSupply - balanceOf[user] + (balanceOf[user] - amount)
    BY <1>0, <2>1
  <2> QED
    BY <2>1, <2>2, SetStakeKeepsInv
<1>3. CASE Claiming \/ Funding \/ Settings \/ UNCHANGED vars
  <2>1. UNCHANGED <<now, stakes>>
    BY <1>3 DEF Claiming, getRewards, Funding, notifyBribe, notifyFees, _notifyRewardAmount,
                Settings, setDaoFee, authorizeVote, whitelistBribeToken, vars
  <2> QED
    BY <2>1, StakesKept
<1> QED
  BY <1>1, <1>2, <1>3, NextBlockKeepsInv DEF Next, Staking

LEMMA InvAddsUp == Inv => SharesAddUp
<1> SUFFICES ASSUME Inv, NEW e \in Epochs
             PROVE  AtClose(supplyCheckpoints, e)
                      = Total([user \in Users |-> AtClose(checkpoints[user], e)])
  BY DEF SharesAddUp
<1>1. CASE now < e + WEEK
  BY <1>1, OpenAddsUp
<1>2. CASE e + WEEK <= now
  BY <1>2 DEF Inv, ClosedAddUp
<1> QED
  BY <1>1, <1>2, EpochsTyped, TimeAssumption DEF Inv, StakeTypes

(* For every epoch, over or running, and whenever the users' votes were    *)
(* deposited and withdrawn, the balances the users' checkpoint lists close *)
(* it with add up to what the supply's list does (VotingReward.sol writes  *)
(* the lists in _writeCheckpoint and _writeSupplyCheckpoint and searches   *)
(* them in earned): the shares of a pot are shares of one whole.           *)
THEOREM SharesAlwaysAddUp == Spec => []SharesAddUp
<1>1. Spec => []Inv
  BY InitInv, NextInv, PTL DEF Spec
<1> QED
  BY <1>1, InvAddsUp, PTL

(* ------------------------ what a claim earns --------------------------- *)

(* The share of the epoch that starts at e, and what is due at t to a user *)
(* whose last claim was at last: the shares of the epochs in between, with *)
(* no search for the first of them.                                        *)
ShareOf(cps, supplyCps, pot, e) == Share(AtClose(cps, e), pot[e], AtClose(supplyCps, e))

Due(cps, supplyCps, pot, last, t) ==
    Total([e \in Epochs |->
             IF epochStart(last) <= e /\ e < epochStart(t)
               THEN ShareOf(cps, supplyCps, pot, e) ELSE 0])

(* The lists, as a set with a name: the provers do not find what they need *)
(* about sums where they see sequences.                                    *)
CheckpointLists == Seq(Checkpoint)

(* No epoch before that of t closes with more votes of the user than of    *)
(* all, and no epoch after that of t has rewards.                          *)
WithinSupply(cps, supplyCps, t) ==
    \A e \in Epochs : e < epochStart(t) => AtClose(cps, e) <= AtClose(supplyCps, e)

NothingAfter(pot, t) == \A e \in Epochs : epochStart(t) < e => pot[e] = 0

LEMMA ShareBounds ==
    ASSUME NEW b \in Nat, NEW p \in Nat, NEW s \in Nat
    PROVE  /\ Share(b, p, s) \in Nat
           /\ b = 0 \/ p = 0 => Share(b, p, s) = 0
           /\ s # 0 => Share(b, p, s) * s <= b * p
<1> DEFINE n == b * p
           k == AtLeastOne(s)
<1>1. n \in Nat /\ k \in Nat /\ k > 0 /\ (s # 0 => k = s)
  BY DEF AtLeastOne
<1>2. Share(b, p, s) = n \div k
  BY DEF Share
<1>3. b = 0 \/ p = 0 => n = 0
  OBVIOUS
<1> HIDE DEF n, k
<1>4. n \div k \in Nat /\ (n = 0 => n \div k = 0)
  BY <1>1
<1>5. (n \div k) * k <= n
  <2>1. n = k * (n \div k) + (n % k) /\ n % k \in Nat
    BY <1>1
  <2>2. (n \div k) * k = k * (n \div k) /\ k * (n \div k) \in Nat
    BY <1>1, <1>4
  <2> QED
    BY <1>1, <2>1, <2>2
<1> QED
  BY <1>1, <1>2, <1>3, <1>4, <1>5 DEF n

(* Every list that is not empty has a prior checkpoint for every time.     *)
LEMMA PriorIndexExists ==
    ASSUME NEW xs \in Seq(Checkpoint), xs # <<>>, NEW at \in Nat
    PROVE  IsPriorIndex(xs, at, PriorIndex(xs, at))
<1> DEFINE T == {k \in 0 .. Len(xs) : \A j \in k + 1 .. Len(xs) : at < xs[j].timestamp}
<1>1. /\ Len(xs) \in Nat /\ Len(xs) > 0
      /\ \A j \in 1 .. Len(xs) : xs[j].timestamp \in Nat
  BY ListTyped
<1>2. Len(xs) \in T /\ T \subseteq Nat
  BY <1>1
<1>3. PICK m \in T : \A k \in T : m <= k
  <2> HIDE DEF T
  <2> QED
    BY <1>2, Smallest
<1>4. CASE m = 0
  <2>1. IsPriorIndex(xs, at, 1)
    BY <1>1, <1>3, <1>4 DEF IsPriorIndex
  <2> QED
    BY <1>1, <2>1 DEF PriorIndex
<1>5. CASE m # 0
  <2>a. m \in 0 .. Len(xs)
    OBVIOUS
  <2>b. m \in 1 .. Len(xs) /\ m - 1 \in 0 .. Len(xs) /\ ~(m <= m - 1)
    BY <1>1, <1>5, <2>a
  <2>c. m - 1 \notin T
    <3> HIDE DEF T
    <3> QED
      BY <1>3, <2>b
  <2>1. m \in 1 .. Len(xs) /\ m - 1 \in 0 .. Len(xs) /\ m - 1 \notin T
    BY <2>b, <2>c
  <2>2. PICK j \in m .. Len(xs) : ~(at < xs[j].timestamp)
    BY <1>1, <2>1
  <2>3. j = m
    BY <1>1, <1>3, <2>1, <2>2
  <2>4. xs[m].timestamp <= at
    BY <1>1, <2>1, <2>2, <2>3
  <2>5. IsPriorIndex(xs, at, m)
    BY <1>3, <2>1, <2>4 DEF IsPriorIndex
  <2> QED
    BY <2>1, <2>5 DEF PriorIndex
<1> QED
  BY <1>4, <1>5

LEMMA CloseTyped ==
    ASSUME NEW cps \in Seq(Checkpoint), NEW e \in Nat
    PROVE  Prior(cps, e) \in Nat /\ AtClose(cps, e) \in Nat
BY ListTyped DEF Prior, Slot, AtClose

LEMMA FirstUnclaimedTyped ==
    ASSUME NEW cps \in Seq(Checkpoint), NEW last \in Nat
    PROVE  FirstUnclaimed(cps, last) \in Nat /\ epochStart(last) <= FirstUnclaimed(cps, last)
<1> DEFINE from == epochStart(last)
           first == epochStart(Slot(cps, PriorIndex(cps, from)).timestamp)
<1>1. from \in Nat
  BY EpochIsMultiple
<1>2. Slot(cps, PriorIndex(cps, from)).timestamp \in Nat
  BY ListTyped DEF Slot
<1>3. first \in Nat
  BY <1>2, EpochIsMultiple
<1>4. FirstUnclaimed(cps, last) = IF first > from THEN first ELSE from
  BY DEF FirstUnclaimed
<1> QED
  BY <1>1, <1>3, <1>4

(* The epochs a claim skips closed before the user's first deposit.        *)
LEMMA SkippedEpoch ==
    ASSUME NEW cps \in Seq(Checkpoint), cps # <<>>, Increasing(cps),
           NEW last \in Nat, NEW e \in Epochs, epochStart(last) <= e
    PROVE  /\ e < FirstUnclaimed(cps, last) => AtClose(cps, e) = 0
           /\ FirstUnclaimed(cps, last) <= e => AtClose(cps, e) = Prior(cps, e)
<1> DEFINE from == epochStart(last)
           i == PriorIndex(cps, from)
           first == epochStart(cps[i].timestamp)
<1>1. /\ Len(cps) \in Nat /\ DOMAIN cps = 1 .. Len(cps)
      /\ \A j \in 1 .. Len(cps) : cps[j].timestamp \in Nat
      /\ WEEK \in Nat
  BY ListTyped, TimeAssumption
<1>2. from \in Nat
  BY EpochIsMultiple
<1>3. IsPriorIndex(cps, from, i)
  BY <1>2, PriorIndexExists
<1>4. i \in 1 .. Len(cps) /\ cps[i].timestamp \in Nat
  BY <1>1, <1>3 DEF IsPriorIndex
<1>5. first \in Nat /\ first <= cps[i].timestamp /\ cps[i].timestamp < first + WEEK
  BY <1>4, EpochIsMultiple
<1>6. FirstUnclaimed(cps, last) = IF first > from THEN first ELSE from
  BY <1>1, <1>4 DEF FirstUnclaimed, Slot
<1>7. PICK x \in Nat : e = epochStart(x)
  BY EpochsTyped
<1>8. e \in Nat
  BY EpochsTyped
<1> HIDE DEF from, i, first
<1>9. ASSUME e < FirstUnclaimed(cps, last) PROVE AtClose(cps, e) = 0
  <2>1. first > from /\ e < first
    BY <1>2, <1>5, <1>6, <1>8, <1>9 DEF from
  <2>2. e + WEEK <= first
    BY <1>4, <1>7, <2>1, EpochsApart DEF first
  <2>3. i = 1
    BY <1>2, <1>3, <1>4, <1>5, <2>1 DEF IsPriorIndex
  <2>4. ASSUME NEW j \in 1 .. Len(cps) PROVE e + WEEK <= cps[j].timestamp
    <3>1. cps[1].timestamp <= cps[j].timestamp
      <4>1. CASE j = 1
        BY <1>1, <4>1
      <4>2. CASE j # 1
        <5>1. 1 \in 1 .. Len(cps) /\ 1 < j
          BY <1>1, <4>2
        <5>2. cps[1].timestamp < cps[j].timestamp
          BY <5>1 DEF Increasing
        <5> QED
          BY <1>1, <5>1, <5>2
      <4> QED
        BY <4>1, <4>2
    <3>2. cps[j].timestamp \in Nat
      BY <1>1
    <3> QED
      BY <1>1, <1>4, <1>5, <1>8, <2>2, <2>3, <3>1, <3>2
  <2> QED
    BY <1>8, <2>4, AtCloseNone DEF NoneBefore
<1>10. ASSUME FirstUnclaimed(cps, last) <= e PROVE AtClose(cps, e) = Prior(cps, e)
  <2>1. first <= e
    BY <1>2, <1>5, <1>6, <1>8, <1>10
  <2>2. cps[i].timestamp < e + WEEK
    BY <1>1, <1>4, <1>5, <1>8, <2>1
  <2> QED
    BY <1>1, <1>4, <2>2 DEF AtClose
<1> QED
  BY <1>9, <1>10

LEMMA EpochsFinite == IsFiniteSet(Epochs)
<1> DEFINE start == [t \in BlockTimes |-> epochStart(t)]
<1>1. start \in Surjection(BlockTimes, Epochs)
  <2>1. start \in [BlockTimes -> Epochs]
    BY DEF Epochs
  <2>2. \A e \in Epochs : \E t \in BlockTimes : start[t] = e
    BY DEF Epochs
  <2> QED
    BY <2>1, <2>2, Fun_IsSurj
<1> QED
  BY <1>1, RewardAssumption, FS_Surjection

(* The terms of Due are shares.                                            *)
LEMMA DueTyped ==
    ASSUME NEW cps \in CheckpointLists, NEW supplyCps \in CheckpointLists,
           NEW pot \in [Epochs -> Nat], NEW last, NEW t
    PROVE  /\ \A e \in Epochs : ShareOf(cps, supplyCps, pot, e) \in Nat
           /\ [e \in Epochs |->
                 IF epochStart(last) <= e /\ e < epochStart(t)
                   THEN ShareOf(cps, supplyCps, pot, e) ELSE 0] \in [Epochs -> Nat]
           /\ Due(cps, supplyCps, pot, last, t) \in Nat
<1>1. ASSUME NEW e \in Epochs PROVE ShareOf(cps, supplyCps, pot, e) \in Nat
  <2>1. e \in Nat /\ pot[e] \in Nat
    BY EpochsTyped
  <2>2. AtClose(cps, e) \in Nat /\ AtClose(supplyCps, e) \in Nat
    BY <2>1, CloseTyped DEF CheckpointLists
  <2> QED
    BY <2>1, <2>2, ShareBounds DEF ShareOf
<1> DEFINE f == [e \in Epochs |->
                   IF epochStart(last) <= e /\ e < epochStart(t)
                     THEN ShareOf(cps, supplyCps, pot, e) ELSE 0]
<1>2. f \in [Epochs -> Nat]
  BY <1>1
<1>3. Due(cps, supplyCps, pot, last, t) = Total(f)
  BY DEF Due
<1> HIDE DEF f
<1>4. Total(f) \in Nat
  BY <1>2, EpochsFinite, TotalNat
<1> QED
  BY <1>1, <1>2, <1>3, <1>4 DEF f

(* What earned computes is what is due, as long as no user closes an epoch *)
(* with more than the supply: the epochs it skips, and those before the    *)
(* first supply checkpoint, have nothing to pay.                           *)
LEMMA EarnedIsDue ==
    ASSUME NEW cps \in CheckpointLists, NEW supplyCps \in CheckpointLists,
           NEW pot \in [Epochs -> Nat], NEW last \in Nat, NEW t \in Nat,
           Increasing(cps), WithinSupply(cps, supplyCps, t)
    PROVE  Earned(cps, supplyCps, pot, last, t) = Due(cps, supplyCps, pot, last, t)
<1> DEFINE due == [e \in Epochs |->
                     IF epochStart(last) <= e /\ e < epochStart(t)
                       THEN ShareOf(cps, supplyCps, pot, e) ELSE 0]
           D == ClaimedEpochs(cps, last, t) \cap DOMAIN pot
           paidFor == [e \in D |-> Share(Prior(cps, e), pot[e], Prior(supplyCps, e))]
<1>1. due \in [Epochs -> Nat] /\ Due(cps, supplyCps, pot, last, t) = Total(due)
  BY DueTyped DEF Due
<1>2. ASSUME NEW e \in Epochs
      PROVE  /\ e \in Nat /\ e % WEEK = 0 /\ pot[e] \in Nat
             /\ Prior(cps, e) \in Nat /\ Prior(supplyCps, e) \in Nat
             /\ AtClose(cps, e) \in Nat /\ AtClose(supplyCps, e) \in Nat
             /\ epochStart(last) \in Nat /\ epochStart(t) \in Nat
  <2>1. PICK x \in Nat : e = epochStart(x)
    BY EpochsTyped
  <2> QED
    BY <2>1, StartIsStart, EpochIsMultiple, CloseTyped DEF CheckpointLists
<1>a. FirstUnclaimed(cps, last) \in Nat /\ epochStart(last) <= FirstUnclaimed(cps, last)
  BY FirstUnclaimedTyped DEF CheckpointLists
<1>3. CASE cps = <<>>
  <2>1. ASSUME NEW e \in Epochs PROVE ShareOf(cps, supplyCps, pot, e) = 0
    <3>1. AtClose(cps, e) = 0
      BY <1>3 DEF AtClose
    <3> QED
      BY <1>2, <3>1, ShareBounds DEF ShareOf
  <2>2. \A e \in Epochs : due[e] = 0
    BY <2>1
  <2> HIDE DEF due
  <2>3. Total(due) = 0
    BY <1>1, <2>2, EpochsFinite, TotalZero
  <2> QED
    BY <1>1, <1>3, <2>3 DEF Earned
<1>4. CASE cps # <<>>
  <2>1. ASSUME NEW e \in Epochs
        PROVE  e \in D <=> FirstUnclaimed(cps, last) <= e /\ e < epochStart(t)
    BY <1>2, <1>a DEF ClaimedEpochs
  <2>2. ASSUME NEW e \in D
        PROVE  e \in Epochs /\ paidFor[e] = due[e]
    <3>1. e \in Epochs /\ FirstUnclaimed(cps, last) <= e /\ e < epochStart(t)
      BY <2>1
    <3>2. epochStart(last) <= e
      BY <1>2, <1>a, <3>1
    <3>3. AtClose(cps, e) = Prior(cps, e) /\ AtClose(cps, e) <= AtClose(supplyCps, e)
      BY <1>4, <3>1, <3>2, SkippedEpoch DEF WithinSupply, CheckpointLists
    <3>4. CASE AtClose(supplyCps, e) = Prior(supplyCps, e)
      BY <3>1, <3>2, <3>3, <3>4 DEF ShareOf
    <3>5. CASE AtClose(supplyCps, e) # Prior(supplyCps, e)
      <4>1. AtClose(supplyCps, e) = 0
        BY <3>5 DEF AtClose
      <4>2. AtClose(cps, e) = 0 /\ Prior(cps, e) = 0
        BY <1>2, <3>1, <3>3, <4>1
      <4>3. Share(Prior(cps, e), pot[e], Prior(supplyCps, e)) = 0
            /\ ShareOf(cps, supplyCps, pot, e) = 0
        BY <1>2, <3>1, <4>2, ShareBounds DEF ShareOf
      <4> QED
        BY <3>1, <4>3
    <3> QED
      BY <3>1, <3>4, <3>5
  <2>3. ASSUME NEW e \in Epochs, e \notin D PROVE due[e] = 0
    <3>1. CASE ~(epochStart(last) <= e /\ e < epochStart(t))
      BY <3>1
    <3>2. CASE epochStart(last) <= e /\ e < epochStart(t)
      <4>1. e < FirstUnclaimed(cps, last)
        BY <1>2, <1>a, <2>1, <2>3, <3>2
      <4>2. AtClose(cps, e) = 0
        BY <1>4, <3>2, <4>1, SkippedEpoch DEF CheckpointLists
      <4>3. ShareOf(cps, supplyCps, pot, e) = 0
        BY <1>2, <4>2, ShareBounds DEF ShareOf
      <4> QED
        BY <4>3
    <3> QED
      BY <3>1, <3>2
  <2>4. Earned(cps, supplyCps, pot, last, t) = Total(paidFor)
    <3>1. D \subseteq DOMAIN pot
      OBVIOUS
    <3>2. [e \in D |-> [x \in DOMAIN pot |->
             Share(Prior(cps, x), pot[x], Prior(supplyCps, x))][e]] = paidFor
      <4> HIDE DEF D
      <4> QED
        BY <3>1
    <3> QED
      BY <1>4, <3>2 DEF Earned, TotalOver
  <2> HIDE DEF D, due, paidFor
  <2>5. D \subseteq Epochs /\ paidFor \in [D -> Nat]
    <3>1. DOMAIN paidFor = D /\ paidFor = [e \in D |-> paidFor[e]]
      BY DEF paidFor
    <3> QED
      BY <1>1, <2>2, <3>1
  <2>6. \A e \in Epochs : due[e] = IF e \in D THEN paidFor[e] ELSE 0
    BY <2>2, <2>3
  <2>7. Total(due) = Total(paidFor)
    <3>1. /\ due \in [Epochs -> Nat] /\ D \subseteq Epochs /\ paidFor \in [D -> Nat]
          /\ \A e \in Epochs : due[e] = IF e \in D THEN paidFor[e] ELSE 0
      BY <1>1, <2>5, <2>6
    <3> QED
      BY <3>1, TotalExtend
  <2> QED
    BY <1>1, <2>4, <2>7
<1> QED
  BY <1>3, <1>4

(* From one epoch to a later one, when only the first has rewards, its     *)
(* share becomes due.                                                      *)
LEMMA DueGrows ==
    ASSUME NEW cps \in CheckpointLists, NEW supplyCps \in CheckpointLists,
           NEW pot \in [Epochs -> Nat], NEW last \in Nat, NEW s \in Nat, NEW t \in Nat,
           epochStart(s) \in Epochs, epochStart(last) <= epochStart(s),
           epochStart(s) < epochStart(t),
           NothingAfter(pot, s)
    PROVE  Due(cps, supplyCps, pot, last, t)
             = Due(cps, supplyCps, pot, last, s)
                 + ShareOf(cps, supplyCps, pot, epochStart(s))
<1> DEFINE e0 == epochStart(s)
           before == [e \in Epochs |->
                        IF epochStart(last) <= e /\ e < epochStart(s)
                          THEN ShareOf(cps, supplyCps, pot, e) ELSE 0]
           after == [e \in Epochs |->
                       IF epochStart(last) <= e /\ e < epochStart(t)
                         THEN ShareOf(cps, supplyCps, pot, e) ELSE 0]
           one == [e \in {e0} |-> ShareOf(cps, supplyCps, pot, e)]
           step == [e \in Epochs |-> IF e \in {e0} THEN one[e] ELSE 0]
<1>1. e0 \in Epochs /\ e0 \in Nat /\ epochStart(t) \in Nat /\ epochStart(last) \in Nat
  BY EpochIsMultiple
<1>2. \A e \in Epochs : ShareOf(cps, supplyCps, pot, e) \in Nat
  BY DueTyped
<1>3. after \in [Epochs -> Nat] /\ before \in [Epochs -> Nat]
  BY DueTyped
<1>4. one \in [{e0} -> Nat] /\ {e0} \subseteq Epochs /\ DOMAIN one = {e0}
      /\ one[e0] = ShareOf(cps, supplyCps, pot, e0)
  BY <1>1, <1>2
<1>5. step \in [Epochs -> Nat]
  <2> HIDE DEF one
  <2> QED
    BY <1>4
<1>6. Total(step) = ShareOf(cps, supplyCps, pot, e0)
  <2>1. \A e \in Epochs : step[e] = IF e \in {e0} THEN one[e] ELSE 0
    OBVIOUS
  <2> HIDE DEF one, step
  <2>2. Total(one) = one[e0]
    BY <1>4, TotalSingle
  <2>3. Total(step) = Total(one)
    BY <1>4, <1>5, <2>1, TotalExtend
  <2> QED
    BY <1>4, <2>2, <2>3
<1>7. ASSUME NEW e \in Epochs PROVE after[e] = before[e] + step[e]
  <2>1. e \in Nat /\ ShareOf(cps, supplyCps, pot, e) \in Nat
    BY <1>2, EpochsTyped
  <2>2. CASE e < e0
    BY <1>1, <2>1, <2>2
  <2>3. CASE e = e0
    BY <1>1, <2>1, <2>3
  <2>4. CASE e0 < e
    <3>1. pot[e] = 0 /\ AtClose(cps, e) \in Nat /\ AtClose(supplyCps, e) \in Nat
      BY <2>1, <2>4, CloseTyped DEF NothingAfter, CheckpointLists
    <3>2. ShareOf(cps, supplyCps, pot, e) = 0
      BY <3>1, ShareBounds DEF ShareOf
    <3> QED
      BY <1>1, <2>1, <2>4, <3>2
  <2> QED
    BY <1>1, <2>1, <2>2, <2>3, <2>4
<1>8. Due(cps, supplyCps, pot, last, t) = Total(after)
      /\ Due(cps, supplyCps, pot, last, s) = Total(before)
  BY DEF Due
<1> HIDE DEF before, after, step, one
<1>9. Total(after) = Total(before) + Total(step)
  BY <1>3, <1>5, <1>7, EpochsFinite, TotalPlus
<1> QED
  BY <1>6, <1>8, <1>9

(* Lists that closed every epoch before t alike make the same due at t.    *)
LEMMA DueUnchanged ==
    ASSUME NEW cps, NEW cps2, NEW supplyCps, NEW supplyCps2, NEW pot, NEW last, NEW t,
           \A e \in Epochs : e < epochStart(t) =>
               AtClose(cps2, e) = AtClose(cps, e) /\ AtClose(supplyCps2, e) = AtClose(supplyCps, e)
    PROVE  Due(cps2, supplyCps2, pot, last, t) = Due(cps, supplyCps, pot, last, t)
<1> DEFINE f == [e \in Epochs |->
                   IF epochStart(last) <= e /\ e < epochStart(t)
                     THEN ShareOf(cps, supplyCps, pot, e) ELSE 0]
           g == [e \in Epochs |->
                   IF epochStart(last) <= e /\ e < epochStart(t)
                     THEN ShareOf(cps2, supplyCps2, pot, e) ELSE 0]
<1>1. \A e \in Epochs : e < epochStart(t) =>
          ShareOf(cps2, supplyCps2, pot, e) = ShareOf(cps, supplyCps, pot, e)
  BY DEF ShareOf
<1>2. f = g
  BY <1>1
<1> QED
  BY <1>2 DEF Due

(* -------------------------- the rewards held --------------------------- *)

due(token, user, t) ==
    Due(checkpoints[user], supplyCheckpoints, tokenRewardsPerEpoch[token],
        lastEarn[token][user], t)

dues(token, t) == [user \in Users |-> due(token, user, t)]

RewardTypes ==
    /\ now \in BlockTimes
    /\ tokenRewardsPerEpoch \in [Tokens -> [Epochs -> Nat]]
    /\ lastEarn \in [Tokens -> [Users -> Nat]]
    /\ held \in [Tokens -> Nat]
    /\ paid \in [Tokens -> [Users -> Nat]]
    /\ daoFee \in Nat /\ daoFee <= FEE_DIVISOR

(* What the users are due of the epochs that are over, and the pot of the  *)
(* running epoch, are held.                                                *)
Covered ==
    \A token \in Tokens :
        Total(dues(token, now)) + tokenRewardsPerEpoch[token][epochStart(now)] <= held[token]

RewardInv ==
    /\ Inv
    /\ RewardTypes
    /\ \A token \in Tokens, user \in Users : lastEarn[token][user] <= now
    /\ \A token \in Tokens : NothingAfter(tokenRewardsPerEpoch[token], now)
    /\ Covered

LEMMA RewardTypesExpanded ==
    ASSUME RewardInv
    PROVE  /\ now \in Nat /\ epochStart(now) \in Nat /\ epochStart(now) \in Epochs
           /\ epochStart(now) <= now /\ epochNext(now) \in Nat
           /\ \A token \in Tokens : tokenRewardsPerEpoch[token] \in [Epochs -> Nat]
           /\ \A token \in Tokens : held[token] \in Nat
           /\ \A token \in Tokens, user \in Users :
                 lastEarn[token][user] \in Nat /\ paid[token][user] \in Nat
           /\ \A user \in Users :
                 checkpoints[user] \in CheckpointLists /\ Increasing(checkpoints[user])
           /\ supplyCheckpoints \in CheckpointLists
<1>1. now \in BlockTimes /\ now \in Nat
  BY RewardAssumption DEF RewardInv, RewardTypes
<1>2. epochStart(now) \in Epochs
  BY <1>1 DEF Epochs
<1>3. /\ \A token \in Tokens : tokenRewardsPerEpoch[token] \in [Epochs -> Nat]
      /\ \A token \in Tokens : held[token] \in Nat
      /\ \A token \in Tokens, user \in Users :
            lastEarn[token][user] \in Nat /\ paid[token][user] \in Nat
  BY DEF RewardInv, RewardTypes
<1>4. /\ \A user \in Users : checkpoints[user] \in Seq(Checkpoint)
      /\ supplyCheckpoints \in Seq(Checkpoint)
  BY DEF RewardInv, Inv, StakeTypes
<1>5. \A user \in Users : Increasing(checkpoints[user])
  BY DEF RewardInv, Inv, UpToDate
<1> QED
  BY <1>1, <1>2, <1>3, <1>4, <1>5, EpochIsMultiple, StartIsStart DEF CheckpointLists

(* No user closes an epoch that began with more than the supply does.      *)
LEMMA VotesWithinSupply ==
    ASSUME Inv, NEW user \in Users, NEW t \in Nat, epochStart(t) <= epochNext(now)
    PROVE  WithinSupply(checkpoints[user], supplyCheckpoints, t)
<1> SUFFICES ASSUME NEW e \in Epochs, e < epochStart(t)
             PROVE  AtClose(checkpoints[user], e) <= AtClose(supplyCheckpoints, e)
  BY DEF WithinSupply
<1> DEFINE close == [u \in Users |-> AtClose(checkpoints[u], e)]
<1>1. now \in Nat /\ e \in Nat /\ WEEK \in Nat
  BY EpochsTyped, TimeAssumption DEF Inv, StakeTypes
<1>2. e <= now
  <2>1. PICK x \in Nat : e = epochStart(x)
    BY EpochsTyped
  <2>2. /\ epochStart(now) \in Nat /\ epochStart(now) <= now /\ epochStart(t) \in Nat
        /\ epochNext(now) = epochStart(now) + WEEK
    BY <1>1, EpochIsMultiple DEF epochNext
  <2>3. CASE epochStart(now) < e
    <3>1. epochStart(now) + WEEK <= e
      BY <1>1, <2>1, <2>3, EpochsApart
    <3> QED
      BY <1>1, <2>2, <3>1
  <2> QED
    BY <1>1, <2>2, <2>3
<1>3. AtClose(supplyCheckpoints, e) = Total(close)
  BY <1>2, InvAddsUp DEF SharesAddUp
<1>4. close \in [Users -> Nat]
  <2>1. \A u \in Users : checkpoints[u] \in Seq(Checkpoint)
    BY DEF Inv, StakeTypes
  <2> QED
    BY <1>1, <2>1, CloseTyped
<1>5. close[user] <= Total(close)
  <2> HIDE DEF close
  <2> QED
    BY <1>4, RewardAssumption, TermBelowTotal
<1> QED
  BY <1>3, <1>5

(* What earned returns, now or when the running epoch is over.             *)
LEMMA EarnedDue ==
    ASSUME RewardInv, NEW token \in Tokens, NEW user \in Users,
           NEW t \in Nat, epochStart(t) <= epochNext(now)
    PROVE  Earned(checkpoints[user], supplyCheckpoints, tokenRewardsPerEpoch[token],
                  lastEarn[token][user], t) = due(token, user, t)
<1>1. /\ checkpoints[user] \in CheckpointLists /\ Increasing(checkpoints[user])
      /\ supplyCheckpoints \in CheckpointLists
      /\ tokenRewardsPerEpoch[token] \in [Epochs -> Nat]
      /\ lastEarn[token][user] \in Nat
  BY RewardTypesExpanded
<1>2. WithinSupply(checkpoints[user], supplyCheckpoints, t)
  BY VotesWithinSupply DEF RewardInv
<1> QED
  BY <1>1, <1>2, EarnedIsDue DEF due

LEMMA DuesTyped ==
    ASSUME RewardInv, NEW token \in Tokens, NEW t
    PROVE  dues(token, t) \in [Users -> Nat] /\ Total(dues(token, t)) \in Nat
<1>1. ASSUME NEW user \in Users PROVE due(token, user, t) \in Nat
  BY RewardTypesExpanded, DueTyped DEF due
<1>2. dues(token, t) \in [Users -> Nat]
  BY <1>1 DEF dues
<1> QED
  BY <1>2, RewardAssumption, TotalNat

(* The shares of the running epoch, as the votes stand, are the ledger's   *)
(* portions; they add up to no more than the pot.                          *)
LEMMA RunningShares ==
    ASSUME RewardInv, NEW token \in Tokens
    PROVE  LET pot == tokenRewardsPerEpoch[token]
               e == epochStart(now)
               share == [user \in Users |->
                           ShareOf(checkpoints[user], supplyCheckpoints, pot, e)]
           IN  /\ share = [user \in Users |-> Share(balanceOf[user], pot[e], totalSupply)]
               /\ share \in [Users -> Nat]
               /\ Total(share) <= pot[e]
<1> DEFINE e == epochStart(now)
           amount == tokenRewardsPerEpoch[token][e]
           share == [user \in Users |-> Share(balanceOf[user], amount, totalSupply)]
<1>1. /\ e \in Epochs /\ amount \in Nat /\ now < e + WEEK
  BY RewardTypesExpanded, EpochIsMultiple
<1>2. /\ balanceOf \in [Users -> Nat] /\ totalSupply \in Nat
      /\ totalSupply = Total(balanceOf)
  BY DEF RewardInv, Inv, StakeTypes
<1>3. /\ \A user \in Users : AtClose(checkpoints[user], e) = balanceOf[user]
      /\ AtClose(supplyCheckpoints, e) = totalSupply
  BY <1>1 DEF RewardInv, Inv, UpToDate
<1> HIDE DEF e, amount
<1>4. \A user \in Users :
        ShareOf(checkpoints[user], supplyCheckpoints, tokenRewardsPerEpoch[token], e)
          = Share(balanceOf[user], amount, totalSupply)
  BY <1>3 DEF ShareOf, amount
<1>5. ASSUME NEW user \in Users
      PROVE  /\ share[user] \in Nat
             /\ totalSupply = 0 => share[user] = 0
             /\ totalSupply # 0 => share[user] * totalSupply <= balanceOf[user] * amount
  <2>1. totalSupply = 0 => balanceOf[user] = 0
    BY <1>2, RewardAssumption, TotalZero
  <2> QED
    BY <1>1, <1>2, <2>1, ShareBounds
<1>6. share \in [Users -> Nat]
  BY <1>5
<1>7. Total(share) <= amount
  <2> HIDE DEF share
  <2>1. CASE totalSupply = 0
    <3>1. Total(share) = 0
      BY <1>5, <1>6, <2>1, RewardAssumption, TotalZero
    <3> QED
      BY <1>1, <3>1
  <2>2. CASE totalSupply # 0
    BY <1>1, <1>2, <1>5, <1>6, <2>2, RewardAssumption, PartsBelowWhole
  <2> QED
    BY <2>1, <2>2
<1> QED
  BY <1>4, <1>6, <1>7 DEF e, amount

(* When the running epoch is over its shares are due as well, and covered. *)
LEMMA LaterDues ==
    ASSUME RewardInv, NEW token \in Tokens, NEW t \in Nat,
           epochStart(now) < epochStart(t)
    PROVE  /\ \A user \in Users :
                 due(token, user, t)
                   = due(token, user, now)
                       + Share(balanceOf[user], tokenRewardsPerEpoch[token][epochStart(now)],
                               totalSupply)
           /\ Total(dues(token, t)) <= held[token]
<1> DEFINE e == epochStart(now)
           pot == tokenRewardsPerEpoch[token]
           share == [user \in Users |-> ShareOf(checkpoints[user], supplyCheckpoints, pot, e)]
<1>1. /\ share = [user \in Users |-> Share(balanceOf[user], pot[e], totalSupply)]
      /\ share \in [Users -> Nat] /\ Total(share) <= pot[e]
  BY RunningShares
<1>2. ASSUME NEW user \in Users
      PROVE  due(token, user, t) = due(token, user, now) + share[user]
  <2>1. /\ checkpoints[user] \in CheckpointLists /\ supplyCheckpoints \in CheckpointLists
        /\ pot \in [Epochs -> Nat] /\ lastEarn[token][user] \in Nat
        /\ now \in Nat /\ e \in Epochs
    BY RewardTypesExpanded
  <2>2. epochStart(lastEarn[token][user]) <= e
    BY <2>1, EpochMonotone DEF RewardInv
  <2>3. NothingAfter(pot, now)
    BY DEF RewardInv
  <2>4. Due(checkpoints[user], supplyCheckpoints, pot, lastEarn[token][user], t)
          = Due(checkpoints[user], supplyCheckpoints, pot, lastEarn[token][user], now)
              + ShareOf(checkpoints[user], supplyCheckpoints, pot, e)
    <3> HIDE DEF pot
    <3> QED
      BY <2>1, <2>2, <2>3, DueGrows
  <2> QED
    BY <2>4 DEF due
<1> HIDE DEF e, pot, share
<1>3. /\ dues(token, t) \in [Users -> Nat] /\ dues(token, now) \in [Users -> Nat]
      /\ Total(dues(token, now)) \in Nat
  BY DuesTyped
<1>4. \A user \in Users : dues(token, t)[user] = dues(token, now)[user] + share[user]
  BY <1>2 DEF dues
<1>5. Total(dues(token, t)) = Total(dues(token, now)) + Total(share)
  BY <1>1, <1>3, <1>4, RewardAssumption, TotalPlus
<1>6. Total(dues(token, now)) + pot[e] <= held[token] /\ pot[e] \in Nat /\ held[token] \in Nat
  BY RewardTypesExpanded DEF RewardInv, Covered, e, pot
<1>7. Total(share) \in Nat
  BY <1>1, RewardAssumption, TotalNat
<1> QED
  BY <1>1, <1>2, <1>3, <1>5, <1>6, <1>7 DEF e, pot

LEMMA InitRewards == Init => RewardInv
<1> SUFFICES ASSUME Init PROVE RewardInv
  OBVIOUS
<1>1. Inv
  BY InitInv
<1>2. /\ now \in BlockTimes /\ now \in Nat
      /\ checkpoints = [user \in Users |-> <<>>]
      /\ tokenRewardsPerEpoch = [token \in Tokens |-> [e \in Epochs |-> 0]]
      /\ lastEarn = [token \in Tokens |-> [user \in Users |-> 0]]
      /\ held = [token \in Tokens |-> 0]
      /\ paid = [token \in Tokens |-> [user \in Users |-> 0]]
      /\ daoFee \in Nat /\ daoFee <= FEE_DIVISOR
  BY RewardAssumption DEF Init
<1>3. RewardTypes
  BY <1>2 DEF RewardTypes
<1>4. \A token \in Tokens : NothingAfter(tokenRewardsPerEpoch[token], now)
  BY <1>2 DEF NothingAfter
<1>5. ASSUME NEW token \in Tokens
      PROVE  Total(dues(token, now)) + tokenRewardsPerEpoch[token][epochStart(now)] <= held[token]
  <2>1. ASSUME NEW user \in Users PROVE due(token, user, now) = 0
    <3> DEFINE f == [e \in Epochs |->
                       IF epochStart(lastEarn[token][user]) <= e /\ e < epochStart(now)
                         THEN ShareOf(checkpoints[user], supplyCheckpoints,
                                      tokenRewardsPerEpoch[token], e) ELSE 0]
    <3>1. ASSUME NEW e \in Epochs PROVE f[e] = 0
      <4>0. /\ checkpoints[user] = <<>> /\ supplyCheckpoints = <<>>
            /\ tokenRewardsPerEpoch[token][e] = 0
        BY <1>2 DEF Init
      <4>1. AtClose(checkpoints[user], e) = 0 /\ AtClose(supplyCheckpoints, e) = 0
        <5>1. DOMAIN <<>> = {}
          OBVIOUS
        <5> QED
          BY <4>0, <5>1 DEF AtClose
      <4> QED
        <5>1. Share(0, 0, 0) = 0
          BY ShareBounds
        <5> QED
          BY <4>0, <4>1, <5>1 DEF ShareOf
    <3>2. f \in [Epochs -> Nat]
      BY <3>1
    <3>3. due(token, user, now) = Total(f)
      BY DEF due, Due
    <3> HIDE DEF f
    <3> QED
      BY <3>1, <3>2, <3>3, EpochsFinite, TotalZero
  <2>2. dues(token, now) \in [Users -> Nat] /\ \A user \in Users : dues(token, now)[user] = 0
    BY <2>1 DEF dues
  <2>3. Total(dues(token, now)) = 0
    BY <2>2, RewardAssumption, TotalZero
  <2>4. tokenRewardsPerEpoch[token][epochStart(now)] = 0
    BY <1>2 DEF Epochs
  <2> QED
    BY <1>2, <2>3, <2>4
<1> QED
  BY <1>1, <1>2, <1>3, <1>4, <1>5 DEF RewardInv, Covered

(* A deposit or a withdrawal changes no answer for an epoch that is over.  *)
LEMMA SetStakeKeepsClosed ==
    ASSUME Inv, NEW user \in Users, NEW b \in Nat, NEW s \in Nat, SetStake(user, b, s),
           NEW e \in Epochs, e < epochStart(now)
    PROVE  /\ \A u \in Users : AtClose(checkpoints'[u], e) = AtClose(checkpoints[u], e)
           /\ AtClose(supplyCheckpoints', e) = AtClose(supplyCheckpoints, e)
<1>1. /\ now \in Nat /\ now' = now /\ totalSupply \in Nat /\ balanceOf \in [Users -> Nat]
      /\ checkpoints \in [Users -> Seq(Checkpoint)] /\ supplyCheckpoints \in Seq(Checkpoint)
  BY DEF Inv, StakeTypes, SetStake
<1>2. e + WEEK <= now
  <2>1. PICK x \in Nat : e = epochStart(x)
    BY EpochsTyped
  <2>2. e + WEEK <= epochStart(now) /\ epochStart(now) <= now
        /\ e \in Nat /\ epochStart(now) \in Nat /\ WEEK \in Nat
    BY <1>1, <2>1, EpochsApart, EpochIsMultiple, TimeAssumption
  <2> QED
    BY <1>1, <2>2
<1>3. checkpoints' = [checkpoints EXCEPT ![user] = WriteCheckpoint(checkpoints[user], now, b)]
      /\ supplyCheckpoints' = WriteCheckpoint(supplyCheckpoints, now, s)
  BY DEF SetStake
<1>4. AtClose(WriteCheckpoint(checkpoints[user], now, b), e) = AtClose(checkpoints[user], e)
  <2>1. UpToDate(checkpoints[user], balanceOf[user])
    BY DEF Inv
  <2> QED
    BY <1>1, <1>2, <2>1, WriteKeepsUpToDate
<1>5. AtClose(supplyCheckpoints', e) = AtClose(supplyCheckpoints, e)
  BY <1>1, <1>2, <1>3, WriteKeepsUpToDate DEF Inv
<1> QED
  BY <1>1, <1>3, <1>4, <1>5

LEMMA SetStakeKeepsRewards ==
    ASSUME RewardInv, Inv', NEW user \in Users, NEW b \in Nat, NEW s \in Nat,
           SetStake(user, b, s)
    PROVE  /\ RewardInv'
           /\ \A token \in Tokens, u \in Users : due(token, u, now)' = due(token, u, now)
<1>1. UNCHANGED <<now, tokenRewardsPerEpoch, isReward, held, lastEarn, paid, daoFee>>
  BY DEF SetStake, rewards, claims, settings
<1>2. ASSUME NEW token \in Tokens, NEW u \in Users PROVE due(token, u, now)' = due(token, u, now)
  <2>1. \A e \in Epochs : e < epochStart(now) =>
            /\ AtClose(checkpoints'[u], e) = AtClose(checkpoints[u], e)
            /\ AtClose(supplyCheckpoints', e) = AtClose(supplyCheckpoints, e)
    BY SetStakeKeepsClosed DEF RewardInv
  <2>2. Due(checkpoints'[u], supplyCheckpoints', tokenRewardsPerEpoch[token],
            lastEarn[token][u], now)
          = Due(checkpoints[u], supplyCheckpoints, tokenRewardsPerEpoch[token],
                lastEarn[token][u], now)
    BY <2>1, DueUnchanged
  <2> QED
    BY <1>1, <2>2 DEF due
<1>3. \A token \in Tokens : dues(token, now)' = dues(token, now)
  BY <1>2 DEF dues
<1>4. Covered'
  BY <1>1, <1>3 DEF RewardInv, Covered
<1>5. RewardTypes'
  BY <1>1 DEF RewardInv, RewardTypes
<1> QED
  BY <1>1, <1>2, <1>4, <1>5 DEF RewardInv, NothingAfter

(* A claim pays what is due and leaves nothing due.                        *)
LEMMA ClaimKeepsRewards ==
    ASSUME RewardInv, Inv', NEW user \in Users, NEW tokens \in SUBSET Tokens,
           getRewards(user, tokens)
    PROVE  /\ RewardInv'
           /\ \A token \in Tokens, u \in Users :
                 due(token, u, now)'
                   = IF token \in tokens /\ u = user THEN 0 ELSE due(token, u, now)
           /\ paid' = [token \in Tokens |-> [paid[token] EXCEPT
                 ![user] = @ + (IF token \in tokens THEN due(token, user, now) ELSE 0)]]
<1>1. UNCHANGED <<now, checkpoints, supplyCheckpoints, tokenRewardsPerEpoch, daoFee>>
  BY DEF getRewards, stakes, settings
<1>2. /\ now \in Nat /\ epochStart(now) \in Nat /\ epochStart(now) <= epochNext(now)
  BY RewardTypesExpanded, TimeAssumption DEF epochNext
<1>3. \A token \in Tokens : earned(token, user) = due(token, user, now)
  BY <1>2, EarnedDue DEF earned
<1>4. /\ \A token \in tokens : due(token, user, now) <= held[token]
      /\ lastEarn' = Claimed(user, tokens)
      /\ held' = [token \in Tokens |->
                    IF token \in tokens THEN held[token] - due(token, user, now) ELSE held[token]]
  BY <1>3 DEF getRewards
<1>5. ASSUME NEW token \in Tokens, NEW u \in Users
      PROVE  /\ lastEarn'[token][u] \in Nat /\ lastEarn'[token][u] <= now
             /\ lastEarn'[token][u]
                  = IF token \in tokens /\ u = user THEN now ELSE lastEarn[token][u]
  <2>1. lastEarn[token] \in [Users -> Nat] /\ lastEarn[token][u] <= now
    BY DEF RewardInv, RewardTypes
  <2> QED
    BY <1>2, <1>4, <2>1 DEF Claimed
<1>6. lastEarn' \in [Tokens -> [Users -> Nat]]
  <2>1. \A token \in Tokens : lastEarn[token] \in [Users -> Nat]
    BY DEF RewardInv, RewardTypes
  <2> QED
    BY <1>2, <1>4, <2>1 DEF Claimed
<1>7. ASSUME NEW token \in Tokens, NEW u \in Users
      PROVE  due(token, u, now)' = IF token \in tokens /\ u = user THEN 0 ELSE due(token, u, now)
  <2>1. CASE token \in tokens /\ u = user
    <3> DEFINE f == [e \in Epochs |->
                       IF epochStart(now) <= e /\ e < epochStart(now)
                         THEN ShareOf(checkpoints[u], supplyCheckpoints,
                                      tokenRewardsPerEpoch[token], e) ELSE 0]
    <3>1. f \in [Epochs -> Nat] /\ \A e \in Epochs : f[e] = 0
      BY <1>2, EpochsTyped
    <3>2. due(token, u, now)' = Total(f)
      BY <1>1, <1>5, <2>1 DEF due, Due
    <3> HIDE DEF f
    <3>3. Total(f) = 0
      BY <3>1, EpochsFinite, TotalZero
    <3> QED
      BY <2>1, <3>2, <3>3
  <2>2. CASE ~(token \in tokens /\ u = user)
    BY <1>1, <1>5, <2>2 DEF due
  <2> QED
    BY <2>1, <2>2
<1>8. ASSUME NEW token \in Tokens
      PROVE  /\ held'[token] \in Nat
             /\ Total(dues(token, now)') + tokenRewardsPerEpoch'[token][epochStart(now')]
                  <= held'[token]
  <2>1. /\ dues(token, now) \in [Users -> Nat] /\ Total(dues(token, now)) \in Nat
        /\ dues(token, now)[user] = due(token, user, now)
    BY DuesTyped DEF dues
  <2>2. /\ held[token] \in Nat /\ tokenRewardsPerEpoch[token][epochStart(now)] \in Nat
        /\ Total(dues(token, now)) + tokenRewardsPerEpoch[token][epochStart(now)] <= held[token]
    BY RewardTypesExpanded DEF RewardInv, Covered
  <2>3. CASE token \notin tokens
    <3>1. dues(token, now)' = dues(token, now)
      BY <1>7, <2>3 DEF dues
    <3> QED
      BY <1>1, <1>4, <2>2, <2>3, <3>1
  <2>4. CASE token \in tokens
    <3>1. dues(token, now)' = [dues(token, now) EXCEPT ![user] = 0]
      BY <1>7, <2>4 DEF dues
    <3>2. Total(dues(token, now)') = Total(dues(token, now)) - due(token, user, now)
      <4>1. Total([dues(token, now) EXCEPT ![user] = 0])
              = Total(dues(token, now)) - dues(token, now)[user] + 0
        BY <2>1, OneBalanceChanges
      <4>2. due(token, user, now) \in Nat
        BY <2>1
      <4> QED
        BY <2>1, <3>1, <4>1, <4>2
    <3>3. held'[token] = held[token] - due(token, user, now)
          /\ due(token, user, now) <= held[token] /\ due(token, user, now) \in Nat
      BY <1>4, <2>1, <2>4
    <3> QED
      BY <1>1, <2>1, <2>2, <3>2, <3>3
  <2> QED
    BY <2>3, <2>4
<1>9. held' \in [Tokens -> Nat]
  BY <1>4, <1>8
<1>10. paid' = [token \in Tokens |-> [paid[token] EXCEPT
          ![user] = @ + (IF token \in tokens THEN due(token, user, now) ELSE 0)]]
       /\ paid' \in [Tokens -> [Users -> Nat]]
  <2>1. ASSUME NEW token \in Tokens
        PROVE  /\ paid[token] \in [Users -> Nat] /\ due(token, user, now) \in Nat
               /\ paid'[token] = IF token \in tokens
                    THEN [paid[token] EXCEPT ![user] = @ + due(token, user, now)]
                    ELSE paid[token]
    <3>1. paid[token] \in [Users -> Nat]
      BY DEF RewardInv, RewardTypes
    <3>2. due(token, user, now) \in Nat
      BY DuesTyped DEF dues
    <3> QED
      BY <1>3, <3>1, <3>2 DEF getRewards
  <2>2. ASSUME NEW token \in Tokens
        PROVE  /\ paid'[token] = [paid[token] EXCEPT
                      ![user] = @ + (IF token \in tokens THEN due(token, user, now) ELSE 0)]
               /\ paid'[token] \in [Users -> Nat]
    <3>1. CASE token \in tokens
      BY <2>1, <3>1
    <3>2. CASE token \notin tokens
      <4> DEFINE g == [paid[token] EXCEPT
                        ![user] = @ + (IF token \in tokens THEN due(token, user, now) ELSE 0)]
      <4>1. paid[token] \in [Users -> Nat] /\ paid'[token] = paid[token]
        BY <2>1, <3>2
      <4>2. g \in [Users -> Nat] /\ \A u \in Users : g[u] = paid[token][u]
        BY <3>2, <4>1
      <4> HIDE DEF g
      <4>3. g = paid[token]
        BY <4>1, <4>2
      <4> QED
        BY <4>1, <4>3 DEF g
    <3> QED
      BY <3>1, <3>2
  <2>3. paid' = [token \in Tokens |-> paid'[token]]
    <3>1. paid' = [token \in Tokens |->
                     IF token \in tokens
                       THEN [paid[token] EXCEPT ![user] = @ + earned(token, user)]
                       ELSE paid[token]]
      BY DEF getRewards
    <3> QED
      BY <3>1
  <2> QED
    BY <2>2, <2>3
<1>11. RewardTypes'
  BY <1>1, <1>6, <1>9, <1>10 DEF RewardInv, RewardTypes
<1>12. Covered'
  BY <1>8 DEF Covered
<1>13. \A token \in Tokens : NothingAfter(tokenRewardsPerEpoch[token], now)'
  BY <1>1 DEF RewardInv, NothingAfter
<1>14. \A token \in Tokens, u \in Users : lastEarn'[token][u] <= now'
  BY <1>1, <1>5
<1> QED
  BY <1>7, <1>10, <1>11, <1>12, <1>13, <1>14 DEF RewardInv

(* The DAO's share of a reward is part of it, as its fee is at most whole. *)
LEMMA DaoShareBounds ==
    ASSUME daoFee \in Nat, daoFee <= FEE_DIVISOR, NEW amount \in Nat
    PROVE  DaoShare(amount) \in Nat /\ DaoShare(amount) <= amount
<1> DEFINE s == DaoShare(amount)
           k == FEE_DIVISOR
<1>1. k \in Nat /\ k # 0
  BY RewardAssumption
<1>2. s = Share(amount, daoFee, k)
  BY <1>1 DEF DaoShare, Share, AtLeastOne
<1>3. s \in Nat /\ s * k <= amount * daoFee
  BY <1>1, <1>2, ShareBounds
<1> HIDE DEF s, k
<1>4. PICK c \in Nat : k = daoFee + c
  <2>1. k - daoFee \in Nat /\ k = daoFee + (k - daoFee)
    BY <1>1 DEF k
  <2> QED
    BY <2>1
<1>5. amount * k = amount * daoFee + amount * c /\ amount * c \in Nat /\ amount * daoFee \in Nat
  BY <1>4
<1>6. CASE amount < s
  <2>1. PICK d \in Nat : s = amount + 1 + d
    <3>1. s - amount - 1 \in Nat /\ s = amount + 1 + (s - amount - 1)
      BY <1>3, <1>6
    <3> QED
      BY <3>1
  <2>2. s * k = amount * k + k + d * k /\ d * k \in Nat /\ amount * k \in Nat
    BY <1>1, <2>1
  <2> QED
    BY <1>1, <1>3, <1>5, <2>2
<1> QED
  BY <1>3, <1>6 DEF s

(* A reward raises the running pot and the balance by the same amount.     *)
LEMMA NotifyKeepsRewards ==
    ASSUME RewardInv, Inv', NEW token \in Tokens, NEW amount \in Nat,
           _notifyRewardAmount(token, amount)
    PROVE  /\ RewardInv'
           /\ \A x \in Tokens, u \in Users : due(x, u, now)' = due(x, u, now)
           /\ \A x \in Tokens :
                 tokenRewardsPerEpoch'[x][epochStart(now)]
                   = tokenRewardsPerEpoch[x][epochStart(now)]
                       + (IF x = token THEN Credited(amount) ELSE 0)
           /\ Credited(amount) \in Nat
<1> DEFINE e0 == epochStart(now)
           c == Credited(amount)
<1>1. UNCHANGED <<now, checkpoints, supplyCheckpoints, lastEarn, paid, daoFee>>
  BY DEF _notifyRewardAmount, stakes, claims, settings
<1>2. /\ tokenRewardsPerEpoch' = [tokenRewardsPerEpoch EXCEPT ![token][e0] = @ + c]
      /\ held' = [held EXCEPT ![token] = @ + amount - DaoShare(amount)]
  BY DEF _notifyRewardAmount
<1>3. c \in Nat /\ \A n \in Nat : n + amount - DaoShare(amount) = n + c
  <2>1. DaoShare(amount) \in Nat /\ DaoShare(amount) <= amount
    BY DaoShareBounds DEF RewardInv, RewardTypes
  <2> QED
    BY <2>1 DEF Credited
<1>4. /\ e0 \in Nat /\ e0 \in Epochs
      /\ tokenRewardsPerEpoch \in [Tokens -> [Epochs -> Nat]]
      /\ held \in [Tokens -> Nat]
  BY RewardTypesExpanded DEF RewardInv, RewardTypes
<1> HIDE DEF c, e0
<1>5. ASSUME NEW x \in Tokens
      PROVE  /\ held'[x] = held[x] + (IF x = token THEN c ELSE 0)
             /\ tokenRewardsPerEpoch'[x] \in [Epochs -> Nat]
             /\ tokenRewardsPerEpoch'[x][e0]
                  = tokenRewardsPerEpoch[x][e0] + (IF x = token THEN c ELSE 0)
             /\ \A e \in Epochs : e # e0 =>
                  tokenRewardsPerEpoch'[x][e] = tokenRewardsPerEpoch[x][e]
  <2>1. held[x] \in Nat /\ tokenRewardsPerEpoch[x] \in [Epochs -> Nat]
    BY <1>4
  <2>2. CASE x = token
    <3>1. tokenRewardsPerEpoch'[x] = [tokenRewardsPerEpoch[x] EXCEPT ![e0] = @ + c]
      BY <1>2, <1>4, <2>2
    <3>2. held'[x] = held[x] + amount - DaoShare(amount)
      BY <1>2, <1>4, <2>2
    <3> QED
      BY <1>3, <1>4, <2>1, <2>2, <3>1, <3>2
  <2>3. CASE x # token
    <3>1. tokenRewardsPerEpoch'[x] = tokenRewardsPerEpoch[x] /\ held'[x] = held[x]
      BY <1>2, <1>4, <2>3
    <3>2. tokenRewardsPerEpoch[x][e0] \in Nat
      BY <1>4, <2>1
    <3> QED
      BY <2>1, <2>3, <3>1, <3>2
  <2> QED
    BY <2>2, <2>3
<1>6. RewardTypes'
  <2>1. tokenRewardsPerEpoch' \in [Tokens -> [Epochs -> Nat]]
    <3>1. tokenRewardsPerEpoch' = [x \in Tokens |-> tokenRewardsPerEpoch'[x]]
      BY <1>2, <1>4
    <3> QED
      BY <1>5, <3>1
  <2>2. held' \in [Tokens -> Nat]
    <3>1. held' = [x \in Tokens |-> held'[x]]
      BY <1>2, <1>4
    <3>2. \A x \in Tokens : held'[x] \in Nat
      BY <1>3, <1>4, <1>5
    <3> QED
      BY <3>1, <3>2
  <2> QED
    BY <1>1, <2>1, <2>2 DEF RewardInv, RewardTypes
<1>7. ASSUME NEW x \in Tokens, NEW u \in Users PROVE due(x, u, now)' = due(x, u, now)
  <2> DEFINE f(pot) == [e \in Epochs |->
                          IF epochStart(lastEarn[x][u]) <= e /\ e < e0
                            THEN ShareOf(checkpoints[u], supplyCheckpoints, pot, e) ELSE 0]
  <2>1. \A e \in Epochs : e < e0 =>
            ShareOf(checkpoints[u], supplyCheckpoints, tokenRewardsPerEpoch'[x], e)
              = ShareOf(checkpoints[u], supplyCheckpoints, tokenRewardsPerEpoch[x], e)
    BY <1>4, <1>5 DEF ShareOf
  <2>2. f(tokenRewardsPerEpoch'[x]) = f(tokenRewardsPerEpoch[x])
    BY <2>1
  <2>3. due(x, u, now)' = Total(f(tokenRewardsPerEpoch'[x]))
        /\ due(x, u, now) = Total(f(tokenRewardsPerEpoch[x]))
    BY <1>1 DEF due, Due, e0
  <2> QED
    BY <2>2, <2>3
<1>8. Covered'
  <2> SUFFICES ASSUME NEW x \in Tokens
               PROVE  Total(dues(x, now)') + tokenRewardsPerEpoch'[x][e0] <= held'[x]
    BY <1>1 DEF Covered, e0
  <2>1. dues(x, now)' = dues(x, now)
    BY <1>7 DEF dues
  <2>2. Total(dues(x, now)) + tokenRewardsPerEpoch[x][e0] <= held[x]
        /\ Total(dues(x, now)) \in Nat
    BY DuesTyped DEF RewardInv, Covered, e0
  <2>3. held[x] \in Nat /\ tokenRewardsPerEpoch[x][e0] \in Nat
    BY <1>4
  <2> QED
    BY <1>3, <1>5, <2>1, <2>2, <2>3
<1>9. \A x \in Tokens : NothingAfter(tokenRewardsPerEpoch[x], now)'
  <2> SUFFICES ASSUME NEW x \in Tokens, NEW e \in Epochs, e0 < e
               PROVE  tokenRewardsPerEpoch'[x][e] = 0
    BY <1>1 DEF NothingAfter, e0
  <2>1. tokenRewardsPerEpoch[x][e] = 0
    BY DEF RewardInv, NothingAfter, e0
  <2> QED
    BY <1>4, <1>5, <2>1
<1>10. \A x \in Tokens, u \in Users : lastEarn'[x][u] <= now'
  BY <1>1 DEF RewardInv
<1>11. RewardInv'
  BY <1>6, <1>8, <1>9, <1>10 DEF RewardInv
<1> QED
  BY <1>3, <1>5, <1>7, <1>11 DEF c, e0

(* The settings move no rewards.                                           *)
LEMMA SettingsKeepRewards ==
    ASSUME RewardInv, Inv', UNCHANGED <<now, stakes, rewards, claims>>,
           daoFee' \in Nat, daoFee' <= FEE_DIVISOR
    PROVE  RewardInv'
BY DEF RewardInv, RewardTypes, NothingAfter, Covered, dues, due, stakes, rewards, claims

(* A block of a later epoch makes the shares of the running one due, and   *)
(* begins with an empty pot.                                               *)
LEMMA NextBlockKeepsRewards ==
    ASSUME RewardInv, Inv', NextBlock
    PROVE  RewardInv'
<1>1. /\ now' \in BlockTimes /\ now' \in Nat /\ now \in Nat /\ now < now'
      /\ UNCHANGED <<checkpoints, supplyCheckpoints, tokenRewardsPerEpoch, held, lastEarn,
                     paid, daoFee>>
  BY RewardTypesExpanded, RewardAssumption DEF NextBlock, stakes, rewards, claims, settings
<1>2. /\ epochStart(now) \in Nat /\ epochStart(now') \in Nat
      /\ epochStart(now) <= epochStart(now')
      /\ epochStart(now') \in Epochs
  BY <1>1, EpochMonotone, EpochIsMultiple DEF Epochs
<1>3. RewardTypes'
  BY <1>1 DEF RewardInv, RewardTypes
<1>4. \A token \in Tokens, user \in Users : lastEarn'[token][user] <= now'
  <2> SUFFICES ASSUME NEW token \in Tokens, NEW user \in Users
               PROVE  lastEarn[token][user] <= now'
    BY <1>1
  <2>1. lastEarn[token][user] \in Nat /\ lastEarn[token][user] <= now
    BY RewardTypesExpanded DEF RewardInv
  <2> QED
    BY <1>1, <2>1
<1>5. \A token \in Tokens : NothingAfter(tokenRewardsPerEpoch[token], now)'
  <2> SUFFICES ASSUME NEW token \in Tokens, NEW e \in Epochs, epochStart(now') < e
               PROVE  tokenRewardsPerEpoch[token][e] = 0
    BY <1>1 DEF NothingAfter
  <2>1. epochStart(now) < e
    BY <1>2, EpochsTyped
  <2> QED
    BY <2>1 DEF RewardInv, NothingAfter
<1>6. ASSUME NEW token \in Tokens
      PROVE  Total(dues(token, now)') + tokenRewardsPerEpoch[token][epochStart(now')]
               <= held[token]
  <2>1. dues(token, now)' = dues(token, now')
    BY <1>1 DEF dues, due
  <2>2. CASE epochStart(now) = epochStart(now')
    <3>1. dues(token, now') = dues(token, now)
      BY <2>2 DEF dues, due, Due
    <3> QED
      BY <2>1, <2>2, <3>1 DEF RewardInv, Covered
  <2>3. CASE epochStart(now) < epochStart(now')
    <3>1. Total(dues(token, now')) <= held[token] /\ Total(dues(token, now')) \in Nat
      BY <1>1, <2>3, LaterDues, DuesTyped
    <3>2. tokenRewardsPerEpoch[token][epochStart(now')] = 0
      BY <1>2, <2>3 DEF RewardInv, NothingAfter
    <3>3. held[token] \in Nat
      BY RewardTypesExpanded
    <3> QED
      BY <2>1, <3>1, <3>2, <3>3
  <2> QED
    BY <1>2, <2>2, <2>3
<1>7. Covered'
  BY <1>1, <1>6 DEF Covered
<1> QED
  BY <1>3, <1>4, <1>5, <1>7 DEF RewardInv

(* The two calls of the Voter, as writes of new balances.                  *)
LEMMA StakingSets ==
    ASSUME Inv, Staking
    PROVE  \E user \in Users : \E b \in Nat, s \in Nat : SetStake(user, b, s)
<1>1. totalSupply \in Nat /\ balanceOf \in [Users -> Nat] /\ Votes \subseteq Nat
  BY RewardAssumption DEF Inv, StakeTypes
<1>2. PICK user \in Users : \E amount \in Votes : _deposit(amount, user) \/ _withdraw(amount, user)
  BY DEF Staking
<1>3. PICK amount \in Votes : _deposit(amount, user) \/ _withdraw(amount, user)
  BY <1>2
<1>4. CASE _deposit(amount, user)
  <2>1. balanceOf[user] + amount \in Nat /\ totalSupply + amount \in Nat
    BY <1>1
  <2> QED
    BY <1>4, <2>1 DEF _deposit
<1>5. CASE _withdraw(amount, user)
  <2>1. balanceOf[user] - amount \in Nat /\ totalSupply - amount \in Nat
    BY <1>1, <1>5 DEF _withdraw
  <2> QED
    BY <1>5, <2>1 DEF _withdraw
<1> QED
  BY <1>3, <1>4, <1>5

LEMMA FundingNotifies ==
    ASSUME Funding
    PROVE  \E token \in Tokens : \E amount \in Rewards : _notifyRewardAmount(token, amount)
BY DEF Funding, notifyBribe, notifyFees

(* The owner's, the council's and the bribers' settings, and stuttering.   *)
LEMMA SettingsMoveNothing ==
    ASSUME RewardInv, Settings \/ UNCHANGED vars
    PROVE  UNCHANGED <<now, stakes, rewards, claims>> /\ daoFee' \in Nat /\ daoFee' <= FEE_DIVISOR
<1>1. daoFee \in Nat /\ daoFee <= FEE_DIVISOR /\ DaoFees \subseteq Nat
  BY RewardAssumption DEF RewardInv, RewardTypes
<1>2. ASSUME NEW fee \in DaoFees, setDaoFee(fee)
      PROVE  UNCHANGED <<now, stakes, rewards, claims>> /\ daoFee' \in Nat /\ daoFee' <= FEE_DIVISOR
  BY <1>1, <1>2 DEF setDaoFee
<1>3. ASSUME NEW flag, authorizeVote(flag)
      PROVE  UNCHANGED <<now, stakes, rewards, claims, daoFee>>
  BY <1>3 DEF authorizeVote
<1>4. ASSUME NEW token, NEW flag, whitelistBribeToken(token, flag)
      PROVE  UNCHANGED <<now, stakes, rewards, claims, daoFee>>
  BY <1>4 DEF whitelistBribeToken
<1>5. ASSUME UNCHANGED vars PROVE UNCHANGED <<now, stakes, rewards, claims, daoFee>>
  BY <1>5 DEF vars, settings
<1> QED
  BY <1>1, <1>2, <1>3, <1>4, <1>5 DEF Settings

LEMMA NextRewards == RewardInv /\ [Next]_vars => RewardInv'
<1> SUFFICES ASSUME RewardInv, [Next]_vars PROVE RewardInv'
  OBVIOUS
<1>1. Inv'
  BY NextInv DEF RewardInv
<1>2. CASE Staking
  <2>1. PICK user \in Users : \E b \in Nat, s \in Nat : SetStake(user, b, s)
    BY <1>2, StakingSets DEF RewardInv
  <2> QED
    BY <1>1, <2>1, SetStakeKeepsRewards
<1>3. CASE Claiming
  <2>1. PICK user \in Users : \E tokens \in SUBSET Tokens : getRewards(user, tokens)
    BY <1>3 DEF Claiming
  <2> QED
    BY <1>1, <2>1, ClaimKeepsRewards
<1>4. CASE Funding
  <2>1. PICK token \in Tokens : \E amount \in Rewards : _notifyRewardAmount(token, amount)
    BY <1>4, FundingNotifies
  <2> QED
    BY <1>1, <2>1, RewardAssumption, NotifyKeepsRewards
<1>5. CASE Settings \/ UNCHANGED vars
  BY <1>1, <1>5, SettingsMoveNothing, SettingsKeepRewards
<1>6. CASE NextBlock
  BY <1>1, <1>6, NextBlockKeepsRewards
<1> QED
  BY <1>2, <1>3, <1>4, <1>5, <1>6 DEF Next

LEMMA RewardInvSolvent == RewardInv => Solvent
<1> SUFFICES ASSUME RewardInv, NEW token \in Tokens
             PROVE  Total([user \in Users |->
                       Earned(checkpoints[user], supplyCheckpoints, tokenRewardsPerEpoch[token],
                              lastEarn[token][user], epochNext(now))])
                      <= held[token]
  BY DEF Solvent
<1>1. /\ epochNext(now) \in Nat /\ epochStart(epochNext(now)) = epochNext(now)
      /\ epochStart(now) < epochStart(epochNext(now))
  <2>1. epochStart(now) \in Nat /\ WEEK \in Nat /\ WEEK > 0 /\ now \in Nat
    BY RewardTypesExpanded, TimeAssumption
  <2>2. epochStart(epochNext(now)) = epochNext(now)
    BY <2>1, StartIsStart
  <2> QED
    BY <2>1, <2>2 DEF epochNext
<1>2. \A user \in Users :
        Earned(checkpoints[user], supplyCheckpoints, tokenRewardsPerEpoch[token],
               lastEarn[token][user], epochNext(now)) = due(token, user, epochNext(now))
  BY <1>1, EarnedDue
<1>3. [user \in Users |->
         Earned(checkpoints[user], supplyCheckpoints, tokenRewardsPerEpoch[token],
                lastEarn[token][user], epochNext(now))] = dues(token, epochNext(now))
  BY <1>2 DEF dues
<1> QED
  BY <1>1, <1>3, LaterDues

(* The lists the search is given are in order: what it assumes of them     *)
(* (SearchAssumption) holds of every list the contract ever writes.        *)
THEOREM ListsInOrder ==
    Spec => [](Increasing(supplyCheckpoints) /\ \A user \in Users : Increasing(checkpoints[user]))
<1>1. Spec => []Inv
  BY InitInv, NextInv, PTL DEF Spec
<1>2. Inv => Increasing(supplyCheckpoints) /\ \A user \in Users : Increasing(checkpoints[user])
  BY DEF Inv, UpToDate
<1> QED
  BY <1>1, <1>2, PTL

(* For any users, tokens, amounts and block times, the tokens held cover   *)
(* what every claim still open will pay once the running epoch is over:    *)
(* getReward never lacks the tokens that earned promises, however late and *)
(* in whatever order the users claim (VotingReward.earned, getReward and   *)
(* notifyRewardAmount of its children).                                    *)
THEOREM AlwaysSolvent == Spec => []Solvent
<1>1. Spec => []RewardInv
  BY InitRewards, NextRewards, PTL DEF Spec
<1> QED
  BY <1>1, RewardInvSolvent, PTL

(* ----------------------- the ledger is implemented --------------------- *)

LEMMA LedgerTotal == ASSUME NEW f PROVE Ledger!Total(f) = Total(f)
BY DEF Ledger!Total, Total, Ledger!Units, Units, Ledger!Cardinality, Cardinality

(* The ledger's variables, as the contract's.                              *)
owes == [token \in Tokens |-> [user \in Users |-> earned(token, user)]]

pots == [token \in Tokens |-> tokenRewardsPerEpoch[token][epochStart(now)]]

dueNow == [token \in Tokens |-> [user \in Users |-> due(token, user, now)]]

LEMMA OwesDue == RewardInv => owes = dueNow
<1> SUFFICES ASSUME RewardInv PROVE owes = dueNow
  OBVIOUS
<1>1. epochStart(now) <= epochNext(now) /\ now \in Nat
  BY RewardTypesExpanded, TimeAssumption DEF epochNext
<1>2. \A token \in Tokens, user \in Users : earned(token, user) = due(token, user, now)
  BY <1>1, EarnedDue DEF earned
<1> QED
  BY <1>2 DEF owes, dueNow

LEMMA OwesDuePrimed == RewardInv' => owes' = dueNow'
<1>1. (RewardInv => owes = dueNow)'
  BY OwesDue, PTL
<1> QED
  BY <1>1

LEMMA LedgerInit == Init => Ledger!Init
<1> SUFFICES ASSUME Init PROVE Ledger!Init
  OBVIOUS
<1>1. /\ now \in BlockTimes /\ now \in Nat /\ epochStart(now) \in Nat /\ epochStart(now) \in Epochs
      /\ balanceOf = [user \in Users |-> 0]
      /\ checkpoints = [user \in Users |-> <<>>]
      /\ tokenRewardsPerEpoch = [token \in Tokens |-> [e \in Epochs |-> 0]]
      /\ paid = [token \in Tokens |-> [user \in Users |-> 0]]
  BY RewardAssumption, EpochIsMultiple DEF Init, Epochs
<1>2. \A token \in Tokens, user \in Users : earned(token, user) = 0
  BY <1>1 DEF earned, Earned
<1>3. owes = [token \in Tokens |-> [user \in Users |-> 0]]
  BY <1>2 DEF owes
<1>4. pots = [token \in Tokens |-> 0]
  BY <1>1 DEF pots
<1> QED
  BY <1>1, <1>3, <1>4 DEF Ledger!Init, owes, pots

(* A deposit or a withdrawal moves one stake.                              *)
LEMMA LedgerStake ==
    ASSUME RewardInv, Inv', NEW user \in Users, NEW b \in Nat, NEW s \in Nat,
           SetStake(user, b, s)
    PROVE  Ledger!Stake(user)
<1>1. /\ UNCHANGED <<now, tokenRewardsPerEpoch, paid>>
      /\ balanceOf' = [balanceOf EXCEPT ![user] = b]
      /\ balanceOf \in [Users -> Nat]
  BY DEF SetStake, rewards, claims, RewardInv, Inv, StakeTypes
<1>2. balanceOf'[user] \in Nat /\ balanceOf' = [balanceOf EXCEPT ![user] = balanceOf'[user]]
  BY <1>1
<1>3. owes' = owes
  <2>1. dueNow' = dueNow
    BY SetStakeKeepsRewards DEF dueNow
  <2> QED
    BY <2>1, SetStakeKeepsRewards, OwesDue, OwesDuePrimed
<1> QED
  BY <1>1, <1>2, <1>3 DEF Ledger!Stake, owes

(* A claim pays what the ledger owes and leaves nothing owed.              *)
LEMMA LedgerClaim ==
    ASSUME RewardInv, Inv', NEW user \in Users, NEW tokens \in SUBSET Tokens,
           getRewards(user, tokens)
    PROVE  Ledger!Claim(user, tokens)
<1>1. /\ UNCHANGED <<now, balanceOf, tokenRewardsPerEpoch>>
  BY DEF getRewards, stakes
<1>2. owes = dueNow /\ owes' = dueNow'
  BY ClaimKeepsRewards, OwesDue, OwesDuePrimed
<1>3. owes' = [token \in Tokens |-> [owes[token] EXCEPT
                 ![user] = IF token \in tokens THEN 0 ELSE @]]
  <2>1. ASSUME NEW token \in Tokens
        PROVE  dueNow'[token] = [dueNow[token] EXCEPT
                 ![user] = IF token \in tokens THEN 0 ELSE @]
    <3>1. \A u \in Users : due(token, u, now)'
            = IF token \in tokens /\ u = user THEN 0 ELSE due(token, u, now)
      BY ClaimKeepsRewards
    <3>2. dueNow'[token] = [u \in Users |-> due(token, u, now)']
          /\ dueNow[token] = [u \in Users |-> due(token, u, now)]
      BY DEF dueNow
    <3> QED
      BY <3>1, <3>2
  <2>2. dueNow' = [token \in Tokens |-> dueNow'[token]]
    BY DEF dueNow
  <2> QED
    BY <1>2, <2>1, <2>2
<1>4. paid' = [token \in Tokens |-> [paid[token] EXCEPT
                 ![user] = @ + (IF token \in tokens THEN owes[token][user] ELSE 0)]]
  <2>1. \A token \in Tokens : owes[token][user] = due(token, user, now)
    BY <1>2 DEF dueNow
  <2>2. paid' = [token \in Tokens |-> [paid[token] EXCEPT
                  ![user] = @ + (IF token \in tokens THEN due(token, user, now) ELSE 0)]]
    BY ClaimKeepsRewards
  <2> QED
    BY <2>1, <2>2
<1> QED
  BY <1>1, <1>3, <1>4 DEF Ledger!Claim, owes

(* A reward, less the DAO's share, goes to the pot.                        *)
LEMMA LedgerFund ==
    ASSUME RewardInv, Inv', NEW token \in Tokens, NEW amount \in Nat,
           _notifyRewardAmount(token, amount)
    PROVE  Ledger!Fund(token)
<1>1. UNCHANGED <<now, balanceOf, paid>>
  BY DEF _notifyRewardAmount, stakes, claims
<1>2. owes' = owes
  <2>1. dueNow' = dueNow
    BY NotifyKeepsRewards DEF dueNow
  <2> QED
    BY <2>1, NotifyKeepsRewards, OwesDue, OwesDuePrimed
<1>3. \A x \in Tokens :
        /\ pots[x] \in Nat /\ pots'[x] = pots[x] + (IF x = token THEN Credited(amount) ELSE 0)
        /\ Credited(amount) \in Nat
  <2>1. \A x \in Tokens : tokenRewardsPerEpoch[x][epochStart(now)] \in Nat
    BY RewardTypesExpanded
  <2> QED
    BY <1>1, <2>1, NotifyKeepsRewards DEF pots
<1>4. pots' = [pots EXCEPT ![token] = pots'[token]]
  <2>1. pots = [x \in Tokens |-> pots[x]] /\ pots' = [x \in Tokens |-> pots'[x]]
    BY DEF pots
  <2>2. \A x \in Tokens : x # token => pots'[x] = pots[x]
    BY <1>3
  <2> QED
    BY <2>1, <2>2
<1>5. pots'[token] \in Nat /\ pots[token] <= pots'[token]
  BY <1>3
<1> QED
  BY <1>1, <1>2, <1>4, <1>5 DEF Ledger!Fund, owes, pots

(* A block of the same epoch changes nothing the ledger sees; one of a     *)
(* later epoch settles the pots.                                           *)
LEMMA LedgerSettle ==
    ASSUME RewardInv, Inv', NextBlock
    PROVE  Ledger!Settle \/ UNCHANGED Ledger!lvars
<1>1. /\ now' \in BlockTimes /\ now' \in Nat /\ now \in Nat /\ now < now'
      /\ UNCHANGED <<balanceOf, checkpoints, supplyCheckpoints, tokenRewardsPerEpoch, lastEarn,
                     paid>>
  BY RewardTypesExpanded, RewardAssumption DEF NextBlock, stakes, rewards, claims
<1>2. /\ epochStart(now) \in Nat /\ epochStart(now') \in Nat
      /\ epochStart(now) <= epochStart(now')
      /\ epochStart(now') \in Epochs
  BY <1>1, EpochMonotone, EpochIsMultiple DEF Epochs
<1>3. owes = dueNow /\ owes' = dueNow'
  BY NextBlockKeepsRewards, OwesDue, OwesDuePrimed
<1>4. dueNow' = [token \in Tokens |-> [user \in Users |-> due(token, user, now')]]
  BY <1>1 DEF dueNow, due
<1>5. CASE epochStart(now) = epochStart(now')
  <2>1. \A token \in Tokens, user \in Users : due(token, user, now') = due(token, user, now)
    BY <1>5 DEF due, Due
  <2>2. owes' = owes
    BY <1>3, <1>4, <2>1 DEF dueNow
  <2>3. pots' = pots
    BY <1>1, <1>5 DEF pots
  <2> QED
    BY <1>1, <1>5, <2>2, <2>3 DEF Ledger!lvars, owes, pots
<1>6. CASE epochStart(now) < epochStart(now')
  <2>1. ASSUME NEW token \in Tokens, NEW user \in Users
        PROVE  due(token, user, now') = due(token, user, now) + Ledger!Portion(token, user)
    <3> DEFINE amount == tokenRewardsPerEpoch[token][epochStart(now)]
    <3>1. due(token, user, now')
            = due(token, user, now) + Share(balanceOf[user], amount, totalSupply)
      BY <1>1, <1>6, LaterDues
    <3>2. /\ Ledger!Total(balanceOf) = totalSupply /\ totalSupply \in Nat
          /\ amount \in Nat /\ balanceOf \in [Users -> Nat]
          /\ totalSupply = Total(balanceOf)
      BY LedgerTotal, RewardTypesExpanded DEF RewardInv, Inv, StakeTypes
    <3>3. Ledger!Portion(token, user)
            = IF totalSupply = 0 THEN 0 ELSE (balanceOf[user] * amount) \div totalSupply
      BY <3>2 DEF Ledger!Portion
    <3> HIDE DEF amount
    <3>4. CASE totalSupply = 0
      <4>1. balanceOf[user] = 0
        BY <3>2, <3>4, RewardAssumption, TotalZero
      <4>2. Share(balanceOf[user], amount, totalSupply) = 0
        BY <3>2, <4>1, ShareBounds
      <4> QED
        BY <3>1, <3>3, <3>4, <4>2
    <3>5. CASE totalSupply # 0
      BY <3>1, <3>3, <3>5 DEF Share, AtLeastOne
    <3> QED
      BY <3>4, <3>5
  <2>2. owes' = [token \in Tokens |-> [user \in Users |->
                   owes[token][user] + Ledger!Portion(token, user)]]
    <3>1. \A token \in Tokens, user \in Users : owes[token][user] = due(token, user, now)
      BY <1>3 DEF dueNow
    <3> QED
      BY <1>3, <1>4, <2>1, <3>1
  <2>3. pots' = [token \in Tokens |-> 0]
    <3>1. \A token \in Tokens : tokenRewardsPerEpoch[token][epochStart(now')] = 0
      BY <1>2, <1>6 DEF RewardInv, NothingAfter
    <3> QED
      BY <1>1, <3>1 DEF pots
  <2> QED
    BY <1>1, <1>2, <1>6, <2>2, <2>3 DEF Ledger!Settle, owes, pots
<1> QED
  BY <1>2, <1>5, <1>6

(* Settings are none of the ledger's business.                             *)
LEMMA LedgerStutters ==
    ASSUME UNCHANGED <<now, stakes, rewards, claims>>
    PROVE  UNCHANGED Ledger!lvars
BY DEF stakes, rewards, claims, Ledger!lvars, earned

LEMMA LedgerNext == RewardInv /\ [Next]_vars => [Ledger!Next]_Ledger!lvars
<1> SUFFICES ASSUME RewardInv, [Next]_vars PROVE [Ledger!Next]_Ledger!lvars
  OBVIOUS
<1>1. Inv'
  BY NextInv DEF RewardInv
<1>2. CASE Staking
  <2>1. PICK user \in Users : \E b \in Nat, s \in Nat : SetStake(user, b, s)
    BY <1>2, StakingSets DEF RewardInv
  <2>2. Ledger!Stake(user)
    BY <1>1, <2>1, LedgerStake
  <2> QED
    BY <2>2 DEF Ledger!Next
<1>3. CASE Claiming
  <2>1. PICK user \in Users : \E tokens \in SUBSET Tokens : getRewards(user, tokens)
    BY <1>3 DEF Claiming
  <2>2. PICK tokens \in SUBSET Tokens : Ledger!Claim(user, tokens)
    BY <1>1, <2>1, LedgerClaim
  <2> QED
    BY <2>2 DEF Ledger!Next
<1>4. CASE Funding
  <2>1. PICK token \in Tokens : \E amount \in Rewards : _notifyRewardAmount(token, amount)
    BY <1>4, FundingNotifies
  <2>2. Ledger!Fund(token)
    BY <1>1, <2>1, RewardAssumption, LedgerFund
  <2> QED
    BY <2>2 DEF Ledger!Next
<1>5. CASE Settings \/ UNCHANGED vars
  BY <1>5, SettingsMoveNothing, LedgerStutters
<1>6. CASE NextBlock
  BY <1>1, <1>6, LedgerSettle DEF Ledger!Next
<1> QED
  BY <1>2, <1>3, <1>4, <1>5, <1>6 DEF Next

(* The contract, which keeps checkpoints and searches them when a user     *)
(* claims, implements the ledger that divides every pot in proportion to   *)
(* the stakes at the moment its epoch ends: what earned returns is what    *)
(* the ledger owes, a claim pays exactly that, once, and no deposit,       *)
(* withdrawal or reward of a later epoch changes it.                       *)
THEOREM LedgerImplemented == Spec => ImplementsLedger
<1>1. Spec => []RewardInv
  BY InitRewards, NextRewards, PTL DEF Spec
<1>2. Init => Ledger!Init
  BY LedgerInit
<1>3. RewardInv /\ [Next]_vars => [Ledger!Next]_Ledger!lvars
  BY LedgerNext
<1> QED
  BY <1>1, <1>2, <1>3, PTL DEF Spec, ImplementsLedger, Ledger!Spec

=============================================================================
