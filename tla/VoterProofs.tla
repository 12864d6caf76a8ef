----------------------------- MODULE VoterProofs -----------------------------
(***************************************************************************)
(* The Voter's books agree with each other and with the reward contracts   *)
(* for any number of users and pools, any ballots and any balances.        *)
(*                                                                         *)
(* The books are only right together.  A pool's weight is the sum of its   *)
(* votes because _reset takes off all of a user's votes; it does because   *)
(* poolVote lists exactly the pools that have some; and what it withdraws  *)
(* from the reward contracts is there because they mirror the votes.  So   *)
(* Inv, the conjunction of the four invariants, is the inductive one.      *)
(***************************************************************************)
EXTENDS Voter, UnitSumProofs

Inv == TypeOK /\ BooksBalance /\ RewardsMirrorVotes /\ PoolVoteExact

(* _reset takes off everything the user has on the pools.                  *)
LEMMA ResetRemovesAll ==
    ASSUME Inv, NEW u \in Users
    PROVE  /\ \A p \in Pools : Removed(u, p) = votes[u][p] /\ Residual(u, p) = 0
           /\ RemovedTotal(u) = usedWeights[u]
<1>1. votes[u] \in [Pools -> Nat]
  BY DEF Inv, TypeOK
<1>2. ASSUME NEW p \in Pools PROVE Removed(u, p) = votes[u][p] /\ Residual(u, p) = 0
  <2>1. votes[u][p] \in Nat /\ (votes[u][p] > 0 <=> p \in Listed(poolVote[u]))
    BY <1>1 DEF Inv, PoolVoteExact
  <2> QED
    BY <2>1 DEF Removed, Residual
<1>3. [p \in Pools |-> Removed(u, p)] = votes[u]
  BY <1>1, <1>2
<1> QED
  BY <1>2, <1>3 DEF RemovedTotal, Inv, BooksBalance

(* No subtraction of _reset underflows.                                    *)
LEMMA ResetNeverReverts ==
    ASSUME Inv, NEW u \in Users
    PROVE  ResetSucceeds(u)
<1>1. /\ IsFiniteSet(Users)
      /\ \A p \in Pools : [v \in Users |-> votes[v][p]] \in [Users -> Nat]
      /\ usedWeights \in [Users -> Nat]
  BY VoterAssumption DEF Inv, TypeOK
<1>2. ASSUME NEW p \in Pools PROVE Removed(u, p) <= weights[p]
  <2>1. [v \in Users |-> votes[v][p]][u] <= Total([v \in Users |-> votes[v][p]])
    BY <1>1, TermBelowTotal
  <2> QED
    BY <2>1, ResetRemovesAll DEF Inv, BooksBalance
<1>3. ASSUME NEW p \in Pools, NEW k \in Kinds
      PROVE  /\ Withdrawn(<<k, p>>, u) <= rewardBalance[<<k, p>>][u]
             /\ Withdrawn(<<k, p>>, u) <= rewardSupply[<<k, p>>]
  <2>1. <<k, p>> \in RewardContracts
    BY DEF RewardContracts
  <2>2. rewardBalance[<<k, p>>][u] = votes[u][p] /\ rewardSupply[<<k, p>>] = weights[p]
    BY <2>1 DEF Inv, RewardsMirrorVotes
  <2>3. Withdrawn(<<k, p>>, u) = votes[u][p] /\ votes[u][p] \in Nat
    BY ResetRemovesAll DEF Withdrawn, Inv, TypeOK
  <2> QED
    BY <1>2, <2>2, <2>3, ResetRemovesAll
<1>4. RemovedTotal(u) <= totalWeight
  BY <1>1, TermBelowTotal, ResetRemovesAll DEF Inv, BooksBalance
<1> QED
  BY <1>2, <1>3, <1>4 DEF ResetSucceeds

(* A step that leaves the books alone keeps what they satisfy.             *)
LEMMA BooksKept ==
    ASSUME Inv, UNCHANGED books
    PROVE  BooksBalance' /\ RewardsMirrorVotes' /\ PoolVoteExact'
BY DEF Inv, books, BooksBalance, RewardsMirrorVotes, PoolVoteExact

(* A new allocation, with weight on exactly the pools it lists, leaves the *)
(* books in agreement.                                                     *)
Sound(pv, allocation) ==
    /\ pv \in Seq(Pools)
    /\ allocation \in [Pools -> Nat]
    /\ \A p \in Pools : allocation[p] > 0 <=> p \in Listed(pv)
    /\ \A i, j \in 1 .. Len(pv) : pv[i] = pv[j] => i = j

BookTypes ==
    /\ totalWeight \in Nat
    /\ weights \in [Pools -> Nat]
    /\ votes \in [Users -> [Pools -> Nat]]
    /\ poolVote \in [Users -> Seq(Pools)]
    /\ usedWeights \in [Users -> Nat]
    /\ voted \in [Users -> BOOLEAN]
    /\ rewardBalance \in [RewardContracts -> [Users -> Nat]]
    /\ rewardSupply \in [RewardContracts -> Nat]

(* One call of Recast (Voter.sol:194-270) with sound new ballots keeps     *)
(* totals, votes, ballots and reward balances in agreement.                *)
LEMMA RecastKeepsBooks ==
    ASSUME Inv, NEW S \in SUBSET Users, NEW pv, NEW new,
           \A u \in S : Sound(pv[u], new[u]),
           Recast(S, pv, new)
    PROVE  BookTypes' /\ BooksBalance' /\ RewardsMirrorVotes' /\ PoolVoteExact'
<1>0. IsFiniteSet(Users) /\ S \subseteq Users
  BY VoterAssumption
<1>1. /\ IsFiniteSet(Users) /\ IsFiniteSet(Pools)
      /\ BookTypes
      /\ \A u \in S : new[u] \in [Pools -> Nat] /\ pv[u] \in Seq(Pools)
  BY VoterAssumption DEF Inv, TypeOK, BookTypes, Sound
<1>2. \A u \in S, p \in Pools : Removed(u, p) = votes[u][p] /\ Residual(u, p) = 0
  BY ResetRemovesAll
<1>3. votes' = [u \in Users |-> IF u \in S THEN new[u] ELSE votes[u]]
  <2>1. votes' = [u \in Users |-> [p \in Pools |->
                    IF u \in S THEN Residual(u, p) + new[u][p] ELSE votes[u][p]]]
    BY DEF Recast
  <2>2. ASSUME NEW u \in S
        PROVE  [p \in Pools |-> Residual(u, p) + new[u][p]] = new[u]
    <3>1. \A p \in Pools : Residual(u, p) + new[u][p] = new[u][p]
      BY <1>1, <1>2
    <3> QED
      BY <1>1, <3>1
  <2>3. ASSUME NEW u \in Users \ S PROVE [p \in Pools |-> votes[u][p]] = votes[u]
    BY <1>1 DEF BookTypes
  <2> QED
    BY <2>1, <2>2, <2>3
<1>4. votes' \in [Users -> [Pools -> Nat]]
  BY <1>1, <1>3 DEF BookTypes
<1>5. ASSUME NEW p \in Pools
      PROVE  Total([u \in Users |-> votes'[u][p]])
               = weights[p] + (Total([u \in S |-> new[u][p]])
                                 - Total([u \in S |-> Removed(u, p)]))
  <2> DEFINE f == [u \in Users |-> votes[u][p]]
             g == [u \in Users |-> votes'[u][p]]
             a == [u \in S |-> Removed(u, p)]
             b == [u \in S |-> new[u][p]]
  <2>1. f \in [Users -> Nat] /\ g \in [Users -> Nat]
    BY <1>1, <1>4 DEF BookTypes
  <2>2. a \in [S -> Nat] /\ b \in [S -> Nat]
    BY <1>1, <1>2 DEF BookTypes
  <2>3. \A u \in Users : g[u] = IF u \in S THEN f[u] - a[u] + b[u] ELSE f[u]
    BY <1>1, <1>2, <1>3 DEF BookTypes
  <2>4. weights[p] = Total(f)
    BY DEF Inv, BooksBalance
  <2> HIDE DEF f, g, a, b
  <2>5. Total(g) = Total(f) + (Total(b) - Total(a))
    BY <1>0, <2>1, <2>2, <2>3, TotalChange
  <2> QED
    BY <2>4, <2>5 DEF f, g, a, b
<1>6. weights' = [p \in Pools |-> Total([u \in Users |-> votes'[u][p]])]
  BY <1>5 DEF Recast
<1>7. usedWeights' = [u \in Users |-> Total(votes'[u])]
  <2>1. usedWeights' = [u \in Users |-> IF u \in S THEN Total(new[u]) ELSE usedWeights[u]]
    BY DEF Recast
  <2>2. \A u \in Users : usedWeights[u] = Total(votes[u])
    BY DEF Inv, BooksBalance
  <2>3. \A u \in Users : votes'[u] = IF u \in S THEN new[u] ELSE votes[u]
    BY <1>3
  <2> QED
    BY <2>1, <2>2, <2>3
<1>8. /\ \A p \in Pools : [u \in Users |-> votes'[u][p]] \in [Users -> Nat]
      /\ \A u \in Users : votes'[u] \in [Pools -> Nat]
  BY <1>4
<1>9. weights' \in [Pools -> Nat] /\ usedWeights' \in [Users -> Nat]
  BY <1>1, <1>6, <1>7, <1>8, TotalNat
<1>10. totalWeight' = Total(usedWeights')
  <2> DEFINE a == [u \in S |-> RemovedTotal(u)]
             b == [u \in S |-> Total(new[u])]
  <2>1. a \in [S -> Nat]
    BY <1>1, ResetRemovesAll DEF BookTypes
  <2>2. b \in [S -> Nat]
    BY <1>1, TotalNat
  <2>3. \A u \in Users :
          usedWeights'[u] = IF u \in S THEN usedWeights[u] - a[u] + b[u] ELSE usedWeights[u]
    <3> SUFFICES ASSUME NEW u \in Users
                 PROVE  usedWeights'[u] = IF u \in S THEN usedWeights[u] - a[u] + b[u]
                                                     ELSE usedWeights[u]
      OBVIOUS
    <3>1. usedWeights'[u] = IF u \in S THEN Total(new[u]) ELSE usedWeights[u]
      BY DEF Recast
    <3>2. ASSUME u \in S PROVE usedWeights[u] - a[u] + b[u] = Total(new[u])
      <4>1. a[u] = usedWeights[u] /\ b[u] = Total(new[u])
        BY <3>2, ResetRemovesAll
      <4>2. usedWeights[u] \in Nat /\ b[u] \in Nat
        BY <1>1, <2>2, <3>2 DEF BookTypes
      <4> QED
        BY <4>1, <4>2
    <3> QED
      BY <3>1, <3>2
  <2>4. totalWeight = Total(usedWeights)
    BY DEF Inv, BooksBalance
  <2>5. totalWeight' = totalWeight + (Total(b) - Total(a))
    BY DEF Recast
  <2> DEFINE f == usedWeights
             g == usedWeights'
  <2>6. f \in [Users -> Nat] /\ g \in [Users -> Nat]
    BY <1>1, <1>9 DEF BookTypes
  <2>7. \A u \in Users : g[u] = IF u \in S THEN f[u] - a[u] + b[u] ELSE f[u]
    BY <2>3
  <2> HIDE DEF a, b, f, g
  <2>8. Total(g) = Total(f) + (Total(b) - Total(a))
    BY <1>0, <2>1, <2>2, <2>6, <2>7, TotalChange, Z3
  <2> QED
    BY <2>4, <2>5, <2>8 DEF f, g
<1>11. BooksBalance'
  BY <1>6, <1>7, <1>10 DEF BooksBalance
<1>12. totalWeight' \in Nat
  BY <1>1, <1>9, <1>10, TotalNat
<1>13. ASSUME NEW c \in RewardContracts
       PROVE  /\ rewardBalance'[c] \in [Users -> Nat]
              /\ \A u \in Users : rewardBalance'[c][u] = votes'[u][c[2]]
              /\ rewardSupply'[c] = weights'[c[2]]
  <2>1. c[2] \in Pools
    BY DEF RewardContracts
  <2>2. rewardBalance'[c] = [u \in Users |->
            IF u \in S THEN rewardBalance[c][u] - Withdrawn(c, u) + Deposited(c, new[u])
                       ELSE rewardBalance[c][u]]
    BY DEF Recast
  <2>3. \A u \in Users : rewardBalance[c][u] = votes[u][c[2]] /\ votes[u][c[2]] \in Nat
    BY <1>1, <2>1 DEF Inv, RewardsMirrorVotes, BookTypes
  <2>4. \A u \in S : Withdrawn(c, u) = votes[u][c[2]] /\ Deposited(c, new[u]) = new[u][c[2]]
    BY <1>2, <2>1 DEF Withdrawn, Deposited
  <2>5. ASSUME NEW u \in Users PROVE rewardBalance'[c][u] = votes'[u][c[2]]
    <3>1. CASE u \in S
      <4>1. rewardBalance'[c][u] = votes[u][c[2]] - votes[u][c[2]] + new[u][c[2]]
        BY <2>2, <2>3, <2>4, <3>1
      <4>2. votes[u][c[2]] \in Nat /\ new[u][c[2]] \in Nat
        BY <1>1, <2>1, <2>3, <3>1
      <4> QED
        BY <1>3, <3>1, <4>1, <4>2
    <3>2. CASE u \notin S
      BY <1>3, <2>2, <2>3, <3>2
    <3> QED
      BY <3>1, <3>2
  <2>6. rewardSupply'[c] = weights'[c[2]]
    <3>1. rewardSupply'[c] = rewardSupply[c] + (Total([u \in S |-> Deposited(c, new[u])])
                                                  - Total([u \in S |-> Withdrawn(c, u)]))
      BY DEF Recast
    <3>2. /\ [u \in S |-> Deposited(c, new[u])] = [u \in S |-> new[u][c[2]]]
          /\ [u \in S |-> Withdrawn(c, u)] = [u \in S |-> Removed(u, c[2])]
      BY DEF Deposited, Withdrawn
    <3>3. rewardSupply[c] = weights[c[2]]
      BY DEF Inv, RewardsMirrorVotes
    <3> QED
      BY <1>5, <1>6, <2>1, <3>1, <3>2, <3>3
  <2>7. \A u \in Users : votes'[u][c[2]] \in Nat
    BY <1>4, <2>1
  <2> QED
    BY <2>2, <2>5, <2>6, <2>7
<1>14. RewardsMirrorVotes'
  BY <1>13 DEF RewardsMirrorVotes
<1>15. /\ rewardBalance' \in [RewardContracts -> [Users -> Nat]]
       /\ rewardSupply' \in [RewardContracts -> Nat]
  <2>1. DOMAIN rewardBalance' = RewardContracts
        /\ rewardBalance' = [c \in RewardContracts |-> rewardBalance'[c]]
    BY DEF Recast
  <2>2. rewardSupply' = [c \in RewardContracts |-> rewardSupply'[c]]
    BY DEF Recast
  <2>3. \A c \in RewardContracts : rewardSupply'[c] \in Nat
    BY <1>9, <1>13 DEF RewardContracts
  <2> QED
    BY <1>13, <2>1, <2>2, <2>3
<1>16. /\ poolVote' = [u \in Users |-> IF u \in S THEN pv[u] ELSE poolVote[u]]
       /\ voted' = [u \in Users |-> IF u \in S THEN Total(new[u]) > 0 ELSE voted[u]]
  BY DEF Recast
<1>17. poolVote' \in [Users -> Seq(Pools)] /\ voted' \in [Users -> BOOLEAN]
  <2>1. poolVote' \in [Users -> Seq(Pools)]
    BY <1>1, <1>16 DEF BookTypes
  <2>2. \A u \in Users : voted[u] \in BOOLEAN
    BY <1>1 DEF BookTypes
  <2>3. \A u \in Users : (IF u \in S THEN Total(new[u]) > 0 ELSE voted[u]) \in BOOLEAN
    <3>1. \A u \in Users : (Total(new[u]) > 0) \in BOOLEAN
      OBVIOUS
    <3> QED
      BY <2>2, <3>1, Zenon
  <2> QED
    BY <1>16, <2>1, <2>3, Zenon
<1>18. ASSUME NEW u \in S
       PROVE  /\ \A p \in Pools : votes'[u][p] > 0 <=> p \in Listed(poolVote'[u])
              /\ \A i, j \in 1 .. Len(poolVote'[u]) :
                     poolVote'[u][i] = poolVote'[u][j] => i = j
              /\ voted'[u] <=> poolVote'[u] # <<>>
  <2>1. poolVote'[u] = pv[u] /\ votes'[u] = new[u] /\ (voted'[u] <=> Total(new[u]) > 0)
    BY <1>3, <1>16
  <2>2. Sound(pv[u], new[u])
    OBVIOUS
  <2>3. Total(new[u]) > 0 <=> pv[u] # <<>>
    <3>1. Total(new[u]) \in Nat /\ (Total(new[u]) = 0 <=> \A p \in Pools : new[u][p] = 0)
      BY <1>1, TotalNat, TotalZero
    <3>2. (\E p \in Pools : new[u][p] # 0) <=> (\E p \in Pools : p \in Listed(pv[u]))
      BY <1>1, <2>2 DEF Sound
    <3>3. (\E p \in Pools : p \in Listed(pv[u])) <=> pv[u] # <<>>
      <4>1. ASSUME pv[u] # <<>> PROVE pv[u][1] \in Pools /\ pv[u][1] \in Listed(pv[u])
        <5>1. 1 \in 1 .. Len(pv[u]) /\ pv[u][1] \in Pools
          BY <1>1, <4>1
        <5> QED
          BY <5>1 DEF Listed
      <4>2. ASSUME pv[u] = <<>> PROVE Listed(pv[u]) = {}
        <5>1. 1 .. Len(pv[u]) = {}
          BY <4>2
        <5> QED
          BY <5>1 DEF Listed
      <4> QED
        BY <4>1, <4>2
    <3> QED
      BY <3>1, <3>2, <3>3
  <2> QED
    BY <2>1, <2>2, <2>3 DEF Sound
<1>19. PoolVoteExact'
  <2>1. ASSUME NEW u \in Users \ S
        PROVE  /\ poolVote'[u] = poolVote[u] /\ votes'[u] = votes[u]
               /\ voted'[u] = voted[u]
    BY <1>3, <1>16
  <2> QED
    BY <1>18, <2>1 DEF Inv, PoolVoteExact
<1> QED
  BY <1>4, <1>9, <1>11, <1>12, <1>14, <1>15, <1>17, <1>19 DEF BookTypes

(* A ballot is a finite sequence of whatever it is made of.                *)
LEMMA ListsAreSeqs ==
    ASSUME NEW T, NEW U, T \subseteq U, NEW l \in Lists(T)
    PROVE  l \in Seq(U)
<1>1. PICK n \in 0 .. MaxBallot : l \in [1 .. n -> T]
  BY DEF Lists
<1>2. n \in Nat /\ l \in [1 .. n -> U]
  BY <1>1, VoterAssumption
<1> QED
  BY <1>2

(* Division rounds down to a natural number.                               *)
LEMMA DivNat ==
    ASSUME NEW a \in Nat, NEW d \in Nat, d > 0
    PROVE  a \div d \in Nat
OBVIOUS

(* What _vote allocates when its loop goes through.                        *)
LEMMA AllocationSound ==
    ASSUME NEW u, NEW power \in Nat, NEW pv \in Seq(Pools), NEW ws \in Seq(Nat),
           Len(pv) = Len(ws), CastSucceeds(u, power, pv, ws)
    PROVE  Sound(pv, Allocation(power, pv, ws))
<1>1. /\ Len(pv) \in Nat
      /\ \A i \in 1 .. Len(pv) : ws[i] \in Nat /\ pv[i] \in Pools
  OBVIOUS
<1>2. Total(ws) \in Nat
  <2>1. ws \in [1 .. Len(ws) -> Nat] /\ 1 \in Int /\ Len(ws) \in Int
    OBVIOUS
  <2>2. IsFiniteSet(1 .. Len(ws))
    BY <2>1, FS_Interval
  <2> QED
    BY <2>1, <2>2, TotalNat
<1>3. ASSUME NEW i \in 1 .. Len(pv)
      PROVE  PoolWeight(power, ws, i) \in Nat /\ PoolWeight(power, ws, i) > 0
  <2>1. pv # <<>>
    BY <1>1
  <2>2. Total(ws) > 0 /\ PoolWeight(power, ws, i) > 0
    BY <2>1 DEF CastSucceeds
  <2>3. ws[i] * power \in Nat
    BY <1>1
  <2> QED
    BY <1>2, <2>2, <2>3, DivNat DEF PoolWeight
<1>4. ASSUME NEW p \in Listed(pv)
      PROVE  (CHOOSE i \in 1 .. Len(pv) : pv[i] = p) \in 1 .. Len(pv)
  BY DEF Listed
<1>5. \A p \in Pools : Allocation(power, pv, ws)[p] =
         IF p \in Listed(pv)
           THEN PoolWeight(power, ws, CHOOSE i \in 1 .. Len(pv) : pv[i] = p)
           ELSE 0
  BY DEF Allocation
<1>6. ASSUME NEW p \in Pools
      PROVE  /\ Allocation(power, pv, ws)[p] \in Nat
             /\ Allocation(power, pv, ws)[p] > 0 <=> p \in Listed(pv)
  <2>1. CASE p \in Listed(pv)
    <3> DEFINE i == CHOOSE i \in 1 .. Len(pv) : pv[i] = p
    <3>1. i \in 1 .. Len(pv)
      BY <1>4, <2>1
    <3>2. Allocation(power, pv, ws)[p] = PoolWeight(power, ws, i)
      BY <1>5, <2>1
    <3> HIDE DEF i
    <3> QED
      BY <1>3, <2>1, <3>1, <3>2
  <2>2. CASE p \notin Listed(pv)
    BY <1>5, <2>2
  <2> QED
    BY <2>1, <2>2
<1>7. Allocation(power, pv, ws) \in [Pools -> Nat]
  BY <1>6 DEF Allocation
<1>8. \A i, j \in 1 .. Len(pv) : pv[i] = pv[j] => i = j
  <2> SUFFICES ASSUME NEW i \in 1 .. Len(pv), NEW j \in 1 .. Len(pv), pv[i] = pv[j], i # j
               PROVE  FALSE
    OBVIOUS
  <2>1. CASE j < i
    BY <1>1, <2>1 DEF CastSucceeds
  <2>2. CASE i < j
    BY <1>1, <2>2 DEF CastSucceeds
  <2> QED
    BY <1>1, <2>1, <2>2
<1> QED
  BY <1>6, <1>7, <1>8 DEF Sound

(* One batch of votes or refreshes.                                        *)
LEMMA CastKeepsBooks ==
    ASSUME Inv, NEW S \in SUBSET Users, NEW power \in [S -> Nat], NEW pv, NEW ws,
           \A u \in S : /\ pv[u] \in Seq(Pools) /\ ws[u] \in Seq(Nat)
                        /\ Len(pv[u]) = Len(ws[u]),
           Cast(S, power, pv, ws)
    PROVE  /\ BookTypes' /\ BooksBalance' /\ RewardsMirrorVotes' /\ PoolVoteExact'
           /\ readPower' \in [Users -> Nat]
<1> DEFINE new == [u \in S |-> Allocation(power[u], pv[u], ws[u])]
<1>1. \A u \in S : Sound(pv[u], new[u])
  BY AllocationSound DEF Cast
<1>2. Recast(S, pv, new)
  BY DEF Cast
<1>3. readPower' \in [Users -> Nat]
  BY DEF Cast, Inv, TypeOK
<1> HIDE DEF new
<1> QED
  BY <1>1, <1>2, <1>3, RecastKeepsBooks

-----------------------------------------------------------------------------
(* The constructor leaves agreeing, empty books.                           *)
LEMMA InitInv == Init => Inv
<1> SUFFICES ASSUME Init PROVE Inv
  OBVIOUS
<1> USE VoterAssumption DEF Init
<1>1. TypeOK
  <2>1. poolVote \in [Users -> Seq(Pools)]
    OBVIOUS
  <2>2. /\ weights \in [Pools -> Nat] /\ votes \in [Users -> [Pools -> Nat]]
        /\ usedWeights \in [Users -> Nat] /\ voted \in [Users -> BOOLEAN]
        /\ lastVoted \in [Users -> BlockTimes \cup {0}] /\ readPower \in [Users -> Nat]
    OBVIOUS
  <2>3. /\ rewardBalance \in [RewardContracts -> [Users -> Nat]]
        /\ rewardSupply \in [RewardContracts -> Nat]
        /\ ownerToOperators \in [Accounts -> SUBSET Accounts]
    OBVIOUS
  <2> QED
    BY <2>1, <2>2, <2>3 DEF TypeOK
<1>2. BooksBalance
  <2>1. \A p \in Pools : /\ [u \in Users |-> votes[u][p]] \in [Users -> Nat]
                         /\ \A u \in Users : [v \in Users |-> votes[v][p]][u] = 0
    OBVIOUS
  <2>2. \A p \in Pools : Total([u \in Users |-> votes[u][p]]) = 0
    BY <2>1, TotalZero
  <2>3. \A u \in Users : votes[u] \in [Pools -> Nat] /\ \A p \in Pools : votes[u][p] = 0
    OBVIOUS
  <2>4. \A u \in Users : Total(votes[u]) = 0
    BY <2>3, TotalZero
  <2>5. usedWeights \in [Users -> Nat] /\ \A u \in Users : usedWeights[u] = 0
    OBVIOUS
  <2>6. Total(usedWeights) = 0
    BY <2>5, TotalZero
  <2> QED
    BY <2>2, <2>4, <2>6 DEF BooksBalance
<1>3. RewardsMirrorVotes
  BY DEF RewardsMirrorVotes, RewardContracts
<1>4. PoolVoteExact
  <2>1. \A u \in Users : poolVote[u] = <<>> /\ voted[u] = FALSE
    OBVIOUS
  <2>2. 1 .. Len(<<>>) = {}
    OBVIOUS
  <2>3. \A u \in Users, p \in Pools : ~(votes[u][p] > 0)
    OBVIOUS
  <2>4. \A u \in Users : Listed(poolVote[u]) = {}
    BY <2>1, <2>2 DEF Listed
  <2> QED
    BY <2>1, <2>2, <2>3, <2>4 DEF PoolVoteExact
<1> QED
  BY <1>1, <1>2, <1>3, <1>4 DEF Inv

(* reset empties one user's ballot.                                        *)
LEMMA ResetKeepsInv ==
    ASSUME Inv, NEW sender \in Accounts, NEW user \in Users, reset(sender, user)
    PROVE  Inv'
<1> DEFINE pv == [u \in {user} |-> <<>>]
           new == [u \in {user} |-> [p \in Pools |-> 0]]
<1>1. \A u \in {user} : Sound(pv[u], new[u])
  <2>1. <<>> \in Seq(Pools) /\ 1 .. Len(<<>>) = {} /\ Listed(<<>>) = {}
    BY DEF Listed
  <2>2. [p \in Pools |-> 0] \in [Pools -> Nat] /\ \A p \in Pools : ~([q \in Pools |-> 0][p] > 0)
    OBVIOUS
  <2> QED
    BY <2>1, <2>2 DEF Sound
<1>2. /\ Recast({user}, pv, new)
      /\ UNCHANGED <<now, lastVoted, governance, ownerToOperators, readPower>>
  BY DEF reset
<1> HIDE DEF pv, new
<1>3. BookTypes' /\ BooksBalance' /\ RewardsMirrorVotes' /\ PoolVoteExact'
  BY <1>1, <1>2, RecastKeepsBooks
<1> QED
  BY <1>2, <1>3 DEF Inv, TypeOK, BookTypes, governance

(* batchVote, and so vote, replaces the ballots of some users by one.      *)
LEMMA BatchVoteKeepsInv ==
    ASSUME Inv, NEW sender \in Accounts, NEW S \in SUBSET Users,
           NEW pv \in Lists(Pools), NEW ws \in Lists(Weights),
           NEW power \in [S -> Powers], batchVote(sender, S, pv, ws, power)
    PROVE  Inv'
<1> DEFINE pvs == [u \in S |-> pv]
           wss == [u \in S |-> ws]
<1>1. pv \in Seq(Pools) /\ ws \in Seq(Nat)
  <2>1. Pools \subseteq Pools /\ Weights \subseteq Nat
    BY VoterAssumption
  <2> QED
    BY <2>1, ListsAreSeqs
<1>2. power \in [S -> Nat]
  BY VoterAssumption
<1>3. /\ Len(pv) = Len(ws)
      /\ Cast(S, power, pvs, wss)
      /\ lastVoted' = [u \in Users |-> IF u \in S THEN now ELSE lastVoted[u]]
      /\ UNCHANGED <<now, governance, ownerToOperators>>
  BY DEF batchVote
<1>4. \A u \in S : /\ pvs[u] \in Seq(Pools) /\ wss[u] \in Seq(Nat)
                   /\ Len(pvs[u]) = Len(wss[u])
  BY <1>1, <1>3
<1> HIDE DEF pvs, wss
<1>5. /\ BookTypes' /\ BooksBalance' /\ RewardsMirrorVotes' /\ PoolVoteExact'
      /\ readPower' \in [Users -> Nat]
  BY <1>2, <1>3, <1>4, CastKeepsBooks
<1>6. lastVoted' \in [Users -> BlockTimes \cup {0}]
  BY <1>3 DEF Inv, TypeOK
<1> QED
  BY <1>3, <1>5, <1>6 DEF Inv, TypeOK, BookTypes, governance

(* batchPoke, and so poke, keeps the ballots and changes their weights.    *)
LEMMA BatchPokeKeepsInv ==
    ASSUME Inv, NEW S \in SUBSET Users, NEW power \in [S -> Powers], batchPoke(S, power)
    PROVE  Inv'
<1> DEFINE pv == [u \in S |-> poolVote[u]]
           ws == [u \in S |-> CurrentWeights(u)]
<1>1. power \in [S -> Nat]
  BY VoterAssumption
<1>2. \A u \in S : /\ pv[u] \in Seq(Pools) /\ ws[u] \in Seq(Nat)
                   /\ Len(pv[u]) = Len(ws[u])
  <2> SUFFICES ASSUME NEW u \in S
               PROVE  /\ poolVote[u] \in Seq(Pools) /\ CurrentWeights(u) \in Seq(Nat)
                      /\ Len(poolVote[u]) = Len(CurrentWeights(u))
    OBVIOUS
  <2>1. poolVote[u] \in Seq(Pools) /\ Len(poolVote[u]) \in Nat
    BY DEF Inv, TypeOK
  <2>2. \A i \in 1 .. Len(poolVote[u]) : votes[u][poolVote[u][i]] \in Nat
    BY <2>1 DEF Inv, TypeOK
  <2> QED
    BY <2>1, <2>2 DEF CurrentWeights
<1>3. /\ Cast(S, power, pv, ws)
      /\ UNCHANGED <<now, lastVoted, governance, ownerToOperators>>
  BY DEF batchPoke
<1> HIDE DEF pv, ws
<1>4. /\ BookTypes' /\ BooksBalance' /\ RewardsMirrorVotes' /\ PoolVoteExact'
      /\ readPower' \in [Users -> Nat]
  BY <1>1, <1>2, <1>3, CastKeepsBooks
<1> QED
  BY <1>3, <1>4 DEF Inv, TypeOK, BookTypes, governance

(* Every entry point that moves votes keeps the invariant.                 *)
LEMMA VotingKeepsInv == ASSUME Inv, Voting PROVE Inv'
<1>1. ASSUME NEW sender \in Accounts, NEW user \in Users, reset(sender, user) PROVE Inv'
  BY <1>1, ResetKeepsInv
<1>2. ASSUME NEW sender \in Accounts, NEW user \in Users, NEW pv \in Lists(Pools),
             NEW ws \in Lists(Weights), NEW power \in Powers,
             vote(sender, user, pv, ws, power)
      PROVE  Inv'
  <2>1. batchVote(sender, {user}, pv, ws, [u \in {user} |-> power])
    BY <1>2 DEF vote
  <2>2. [u \in {user} |-> power] \in [{user} -> Powers] /\ {user} \in SUBSET Users
    OBVIOUS
  <2> QED
    BY <2>1, <2>2, BatchVoteKeepsInv
<1>3. ASSUME NEW user \in Users, NEW power \in Powers, poke(user, power) PROVE Inv'
  <2>1. batchPoke({user}, [u \in {user} |-> power])
    BY <1>3 DEF poke
  <2>2. [u \in {user} |-> power] \in [{user} -> Powers] /\ {user} \in SUBSET Users
    OBVIOUS
  <2> QED
    BY <2>1, <2>2, BatchPokeKeepsInv
<1>4. ASSUME NEW sender \in Accounts, NEW S \in SUBSET Users, NEW pv \in Lists(Pools),
             NEW ws \in Lists(Weights), NEW power \in [S -> Powers],
             batchVote(sender, S, pv, ws, power)
      PROVE  Inv'
  BY <1>4, BatchVoteKeepsInv
<1>5. ASSUME NEW S \in SUBSET Users, NEW power \in [S -> Powers], batchPoke(S, power)
      PROVE  Inv'
  BY <1>5, BatchPokeKeepsInv
<1> QED
  BY <1>1, <1>2, <1>3, <1>4, <1>5 DEF Voting

(* Governance, delegation and time do not touch the books.                 *)
LEMMA GoverningKeepsInv == ASSUME Inv, Governing \/ NextBlock PROVE Inv'
<1>1. BooksBalance' /\ RewardsMirrorVotes' /\ PoolVoteExact' /\ UNCHANGED books
  <2>1. UNCHANGED books
    BY DEF Governing, NextBlock, setApprovalForAll, createVotingRewards, banVote,
           reauthorizeVote, setRestrictedUser, whitelistUser, setMaxVotingNum,
           setPoolRegistration
  <2> QED
    BY <2>1, BooksKept
<1> USE <1>1, VoterAssumption DEF Inv
<1>2. ASSUME NEW sender \in Accounts, NEW operator \in Accounts, NEW approved \in BOOLEAN,
             setApprovalForAll(sender, operator, approved)
      PROVE  TypeOK'
  BY <1>2 DEF setApprovalForAll, TypeOK, books, governance
<1>3. ASSUME NEW p \in Pools, createVotingRewards(p) PROVE TypeOK'
  BY <1>3 DEF createVotingRewards, TypeOK, books
<1>4. ASSUME NEW p \in Bannable, banVote(p) \/ reauthorizeVote(p) PROVE TypeOK'
  BY <1>4 DEF banVote, reauthorizeVote, TypeOK, books
<1>5. ASSUME NEW user \in Restrictable, NEW flag \in BOOLEAN, setRestrictedUser(user, flag)
      PROVE  TypeOK'
  BY <1>5 DEF setRestrictedUser, TypeOK, books
<1>6. ASSUME NEW user \in Whitelistable, NEW flag \in BOOLEAN, whitelistUser(user, flag)
      PROVE  TypeOK'
  BY <1>6 DEF whitelistUser, TypeOK, books
<1>7. ASSUME NEW n \in VotingNums, setMaxVotingNum(n) PROVE TypeOK'
  BY <1>7 DEF setMaxVotingNum, TypeOK, books
<1>8. ASSUME NEW p \in Pools, NEW flag \in BOOLEAN, setPoolRegistration(p, flag)
      PROVE  TypeOK'
  BY <1>8 DEF setPoolRegistration, TypeOK, books
<1>9. ASSUME NextBlock PROVE TypeOK'
  BY <1>9 DEF NextBlock, TypeOK, books, governance
<1> QED
  BY <1>2, <1>3, <1>4, <1>5, <1>6, <1>7, <1>8, <1>9 DEF Governing

(* The invariant is inductive.                                             *)
LEMMA NextInv == Inv /\ [Next]_vars => Inv'
<1> SUFFICES ASSUME Inv, [Next]_vars PROVE Inv'
  OBVIOUS
<1>1. CASE Voting
  BY <1>1, VotingKeepsInv
<1>2. CASE Governing \/ NextBlock
  BY <1>2, GoverningKeepsInv
<1>3. CASE UNCHANGED vars
  <2>1. UNCHANGED books
    BY <1>3 DEF vars
  <2>2. TypeOK'
    BY <1>3 DEF vars, books, governance, Inv, TypeOK
  <2> QED
    BY <2>1, <2>2, BooksKept DEF Inv
<1> QED
  BY <1>1, <1>2, <1>3 DEF Next

-----------------------------------------------------------------------------
(* The books of the Voter and of its reward contracts agree after any      *)
(* history of votes, refreshes, resets, batches and governance.            *)
THEOREM BooksAgree ==
    Spec => [](TypeOK /\ BooksBalance /\ RewardsMirrorVotes /\ PoolVoteExact)
<1>1. Init => Inv
  BY InitInv
<1>2. Inv /\ [Next]_vars => Inv'
  BY NextInv
<1> QED
  BY <1>1, <1>2, PTL DEF Spec, Inv

(* A user can always take its votes back: _reset's subtractions never      *)
(* revert, whatever was banned or restricted since the vote.               *)
THEOREM ExitAlwaysOpen == Spec => []ExitOpen
<1>1. Inv => ExitOpen
  BY ResetNeverReverts DEF ExitOpen
<1>2. Spec => []Inv
  BY BooksAgree, PTL DEF Inv
<1> QED
  BY <1>1, <1>2, PTL

(* Every reward contract holds the votes the Voter has on record for its   *)
(* pool: no call deposits or withdraws in one contract of a pair without   *)
(* the other (Voter.sol 216-217 and 262-263).                              *)
THEOREM RewardsAlwaysMirror == Spec => []RewardsMirrorVotes
<1>1. Inv => RewardsMirrorVotes
  BY DEF Inv
<1>2. Spec => []Inv
  BY BooksAgree, PTL DEF Inv
<1> QED
  BY <1>1, <1>2, PTL

(* A user that has voted in the running epoch is not free to vote or reset.*)
LEMMA VotedIsNotNew ==
    ASSUME TypeOK, NEW u \in Users, epochStart(lastVoted[u]) = epochStart(now)
    PROVE  ~NewEpoch(u)
<1>1. lastVoted[u] \in Nat /\ now \in Nat /\ WEEK \in Nat \ {0}
  <2>1. BlockTimes \subseteq Nat /\ WEEK \in Nat \ {0}
    BY VoterAssumption, TimeAssumption
  <2>2. lastVoted \in [Users -> BlockTimes \cup {0}] /\ now \in BlockTimes
    BY DEF TypeOK
  <2>3. lastVoted[u] \in BlockTimes \cup {0}
    BY <2>2
  <2>4. lastVoted[u] \in Nat
    <3>1. \A t \in BlockTimes \cup {0} : t \in Nat
      BY <2>1
    <3> QED
      BY <2>3, <3>1
  <2>5. now \in Nat
    BY <2>1, <2>2
  <2> QED
    BY <2>1, <2>4, <2>5
<1>2. (lastVoted[u] % WEEK) \in Nat /\ (now % WEEK) \in Nat
  BY <1>1
<1>3. epochStart(lastVoted[u]) <= lastVoted[u]
  BY <1>1, <1>2 DEF epochStart
<1>4. epochStart(now) \in Int
  BY <1>1, <1>2 DEF epochStart
<1> QED
  BY <1>1, <1>3, <1>4 DEF NewEpoch

(* Once per epoch: whatever mix of pokes, batches, resets and operators'   *)
(* calls follows a vote, the pools it was for stay for the rest of the     *)
(* epoch (the modifier onlyNewEpoch and the checks of batchVote).          *)
THEOREM OneChoiceOnly == Spec => OneChoicePerEpoch
<1> DEFINE Kept(u) == epochStart(lastVoted[u]) = epochStart(now) => poolVote'[u] = poolVote[u]
<1>1. ASSUME TypeOK, NEW u \in Users, epochStart(lastVoted[u]) = epochStart(now), Next
      PROVE  poolVote'[u] = poolVote[u]
  <2>1. ~NewEpoch(u)
    BY <1>1, VotedIsNotNew
  <2>2. ASSUME NEW sender \in Accounts, NEW v \in Users, reset(sender, v)
        PROVE  poolVote'[u] = poolVote[u]
    BY <2>1, <2>2 DEF reset, onlyNewEpoch, Recast
  <2>3. ASSUME NEW sender \in Accounts, NEW S \in SUBSET Users, NEW pv, NEW ws, NEW power,
               batchVote(sender, S, pv, ws, power)
        PROVE  poolVote'[u] = poolVote[u]
    <3>1. u \notin S
      BY <2>1, <2>3 DEF batchVote
    <3>2. poolVote' = [v \in Users |-> IF v \in S THEN [x \in S |-> pv][v] ELSE poolVote[v]]
      BY <2>3 DEF batchVote, Cast, Recast
    <3> QED
      BY <3>1, <3>2
  <2>4. ASSUME NEW S \in SUBSET Users, NEW power, batchPoke(S, power)
        PROVE  poolVote'[u] = poolVote[u]
    <3>1. poolVote' = [v \in Users |-> IF v \in S THEN [x \in S |-> poolVote[x]][v]
                                       ELSE poolVote[v]]
      BY <2>4 DEF batchPoke, Cast, Recast
    <3> QED
      BY <3>1
  <2>5. CASE Voting
    <3>1. \A v \in Users : {v} \in SUBSET Users
      OBVIOUS
    <3> QED
      BY <2>2, <2>3, <2>4, <2>5, <3>1 DEF Voting, vote, poke
  <2>6. CASE Governing \/ NextBlock
    BY <2>6 DEF Governing, NextBlock, setApprovalForAll, createVotingRewards, banVote,
                reauthorizeVote, setRestrictedUser, whitelistUser, setMaxVotingNum,
                setPoolRegistration, books
  <2> QED
    BY <1>1, <2>5, <2>6 DEF Next
<1>2. TypeOK /\ [Next]_vars => [\A u \in Users : Kept(u)]_vars
  BY <1>1
<1>3. Spec => []TypeOK
  BY BooksAgree, PTL
<1> QED
  BY <1>2, <1>3, PTL DEF Spec, OneChoicePerEpoch

==============================================================================
