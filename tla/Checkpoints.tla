----------------------------- MODULE Checkpoints -----------------------------
(***************************************************************************)
(* The checkpoint lists of contracts/rewards/VotingReward.sol as pure      *)
(* operators.  A checkpoint is a value with the timestamp it was written   *)
(* at; a list holds them in the order they were written.  The source's     *)
(* index i is index i + 1 here.                                            *)
(***************************************************************************)
EXTENDS Integers, Sequences, EpochTime, UnitSum

Checkpoint == [timestamp : Nat, value : Nat]

(* A storage slot that was never written reads as zero.                    *)
Slot(cps, i) == IF i \in DOMAIN cps THEN cps[i] ELSE [timestamp |-> 0, value |-> 0]

(* One checkpoint per epoch: a second one in the same epoch replaces the   *)
(* first.                                                                  *)
WriteCheckpoint(cps, t, v) ==
    IF cps # <<>> /\ epochStart(cps[Len(cps)].timestamp) = epochStart(t)
      THEN [cps EXCEPT ![Len(cps)] = [timestamp |-> t, value |-> v]]
      ELSE Append(cps, [timestamp |-> t, value |-> v])

(* The index the binary search returns (see CheckpointSearch): the last    *)
(* checkpoint not after t, or the first if all are after t, or there is    *)
(* none.                                                                   *)
IsPriorIndex(cps, t, i) ==
    /\ i \in 1 .. Len(cps)
    /\ cps[i].timestamp <= t \/ i = 1
    /\ \A j \in i + 1 .. Len(cps) : t < cps[j].timestamp

PriorIndex(cps, t) ==
    IF cps = <<>> THEN 1 ELSE CHOOSE i \in 1 .. Len(cps) : IsPriorIndex(cps, t, i)

Prior_FirstOfEpoch(cps, e) == Slot(cps, PriorIndex(cps, e)).value    \* mutant

(* The value the epoch that starts at e closes with.                       *)
Prior(cps, e) == Slot(cps, PriorIndex(cps, e + WEEK - 1)).value

AtLeastOne(n) == IF n = 0 THEN 1 ELSE n

Share(balance, pot, supply) == (balance * pot) \div AtLeastOne(supply)

(* The epochs a claim at time t covers when the last one was made at last. *)
FirstUnclaimed(cps, last) ==
    LET from == epochStart(last)
        first == epochStart(Slot(cps, PriorIndex(cps, from)).timestamp)
    IN  IF first > from THEN first ELSE from

ClaimedEpochs(cps, last, t) ==
    {e \in FirstUnclaimed(cps, last) .. epochStart(t) - 1 : e % WEEK = 0}

(* What a user with checkpoints cps has earned of a token with the rewards *)
(* pot (epoch start -> amount; zero outside its domain) at time t.         *)
Earned(cps, supplyCps, pot, last, t) ==
    IF cps = <<>> THEN 0
    ELSE TotalOver(ClaimedEpochs(cps, last, t) \cap DOMAIN pot,
                   [e \in DOMAIN pot |-> Share(Prior(cps, e), pot[e], Prior(supplyCps, e))])

==============================================================================
