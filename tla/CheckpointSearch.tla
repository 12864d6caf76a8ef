-------------------------- MODULE CheckpointSearch --------------------------
(***************************************************************************)
(* The binary search of getPriorBalanceIndex and getPriorSupplyIndex, one  *)
(* step per evaluation of the loop.  The two functions are the same but    *)
(* for the list they read.                                                 *)
(***************************************************************************)
EXTENDS Checkpoints

CONSTANTS
    Lists,      \* checkpoint lists searched
    Times       \* timestamps searched for

Increasing(xs) ==
    \A i, j \in 1 .. Len(xs) : i < j => xs[i].timestamp < xs[j].timestamp

ASSUME SearchAssumption ==
    /\ Lists \subseteq Seq(Checkpoint)
    /\ \A xs \in Lists : Increasing(xs)     \* ListsInOrder of VotingRewardProofs
    /\ Times \subseteq Nat

VARIABLES
    list,       \* the list, and the timestamp, of the call
    time,
    lower,
    upper,
    result,     \* index returned, 0 before the return
    pc          \* "called", "loop" or "returned"

svars == <<list, time, lower, upper, result, pc>>

SearchInit ==
    /\ list \in Lists
    /\ time \in Times
    /\ lower = 0
    /\ upper = 0
    /\ result = 0
    /\ pc = "called"

Return(i) ==
    /\ result' = i
    /\ pc' = "returned"
    /\ UNCHANGED <<list, time, lower, upper>>

(* The tests before the loop: no checkpoint, the last one, the first one.  *)
NoCheckpoint == pc = "called" /\ list = <<>> /\ Return(1)

MostRecent ==
    /\ pc = "called"
    /\ list # <<>>
    /\ list[Len(list)].timestamp <= time
    /\ Return(Len(list))

BeforeFirst ==
    /\ pc = "called"
    /\ list # <<>>
    /\ list[Len(list)].timestamp > time
    /\ list[1].timestamp > time
    /\ Return(1)

EnterLoop ==
    /\ pc = "called"
    /\ list # <<>>
    /\ list[Len(list)].timestamp > time
    /\ list[1].timestamp <= time
    /\ lower' = 1
    /\ upper' = Len(list)
    /\ pc' = "loop"
    /\ UNCHANGED <<list, time, result>>

Center == upper - (upper - lower) \div 2

Hit ==
    /\ pc = "loop"
    /\ upper > lower
    /\ list[Center].timestamp = time
    /\ Return(Center)

GoUp ==
    /\ pc = "loop"
    /\ upper > lower
    /\ list[Center].timestamp < time
    /\ lower' = Center
    /\ UNCHANGED <<list, time, upper, result, pc>>

GoDown_SkipOne ==    \* mutant
    /\ pc = "loop"
    /\ upper > lower
    /\ list[Center].timestamp > time
    /\ upper' = IF Center < lower + 2 THEN lower ELSE Center - 2
    /\ UNCHANGED <<list, time, lower, result, pc>>

GoDown ==
    /\ pc = "loop"
    /\ upper > lower
    /\ list[Center].timestamp > time
    /\ upper' = Center - 1
    /\ UNCHANGED <<list, time, lower, result, pc>>

LeaveLoop == pc = "loop" /\ upper <= lower /\ Return(lower)

SearchNext ==
    \/ NoCheckpoint \/ MostRecent \/ BeforeFirst
    \/ EnterLoop \/ Hit \/ GoUp \/ GoDown \/ LeaveLoop

(* A call runs to its end: the loop has no other exit than its returns.    *)
SearchSpec == SearchInit /\ [][SearchNext]_svars /\ WF_svars(SearchNext)

-----------------------------------------------------------------------------
(* The call's arguments are what they were, the range stays in the list.   *)
SearchTypeOK ==
    /\ list \in Seq(Checkpoint) /\ Increasing(list)
    /\ time \in Nat
    /\ lower \in 0 .. Len(list)
    /\ upper \in 0 .. Len(list)
    /\ result \in 0 .. Len(list) + 1
    /\ pc \in {"called", "loop", "returned"}

(* The index returned is that of the last checkpoint not after time, and   *)
(* the first slot when there is none: what earned takes for the balance,   *)
(* or the supply, an epoch closed with.                                    *)
ReturnsPrior == pc = "returned" => result = PriorIndex(list, time)

(* What the loop keeps true of the range it has left to search.            *)
Bracketed ==
    pc = "loop" =>
        /\ 1 <= lower /\ lower <= upper
        /\ list[lower].timestamp <= time
        /\ \A j \in upper + 1 .. Len(list) : time < list[j].timestamp

==============================================================================
