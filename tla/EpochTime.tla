------------------------------ MODULE EpochTime ------------------------------
(***************************************************************************)
(* The clock arithmetic of contracts/libraries/VelodromeTimeLibrary.sol.   *)
(* An epoch is WEEK seconds long and starts at a multiple of WEEK; the     *)
(* first HOUR of an epoch is the distribution window and the last HOUR is  *)
(* reserved to whitelisted users.  The library's arithmetic is unchecked,  *)
(* but timestamps are some 2^224 below the point where it would wrap.      *)
(***************************************************************************)
EXTENDS Naturals

CONSTANTS
    WEEK,   \* "7 days" in the library
    HOUR    \* "1 hours" in the library

ASSUME TimeAssumption ==
    /\ WEEK \in Nat \ {0}
    /\ HOUR \in Nat
    /\ 2 * HOUR < WEEK

epochStart(t) == t - (t % WEEK)

epochNext(t) == epochStart(t) + WEEK

epochVoteStart(t) == epochStart(t) + HOUR

epochVoteEnd(t) == epochStart(t) + WEEK - HOUR

==============================================================================
