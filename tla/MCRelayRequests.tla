--------------------------- MODULE MCRelayRequests ---------------------------
(***************************************************************************)
(* Two requests for a new paymaster; for one that can pay a single call;   *)
(* one that loses reputation while a request and a ping come in; one whose *)
(* first event is counted while its first request comes in; and a manager  *)
(* that loses its registration, or its balance, between two events.        *)
(***************************************************************************)
EXTENDS RelayRequests, TLC

CONSTANTS r1, r2

MCConfig ==
    [initialReputation |-> 2, maximumReputation |-> 4, throttleReputation |-> 3,
     throttleDelayMs |-> 1, blockReputation |-> 0, abuseReputationChange |-> 1,
     abuseTimeWindowBlocks |-> 1, abuseTimeoutReputation |-> 1,
     alertedBlockDelay |-> 1, requestMinValidBlocks |-> 1]

MCRelay(nonce) == [kind |-> "relay", legal |-> TRUE, fees |-> TRUE, budget |-> TRUE, trusted |-> FALSE,
                   validUntil |-> 4, maxNonce |-> nonce]
MCPing == [MCRelay(0) EXCEPT !.kind = "ping"]
MCStored(rep, changes) == [NewEntry EXCEPT !.reputation = rep, !.changes = changes]

MCStanding(w) == w @@ [lapse |-> "none"]

MCLapses ==
    {[entry |-> MCStored(4, <<>>), balance |-> 1, blocks |-> 2, time |-> 2, failures |-> 0,
      events |-> <<Event(FALSE, 1), Event(TRUE, 2)>>, lapse |-> lapse,
      requests |-> (r1 :> MCRelay(0))] : lapse \in {"unregistered", "poor"}}

MCWorlds == MCLapses \cup {MCStanding(w) : w \in
    {[entry |-> NoEntry, events |-> <<>>, balance |-> 2, blocks |-> 1, time |-> 4, failures |-> 0,
      requests |-> (r1 :> MCRelay(0) @@ r2 :> [MCRelay(n) EXCEPT !.trusted = TRUE, !.fees = FALSE, !.budget = FALSE])] :
        n \in 0..1}
      \cup
    {[entry |-> MCStored(4, <<>>), events |-> <<>>, balance |-> 1, blocks |-> 2, time |-> 2, failures |-> 0,
      requests |-> (r1 :> MCRelay(1) @@ r2 :> MCRelay(1))],
     [entry |-> MCStored(4, <<>>), balance |-> 1, blocks |-> 3, time |-> 2, failures |-> 1,
      events |-> <<Event(FALSE, 1), Event(TRUE, 1)>>,
      requests |-> (r1 :> [MCRelay(0) EXCEPT !.validUntil = 6] @@ r2 :> MCPing)],
     [entry |-> NoEntry, balance |-> 1, blocks |-> 1, time |-> 2, failures |-> 0,
      events |-> <<Event(TRUE, 1)>>, requests |-> (r1 :> MCRelay(0) @@ r2 :> MCPing)]}}
=============================================================================
