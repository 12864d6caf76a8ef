--------------------------- MODULE RelayStatistics ---------------------------
(***************************************************************************)
(* `gsn status': StatisticsManager reads the events of the stake manager   *)
(* and of the hub, one query after the other, and works out the state of   *)
(* every relay from them.  The stake manager contract it is compared with  *)
(* is here too: RelaySetup's commands send their transactions to it.       *)
(***************************************************************************)
EXTENDS LogQueries, FiniteSetsExt

CONSTANTS
    Managers,     \* relay managers
    Hubs,         \* relay hubs' addresses
    Paymasters,
    NoOwner,      \* the zero address
    MaxBlock,     \* bound on the blocks mined for transactions of others
    MaxHubEvents  \* bound on the hub's events

VARIABLE stake    \* StakeManager: per manager its owner, stake, locked or not,
                  \* unstake delay and authorized hubs

NoStake == [owner |-> NoOwner, amount |-> 0, delay |-> 0, locked |-> TRUE, hubs |-> {}]

(* --------------------------- the stake manager ---------------------------- *)

\* Each is a transaction of its own; `from' is its sender.

StakeForRelayManager(m, from, value, delay) ==
    /\ stake[m].owner = from /\ delay >= stake[m].delay
    /\ stake' = [stake EXCEPT ![m].amount = @ + value, ![m].delay = delay]
    /\ Emit("StakeAdded", m, from)

AuthorizeHub(m, hub) ==
    /\ stake[m].owner # NoOwner
    /\ stake' = [stake EXCEPT ![m].hubs = @ \cup {hub}]
    /\ Emit("HubAuthorized", m, hub)

UnauthorizeHub(m, hub) ==
    /\ hub \in stake[m].hubs
    /\ stake' = [stake EXCEPT ![m].hubs = @ \ {hub}]
    /\ Emit("HubUnauthorized", m, hub)

UnlockStake(m) ==
    /\ stake[m].owner # NoOwner /\ stake[m].locked
    /\ stake' = [stake EXCEPT ![m].locked = FALSE]
    /\ Emit("StakeUnlocked", m, stake[m].owner)

\* Unlocking and withdrawing are two blocks at least.
WithdrawStake(m) ==
    /\ ~stake[m].locked
    /\ stake' = [stake EXCEPT ![m].amount = 0, ![m].locked = TRUE]
    /\ Emit("StakeWithdrawn", m, stake[m].owner)

PenalizeRelayManager(m) ==
    /\ stake[m].hubs # {} /\ stake[m].amount > 0
    /\ stake' = [stake EXCEPT ![m].amount = 0]
    /\ Emit("StakePenalized", m, "reward")

IsRelayManagerStaked(m, hub, minAmount, minDelay) ==
    /\ stake[m].amount >= minAmount /\ stake[m].delay >= minDelay
    /\ stake[m].locked /\ hub \in stake[m].hubs

HubEvents == {"RelayServerRegistered", "Deposited", "TransactionRelayed",
              "TransactionRejectedByPaymaster"}

\* The hub's events, each of a manager and a paymaster.
HubEvent(m) ==
    /\ Cardinality({i \in DOMAIN log : log[i].event \in HubEvents}) < MaxHubEvents
    /\ \/ stake[m].amount > 0 /\ Emit("RelayServerRegistered", m, "url")
       \/ \E event \in HubEvents \ {"RelayServerRegistered"}, pm \in Paymasters : Emit(event, m, pm)
    /\ UNCHANGED stake

\* The owner of a relay, its hub and its clients act on their own.
Others ==
    /\ block < MaxBlock
    /\ \E m \in Managers :
          \/ StakeForRelayManager(m, stake[m].owner, 1, stake[m].delay)
          \/ \E hub \in Hubs : AuthorizeHub(m, hub) \/ UnauthorizeHub(m, hub)
          \/ UnlockStake(m) \/ WithdrawStake(m) \/ PenalizeRelayManager(m)
          \/ HubEvent(m)
    /\ UNCHANGED cmd

(* ----------------------------- the statistics ------------------------------ *)

StakeEvents == {"StakeAdded", "StakeUnlocked", "StakeWithdrawn", "StakePenalized",
                "HubAuthorized", "HubUnauthorized"}

\* fetchStakeManagerEvents, then the four queries of fetchRelayHubEvents.
Queries == <<StakeEvents, {"Deposited"}, {"RelayServerRegistered"},
             {"TransactionRelayed"}, {"TransactionRejectedByPaymaster"}>>

AskEvents(p) ==
    /\ cmd[p].kind = "stats" /\ cmd[p].pc = "events"
    /\ \E b \in GetBlockNumber(cmd[p].last) :
          cmd' = [cmd EXCEPT ![p].pc = "query", ![p].last = b,
                             ![p].q = NewQuery(Queries[Len(cmd[p].read) + 1],
                                               cmd[p].maxPageSize, b)]
    /\ UNCHANGED <<block, log, stake>>

FetchEvents(p) ==
    /\ cmd[p].kind = "stats" /\ cmd[p].pc = "query" /\ Finished(cmd[p].q)
    /\ cmd' = [cmd EXCEPT ![p].read = Append(@, cmd[p].q.got), ![p].readAt = Append(@, cmd[p].q.readAt),
                          ![p].q = NoQuery,
                          ![p].pc = IF Len(cmd[p].read) + 1 < Len(Queries) THEN "events" ELSE "gather"]
    /\ UNCHANGED <<block, log, stake>>

\* A query that throws ends the command.
EventsUnread(p) ==
    /\ cmd[p].kind = "stats" /\ cmd[p].pc = "unread"
    /\ Goto(p, "failed")
    /\ UNCHANGED <<block, log, stake>>

\* extractTransactionInfos and the filters by manager.
Info(events, name) == {i \in DOMAIN events : events[i].event = name}

\* extractUnique
Relays(events, name) == {events[i].subject : i \in Info(events, name)}

\* mutant
GetRelaysStakeStatusKeepingUnlocked(events) ==
    LET staked    == Relays(events, "StakeAdded")
        unlocked  == Relays(events, "StakeUnlocked")
        withdrawn == Relays(events, "StakeWithdrawn")
        penalized == Relays(events, "StakePenalized")
    IN  [STAKE_LOCKED    |-> (staked \ unlocked) \ penalized,
         STAKE_UNLOCKED  |-> unlocked \ penalized,
         STAKE_WITHDRAWN |-> withdrawn,
         STAKE_PENALIZED |-> penalized]

\* The relays of each status, from what ever happened to them.
GetRelaysStakeStatus(events) ==
    LET staked    == Relays(events, "StakeAdded")
        unlocked  == Relays(events, "StakeUnlocked")
        withdrawn == Relays(events, "StakeWithdrawn")
        penalized == Relays(events, "StakePenalized")
    IN  [STAKE_LOCKED    |-> (staked \ unlocked) \ penalized,
         STAKE_UNLOCKED  |-> (unlocked \ withdrawn) \ penalized,
         STAKE_WITHDRAWN |-> withdrawn,
         STAKE_PENALIZED |-> penalized]

\* eventsComparator puts the latest event first.
SortByComparator(events) ==
    LET LatestFirst(a, b) == a.block > b.block IN SortSeq(events, LatestFirst)

\* The hubs left after adding and deleting in the sorted order.
GetAuthorizedHubs(m, events) ==
    LET OfManager(e) == e.subject = m /\ e.event \in {"HubAuthorized", "HubUnauthorized"}
        Step(e, hubs) == IF e.event = "HubAuthorized" THEN hubs \cup {e.object}
                                                      ELSE hubs \ {e.object}
    IN  FoldLeft(LAMBDA hubs, e : Step(e, hubs), {},
                 SortByComparator(SelectSeq(events, OfManager)))

\* gatherRelayInfo for one relay of getRelaysStakeStatus.
GatherRelayInfo(p, m, status) ==
    [manager |-> m, status |-> status,
     authorizedHubs |-> GetAuthorizedHubs(m, cmd[p].read[1]),
     isRegistered |-> status = "STAKE_LOCKED"
                      /\ m \in Relays(cmd[p].read[3], "RelayServerRegistered")]

GetRelayServersInfo(p) ==
    LET byStatus == GetRelaysStakeStatus(cmd[p].read[1]) IN
    UNION {{GatherRelayInfo(p, m, status) : m \in byStatus[status]} : status \in DOMAIN byStatus}

\* Of every paymaster with a deposit: what it accepted and rejected.
GetPaymastersInfo(p) ==
    LET Count(events, pm) == Cardinality({i \in DOMAIN events : events[i].object = pm}) IN
    [pm \in {cmd[p].read[2][i].object : i \in DOMAIN cmd[p].read[2]} |->
        [accepted |-> Count(cmd[p].read[4], pm), rejected |-> Count(cmd[p].read[5], pm)]]

\* The rest of gatherStatistics: the balances and pings it asks for change
\* nothing and are left out.
GatherStatistics(p) ==
    /\ cmd[p].kind = "stats" /\ cmd[p].pc = "gather"
    /\ cmd' = [cmd EXCEPT ![p].pc = "done", ![p].relays = GetRelayServersInfo(p),
                          ![p].paymasters = GetPaymastersInfo(p)]
    /\ UNCHANGED <<block, log, stake>>

StatisticsStep(p) ==
    AskEvents(p) \/ FetchEvents(p) \/ EventsUnread(p) \/ GatherStatistics(p)

(* -------------------------------- properties ------------------------------- *)

\* The contract's rules, replayed on the events up to block b.
StatusAt(m, b) ==
    LET Of(e) == e.subject = m /\ e.block <= b /\ e.event \in StakeEvents
        Step(s, e) == CASE e.event = "StakeAdded" -> [s EXCEPT !.staked = TRUE, !.ever = TRUE]
                        [] e.event = "StakeUnlocked" -> [s EXCEPT !.locked = FALSE]
                        [] e.event = "StakeWithdrawn" -> [s EXCEPT !.locked = TRUE, !.staked = FALSE]
                        [] e.event = "StakePenalized" -> [s EXCEPT !.staked = FALSE]
                        [] e.event = "HubAuthorized" -> [s EXCEPT !.hubs = @ \cup {e.object}]
                        [] OTHER -> [s EXCEPT !.hubs = @ \ {e.object}]
    IN  FoldLeft(Step, [staked |-> FALSE, ever |-> FALSE, locked |-> TRUE, hubs |-> {}],
                 SelectSeq(log, Of))

Reported == {p \in DOMAIN cmd : cmd[p].kind = "stats" /\ cmd[p].pc = "done"}

(***************************************************************************)
(* The status the table derives from what ever happened agrees with the    *)
(* contract at the block the events were read up to: a relay shown as      *)
(* locked has a locked stake, one shown as unlocked waits to withdraw, and *)
(* no relay that ever staked is missing, though the relay may go on to     *)
(* unlock, withdraw, stake again or be penalized during the later queries. *)
(***************************************************************************)
StatusSound ==
    \A p \in Reported : \A m \in Managers :
        LET truth == StatusAt(m, cmd[p].readAt[1])
            rows  == {r \in cmd[p].relays : r.manager = m}
        IN  /\ \A r \in rows : r.status = "STAKE_LOCKED" => truth.staked /\ truth.locked
            /\ \A r \in rows : r.status = "STAKE_UNLOCKED" => ~truth.locked
            /\ truth.ever => rows # {}
===============================================================================
