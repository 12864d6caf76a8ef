----------------------------- MODULE RelayManager -----------------------------
(***************************************************************************)
(* The interval worker of a relay server: RelayServer's _worker with its   *)
(* RegistrationManager, and the manager account it keeps on chain: its     *)
(* owner, stake and authorised hub, its registration and its balances.     *)
(*                                                                         *)
(* A log position stands for a block with an event of the manager in it;   *)
(* any number of empty blocks may lie between two of them.  Every remote   *)
(* call of the worker is a step, and may fail.                             *)
(***************************************************************************)
EXTENDS Naturals, FiniteSets, Sequences, SequencesExt

CONSTANTS
    Histories,        \* logs a behaviour may start from
    MaxOwnerActions,  \* bound on what the owner does to the stake
    MaxTrouble        \* bound on remote calls that fail, restarts and registrations
                      \* forced by registrationBlockRate, together

StakeKinds == {"StakeAdded", "StakeUnlocked", "StakeWithdrawn"}
HubKinds   == {"HubAuthorized", "HubUnauthorized"}
ManagerEvents == {"OwnerSet"} \cup StakeKinds \cup HubKinds   \* of the stake manager
HubEvents     == {"WorkersAdded", "Registered"}               \* of the relay hub

LatestIn(events, kinds, n) ==
    LET seen == {i \in 1..n : events[i] \in kinds}
    IN IF seen = {} THEN "none" ELSE events[CHOOSE i \in seen : \A j \in seen : j <= i]

\* External: the contracts register a manager only while it is staked and
\* authorised.  Stake added to a stake that is there is no event of its own.
Possible(events) ==
    \A i \in DOMAIN events :
      /\ events[i] = "StakeAdded" => LatestIn(events, StakeKinds, i - 1) \in {"none", "StakeWithdrawn"}
      /\ events[i] = "Registered" => /\ LatestIn(events, StakeKinds, i) = "StakeAdded"
                                     /\ LatestIn(events, HubKinds, i) = "HubAuthorized"

ASSUME ManagerAssumption ==
    /\ \A h \in Histories : h \in Seq(ManagerEvents \cup HubEvents) /\ Possible(h)
    /\ MaxOwnerActions \in Nat /\ MaxTrouble \in Nat

VARIABLES
    log,       \* external: the manager's events on chain
    removed,   \* external: positions of HubUnauthorized whose removalBlock is past
    outbox,    \* external: the manager's transactions not mined yet, by nonce
    funds,     \* external: balances; the manager's is 0, its minimum 1 or its target 2
    stored,    \* txStoreManager: the actions that are pending for the server
    settling,  \* "mined": the store holds a transaction that is mined; "recent": and one
               \* was mined since the worker's block; "forgot": the store does not hold
               \* the first of the outbox; "clear": none of these
    srv,       \* RelayServer and RegistrationManager: what they hold in memory
    worker,    \* the state of _worker
    acts       \* owner actions and trouble so far

chain == <<log, removed, funds, settling>>
vars  == <<chain, outbox, stored, srv, worker, acts>>

(* -------------------- the chain as of a log position --------------------- *)

Latest(kinds, n) == LatestIn(log, kinds, n)

Happened(kind, n) == Latest({kind}, n) # "none"
HasStake(n)   == Latest(StakeKinds, n) \in {"StakeAdded", "StakeUnlocked"}
Locked(n)     == Latest(StakeKinds, n) = "StakeAdded"
Authorized(n) == Latest(HubKinds, n) = "HubAuthorized"
Staked(n)     == Locked(n) /\ Authorized(n)      \* isRelayManagerStakedOnHub
Now == Len(log)

(* --------------------------- the initial state --------------------------- *)

\* A process that has just started.  lastScannedBlock is the configured block.
Fresh == [initialized |-> FALSE, ready |-> FALSE, scanned |-> 0, delayed |-> {},
          isHubAuthorized |-> FALSE, isStakeLocked |-> FALSE, stakeOk |-> FALSE,
          ownerAddress |-> FALSE, isOwnerSet |-> FALSE, isSetOwnerCalled |-> FALSE,
          registered |-> FALSE, workerAdded |-> FALSE]

Idle == [pc |-> "idle", cur |-> 0, batch |-> {}, due |-> 0, all |-> FALSE, force |-> FALSE]

Init ==
    /\ log \in Histories
    /\ removed = {}
    /\ outbox = <<>>
    /\ funds = [hub |-> FALSE, worker |-> TRUE, manager |-> 2]
    /\ stored = {}
    /\ settling = "clear"
    /\ srv = Fresh
    /\ worker = Idle
    /\ acts = [owner |-> 0, trouble |-> 0]

(* ---------------------------- the interval worker ------------------------ *)

At(pc) == worker.pc = pc
Goto(pc) == worker' = [worker EXCEPT !.pc = pc]
Send(action) == /\ outbox' = Append(outbox, action)
                /\ stored' = stored \cup {action}

\* A remote call throws or answers what the worker refuses: no gas price, or one above
\* the maximum.  The bound is shared with restarts and forced registrations.
Trouble == acts.trouble < MaxTrouble /\ acts' = [acts EXCEPT !.trouble = @ + 1]

\* A block newer than lastScannedBlock arrives, no worker is under way, and the
\* state is not ready or refreshStateTimeoutBlocks old.
IntervalHandler ==
    /\ At("idle")
    /\ worker' = [Idle EXCEPT !.pc = IF srv.initialized THEN "balance" ELSE "init", !.cur = Now]
    /\ settling' = IF settling = "recent" THEN "mined" ELSE settling
    /\ UNCHANGED <<log, removed, funds, outbox, stored, srv, acts>>

\* refreshStake returns at a zero stake, before it assigns what a zero stake
\* would change.
RefreshStake(s) ==
    LET t == [s EXCEPT !.isHubAuthorized = @ \/ Staked(Now),
                       !.isOwnerSet = Happened("OwnerSet", Now)]
    IN IF HasStake(Now)
       THEN [t EXCEPT !.isStakeLocked = Locked(Now), !.stakeOk = TRUE, !.ownerAddress = TRUE]
       ELSE t

\* RegistrationManager.init: the last registration and the last added worker are
\* queried.
Discover(s) == [RefreshStake(s) EXCEPT !.registered = Happened("Registered", Now),
                                       !.workerAdded = Happened("WorkersAdded", Now)]

InitServer ==
    /\ At("init")
    /\ srv' = [Discover(srv) EXCEPT !.initialized = TRUE]
    /\ Goto("balance")
    /\ UNCHANGED <<chain, outbox, stored, acts>>

\* _worker: a manager below its minimum balance handles no event at all.
RefreshBalance ==
    /\ At("balance")
    /\ IF funds.manager = 0
       THEN worker' = Idle /\ srv' = [srv EXCEPT !.ready = FALSE]
       ELSE Goto("hubEvents") /\ srv' = srv
    /\ UNCHANGED <<chain, outbox, stored, acts>>

\* To the latest block, not to the one the worker was started for.
AllHubEventsSinceLastScan == {log[i] : i \in (srv.scanned + 1)..Now} \cap HubEvents

UpdateLatestRegistrationTxs(s, since) ==
    [s EXCEPT !.registered = @ \/ "Registered" \in since,
              !.workerAdded = @ \/ "WorkersAdded" \in since]

ShouldRegisterAgain_Unasked(expired) == expired \in BOOLEAN   \* mutant

\* The registration, or all activity, is more than a number of blocks old.
ShouldRegisterAgain(expired) == expired => "register" \notin stored

GetHubEvents ==
    /\ At("hubEvents")
    /\ srv' = UpdateLatestRegistrationTxs(srv, AllHubEventsSinceLastScan)
    /\ \E expired \in BOOLEAN :
            /\ ShouldRegisterAgain(expired)
            /\ IF expired THEN Trouble ELSE UNCHANGED acts
            /\ worker' = [worker EXCEPT !.pc = "stakeEvents", !.force = expired]
    /\ UNCHANGED <<chain, outbox, stored>>

\* handlePastEvents: the stake manager's events, also to the latest block.  The
\* server remembers that it called setOwner before it did.
GetStakeEvents ==
    LET positions == {i \in (srv.scanned + 1)..Now : log[i] \in ManagerEvents}
        sets == ~srv.isOwnerSet /\ ~srv.isSetOwnerCalled
    IN /\ At("stakeEvents")
       /\ worker' = [worker EXCEPT !.batch = positions,
                                   !.pc = IF sets THEN "setOwner" ELSE "events"]
       /\ srv' = [srv EXCEPT !.isSetOwnerCalled = @ \/ sets]
       /\ UNCHANGED <<chain, outbox, stored, acts>>

SetOwnerInStakeManager ==
    /\ At("setOwner")
    /\ Send("setOwner")
    /\ Goto("events")
    /\ UNCHANGED <<chain, srv, acts>>

\* The next event of the batch.  An authorisation or its end is taken from the event,
\* anything about the stake is read from the chain as it is by now.
HandleEvent ==
    \E position \in worker.batch :
    LET kind == log[position]
    IN /\ At("events") /\ \A later \in worker.batch : position <= later
       /\ srv' = CASE kind = "HubAuthorized" -> [srv EXCEPT !.isHubAuthorized = TRUE]
                   [] kind = "HubUnauthorized" ->
                        [srv EXCEPT !.isHubAuthorized = FALSE, !.delayed = @ \cup {position}]
                   [] OTHER -> RefreshStake(srv)
       /\ worker' = [worker EXCEPT
            !.batch = @ \ {position},
            !.pc = IF kind = "StakeWithdrawn" THEN "pay" ELSE "events",
            !.all = kind = "StakeWithdrawn"]
       /\ UNCHANGED <<chain, outbox, stored, acts>>

\* _extractDuePendingEvents: due ones are forgotten before they are handled.
ExtractDuePendingEvents ==
    LET due == srv.delayed \cap removed
    IN /\ At("events") /\ worker.batch = {}
       /\ srv' = [srv EXCEPT !.delayed = @ \ removed]
       /\ worker' = [worker EXCEPT !.pc = IF due = {} THEN "register" ELSE "pay",
                                   !.due = Cardinality(due)]
       /\ UNCHANGED <<chain, outbox, stored, acts>>

WithdrawAllFunds_KeepsManager ==   \* mutant: the manager's own balance stays
    /\ At("pay") /\ srv.ownerAddress
    /\ funds' = [funds EXCEPT !.hub = FALSE, !.worker = FALSE]
    /\ worker' = IF worker.all THEN [worker EXCEPT !.pc = "events", !.all = FALSE]
                 ELSE [worker EXCEPT !.due = @ - 1,
                                     !.pc = IF worker.due = 1 THEN "register" ELSE "pay"]
    /\ UNCHANGED <<log, removed, settling, outbox, stored, srv, acts>>

\* withdrawAllFunds: hub balance, the worker's and, if the stake is gone, the
\* manager's own.  Without an owner address it throws.
WithdrawAllFunds ==
    /\ At("pay") /\ srv.ownerAddress
    /\ funds' = [hub |-> FALSE, worker |-> FALSE,
                 manager |-> IF worker.all THEN 0 ELSE funds.manager]
    /\ worker' = IF worker.all THEN [worker EXCEPT !.pc = "events", !.all = FALSE]
                 ELSE [worker EXCEPT !.due = @ - 1,
                                     !.pc = IF worker.due = 1 THEN "register" ELSE "pay"]
    /\ UNCHANGED <<log, removed, settling, outbox, stored, srv, acts>>

\* The transfers go out one after the other; one that fails leaves the rest.
WithdrawSomeFunds ==
    /\ At("pay") /\ srv.ownerAddress
    /\ Trouble
    /\ funds' \in {[funds EXCEPT !.hub = FALSE],
                   [funds EXCEPT !.hub = FALSE, !.worker = FALSE]}
    /\ worker' = Idle
    /\ srv' = [srv EXCEPT !.ready = FALSE]
    /\ UNCHANGED <<log, removed, settling, outbox, stored>>

OwnerAddressMissing ==
    /\ At("pay") /\ ~srv.ownerAddress
    /\ worker' = Idle
    /\ srv' = [srv EXCEPT !.ready = FALSE]
    /\ UNCHANGED <<chain, outbox, stored, acts>>

\* _isRegistrationCorrect is about the transaction mined last; what is pending
\* counts as done.
RegistrationWanted == ~("register" \in stored \/ srv.registered) \/ worker.force

\* The hub knows the worker, or the server saw it added or is adding it.
WorkerAdded == srv.workerAdded \/ Happened("WorkersAdded", Now) \/ "addWorker" \in stored

AttemptRegistration ==
    LET prerequisites == /\ srv.isHubAuthorized /\ srv.isStakeLocked /\ srv.stakeOk
                         /\ Staked(Now)
        sends == IF WorkerAdded THEN <<"register">> ELSE <<"addWorker", "register">>
    IN /\ At("register")
       /\ IF RegistrationWanted /\ prerequisites
          THEN outbox' = outbox \o sends /\ stored' = stored \cup Range(sends)
          ELSE UNCHANGED <<outbox, stored>>
       /\ Goto("confirm")
       /\ UNCHANGED <<chain, srv, acts>>

IsRegistered_HubIgnored == srv.stakeOk /\ srv.isStakeLocked /\ srv.registered   \* mutant

\* isRegistered decides whether the server goes on.
IsRegistered == srv.stakeOk /\ srv.isStakeLocked /\ srv.isHubAuthorized /\ srv.registered

\* removeConfirmedTransactions notices what is mined.  Once it finds a stored one that
\* has confirmationsNeeded confirmations it removes as many nonces as have them and one
\* more: when all that is mined has them, that is the first of the outbox.
RemoveTxsUntilNonce(confirmed) ==
    LET first == IF confirmed THEN 2 ELSE 1
    IN /\ confirmed => settling = "mined"
       /\ stored' = stored \cap {outbox[i] : i \in first..Len(outbox)}
       /\ \/ confirmed /\ settling' = IF outbox = <<>> THEN "clear" ELSE "forgot"
          \/ ~confirmed /\ settling' = settling
          \/ ~confirmed /\ settling \in {"mined", "recent"} /\ settling' = "clear"

\* Then the scan is complete.
RemoveConfirmed ==
    /\ At("confirm")
    /\ \E confirmed \in BOOLEAN : RemoveTxsUntilNonce(confirmed)
    /\ srv' = [srv EXCEPT !.scanned = worker.cur, !.ready = @ /\ IsRegistered]
    /\ worker' = IF IsRegistered THEN [worker EXCEPT !.pc = "replenish"] ELSE Idle
    /\ UNCHANGED <<log, removed, funds, outbox, acts>>

ReplenishServer_HubIgnored ==   \* mutant: the hub balance is left where it is
    LET refills == ~funds.worker /\ funds.manager = 2 /\ "fundWorker" \notin stored
    IN /\ At("replenish")
       /\ outbox' = IF refills THEN Append(outbox, "fundWorker") ELSE outbox
       /\ stored' = IF refills THEN stored \cup {"fundWorker"} ELSE stored
       /\ srv' = [srv EXCEPT !.ready = funds.worker]
       /\ worker' = Idle
       /\ UNCHANGED <<chain, acts>>

\* replenishServer: the hub balance refills the manager, the manager its worker,
\* one transaction of a kind at a time; a poor worker is not ready.
ReplenishServer ==
    LET withdraws == funds.manager < 2 /\ funds.hub /\ "withdrawHub" \notin stored
        refills   == ~funds.worker /\ funds.manager = 2 /\ "fundWorker" \notin stored
        sends     == (IF withdraws THEN <<"withdrawHub">> ELSE <<>>)
                       \o (IF refills THEN <<"fundWorker">> ELSE <<>>)
    IN /\ At("replenish")
       /\ outbox' = outbox \o sends
       /\ stored' = stored \cup Range(sends)
       /\ srv' = [srv EXCEPT !.ready = funds.worker]
       /\ worker' = Idle
       /\ UNCHANGED <<chain, acts>>

\* Any remote call may throw: the interval handler catches it, not ready.
WorkerFails ==
    /\ ~At("idle")
    /\ Trouble
    /\ worker' = Idle
    /\ srv' = [srv EXCEPT !.ready = FALSE]
    /\ UNCHANGED <<chain, outbox, stored>>

Restart ==
    /\ Trouble
    /\ srv' = Fresh
    /\ worker' = Idle
    /\ UNCHANGED <<chain, outbox, stored>>

(* ------------------------------- the chain ------------------------------- *)

\* What the owner may do next on the stake manager.
OwnerMoves ==
    IF ~Happened("OwnerSet", Now) THEN {}
    ELSE (CASE Locked(Now) -> {"StakeUnlocked"}
            [] Latest(StakeKinds, Now) = "StakeUnlocked" -> {"StakeWithdrawn"}
            [] OTHER -> {"StakeAdded"})
         \cup {IF Authorized(Now) THEN "HubUnauthorized" ELSE "HubAuthorized"}

OwnerActs ==
    /\ acts.owner < MaxOwnerActions /\ acts' = [acts EXCEPT !.owner = @ + 1]
    /\ \E kind \in OwnerMoves : log' = Append(log, kind)
    /\ UNCHANGED <<removed, outbox, funds, stored, settling, srv, worker>>

RemovalBlockPasses ==
    /\ \E i \in DOMAIN log \ removed : log[i] = "HubUnauthorized" /\ removed' = removed \cup {i}
    /\ UNCHANGED <<log, outbox, funds, stored, settling, srv, worker, acts>>

\* The manager's next transaction is mined; one that reverts leaves no event.
MineNext ==
    LET action == Head(outbox)
        event == CASE action = "setOwner" /\ ~Happened("OwnerSet", Now) -> <<"OwnerSet">>
                   [] action = "addWorker" /\ Staked(Now) /\ ~Happened("WorkersAdded", Now)
                        -> <<"WorkersAdded">>
                   [] action = "register" /\ Staked(Now) /\ Happened("WorkersAdded", Now)
                        -> <<"Registered">>
                   [] OTHER -> <<>>
    IN /\ outbox # <<>>
       /\ outbox' = Tail(outbox)
       /\ settling' = IF settling = "forgot" THEN "clear" ELSE IF At("idle") THEN "mined" ELSE "recent"
       /\ log' = log \o event
       /\ funds' = CASE action = "withdrawHub" /\ funds.hub -> [funds EXCEPT !.hub = FALSE, !.manager = 2]
                     [] action = "fundWorker" /\ funds.manager = 2 ->
                          [funds EXCEPT !.worker = TRUE, !.manager = 1]
                     [] OTHER -> funds
       /\ UNCHANGED <<removed, stored, srv, worker, acts>>

\* A relayed call: the worker pays for it, the hub pays the manager back.
Relayed ==
    /\ srv.ready /\ funds.worker
    /\ funds' = [funds EXCEPT !.worker = FALSE, !.hub = TRUE]
    /\ UNCHANGED <<log, removed, settling, outbox, stored, srv, worker, acts>>

WorkerStep ==
    \/ IntervalHandler \/ InitServer \/ RefreshBalance \/ GetHubEvents
    \/ GetStakeEvents \/ SetOwnerInStakeManager \/ HandleEvent
    \/ ExtractDuePendingEvents \/ WithdrawAllFunds \/ OwnerAddressMissing
    \/ AttemptRegistration \/ RemoveConfirmed \/ ReplenishServer

Next ==
    \/ WorkerStep \/ WithdrawSomeFunds \/ WorkerFails \/ Restart
    \/ OwnerActs \/ RemovalBlockPasses \/ MineNext \/ Relayed

\* Blocks keep coming, so the interval handler keeps starting the worker, its
\* calls are answered, and transactions are mined.
Spec == Init /\ [][Next]_vars /\ WF_vars(WorkerStep) /\ WF_vars(MineNext)
             /\ WF_vars(RemovalBlockPasses)

(* ------------------------------ properties ------------------------------ *)

TypeOK ==
    /\ log \in Seq(ManagerEvents \cup HubEvents) /\ removed \subseteq DOMAIN log
    /\ outbox \in Seq({"setOwner", "addWorker", "register", "withdrawHub", "fundWorker"})
    /\ funds \in [hub : BOOLEAN, worker : BOOLEAN, manager : 0..2]
    /\ stored \subseteq {"setOwner", "addWorker", "register", "withdrawHub", "fundWorker"}
    /\ settling \in {"clear", "mined", "recent", "forgot"}
    /\ srv.scanned \in 0..Now /\ srv.delayed \subseteq DOMAIN log
    /\ worker.batch \subseteq DOMAIN log

Emptied == ~funds.hub /\ ~funds.worker /\ funds.manager = 0

\* A ready server was registered, staked and authorised at some block since the
\* one it scanned last.  The exceptions are about a withdrawn stake, which
\* refreshStake takes for a locked one: one withdrawn since that scan, and one
\* whose withdrawal has just emptied the accounts.
ReadyMeansRegistered ==
    srv.ready =>
      \/ \E n \in srv.scanned..Now : Staked(n) /\ Happened("Registered", n)
      \/ \E i \in (srv.scanned + 1)..Now : log[i] = "StakeWithdrawn"
      \/ Emptied

\* At most one registration that the store knows of is under way, through failures,
\* forced registrations and restarts.  A second one is sent only after the store lost
\* the first to removeTxsUntilNonce (TransactionManager.ts:256-259), which makes that
\* one the next to be mined: two are under way at most, and no third is sent.
Forgotten(i) == i = 1 /\ settling = "forgot"

OneRegistrationPending ==
    Cardinality({i \in DOMAIN outbox : outbox[i] = "register" /\ ~Forgotten(i)}) <= 1

\* A manager that stays staked and authorised, with money for its worker, is
\* ready again and again.
Solvent == funds.manager > 0 /\ (funds.worker \/ funds.hub \/ funds.manager = 2)
StakedBecomesReady == <>[](Staked(Now) /\ Solvent) => []<>srv.ready

\* Once the stake is withdrawn for good, every balance ends up with the owner,
\* whatever transfers fail on the way: as long as the server has not lost the
\* owner's address, which a restart after the withdrawal does.
FundsReturned ==
    <>[](Latest(StakeKinds, Now) = "StakeWithdrawn" /\ srv.ownerAddress) => <>Emptied
=============================================================================
