---------------------------- MODULE RelayRequests ----------------------------
(***************************************************************************)
(* What a relay server decides about a request to relay a call: the checks *)
(* of RelayServer.createRelayTransaction, and the reputation of the        *)
(* paymaster that would pay, which requests read and stamp while the       *)
(* worker counts the hub's events (ReputationManager and                   *)
(* ReputationStoreManager).  All requests name one paymaster.              *)
(*                                                                         *)
(* Every `await' ends a step.  An update of the store is two of them: the  *)
(* entry is found, and later the whole of it is written.                   *)
(***************************************************************************)
EXTENDS Naturals, Integers, FiniteSets, Sequences, SequencesExt

CONSTANTS
    Requests,     \* HTTP requests the server may get
    Worlds,       \* what a behaviour starts from: the entry stored, the hub's
                  \* events to come by block, the balance and the requests,
                  \* what the manager's standing may lapse to, and bounds on
                  \* the block number, the time and the workers that fail
    Config        \* ReputationManagerConfiguration, alertedBlockDelay and
                  \* requestMinValidBlocks

ASSUME RequestsAssumption ==
    /\ \A w \in Worlds :
         /\ w.balance \in Nat /\ w.blocks \in Nat /\ w.time \in Nat /\ w.failures \in Nat
         /\ w.events \in Seq([ok : BOOLEAN, block : 1..w.blocks])
         /\ DOMAIN w.requests \subseteq Requests
         /\ w.lapse \in {"none", "unregistered", "poor"}
    /\ Config.initialReputation > Config.blockReputation
    /\ Config.abuseTimeWindowBlocks \in Nat \ {0}

VARIABLES
    world,     \* the element of Worlds this behaviour is about
    block,     \* external: the block number
    clock,     \* Date.now(), in units of which throttleDelayMs is one
    balance,   \* external: the paymaster's balance on the hub, in charges
    events,    \* external: the hub's events of this relay manager
    sent,      \* the requests sent, in the order of their nonces
    mined,     \* external: how many of them are mined
    unpaid,    \* external: those whose relayCall reverted for want of balance
    standing,  \* external: the manager's, that lapses once and may be regained
    entry,     \* the paymaster's entry of the reputation store
    scanned,   \* lastScannedBlock
    ready,
    alert,     \* alerted and alertedBlock
    request,   \* per request: the state of its handler
    worker,    \* the interval worker
    handled,   \* history: the events counted so far, in order
    lost,      \* history: the events given up after lastScannedBlock passed them
    stale,     \* history: some write was based on an entry that has changed since
    failures   \* workers that failed so far

chain == <<world, block, clock, balance, events, mined, unpaid, standing>>
server  == <<scanned, ready, alert>>
history == <<handled, lost, stale>>
vars  == <<chain, sent, entry, server, request, worker, history, failures>>

Event(ok, b) == [ok |-> ok, block |-> b]
NewEntry == [exists |-> TRUE, reputation |-> Config.initialReputation, last |-> 0,
             abuse |-> 0, changes |-> <<>>]
NoEntry  == [NewEntry EXCEPT !.exists = FALSE]

NoRequest == [pc |-> "idle", at |-> 0, read |-> NoEntry, found |-> NoEntry,
              time |-> 0, throttled |-> FALSE, seen |-> 0, after |-> {}]
NoWorker == [pc |-> "idle", cur |-> 0, batch |-> <<>>, read |-> NoEntry, found |-> NoEntry]

Init ==
    /\ world \in Worlds
    /\ block = 0
    /\ clock = 2
    /\ balance = world.balance
    /\ events = <<>>
    /\ sent = <<>>
    /\ mined = 0
    /\ unpaid = {}
    /\ standing = "registered"
    /\ entry = world.entry
    /\ scanned = 0
    /\ ready = TRUE
    /\ alert = [on |-> FALSE, block |-> 0]
    /\ request = [r \in Requests |-> NoRequest]
    /\ worker = NoWorker
    /\ handled = <<>>
    /\ lost = {}
    /\ stale = FALSE
    /\ failures = 0

(* -------------------------- a request: the checks ------------------------ *)

At(r, pc) == request[r].pc = pc
Terms(r)  == world.requests[r]
Relays(r) == Terms(r).kind = "relay"

\* A handler is done; what a later request must know of it is kept.
Ended(r, outcome) ==
    [NoRequest EXCEPT !.pc = outcome, !.time = request[r].time, !.seen = request[r].seen,
       !.throttled = request[r].throttled, !.after = request[r].after, !.at = request[r].at]
Refuse(r) == request' = [request EXCEPT ![r] = [NoRequest EXCEPT !.pc = "refused"]]
Step(r, pc) == request' = [request EXCEPT ![r].pc = pc]

Outcomes == {"relayed", "unanswered", "refused", "answered"}

\* A ping goes straight to the paymaster's status.
PingHandler(r) ==
    /\ At(r, "idle") /\ r \in DOMAIN world.requests /\ ~Relays(r)
    /\ request' = [request EXCEPT ![r].pc = "status", ![r].at = scanned]
    /\ UNCHANGED <<chain, sent, entry, server, worker, history, failures>>

\* createRelayTransaction of a ready server.  An alerted one waits a while.
RelayHandler(r) ==
    /\ At(r, "idle") /\ r \in DOMAIN world.requests /\ Relays(r) /\ ready
    /\ request' = [request EXCEPT ![r].pc = "validate",
                     ![r].after = {q \in Requests : request[q].pc \in Outcomes}]
    /\ UNCHANGED <<chain, sent, entry, server, worker, history, failures>>

\* validateInput: what the request names is known, and it does not expire soon.
ValidateInput(r) ==
    /\ Terms(r).legal
    /\ Terms(r).validUntil - block >= Config.requestMinValidBlocks

\* A trusted paymaster takes any fee.
ValidateFees(r) == Terms(r).trusted \/ Terms(r).fees

Validate(r) ==
    /\ At(r, "validate")
    /\ IF ValidateInput(r) /\ ValidateFees(r) THEN Step(r, "nonce") ELSE Refuse(r)
    /\ UNCHANGED <<chain, sent, entry, server, worker, history, failures>>

ValidateMaxNonce_OneMore(r) ==   \* mutant
    /\ At(r, "nonce")
    /\ IF Len(sent) > Terms(r).maxNonce + 1 THEN Refuse(r)
       ELSE request' = [request EXCEPT ![r].pc = "status", ![r].at = scanned]
    /\ UNCHANGED <<chain, sent, entry, server, worker, history, failures>>

\* The nonce is polled now and taken later, by sendTransaction.
ValidateMaxNonce(r) ==
    /\ At(r, "nonce")
    /\ IF Len(sent) > Terms(r).maxNonce THEN Refuse(r)
       ELSE request' = [request EXCEPT ![r].pc = "status", ![r].at = scanned]
    /\ UNCHANGED <<chain, sent, entry, server, worker, history, failures>>

(* --------------------- a request: the paymaster's status ----------------- *)

Throttled_OffByOne(e) ==   \* mutant
    /\ e.reputation < Config.throttleReputation
    /\ clock - e.last < Config.throttleDelayMs

Throttled(e) ==
    /\ e.reputation < Config.throttleReputation
    /\ clock - e.last <= Config.throttleDelayMs

\* A throttled paymaster may be pinged.
PingAnswered(r) == Ended(r, "answered")

\* The end of getPaymasterStatus.
JudgeDelay(r, e) ==
    IF ~Relays(r) THEN PingAnswered(r)
    ELSE IF Throttled(e) THEN [NoRequest EXCEPT !.pc = "refused"]
    ELSE [request[r] EXCEPT !.pc = "limits", !.read = NoEntry, !.found = NoEntry,
            !.throttled = e.reputation < Config.throttleReputation]

Judge_WindowOffByOne(r, e) ==   \* mutant
    IF e.reputation <= Config.blockReputation THEN [NoRequest EXCEPT !.pc = "refused"]
    ELSE IF e.abuse # 0
    THEN IF request[r].at - e.abuse < Config.abuseTimeWindowBlocks
         THEN [NoRequest EXCEPT !.pc = "refused"]
         ELSE [request[r] EXCEPT !.pc = "clear", !.read = e]
    ELSE JudgeDelay(r, e)

Judge(r, e) ==
    IF e.reputation <= Config.blockReputation THEN [NoRequest EXCEPT !.pc = "refused"]
    ELSE IF e.abuse # 0
    THEN IF request[r].at - e.abuse <= Config.abuseTimeWindowBlocks
         THEN [NoRequest EXCEPT !.pc = "refused"]
         ELSE [request[r] EXCEPT !.pc = "clear", !.read = e]
    ELSE JudgeDelay(r, e)

GetEntry(r) ==
    /\ At(r, "status")
    /\ request' = [request EXCEPT ![r] =
         IF entry.exists THEN [Judge(r, entry) EXCEPT !.seen = Len(handled), !.at = scanned]
         ELSE [@ EXCEPT !.pc = "create"]]
    /\ UNCHANGED <<chain, sent, entry, server, worker, history, failures>>

\* The paymaster's index is unique: the second of two inserts throws.
CreateEntry(r) ==
    /\ At(r, "create")
    /\ IF entry.exists THEN Refuse(r) /\ entry' = entry
       ELSE /\ entry' = NewEntry
            /\ request' = [request EXCEPT ![r] = [Judge(r, NewEntry) EXCEPT !.seen = Len(handled), !.at = scanned]]
    /\ UNCHANGED <<chain, sent, server, worker, history, failures>>

\* clearAbuseFlag, and then the rest of the judgement on the entry first read.
FindToClear(r) ==
    /\ At(r, "clear")
    /\ request' = [request EXCEPT ![r].pc = "cleared", ![r].found = entry]
    /\ UNCHANGED <<chain, sent, entry, server, worker, history, failures>>

ClearAbuseFlag(r) ==
    /\ At(r, "cleared")
    /\ entry' = [request[r].found EXCEPT !.reputation = Config.abuseTimeoutReputation, !.abuse = 0]
    /\ stale' = (stale \/ entry # request[r].read)
    /\ request' = [request EXCEPT ![r] = [JudgeDelay(r, request[r].read) EXCEPT !.seen = @]]
    /\ UNCHANGED <<chain, sent, server, worker, handled, lost, failures>>

(* ---------------------- a request: payment and relaying ------------------ *)

\* Its acceptance budget is not above the maximum; a trusted one may ask more.
AcceptanceBudget(r) == Terms(r).trusted \/ Terms(r).budget

\* validatePaymasterGasAndDataLimits: the balance covers one charge.
ValidatePaymasterBalance(r) ==
    /\ At(r, "limits")
    /\ IF AcceptanceBudget(r) /\ balance > 0 THEN Step(r, "view") ELSE Refuse(r)
    /\ UNCHANGED <<chain, sent, entry, server, worker, history, failures>>

\* relayCall is tried on top of what is pending; the paymaster may refuse.
ViewCallSucceeds(r) ==
    /\ At(r, "view")
    /\ IF balance > Len(sent) - mined THEN Step(r, "accept") ELSE Refuse(r)
    /\ UNCHANGED <<chain, sent, entry, server, worker, history, failures>>

\* A remote call, a check of the paymaster contract or its view call fails.
RequestFails(r) ==
    /\ request[r].pc \in {"validate", "nonce", "limits", "view"}
    /\ Refuse(r)
    /\ UNCHANGED <<chain, sent, entry, server, worker, history, failures>>

\* onRelayRequestAccepted
FindToStamp(r) ==
    /\ At(r, "accept")
    /\ request' = [request EXCEPT ![r].pc = "stamp", ![r].time = clock, ![r].found = entry]
    /\ UNCHANGED <<chain, sent, entry, server, worker, history, failures>>

UpdateLastAcceptedTimestamp(r) ==
    /\ At(r, "stamp")
    /\ entry' = [request[r].found EXCEPT !.last = request[r].time]
    /\ stale' = (stale \/ entry # request[r].found)
    /\ request' = [request EXCEPT ![r].pc = "send", ![r].found = NoEntry]
    /\ UNCHANGED <<chain, sent, server, worker, handled, lost, failures>>

SendTransaction(r) ==
    /\ At(r, "send")
    /\ sent' = Append(sent, r)
    /\ Step(r, "replenish")
    /\ UNCHANGED <<chain, entry, server, worker, history, failures>>

\* replenishServer may throw: the answer is an error, the transaction is out.
ReplenishServer(r) ==
    /\ At(r, "replenish")
    /\ \E outcome \in {"relayed", "unanswered"} :
         request' = [request EXCEPT ![r] = Ended(r, outcome)]
    /\ UNCHANGED <<chain, sent, entry, server, worker, history, failures>>

(* ------------------------------- the worker ------------------------------ *)

\* A manager without its minimum balance ends the scan before it begins.
ScanBegins ==
    IF standing = "poor"
    THEN ready' = FALSE /\ worker' = worker
    ELSE ready' = ready /\ worker' = [worker EXCEPT !.pc = "fetch", !.cur = block]

IntervalHandler ==
    /\ worker.pc = "idle" /\ block > scanned
    /\ ScanBegins
    /\ UNCHANGED <<chain, sent, entry, scanned, alert, request, history, failures>>

\* Events up to the latest block, which may be past `cur'.
GetAllHubEventsSinceLastScan ==
    /\ worker.pc = "fetch"
    /\ worker' = [worker EXCEPT !.pc = "scan",
                     !.batch = SelectSeq(events, LAMBDA e : e.block > scanned)]
    /\ UNCHANGED <<chain, sent, entry, server, request, history, failures>>

HandleChanges_LatestBlock ==   \* mutant: scanned up to the block it is by now
    /\ worker.pc = "scan"
    /\ scanned' = block
    /\ worker' = [worker EXCEPT !.pc = "registered"]
    /\ UNCHANGED <<chain, sent, entry, ready, alert, request, history, failures>>

\* The scan counts as done before the events are handled.
HandleChanges ==
    /\ worker.pc = "scan"
    /\ scanned' = worker.cur
    /\ worker' = [worker EXCEPT !.pc = "registered"]
    /\ UNCHANGED <<chain, sent, entry, ready, alert, request, history, failures>>

\* The worker ends; what is left of its batch is not fetched again.
GivesUp ==
    /\ worker' = NoWorker
    /\ ready' = FALSE
    /\ lost' = lost \cup Range(worker.batch)

\* A server that is not registered drops the batch.
IsRegistered ==
    /\ worker.pc = "registered"
    /\ IF standing = "unregistered" THEN GivesUp
       ELSE worker' = [worker EXCEPT !.pc = "handle"] /\ UNCHANGED <<ready, lost>>
    /\ UNCHANGED <<chain, sent, entry, scanned, alert, request, handled, stale, failures>>

\* A rejection by the paymaster alerts the server; both kinds are counted.
HandlePastHubEvents ==
    /\ worker.pc = "handle" /\ worker.batch # <<>>
    /\ LET e == Head(worker.batch)
       IN alert' = IF e.ok THEN alert ELSE [on |-> TRUE, block |-> e.block]
    /\ worker' = [worker EXCEPT !.pc = "get"]
    /\ UNCHANGED <<chain, sent, entry, scanned, ready, request, history, failures>>

\* updatePaymasterStatus: below the maximum, a change that follows enough
\* losses flags the paymaster; the change itself is not among them.
Change(e) == IF e.ok THEN 1 ELSE -1

ChangeInAbuseWindow(changes, b) ==
    FoldLeft(LAMBDA sum, c : sum + Change(c), 0,
             SelectSeq(changes, LAMBDA c : b - c.block < Config.abuseTimeWindowBlocks))

JudgeEvent(read) ==
    LET e == Head(worker.batch)
    IN IF read.reputation + Change(e) > Config.maximumReputation
       THEN [worker EXCEPT !.pc = "handle", !.batch = Tail(@)]
       ELSE [worker EXCEPT !.read = read,
               !.pc = IF -ChangeInAbuseWindow(read.changes, e.block) >= Config.abuseReputationChange
                      THEN "flag" ELSE "count"]

Judged(read) ==
    /\ worker' = JudgeEvent(read)
    /\ handled' = IF worker'.pc = "handle" THEN Append(handled, Head(worker.batch)) ELSE handled

GetEntryForEvent ==
    /\ worker.pc = "get"
    /\ IF entry.exists THEN Judged(entry)
       ELSE worker' = [worker EXCEPT !.pc = "create"] /\ handled' = handled
    /\ UNCHANGED <<chain, sent, entry, server, request, lost, stale, failures>>

CreateEntryForEvent ==
    /\ worker.pc = "create"
    /\ IF entry.exists
       THEN GivesUp /\ failures' = failures + 1 /\ UNCHANGED <<entry, handled>>
       ELSE Judged(NewEntry) /\ entry' = NewEntry /\ UNCHANGED <<ready, lost, failures>>
    /\ UNCHANGED <<chain, sent, scanned, alert, request, stale>>

FindToFlag ==
    /\ worker.pc = "flag"
    /\ worker' = [worker EXCEPT !.pc = "flagged", !.found = entry]
    /\ UNCHANGED <<chain, sent, entry, server, request, history, failures>>

SetAbuseFlag ==
    /\ worker.pc = "flagged"
    /\ entry' = [worker.found EXCEPT !.abuse = Head(worker.batch).block]
    /\ stale' = (stale \/ entry # worker.read)
    /\ worker' = [worker EXCEPT !.pc = "count", !.found = NoEntry]
    /\ UNCHANGED <<chain, sent, server, request, handled, lost, failures>>

\* updatePaymasterReputation reads the entry, and updateEntry once more.
FindToCount ==
    /\ worker.pc = "count"
    /\ worker' = [worker EXCEPT !.pc = "counting", !.read = entry]
    /\ UNCHANGED <<chain, sent, entry, server, request, history, failures>>

FindAgain ==
    /\ worker.pc = "counting"
    /\ worker' = [worker EXCEPT !.pc = "counted", !.found = entry]
    /\ UNCHANGED <<chain, sent, entry, server, request, history, failures>>

RecentChanges(changes, b) ==
    SelectSeq(changes, LAMBDA c : c.block > b - Config.abuseTimeWindowBlocks)

UpdatePaymasterReputation ==
    LET e == Head(worker.batch)
    IN /\ worker.pc = "counted"
       /\ entry' = [worker.found EXCEPT
                      !.reputation = worker.read.reputation + Change(e),
                      !.changes = RecentChanges(Append(worker.read.changes, e), e.block)]
       /\ stale' = (stale \/ entry # worker.read)
       /\ handled' = Append(handled, e)
       /\ worker' = [worker EXCEPT !.pc = "handle", !.batch = Tail(@), !.read = NoEntry,
                                   !.found = NoEntry]
       /\ UNCHANGED <<chain, sent, server, request, lost, failures>>

\* The scan is over; the alert ends alertedBlockDelay blocks after its event.  A
\* worker account that could not be refilled keeps the server from being ready.
WorkerReturns ==
    /\ worker.pc = "handle" /\ worker.batch = <<>>
    /\ worker' = NoWorker
    /\ \/ /\ ready' = TRUE
          /\ alert' = [alert EXCEPT !.on = @ /\ alert.block + Config.alertedBlockDelay >= worker.cur]
       \/ ready' = FALSE /\ alert' = alert
    /\ UNCHANGED <<chain, sent, entry, scanned, request, history, failures>>

\* A remote call or the store throws; before the scan counts as done its events are
\* fetched again, later they are not.
WorkerFails ==
    /\ worker.pc # "idle" /\ failures < world.failures
    /\ failures' = failures + 1
    /\ IF worker.pc \in {"fetch", "scan"}
       THEN worker' = NoWorker /\ ready' = FALSE /\ lost' = lost
       ELSE GivesUp
    /\ UNCHANGED <<chain, sent, entry, scanned, alert, request, handled, stale>>

(* ------------------------------- the chain ------------------------------- *)

\* A block with the events due in it and, maybe, the next relayed call: the
\* paymaster pays for it, or rejects it, or cannot pay and it reverts.
NewBlock ==
    LET b == block + 1
        due == SelectSeq(world.events, LAMBDA e : e.block = b)
    IN /\ block < world.blocks
       /\ block' = b
       /\ \/ events' = events \o due /\ UNCHANGED <<mined, balance, unpaid>>
          \/ /\ mined < Len(sent) /\ mined' = mined + 1
             /\ IF balance = 0
                THEN /\ unpaid' = unpaid \cup {sent[mined + 1]}
                     /\ events' = events \o due /\ balance' = balance
                ELSE \E ok \in BOOLEAN :
                       /\ events' = events \o Append(due, Event(ok, b))
                       /\ balance' = balance - (IF ok THEN 1 ELSE 0)
                       /\ unpaid' = unpaid
       /\ UNCHANGED <<world, clock, standing, sent, entry, server, request, worker, history, failures>>

\* The manager's stake, hub or balance goes, and may come back.
StandingChanges ==
    /\ \/ standing = "registered" /\ world.lapse # "none" /\ standing' = world.lapse
       \/ standing = world.lapse /\ standing' = "regained"
    /\ UNCHANGED <<world, block, clock, balance, events, mined, unpaid, sent, entry, server,
                   request, worker, history, failures>>

Tick ==
    /\ clock < world.time
    /\ clock' = clock + 1
    /\ UNCHANGED <<world, block, balance, events, mined, unpaid, standing, sent, entry, server, request, worker, history, failures>>

RequestStep(r) ==
    \/ Validate(r) \/ ValidateMaxNonce(r) \/ GetEntry(r) \/ CreateEntry(r)
    \/ FindToClear(r) \/ ClearAbuseFlag(r) \/ ValidatePaymasterBalance(r)
    \/ ViewCallSucceeds(r) \/ FindToStamp(r) \/ UpdateLastAcceptedTimestamp(r)
    \/ SendTransaction(r) \/ ReplenishServer(r)

WorkerStep ==
    \/ IntervalHandler \/ GetAllHubEventsSinceLastScan \/ HandleChanges
    \/ IsRegistered \/ HandlePastHubEvents \/ GetEntryForEvent \/ CreateEntryForEvent
    \/ FindToFlag \/ SetAbuseFlag \/ FindToCount \/ FindAgain
    \/ UpdatePaymasterReputation \/ WorkerReturns

Next ==
    \/ \E r \in Requests : PingHandler(r) \/ RelayHandler(r) \/ RequestStep(r) \/ RequestFails(r)
    \/ WorkerStep \/ WorkerFails \/ NewBlock \/ StandingChanges \/ Tick

\* The interval handler keeps firing and its calls are answered.
Spec == Init /\ [][Next]_vars /\ WF_vars(WorkerStep)

(* ------------------------------ properties ------------------------------ *)

Served(r) == request[r].pc \in {"send", "replenish", "relayed", "unanswered"}

TypeOK ==
    /\ world \in Worlds /\ block \in 0..world.blocks /\ scanned \in 0..block
    /\ clock \in 2..world.time /\ balance \in 0..world.balance
    /\ mined \in 0..Len(sent) /\ IsInjective(sent)
    /\ unpaid \subseteq Range(sent)
    /\ entry.reputation \in Int /\ entry.changes \in Seq([ok : BOOLEAN, block : Nat])
    /\ alert.on \in BOOLEAN /\ alert.block \in 0..block
    /\ \A e \in Range(handled) : e \in Range(events)

\* Two requests a throttled paymaster pays for are served more than the delay
\* apart, when the second came after the first was answered and no write to
\* the store undid another.
ThrottledApart ==
    \A q, r \in Requests :
        (Served(q) /\ Served(r) /\ q \in request[r].after /\ request[r].throttled)
        => (stale \/ request[r].time - request[q].time > Config.throttleDelayMs)

\* The k-th event counted came after enough losses within the window.
Abusive(k) ==
    -ChangeInAbuseWindow(SubSeq(handled, 1, k - 1), handled[k].block)
        >= Config.abuseReputationChange

\* A request is served only if every abuse counted before its paymaster was
\* judged lies more than the window behind, however events were repeated.
AbuseShutsOut ==
    \A r \in Requests : Served(r) =>
        \A k \in 1..request[r].seen :
            Abusive(k) => stale \/ request[r].at - handled[k].block > Config.abuseTimeWindowBlocks

\* A transaction goes out above the nonce its client allowed, or without the
\* balance to pay for it, only if another request was under way meanwhile.
Alone(r) == \A q \in Range(sent) \ {r} : q \in request[r].after \/ r \in request[q].after

LoneRequestKeepsTerms ==
    \A r \in Range(sent) : (request[r].pc \in Outcomes /\ Alone(r)) =>
        /\ r \notin unpaid
        /\ \E n \in DOMAIN sent : sent[n] = r /\ n - 1 <= Terms(r).maxNonce

\* While the manager has the balance it needs, every event of the hub is counted in
\* the end, some of them twice, or was given up together with the rest of its batch,
\* because an update failed or the server was not registered after lastScannedBlock
\* had passed it (RelayServer.ts:628-635): none falls between two scans.
EventsAreCounted ==
    <>[](standing = "poor" \/ Range(events) \subseteq Range(handled) \cup lost)
=============================================================================
