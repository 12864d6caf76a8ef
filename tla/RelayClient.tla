----------------------------- MODULE RelayClient -----------------------------
(***************************************************************************)
(* The client half of the gas station network that carries a user's call   *)
(* to the forwarder: RelayProvider, RelayClient, RelaySelectionManager,    *)
(* KnownRelaysManager and RelayedTransactionValidator.                     *)
(*                                                                         *)
(* Every `await' of the client is a step of its own, so several calls of   *)
(* one client, the chain, the relays and their late or missing answers     *)
(* interleave as they do in the event loop.  A relay may keep a signed     *)
(* request whatever it answers.                                            *)
(***************************************************************************)
EXTENDS Naturals, FiniteSets, Sequences, SequencesExt

CONSTANTS
    Calls,          \* calls of eth_sendTransaction, all by one sender
    Managers,       \* relay managers that may be registered on the hub
    Urls,           \* addresses relay servers listen at
    Cheap,          \* the managers whose advertised fees are the lower ones
    Worlds,         \* what a behaviour starts from: the managers of the hub, those
                    \* whose fees the relay filter accepts, where they listen, the
                    \* hub's log, config.preferredRelays, and the calls the
                    \* application makes
    SliceSize,      \* config.sliceSize: relays pinged at once
    AuditorsCount,  \* config.auditorsCount
    MaxHubEvents    \* per world, bound on registrations and exits during a behaviour
                    \* and on events that leave a lookup window, together

Registered(m) == [kind |-> "registered", manager |-> m]
Exited(m)     == [kind |-> "exited", manager |-> m]
Events == {Registered(m) : m \in Managers} \cup {Exited(m) : m \in Managers}

NoManager == "none"

ASSUME ClientAssumption ==
    /\ IsFiniteSet(Calls) /\ IsFiniteSet(Managers)
    /\ Cheap \subseteq Managers
    /\ NoManager \notin Urls
    /\ \A w \in Worlds : /\ w.managers \subseteq Managers /\ w.calls \subseteq Calls
                         /\ w.site \in [Managers -> Urls] /\ w.log \in Seq(Events)
                         /\ w.preferred \in Seq(Urls)
    /\ SliceSize \in Nat \ {0}
    /\ AuditorsCount \in Nat
    /\ MaxHubEvents \in [Worlds -> Nat]

VARIABLES
    world,       \* the element of Worlds this behaviour is about
    log,         \* external: registration and exit events of the hub, in order
    past,        \* external: how many of its oldest events lie before the windows
                 \* of relayLookupWindowBlocks and relayRegistrationLookupBlocks
    nonce,       \* external: the sender's nonce at the forwarder
    held,        \* signed requests some relay holds and may still send
    receipts,    \* mined relay transactions, with the events they logged
    initialized, \* RelayClient.initialized
    deps,        \* which _resolveDependencies result this.dependencies is
    known,       \* per result: allRelayers, and whether preferredRelayers is set
    failures,    \* per result: relayFailures.get(url).length
    audits,      \* audits under way: source address and auditors left to ask
    call         \* per call: the state of its relayTransaction and its callback

vars == <<world, log, past, nonce, held, receipts, initialized, deps, known, failures,
          audits, call>>
chainVars  == <<world, log, past, nonce, receipts>>
clientVars == <<initialized, deps, known, failures>>

Generations == 0..Cardinality(Calls)   \* each call resolves at most once

(* ----------------------- what the hub's log says ----------------------- *)

\* The hub's own answer: registered, and not withdrawn since.
StillRegistered(i) ==
    log[i].kind = "registered" /\ \A j \in DOMAIN log : j > i => log[j] # Exited(log[i].manager)

\* relayManagers: whoever registered in the window is among them, the others where
\* another event of the hub names them.
RecentlyActive ==
    {s \in SUBSET world.managers :
       \A i \in DOMAIN log : i > past.active /\ log[i].kind = "registered" => log[i].manager \in s}

GetRelayInfoForManagers_Unsorted(query) ==   \* mutant: registrations first, then exits
    LET asked == {i \in (query.from + 1)..query.upto :
                    /\ log[i].kind = "registered"
                    /\ log[i].manager \in query.managers \cap world.accepted
                    /\ \A j \in (query.from + 1)..Len(log) : log[j] # Exited(log[i].manager)}
        first == {i \in asked : \A k \in asked : log[k] = log[i] => i <= k}
    IN [p \in first |-> log[p].manager]

\* activeRelays after the events the query read are replayed in order, registrations
\* up to one block and exits up to a later one: each manager at the place of its first
\* registration since it last exited, if the relay filter accepts it.
GetRelayInfoForManagers(query) ==
    LET asked == {i \in (query.from + 1)..query.upto :
                    /\ StillRegistered(i)
                    /\ log[i].manager \in query.managers \cap world.accepted}
        first == {i \in asked : \A k \in asked : log[k] = log[i] => i <= k}
    IN [p \in first |-> log[p].manager]

(* ------------------------------ selection ------------------------------ *)

\* A relay with fewer recent failures scores higher, then the cheaper one.
BeforeIn(g, a, b) ==
    LET fa == failures[g][world.site[a]]
        fb == failures[g][world.site[b]]
    IN fa < fb \/ (fa = fb /\ a \in Cheap /\ b \notin Cheap)

\* Array.sort is stable: relays of one score stay in the order of the log, of which
\* they are given by place.
SortRelays(g, relays) ==
    LET Ahead(i, j) == BeforeIn(g, relays[i], relays[j])
                         \/ (~BeforeIn(g, relays[j], relays[i]) /\ i < j)
        Place(i)    == Cardinality({j \in DOMAIN relays : Ahead(j, i)}) + 1
    IN [p \in 1..Cardinality(DOMAIN relays) |->
          relays[CHOOSE i \in DOMAIN relays : Place(i) = p]]

\* One entry of remainingRelays: an address and, if it came from an event, the
\* manager that registered it.
Entry(url, manager) == [url |-> url, manager |-> manager]

RelaysSortedForTransaction(g) ==
    << IF known[g].preferred
         THEN [i \in DOMAIN world.preferred |-> Entry(world.preferred[i], NoManager)]
         ELSE <<>>,
       LET sorted == SortRelays(g, known[g].all)
       IN [i \in DOMAIN sorted |-> Entry(world.site[sorted[i]], sorted[i])] >>

\* A list some entries have left is a function on the places of the others,
\* still in the order they were sorted in.
Prefix(list) ==
    Restrict(list, {p \in DOMAIN list :
                      Cardinality({q \in DOMAIN list : q < p}) < SliceSize})

GetNextSlice(remaining) ==
    IF DOMAIN remaining[1] # {} THEN Prefix(remaining[1]) ELSE Prefix(remaining[2])

Others(list, urls) == Restrict(list, {p \in DOMAIN list : list[p].url \notin urls})

Without_FirstList(remaining, urls) ==   \* mutant
    << Others(remaining[1], urls), remaining[2] >>

\* _handleRaceResults: winner and failed addresses leave both lists.
Without(remaining, urls) == [i \in 1..2 |-> Others(remaining[i], urls)]

GetAuditors(source) ==
    LET flat == ((IF known[deps].preferred THEN Range(world.preferred) ELSE {})
                   \cup {world.site[m] : m \in Range(known[deps].all)}) \ {source}
    IN IF Cardinality(flat) <= AuditorsCount THEN {flat}
       ELSE {s \in SUBSET flat : Cardinality(s) = AuditorsCount}

(* --------------------------- the initial state -------------------------- *)

\* getRelayInfoForManagers under way: what it awaits, whom it asks for, the log when
\* that was found out, and the places it reads registrations from and up to.
NoQuery == [awaits |-> "block", managers |-> {}, asked |-> 0, from |-> 0, upto |-> 0]

NoCall == [pc |-> "idle", g |-> 0, raced |-> FALSE, since |-> 0, query |-> NoQuery,
           remaining |-> <<<<>>, <<>>>>, slice |-> <<>>, pings |-> {},
           errors |-> {}, relay |-> Entry(NoManager, NoManager), nonce |-> 0,
           tried |-> <<>>, lost |-> 0, callbacks |-> 0]

Init ==
    /\ world \in Worlds
    /\ log = world.log
    /\ past = [active |-> 0, registered |-> 0]
    /\ nonce = 0
    /\ held = {}
    /\ receipts = {}
    /\ initialized \in BOOLEAN
    /\ deps = 0
    /\ known = [g \in Generations |-> [all |-> <<>>, preferred |-> FALSE]]
    /\ failures = [g \in Generations |-> [u \in Urls |-> 0]]
    /\ audits = {}
    /\ call = [c \in Calls |-> NoCall]

(* ---------------------------- the user's call --------------------------- *)

At(c, pc) == call[c].pc = pc
Goto(c, pc) == call' = [call EXCEPT ![c].pc = pc]

\* relayTransaction returns or throws: its local variables are gone.
Settle(c, outcome) ==
    call' = [call EXCEPT ![c] = [NoCall EXCEPT !.pc = outcome,
                                !.raced = call[c].raced, !.since = call[c].since,
                                !.nonce = call[c].nonce,
                                !.tried = call[c].tried, !.lost = call[c].lost]]

\* send -> _ethSendTransaction -> relayTransaction; init() is awaited when the
\* client is not initialized, whether or not another call is already at it.
RelayTransaction(c) ==
    /\ c \in world.calls /\ At(c, "idle")
    /\ call' = [call EXCEPT ![c].pc = IF initialized THEN "refresh" ELSE "init",
                            ![c].raced = ~initialized \/ \E d \in Calls : At(d, "init")]
    /\ UNCHANGED <<chainVars, held, clientVars, audits>>

\* _resolveDependencies makes a new KnownRelaysManager, which knows no relay yet.
ResolveDependencies == deps' = deps + 1

\* _initInternal ends: configuration and dependencies are replaced.
InitInternal(c) ==
    /\ At(c, "init")
    /\ ResolveDependencies
    /\ initialized' = TRUE
    /\ Goto(c, "refresh")
    /\ UNCHANGED <<chainVars, held, known, failures, audits>>

\* refresh(): failures older than the grace period are forgotten, the recently
\* active managers are fetched, and the preferred relays are listed.  since is a
\* history: the log at the oldest refresh under way.
RefreshFailures(c) ==
    /\ At(c, "refresh")
    /\ \E kept \in {[u \in Urls |-> 0], failures[deps]} :
         failures' = [failures EXCEPT ![deps] = kept]
    /\ known' = [known EXCEPT ![deps].preferred = TRUE]
    /\ \E managers \in RecentlyActive :
         call' = [call EXCEPT
           ![c].pc = "info", ![c].g = deps,
           ![c].query = [NoQuery EXCEPT !.managers = managers, !.asked = Len(log)],
           ![c].since = Min({Len(log)} \cup {call[d].query.asked : d \in {x \in Calls : At(x, "info")}})]
    /\ UNCHANGED <<chainVars, held, initialized, deps, audits>>

\* getRelayInfoForManagers, for the refresh or for a preferred relay: the block the
\* window begins at, then the registrations, then the exits.
Querying(c, awaits) ==
    call[c].pc \in {"info", "lookup"} /\ call[c].query.managers # {} /\ call[c].query.awaits = awaits

GetBlockNumber(c) ==
    /\ Querying(c, "block")
    /\ call' = [call EXCEPT ![c].query.from = past.registered, ![c].query.awaits = "registrations"]
    /\ UNCHANGED <<chainVars, held, clientVars, audits>>

GetRegistrations(c) ==
    /\ Querying(c, "registrations")
    /\ call' = [call EXCEPT ![c].query.upto = Len(log), ![c].query.awaits = "exits"]
    /\ UNCHANGED <<chainVars, held, clientVars, audits>>

\* It answers, at once if there is nobody to ask for.
Refreshed(c) ==
    /\ At(c, "info")
    /\ Querying(c, "exits") \/ call[c].query.managers = {}
    /\ known' = [known EXCEPT ![call[c].g].all = GetRelayInfoForManagers(call[c].query)]
    /\ call' = [call EXCEPT ![c].pc = "select", ![c].query = NoQuery, ![c].g = 0]
    /\ UNCHANGED <<chainVars, held, initialized, deps, failures, audits>>

\* A remote procedure call that throws outside of an attempt rejects the promise of
\* relayTransaction.
RpcFails(c) ==
    /\ call[c].pc \in {"init", "refresh", "info", "select", "lookup"}
    /\ Settle(c, "rejected")
    /\ UNCHANGED <<chainVars, held, clientVars, audits>>

\* The selection manager reads this.dependencies again.
StartSelection(c) ==
    LET remaining == RelaysSortedForTransaction(deps)
    IN /\ At(c, "select")
       /\ IF \A i \in 1..2 : remaining[i] = <<>>
          THEN Settle(c, "norelayers")
          ELSE call' = [call EXCEPT ![c].remaining = remaining, ![c].since = 0, ![c].pc = "next"]
       /\ UNCHANGED <<chainVars, held, clientVars, audits>>

\* selectNextRelay: ping every relay of the next slice; none left: give up.
SelectNextRelay(c) ==
    LET slice == GetNextSlice(call[c].remaining)
    IN /\ At(c, "next")
       /\ IF DOMAIN slice = {}
          THEN Settle(c, "failed")
          ELSE call' = [call EXCEPT ![c].pc = "race", ![c].slice = slice,
                                    ![c].pings = DOMAIN slice]
       /\ UNCHANGED <<chainVars, held, clientVars, audits>>

\* The answer to a ping names the manager of the relay: one that listens there, or
\* one that is unknown.
Named(url) == {m \in Managers : world.site[m] = url} \cup {NoManager}

\* A ping is answered by a relay that is ready: the race is over.  The manager a
\* preferred relay names is looked up.
PingSucceeds(c) ==
    /\ At(c, "race")
    /\ \E i \in call[c].pings : \E m \in Named(call[c].slice[i].url) :
         LET winner == call[c].slice[i]
             unlisted == winner.manager = NoManager
         IN call' = [call EXCEPT
                       ![c].remaining = Without(@, call[c].errors \cup {winner.url}),
                       ![c].relay = winner,
                       ![c].slice = <<>>, ![c].pings = {}, ![c].errors = {},
                       ![c].query = IF unlisted THEN [NoQuery EXCEPT !.managers = {m}] ELSE NoQuery,
                       ![c].pc = IF unlisted THEN "lookup" ELSE "attempt"]
    /\ UNCHANGED <<chainVars, held, clientVars, audits>>

PingFails_OnePastTheEnd(c) ==   \* mutant
    /\ At(c, "race")
    /\ \E i \in call[c].pings :
         LET errors == call[c].errors \cup {call[c].slice[i].url}
             over   == Cardinality(errors) > Cardinality(DOMAIN call[c].slice)
         IN call' = [call EXCEPT
                       ![c].slice = IF over THEN <<>> ELSE @,
                       ![c].pings = IF over THEN {} ELSE @ \ {i},
                       ![c].errors = IF over THEN {} ELSE errors,
                       ![c].remaining = IF over THEN Without(@, errors) ELSE @,
                       ![c].pc = IF over THEN "next" ELSE "race"]
    /\ UNCHANGED <<chainVars, held, clientVars, audits>>

\* A ping fails, or its relay is not ready.  Errors are counted by address.
PingFails(c) ==
    /\ At(c, "race")
    /\ \E i \in call[c].pings :
         LET errors == call[c].errors \cup {call[c].slice[i].url}
             over   == Cardinality(errors) = Cardinality(DOMAIN call[c].slice)
         IN call' = [call EXCEPT
                       ![c].slice = IF over THEN <<>> ELSE @,
                       ![c].pings = IF over THEN {} ELSE @ \ {i},
                       ![c].errors = IF over THEN {} ELSE errors,
                       ![c].remaining = IF over THEN Without(@, errors) ELSE @,
                       ![c].pc = IF over THEN "next" ELSE "race"]
    /\ UNCHANGED <<chainVars, held, clientVars, audits>>

\* A preferred relay won: the manager it names must be registered and accepted, or
\* relayTransaction throws.
LookupPreferred(c) ==
    LET relays == GetRelayInfoForManagers(call[c].query)
    IN /\ At(c, "lookup") /\ Querying(c, "exits")
       /\ IF DOMAIN relays = {}
          THEN Settle(c, "rejected")
          ELSE \E m \in Range(relays) :
                 call' = [call EXCEPT ![c].relay.manager = m, ![c].query = NoQuery,
                                      ![c].pc = "attempt"]
       /\ UNCHANGED <<chainVars, held, clientVars, audits>>

(* ------------------------------ one attempt ----------------------------- *)

\* The attempt ends in an error and the next relay is tried.
Abandoned(c) == [call[c] EXCEPT !.pc = "next", !.relay = NoCall.relay]

\* _prepareRelayHttpRequest: the sender's nonce is read and signed.
Prepare(c) ==
    /\ At(c, "attempt")
    /\ call' = [call EXCEPT ![c].pc = "view", ![c].nonce = nonce,
                            ![c].tried = Append(@, call[c].relay.url)]
    /\ UNCHANGED <<chainVars, held, clientVars, audits>>

\* Signing, a callback or a remote procedure call fails, or the view call to
\* relayCall reverts or is refused by the paymaster.
AttemptFails(c) ==
    /\ call[c].pc \in {"attempt", "view"}
    /\ call' = [call EXCEPT ![c] = Abandoned(c)]
    /\ UNCHANGED <<chainVars, held, clientVars, audits>>

\* validateRelayCall on the latest block: a spent nonce makes it revert.
ViewCallAccepts(c) ==
    /\ At(c, "view")
    /\ call[c].nonce = nonce
    /\ Goto(c, "send")
    /\ UNCHANGED <<chainVars, held, clientVars, audits>>

Request(c) == [call |-> c, nonce |-> call[c].nonce, try |-> Len(call[c].tried)]

SaveRelayFailure(c) ==
    failures' = [failures EXCEPT ![deps][call[c].relay.url] = @ + 1]

Lost(c) == [Abandoned(c) EXCEPT !.lost = @ + 1]

AuditTransaction(c) ==
    \E auditors \in GetAuditors(call[c].relay.url) :
       audits' = audits \cup (IF auditors = {} THEN {} ELSE
                    {[source |-> call[c].relay.url, left |-> auditors]})

\* The answer passes validateRelayResponse.
RelayAnswers(c) ==
    /\ At(c, "send")
    /\ held' = held \cup {Request(c)}
    /\ AuditTransaction(c)
    /\ Goto(c, "broadcast")
    /\ UNCHANGED <<chainVars, clientVars>>

\* The answer is another transaction than the one asked for.
RelayCheats(c) ==
    /\ At(c, "send")
    /\ \/ held' = held \cup {Request(c)} /\ call' = [call EXCEPT ![c] = Lost(c)]
       \/ held' = held /\ call' = [call EXCEPT ![c] = Abandoned(c)]
    /\ SaveRelayFailure(c)
    /\ AuditTransaction(c)
    /\ UNCHANGED <<chainVars, initialized, deps, known>>

\* The transaction is the right one but above relayMaxNonce: the validator
\* throws, so no failure is saved.
RelayExceedsNonce(c) ==
    /\ At(c, "send")
    /\ held' = held \cup {Request(c)}
    /\ call' = [call EXCEPT ![c] = Lost(c)]
    /\ AuditTransaction(c)
    /\ UNCHANGED <<chainVars, clientVars>>

\* The relay answers with an error, which need not mean it forgot the request.
RelayRefuses(c) ==
    /\ At(c, "send")
    /\ \/ held' = held \cup {Request(c)} /\ call' = [call EXCEPT ![c] = Lost(c)]
       \/ held' = held /\ call' = [call EXCEPT ![c] = Abandoned(c)]
    /\ UNCHANGED <<chainVars, clientVars, audits>>

\* No answer within the HTTP timeout.
RelayTimesOut(c) ==
    /\ At(c, "send")
    /\ \/ held' = held \cup {Request(c)} /\ call' = [call EXCEPT ![c] = Lost(c)]
       \/ held' = held /\ call' = [call EXCEPT ![c] = Abandoned(c)]
    /\ SaveRelayFailure(c)
    /\ UNCHANGED <<chainVars, initialized, deps, known, audits>>

BroadcastRawTx_MustSucceed(c) ==   \* mutant
    /\ At(c, "broadcast")
    /\ \/ Settle(c, "relayed")
       \/ call' = [call EXCEPT ![c] = Abandoned(c)]
    /\ UNCHANGED <<chainVars, held, clientVars, audits>>

\* _broadcastRawTx: its result is not looked at.
BroadcastRawTx(c) ==
    /\ At(c, "broadcast")
    /\ Settle(c, "relayed")
    /\ UNCHANGED <<chainVars, held, clientVars, audits>>

Settled == {"relayed", "failed", "norelayers", "rejected"}

\* The promise of relayTransaction settles and the provider calls back.
Callback(c) ==
    /\ call[c].pc \in Settled
    /\ call[c].callbacks = 0
    /\ call' = [call EXCEPT ![c].callbacks = @ + 1]
    /\ UNCHANGED <<chainVars, held, clientVars, audits>>

(* --------------------- auditors, relays and the chain ------------------- *)

\* An auditor answers: a commitment ends the audit, anything else goes on.
AuditorAnswers ==
    /\ \E a \in audits : \E u \in a.left : \E penalized \in BOOLEAN :
         audits' = (audits \ {a}) \cup
                     (IF penalized \/ a.left = {u} THEN {}
                      ELSE {[a EXCEPT !.left = @ \ {u}]})
    /\ UNCHANGED <<chainVars, held, clientVars, call>>

\* A transaction a relay holds is mined.  It executes only with the sender's
\* next nonce; it may also be rejected on chain, or revert inside.
Mine ==
    /\ \E r \in held : \E event \in {"rejected", "reverted", "relayed"} :
         LET event2 == IF r.nonce = nonce THEN event ELSE "rejected"
         IN /\ held' = held \ {r}
            /\ nonce' = IF event2 = "rejected" THEN nonce ELSE nonce + 1
            /\ receipts' = receipts \cup {[request |-> r, event |-> event2]}
    /\ UNCHANGED <<world, log, past, clientVars, audits, call>>

MoreHubEvents ==
    Len(log) + past.active + past.registered < Len(world.log) + MaxHubEvents[world]

Register(m) ==
    /\ m \in world.managers /\ MoreHubEvents
    /\ log' = Append(log, Registered(m))
    /\ UNCHANGED <<world, past, nonce, held, receipts, clientVars, audits, call>>

\* The stake is unlocked or penalized, or the hub is not authorised any more.
Exit(m) ==
    /\ \E i \in DOMAIN log : StillRegistered(i) /\ log[i].manager = m
    /\ MoreHubEvents
    /\ log' = Append(log, Exited(m))
    /\ UNCHANGED <<world, past, nonce, held, receipts, clientVars, audits, call>>

\* So many blocks pass that one event more is older than a lookup window.
BlocksPass ==
    /\ MoreHubEvents
    /\ \E window \in {"active", "registered"} :
         past[window] < Len(log) /\ past' = [past EXCEPT ![window] = @ + 1]
    /\ UNCHANGED <<world, log, nonce, held, receipts, clientVars, audits, call>>

ClientStep(c) ==
    \/ InitInternal(c) \/ RefreshFailures(c) \/ GetBlockNumber(c) \/ GetRegistrations(c)
    \/ Refreshed(c) \/ StartSelection(c)
    \/ SelectNextRelay(c) \/ LookupPreferred(c) \/ Prepare(c) \/ ViewCallAccepts(c)
    \/ AttemptFails(c) \/ BroadcastRawTx(c) \/ Callback(c)

\* Every HTTP request is answered or times out.
HttpStep(c) ==
    \/ PingSucceeds(c) \/ PingFails(c) \/ RelayAnswers(c) \/ RelayCheats(c)
    \/ RelayExceedsNonce(c) \/ RelayRefuses(c) \/ RelayTimesOut(c)

Next ==
    \/ \E c \in Calls : RelayTransaction(c) \/ RpcFails(c) \/ ClientStep(c) \/ HttpStep(c)
    \/ AuditorAnswers
    \/ Mine
    \/ \E m \in Managers : Register(m) \/ Exit(m)
    \/ BlocksPass

Spec == Init /\ [][Next]_vars
             /\ \A c \in Calls : WF_vars(ClientStep(c)) /\ WF_vars(HttpStep(c))

(* ------------------------------ properties ------------------------------ *)

\* _getTranslatedGsnResponseResult: the status the user's receipt shows, 1 for
\* a call that ran, whatever the outer transaction's own status.
TranslatedStatus(receipt) ==
    IF receipt.event \in {"rejected", "reverted"} THEN 0 ELSE 1

\* The runs of a call its user's receipts show as successful.
Executions(c) == {x \in receipts : x.request.call = c /\ TranslatedStatus(x) = 1}

TypeOK ==
    /\ world \in Worlds
    /\ log \in Seq(Events)
    /\ past.active \in 0..Len(log) /\ past.registered \in 0..Len(log)
    /\ nonce \in Nat
    /\ initialized \in BOOLEAN
    /\ deps \in Generations
    /\ \A g \in Generations : /\ Range(known[g].all) \subseteq world.accepted
                              /\ DOMAIN known[g].all \subseteq DOMAIN log
    /\ failures \in [Generations -> [Urls -> Nat]]
    /\ \A c \in Calls : /\ call[c].callbacks \in 0..1
                        /\ call[c].nonce <= nonce
                        /\ call[c].tried \in Seq(Urls)

\* One call of relayTransaction hands its request to an address at most once,
\* however often the address is listed (RelaySelectionManager.ts:42).
NeverTheSameRelayTwice == \A c \in Calls : IsInjective(call[c].tried)

\* A call may run twice, but only after a relay got a signed request and the
\* client gave up on it: each further execution needs one more lost answer.
ExtraRunsNeedLostAnswers ==
    \A c \in Calls : Cardinality(Executions(c)) <= 1 + call[c].lost

\* If the client was initialized when a call began, and no other call was still
\* at it, the call fails with "no registered relayers" (RelayClient.ts:200) only when
\* every registration on the hub is of a manager whose fees the relay filter refuses,
\* lies before one of the two lookup windows, or came after the oldest refresh that
\* was under way with the call's own, whatever other calls refresh meanwhile.
NoRelayersMeansNone ==
    \A c \in Calls : At(c, "norelayers") /\ ~call[c].raced =>
      \A i \in DOMAIN log : StillRegistered(i) =>
        \/ log[i].manager \notin world.accepted
        \/ i <= past.active \/ i <= past.registered
        \/ i > call[c].since

\* No two entries the client may ping together have one address.
NoTwins ==
    /\ IsInjective(world.site)
    /\ IsInjective(world.preferred)

\* Every call that starts is called back, as long as no address is listed
\* twice: _raceToSuccess counts failed pings by address.
EveryCallCalledBack ==
    NoTwins => \A c \in Calls : (~At(c, "idle")) ~> (call[c].callbacks = 1)
=============================================================================
