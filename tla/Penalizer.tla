------------------------------ MODULE Penalizer ------------------------------
(***************************************************************************)
(* The relay server as an auditor: PenalizerService, the block explorer it *)
(* asks for a worker's mined transactions (EtherscanCachedService with its *)
(* TransactionDataCache), and the commitments it reveals once they are     *)
(* due.  All transactions are one relay worker's.                          *)
(*                                                                         *)
(* Every `await' ends a step, so audits overlap with each other, with the  *)
(* interval handlers and with the chain.                                   *)
(***************************************************************************)
EXTENDS Naturals, FiniteSets, Sequences, SequencesExt

CONSTANTS
    Audits,       \* requests to /audit
    Handlers,     \* interval handlers that may be under way at a time
    Txs,          \* signed transactions of the worker: nonce, payload, price,
                  \* whether the worker is staked and the transaction legal
    Worlds,       \* what a behaviour starts from: whether etherscanApiUrl is
                  \* set, init's startWorker, the transactions listed, those
                  \* that may be mined later, the requests that arrive, and
                  \* bounds on the block number and the restarts
    Incoming,     \* a transaction the explorer lists that is sent TO the worker
    NoTx,         \* no transaction
    PageSize,     \* transactions on a page of the explorer
    Delay,        \* the penalizer contract's penalizeBlockDelay
    MaxFailures   \* bound on the interval handlers that fail

ASSUME PenalizerAssumption ==
    /\ \A t \in Txs : t.nonce \in Nat /\ t.staked \in BOOLEAN /\ t.legal \in BOOLEAN
    /\ Incoming \notin Txs /\ NoTx \notin Txs
    /\ \A w \in Worlds : /\ w.explorer \in BOOLEAN /\ w.startWorker \in BOOLEAN
                         /\ w.listing \in Seq(Txs \cup {Incoming})
                         /\ w.mempool \subseteq Txs
                         /\ w.requests \subseteq Audits \X Txs
                         /\ w.blocks \in Nat /\ w.restarts \in Nat
    /\ PageSize \in Nat \ {0}
    /\ Delay \in Nat /\ MaxFailures \in Nat

VARIABLES
    world,      \* the element of Worlds this behaviour is about
    listing,    \* external: the worker's mined transactions, oldest first
    block,      \* external: the block number
    commits,    \* external: readyBlockNumber of the mined commitments, else 0
    pool,       \* external: commitments broadcast and not mined yet
    pages,      \* pagesStore: the page of the worker's entry, 0 for none
    txstore,    \* txstore: cached transactions, by hash
    audit,      \* per request: the state of its auditHandler
    scheduled,  \* scheduledPenalizations
    ready,      \* readyBlockNumber of each penalization, 0 until it is known
    evidence,   \* per penalization: the mined transaction it holds against
    handler,    \* per interval handler: its state
    reveals,    \* penalization transactions broadcast: penalization and block
    dropped,    \* penalizations a splice took off the schedule, and the block
    overlapped, \* two interval handlers were under way together
    failures,   \* interval handlers that failed so far
    restarts    \* restarts of the server so far

chain   == <<world, listing, block, commits, pool>>
cache   == <<pages, txstore>>
plan    == <<scheduled, ready, evidence>>
service == <<handler, reveals, dropped, overlapped, failures>>
vars    == <<chain, cache, audit, plan, service, restarts>>

Passes == {"repeatedNonce", "illegalTransaction"}

\* A penalization: each carries a random value of its own, so no two share a
\* commit hash.
Penalizations == Audits \X Passes

NoAudit == [pc |-> "idle", pass |-> "repeatedNonce", tx |-> NoTx, last |-> 0,
            page |-> <<>>, left |-> <<>>, found |-> NoTx, seen |-> 0,
            searched |-> FALSE, missed |-> FALSE]
NoHandler == [pc |-> "idle", asked |-> {}, todo |-> <<>>]

Init ==
    /\ world \in Worlds
    /\ listing = world.listing
    /\ block = 0
    /\ commits = [p \in Penalizations |-> 0]
    /\ pool = {}
    /\ pages = 0
    /\ txstore = {}
    /\ audit = [a \in Audits |-> NoAudit]
    /\ scheduled = <<>>
    /\ ready = [p \in Penalizations |-> 0]
    /\ evidence = [p \in Penalizations |-> NoTx]
    /\ handler = [h \in Handlers |-> NoHandler]
    /\ reveals = {}
    /\ dropped = {}
    /\ overlapped = FALSE
    /\ failures = 0
    /\ restarts = 0

\* What a filter keeps of a list stays under its place there: the items in
\* their order are those of the smallest place, of the next, and so on.
FirstPlace(list) == CHOOSE i \in DOMAIN list : \A j \in DOMAIN list : i <= j
FirstOf(list)    == list[FirstPlace(list)]
RestOf(list)     == Restrict(list, DOMAIN list \ {FirstPlace(list)})

\* The transactions of a list the worker sent.
Outgoing(list) == Restrict(list, {i \in DOMAIN list : list[i] # Incoming})
Sent(list)     == Cardinality(DOMAIN Outgoing(list))

\* They are mined in the order of their nonces, from 0.
Numbered(list) ==
    \A i \in DOMAIN list :
        list[i] # Incoming => list[i].nonce = Sent(SubSeq(list, 1, i - 1))

ASSUME NumberedAssumption == \A w \in Worlds : Numbered(w.listing)

(* ------------------------------- auditing ------------------------------- *)

At(a, pc) == audit[a].pc = pc

\* auditHandler answers; what the request still held is gone.
Done(a) == [NoAudit EXCEPT !.pc = "done", !.tx = audit[a].tx,
                           !.seen = audit[a].seen, !.searched = audit[a].searched]

\* penalizeRepeatedNonce throws for want of the mined transaction.
Missed(a) == [Done(a) EXCEPT !.missed = TRUE]

\* penalizeRepeatedNonce ends without a commitment: the same transaction is
\* tried as an illegal one.  A thrown error skips that.
NotRepeated(a) == [audit[a] EXCEPT !.pc = "validate", !.pass = "illegalTransaction"]

\* Without an explorer address penalizeRepeatedNonce answers at once.
AuditHandler(a) ==
    /\ At(a, "idle")
    /\ \E t \in {r[2] : r \in {q \in world.requests : q[1] = a}} :
         audit' = [audit EXCEPT ![a] =
             [@ EXCEPT !.pc = "validate", !.tx = t,
                       !.pass = IF world.explorer THEN audit[a].pass ELSE "illegalTransaction"]]
    /\ UNCHANGED <<chain, cache, plan, service, restarts>>

\* validateTransaction: the sender is the worker of a staked manager.
ValidateTransaction(a) ==
    LET repeated == audit[a].pass = "repeatedNonce"
    IN /\ At(a, "validate")
       /\ audit' = [audit EXCEPT ![a] =
            IF audit[a].tx.staked
            THEN [@ EXCEPT !.pc = IF repeated THEN "mined" ELSE "view"]
            ELSE IF repeated THEN NotRepeated(a) ELSE Done(a)]
       /\ UNCHANGED <<chain, cache, plan, service, restarts>>

IsTransactionMined(a) ==
    /\ At(a, "mined")
    /\ audit' = [audit EXCEPT ![a] = IF Contains(listing, audit[a].tx)
                                     THEN NotRepeated(a)
                                     ELSE [@ EXCEPT !.pc = "nonce"]]
    /\ UNCHANGED <<chain, cache, plan, service, restarts>>

\* The worker's nonce, counting up to one transaction not mined yet.
GetTransactionCount(a) ==
    /\ At(a, "nonce")
    /\ \E pending \in 0..1 :
         audit' = [audit EXCEPT ![a] = IF @.tx.nonce > Sent(listing) + pending
                                       THEN NotRepeated(a)
                                       ELSE [@ EXCEPT !.pc = "cached"]]
    /\ UNCHANGED <<chain, cache, plan, service, restarts>>

(* ------------------------ the explorer and its cache --------------------- *)

\* getTransactionByNonce: a transaction in the store answers the question.
QueryCachedTransaction(a) ==
    LET hits == {t \in txstore : t.nonce = audit[a].tx.nonce}
    IN /\ At(a, "cached")
       /\ \/ \E t \in hits :
               audit' = [audit EXCEPT ![a] = [@ EXCEPT !.pc = "node", !.found = t]]
          \/ /\ hits = {}
             /\ audit' = [audit EXCEPT ![a] = [@ EXCEPT !.pc = "last", !.searched = TRUE]]
       /\ UNCHANGED <<chain, cache, plan, service, restarts>>

GetLastPageQueried(a) ==
    /\ At(a, "last")
    /\ audit' = [audit EXCEPT ![a] = [@ EXCEPT !.pc = "fetch", !.last = pages + 1]]
    /\ UNCHANGED <<chain, cache, plan, service, restarts>>

\* Page n of the explorer's list.
PageOf(n) ==
    SubSeq(listing, (n - 1) * PageSize + 1,
           IF n * PageSize < Len(listing) THEN n * PageSize ELSE Len(listing))

\* axios.get of the next page; the request may fail, which ends the audit.
FetchPage(a) ==
    /\ At(a, "fetch")
    /\ \/ audit' = [audit EXCEPT ![a] =
             [@ EXCEPT !.pc = "put", !.page = PageOf(audit[a].last), !.seen = Len(listing)]]
       \/ audit' = [audit EXCEPT ![a] = Done(a)]
    /\ UNCHANGED <<chain, cache, plan, service, restarts>>

\* putTransactions: the worker's page is looked up.
FindPage(a) ==
    /\ At(a, "put")
    /\ audit' = [audit EXCEPT ![a] =
         IF pages = 0 THEN [@ EXCEPT !.pc = "page"]
         ELSE IF pages >= @.last THEN Missed(a)
         ELSE [@ EXCEPT !.pc = "insert", !.left = Outgoing(audit[a].page)]]
    /\ UNCHANGED <<chain, cache, plan, service, restarts>>

\* Only the first page ever queried is recorded, under a unique sender.
InsertPage(a) ==
    /\ At(a, "page")
    /\ pages' = IF pages = 0 THEN audit[a].last ELSE pages
    /\ audit' = [audit EXCEPT ![a] =
         IF pages = 0 THEN [@ EXCEPT !.pc = "insert", !.left = Outgoing(audit[a].page)]
         ELSE Missed(a)]
    /\ UNCHANGED <<chain, txstore, plan, service, restarts>>

\* The transactions are stored one by one, under a unique hash.
InsertTransaction(a) ==
    /\ At(a, "insert") /\ DOMAIN audit[a].left # {}
    /\ LET t == FirstOf(audit[a].left)
       IN IF t \in txstore
          THEN /\ audit' = [audit EXCEPT ![a] = Missed(a)]
               /\ txstore' = txstore
          ELSE /\ audit' = [audit EXCEPT ![a].left = RestOf(@)]
               /\ txstore' = txstore \cup {t}
    /\ UNCHANGED <<chain, pages, plan, service, restarts>>

PageStored_FullIsLast(a) ==   \* mutant
    LET page == audit[a].page
        hits == {t \in Range(Outgoing(page)) : t.nonce = audit[a].tx.nonce}
    IN /\ At(a, "insert") /\ DOMAIN audit[a].left = {}
       /\ audit' = [audit EXCEPT ![a] =
            IF hits # {}
            THEN [@ EXCEPT !.pc = "node", !.found = CHOOSE t \in hits : TRUE,
                           !.page = <<>>]
            ELSE IF Len(page) > PageSize
            THEN [@ EXCEPT !.pc = "fetch", !.last = audit[a].last + 1, !.page = <<>>]
            ELSE Missed(a)]
       /\ UNCHANGED <<chain, cache, plan, service, restarts>>

\* The page is stored: it has the transaction, or a full page leads to the
\* next, or the search ends with none and penalizeRepeatedNonce throws.
PageStored(a) ==
    LET page == audit[a].page
        hits == {t \in Range(Outgoing(page)) : t.nonce = audit[a].tx.nonce}
    IN /\ At(a, "insert") /\ DOMAIN audit[a].left = {}
       /\ audit' = [audit EXCEPT ![a] =
            IF hits # {}
            THEN [@ EXCEPT !.pc = "node", !.found = CHOOSE t \in hits : TRUE,
                           !.page = <<>>]
            ELSE IF Len(page) >= PageSize
            THEN [@ EXCEPT !.pc = "fetch", !.last = audit[a].last + 1, !.page = <<>>]
            ELSE Missed(a)]
       /\ UNCHANGED <<chain, cache, plan, service, restarts>>

(* ----------------------------- committing ------------------------------- *)

\* getTransaction returns the mined transaction.
GetTransaction(a) ==
    /\ At(a, "node")
    /\ audit' = [audit EXCEPT ![a] = [@ EXCEPT !.pc = "view", !.page = <<>>]]
    /\ UNCHANGED <<chain, cache, plan, service, restarts>>

\* What penalizeRepeatedNonce of the contract accepts: two transactions that
\* share the nonce and differ in more than the gas price.
Conflict(t, u) == t.nonce = u.nonce /\ t.payload # u.payload

Penalizable(p) ==
    LET t == audit[p[1]].tx
    IN IF p[2] = "repeatedNonce" THEN Conflict(t, evidence[p]) ELSE ~t.legal

\* After a valid transaction a repeated nonce is put on the schedule whatever
\* the view call said; an illegal transaction only if the call accepts it.
ScheduledByAudit(a) == audit[a].pass = "repeatedNonce" \/ ~audit[a].tx.legal

\* The view call is answered.  For a repeated nonce the code then tests
\* validationResult.valid, which is true, and never isValidPenalization.
ValidatePenalization(a) ==
    LET p == <<a, audit[a].pass>>
    IN /\ At(a, "view")
       /\ IF ScheduledByAudit(a)
          THEN /\ scheduled' = Append(scheduled, p)
               /\ evidence' = [evidence EXCEPT ![p] = audit[a].found]
               /\ audit' = [audit EXCEPT ![a].pc = "commit"]
          ELSE /\ audit' = [audit EXCEPT ![a] = Done(a)]
               /\ UNCHANGED <<scheduled, evidence>>
       /\ UNCHANGED <<chain, cache, ready, service, restarts>>

\* The commitment is broadcast, or the broadcast fails: the penalization stays
\* on the schedule either way.
CommitAndScheduleReveal(a) ==
    /\ At(a, "commit")
    /\ \/ pool' = pool \cup {<<a, audit[a].pass>>}
       \/ pool' = pool
    /\ audit' = [audit EXCEPT ![a] = Done(a)]
    /\ UNCHANGED <<world, listing, block, commits, cache, plan, service, restarts>>

(* ---------------------------- interval handler --------------------------- *)

\* The interval timer fires whether or not the last handler has returned.
IntervalHandler(h) ==
    LET unconfirmed == {p \in Range(scheduled) : ready[p] = 0}
    IN /\ world.startWorker /\ handler[h].pc = "idle" /\ scheduled # <<>>
       /\ handler' = [handler EXCEPT ![h] =
            [@ EXCEPT !.pc = IF unconfirmed = {} THEN "block" ELSE "events",
                      !.asked = unconfirmed]]
       /\ overlapped' = (overlapped \/ \E g \in Handlers \ {h} : handler[g].pc # "idle")
       /\ UNCHANGED <<chain, cache, audit, plan, reveals, dropped, failures, restarts>>

QueryReadyBlocks_CommitBlock(h) ==   \* mutant: the event's block number
    /\ handler[h].pc = "events"
    /\ ready' = [p \in Penalizations |->
                   IF p \notin handler[h].asked THEN ready[p]
                   ELSE IF commits[p] = 0 THEN 0 ELSE commits[p] - Delay]
    /\ handler' = [handler EXCEPT ![h] = [@ EXCEPT !.pc = "block", !.asked = {}]]
    /\ UNCHANGED <<chain, cache, audit, scheduled, evidence, reveals, dropped, overlapped, failures, restarts>>

\* CommitAdded events: those asked for learn the block they are due at.
QueryReadyBlocks(h) ==
    /\ handler[h].pc = "events"
    /\ ready' = [p \in Penalizations |-> IF p \in handler[h].asked THEN commits[p]
                                         ELSE ready[p]]
    /\ handler' = [handler EXCEPT ![h] = [@ EXCEPT !.pc = "block", !.asked = {}]]
    /\ UNCHANGED <<chain, cache, audit, scheduled, evidence, reveals, dropped, overlapped, failures, restarts>>

\* splice(indexOf(p), 1).  An item that is gone has index -1, and splice(-1, 1)
\* removes the last one.
IndexOf(p) == IF Contains(scheduled, p) THEN CHOOSE i \in DOMAIN scheduled : scheduled[i] = p
              ELSE Len(scheduled)

\* The next ready penalization is taken off the schedule before it is sent.
TakeNext(h, todo) ==
    IF DOMAIN todo = {}
    THEN /\ handler' = [handler EXCEPT ![h] = NoHandler]
         /\ UNCHANGED <<scheduled, dropped>>
    ELSE /\ handler' = [handler EXCEPT ![h] = [@ EXCEPT !.pc = "reveal", !.todo = todo]]
         /\ IF scheduled = <<>> THEN UNCHANGED <<scheduled, dropped>>
            ELSE /\ scheduled' = RemoveAt(scheduled, IndexOf(FirstOf(todo)))
                 /\ dropped' = dropped \cup {[of |-> scheduled[IndexOf(FirstOf(todo))], at |-> block]}

ReadyPenalizations_Unknown ==   \* mutant: no check that the block is known
    Restrict(scheduled, {i \in DOMAIN scheduled : ready[scheduled[i]] <= block})

Due(p) == ready[p] # 0 /\ ready[p] <= block

ReadyPenalizations_Past ==   \* mutant
    Restrict(scheduled, {i \in DOMAIN scheduled : Due(scheduled[i]) /\ ready[scheduled[i]] # block})

ReadyPenalizations ==
    Restrict(scheduled, {i \in DOMAIN scheduled : Due(scheduled[i])})

ExecuteReadyPenalizations(h) ==
    /\ handler[h].pc = "block"
    /\ TakeNext(h, ReadyPenalizations)
    /\ UNCHANGED <<chain, cache, audit, ready, evidence, reveals, overlapped, failures, restarts>>

\* The broadcast succeeds, and the next one is taken.
ExecuteDelayedPenalization(h) ==
    /\ handler[h].pc = "reveal"
    /\ reveals' = reveals \cup {[of |-> FirstOf(handler[h].todo), at |-> block, by |-> h]}
    /\ TakeNext(h, RestOf(handler[h].todo))
    /\ UNCHANGED <<chain, cache, audit, ready, evidence, overlapped, failures, restarts>>

\* A remote procedure call or the broadcast fails: the handler's promise is
\* rejected, and what it took off the schedule is forgotten.
HandlerFails(h) ==
    /\ handler[h].pc # "idle" /\ failures < MaxFailures
    /\ failures' = failures + 1
    /\ handler' = [handler EXCEPT ![h] = NoHandler]
    /\ UNCHANGED <<chain, cache, audit, plan, reveals, dropped, overlapped, restarts>>

(* ------------------------- the chain and the process --------------------- *)

MineBlock ==
    /\ block < world.blocks
    /\ block' = block + 1
    /\ \E included \in SUBSET pool :
         /\ pool' = pool \ included
         /\ commits' = [p \in Penalizations |-> IF p \in included THEN block + 1 + Delay
                                                ELSE commits[p]]
    /\ UNCHANGED <<world, listing, cache, audit, plan, service, restarts>>

\* The worker's transaction with the next nonce is mined.
MineTransaction ==
    /\ \E t \in world.mempool : /\ t.nonce = Sent(listing)
                                /\ listing' = Append(listing, t)
    /\ UNCHANGED <<world, block, commits, pool, cache, audit, plan, service, restarts>>

\* The stores survive a restart; the schedule and everything under way do not.
Restart ==
    /\ restarts < world.restarts
    /\ restarts' = restarts + 1
    /\ audit' = [a \in Audits |-> IF At(a, "idle") THEN NoAudit ELSE Done(a)]
    /\ scheduled' = <<>>
    /\ ready' = [p \in Penalizations |-> 0]
    /\ handler' = [h \in Handlers |-> NoHandler]
    /\ UNCHANGED <<chain, cache, evidence, reveals, dropped, overlapped, failures>>

AuditStep(a) ==
    \/ ValidateTransaction(a) \/ IsTransactionMined(a) \/ GetTransactionCount(a)
    \/ QueryCachedTransaction(a) \/ GetLastPageQueried(a) \/ FetchPage(a)
    \/ FindPage(a) \/ InsertPage(a) \/ InsertTransaction(a) \/ PageStored(a)
    \/ GetTransaction(a) \/ ValidatePenalization(a) \/ CommitAndScheduleReveal(a)

HandlerStep(h) ==
    \/ QueryReadyBlocks(h) \/ ExecuteReadyPenalizations(h)
    \/ ExecuteDelayedPenalization(h)

Next ==
    \/ \E a \in Audits : AuditHandler(a) \/ AuditStep(a)
    \/ \E h \in Handlers : IntervalHandler(h) \/ HandlerStep(h) \/ HandlerFails(h)
    \/ MineBlock
    \/ MineTransaction
    \/ Restart

\* The interval timer keeps firing, requests to the node are answered, and
\* blocks keep coming.
Spec == Init /\ [][Next]_vars
             /\ WF_vars(\E h \in Handlers : IntervalHandler(h))
             /\ \A h \in Handlers : WF_vars(HandlerStep(h))
             /\ WF_vars(MineBlock)

(* ------------------------------ properties ------------------------------ *)

PcsOfAudits == {"idle", "validate", "mined", "nonce", "cached", "last", "fetch",
                "put", "page", "insert", "node", "view", "commit", "done"}

TypeOK ==
    /\ listing \in Seq(Txs \cup {Incoming})
    /\ block \in 0..world.blocks
    /\ commits \in [Penalizations -> Nat] /\ ready \in [Penalizations -> Nat]
    /\ pool \subseteq Penalizations
    /\ pages \in Nat /\ txstore \subseteq Txs
    /\ \A a \in Audits : audit[a].pc \in PcsOfAudits /\ audit[a].pass \in Passes
    /\ scheduled \in Seq(Penalizations) /\ IsInjective(scheduled)
    /\ \A h \in Handlers : handler[h].pc \in {"idle", "events", "block", "reveal"}

\* The first search ever made for the worker finds every transaction the
\* explorer lists, on whatever page; with later or concurrent searches the
\* cache may hide one (EtherscanCachedService.ts:24-57,
\* TransactionDataCache.ts:38-49).
FirstSearchFinds ==
    \A a \in Audits :
        (audit[a].missed /\ \A b \in Audits \ {a} : ~audit[b].searched)
        => \A t \in Range(Outgoing(SubSeq(listing, 1, audit[a].seen))) :
               t.nonce # audit[a].tx.nonce

\* A handler removes a penalization from memory only once it is due.
RemovesOnlyReady ==
    \A d \in dropped : commits[d.of] # 0 /\ commits[d.of] <= d.at

\* While interval handlers do not overlap, each due penalization is sent at
\* most once, none is sent for another, and none is lost before it is due.
LoneHandlerLosesNothing ==
    ~overlapped => /\ RemovesOnlyReady
                   /\ \A r, q \in reveals : r.of = q.of => r = q

\* No penalization is broadcast before its commitment is due, however handlers
\* overlap, and the contract, whose block is a later one, accepts its delay.
RevealedOnceDue ==
    \A r \in reveals : commits[r.of] # 0 /\ commits[r.of] < r.at + 1

Revealed(p) == \E r \in reveals : r.of = p
Removed(p)  == \E d \in dropped : d.of = p

\* A scheduled penalization whose commitment is mined is sent in the end,
\* unless the process restarts, handlers overlap or its broadcast fails.
CommitsAreRevealed ==
    \A p \in Penalizations :
        (Contains(scheduled, p) /\ commits[p] # 0 /\ commits[p] <= world.blocks)
        ~> (Revealed(p) \/ ~world.startWorker \/ overlapped \/ restarts > 0 \/ (failures > 0 /\ Removed(p)))

\* PenalizerService.ts:157-158 "get mined tx with same nonce. if equals (up to
\* different gasPrice) to received tx, return.  Otherwise, penalize": nothing
\* is put on the schedule that the penalizer contract would not accept.
OnlyPenalizable == \A i \in DOMAIN scheduled : Penalizable(scheduled[i])
=============================================================================
