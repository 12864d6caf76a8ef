-------------------------- MODULE TransactionManager --------------------------
(***************************************************************************)
(* How a relay server signs, stores, sends, boosts and forgets the         *)
(* transactions of one of its accounts: TransactionManager with its store  *)
(* (TxStoreManager).  Calls of sendTransaction overlap with each other,    *)
(* with the one worker that checks confirmations and boosts, with the      *)
(* chain and with restarts; every `await' ends a step.                     *)
(*                                                                         *)
(* Blocks are not counted: of a transaction the code only asks whether it  *)
(* is mined, whether confirmationsNeeded blocks are on top of it, and      *)
(* whether it waits for longer than pendingTransactionTimeoutBlocks.       *)
(***************************************************************************)
EXTENDS Naturals, FiniteSets, Sequences

CONSTANTS
    NumSends,     \* calls of sendTransaction, each for an action of its own
    FairPrice,    \* external: a pending transaction that pays this is mined
    MaxPrice,     \* config.maxGasPrice
    MaxFaults     \* bound on restarts, failed broadcasts, reorganisations,
                  \* transactions the node forgets and calls with a zero
                  \* destination, together

ASSUME TransactionAssumption ==
    /\ NumSends \in Nat
    /\ FairPrice \in Nat /\ MaxPrice \in Nat /\ 1 <= FairPrice /\ FairPrice <= MaxPrice
    /\ MaxFaults \in Nat

\* The calls are numbered in the order in which they take the nonce mutex.
Sends == 1..NumSends

VARIABLES
    mined,      \* external: the account's mined transactions; nonce is the index - 1
    confirmed,  \* external: how many of them have confirmationsNeeded blocks
    pool,       \* external: the node's pending transactions of the account
    nonces,     \* this.nonces[signer]
    mutex,      \* nonceMutex is held
    txstore,    \* TxStoreManager: the stored transactions
    send,       \* per call of sendTransaction: its state
    worker,     \* the interval worker: its state
    sent,       \* every transaction ever handed to the node: its nonce and action
    early,      \* nonces removed from the store before they were confirmed
    faults      \* faults so far

chain  == <<mined, confirmed, pool>>
vars   == <<chain, nonces, mutex, txstore, send, worker, sent, early, faults>>

\* A transaction: what it does is named by the call that made it.
Tx(nonce, action, price) == [nonce |-> nonce, action |-> action, price |-> price]

StoredNonces == {t.nonce : t \in txstore}
NoTx == Tx(0, 0, 0)
NoSend   == [pc |-> "waiting", tx |-> NoTx]
NoWorker == [pc |-> "idle", todo |-> {}, count |-> 0, price |-> 0]

Init ==
    /\ mined = <<>>
    /\ confirmed = 0
    /\ pool = {}
    /\ nonces = 0
    /\ mutex = FALSE
    /\ txstore = {}
    /\ send = [s \in Sends |-> NoSend]
    /\ worker = NoWorker
    /\ sent = {}
    /\ early = {}
    /\ faults = 0

(* -------------------------- the node's answers -------------------------- *)

\* getTransactionCount(signer, 'pending') answers n: mined ones and the unbroken
\* run of pending ones that follows.
PendingCount(n) ==
    /\ \A k \in Len(mined)..(n - 1) : \E t \in pool : t.nonce = k
    /\ ~\E t \in pool : t.nonce = n

\* A node takes a transaction that is not spent and outbids its pending one.
Accepted(tx) ==
    /\ tx.nonce >= Len(mined)
    /\ \A t \in pool : t.nonce = tx.nonce => t.price < tx.price

Pooled(tx) == {t \in pool : t.nonce # tx.nonce} \cup {tx}

\* contractInteractor.broadcastTransaction ends in `pc' or throws.  It throws
\* when the node refuses; a failing connection may have delivered it or not.
Broadcast(tx, succeeds, fails) ==
    /\ sent' = sent \cup {[nonce |-> tx.nonce, action |-> tx.action]}
    /\ \/ /\ Accepted(tx)
          /\ pool' = Pooled(tx)
          /\ succeeds
          /\ faults' = faults
       \/ /\ ~Accepted(tx)
          /\ pool' = pool
          /\ fails
          /\ faults' = faults
       \/ /\ faults < MaxFaults
          /\ faults' = faults + 1
          /\ pool' \in {pool, IF Accepted(tx) THEN Pooled(tx) ELSE pool}
          /\ fails

(* ---------------------------- sendTransaction ---------------------------- *)

Goto(s, pc) == send' = [send EXCEPT ![s].pc = pc]

\* The gas price is fetched and the nonce mutex is acquired.
AcquireMutex(s) ==
    /\ send[s].pc = "waiting" /\ \A r \in 1..(s - 1) : send[r].pc # "waiting"
    /\ ~mutex
    /\ mutex' = TRUE
    /\ Goto(s, "poll")
    /\ UNCHANGED <<chain, nonces, txstore, worker, sent, early, faults>>

\* A zero destination throws before the try block whose finally releases the
\* mutex.
PreventZeroDestination(s) ==
    /\ faults < MaxFaults /\ faults' = faults + 1
    /\ send[s].pc = "poll"
    /\ Goto(s, "prevented")
    /\ UNCHANGED <<chain, nonces, mutex, txstore, worker, sent, early>>

\* pollNonce: the counter catches up with the node.
NextNonce(count) == IF count > nonces THEN count ELSE nonces

\* The transaction is signed and the nonce counted before it is stored.
PollNonce(s) ==
    /\ send[s].pc = "poll"
    /\ \E count \in Len(mined)..(Len(mined) + Cardinality(pool)) :
          /\ PendingCount(count)
          /\ nonces' = NextNonce(count) + 1
          /\ send' = [send EXCEPT ![s] = [pc |-> "put", tx |-> Tx(NextNonce(count), s, 1)]]
    /\ UNCHANGED <<chain, mutex, txstore, worker, sent, early, faults>>

\* putTx: one transaction per nonce, in place of the one that is there.
Stored(tx) == {t \in txstore : t.nonce # tx.nonce} \cup {tx}

\* mutant
PutTxUnchecked(s) ==
    /\ send[s].pc = "put"
    /\ mutex' = FALSE
    /\ Goto(s, "broadcast")
    /\ txstore' = Stored(send[s].tx)
    /\ UNCHANGED <<chain, nonces, worker, sent, early, faults>>

\* mutant
PutTxKeepingMutex(s) ==
    /\ send[s].pc = "put"
    /\ IF send[s].tx.nonce \in StoredNonces
       THEN /\ send' = [send EXCEPT ![s] = [NoSend EXCEPT !.pc = "failed"]]
            /\ UNCHANGED <<txstore, mutex>>
       ELSE /\ Goto(s, "broadcast")
            /\ txstore' = Stored(send[s].tx)
            /\ mutex' = FALSE
    /\ UNCHANGED <<chain, nonces, worker, sent, early, faults>>

\* putTx(storedTx, false): the unique nonceSigner index refuses a nonce that
\* is stored already.  The mutex is released either way.
PutTx(s) ==
    /\ send[s].pc = "put"
    /\ mutex' = FALSE
    /\ IF send[s].tx.nonce \in StoredNonces
       THEN /\ send' = [send EXCEPT ![s] = [NoSend EXCEPT !.pc = "failed"]]
            /\ txstore' = txstore
       ELSE /\ Goto(s, "broadcast")
            /\ txstore' = Stored(send[s].tx)
    /\ UNCHANGED <<chain, nonces, worker, sent, early, faults>>

SendBroadcast(s) ==
    /\ send[s].pc = "broadcast"
    /\ Broadcast(send[s].tx,
                 send' = [send EXCEPT ![s] = [NoSend EXCEPT !.pc = "returned"]],
                 send' = [send EXCEPT ![s] = [NoSend EXCEPT !.pc = "failed"]])
    /\ UNCHANGED <<mined, confirmed, nonces, mutex, txstore, worker, early>>

(* ------------------------------- the worker ------------------------------ *)

\* getAll sorts the stored transactions: the worker takes the one of the lowest
\* nonce first.
Oldest(t) == t \in worker.todo /\ \A u \in worker.todo : t.nonce <= u.nonce

\* removeConfirmedTransactions(blockNumber): the account's nonce
\* confirmationsNeeded blocks ago is asked once, for the whole list.
RemoveConfirmedTransactions ==
    /\ worker.pc = "idle" /\ txstore # {}
    /\ worker' = [NoWorker EXCEPT !.pc = "scan", !.todo = txstore, !.count = confirmed]
    /\ UNCHANGED <<chain, nonces, mutex, txstore, send, sent, early, faults>>

\* removeTxsUntilNonce removes every nonce up to and including its argument.
RemoveTxsUntilNonce(nonce) ==
    /\ txstore' = {t \in txstore : t.nonce > nonce}
    /\ early' = early \cup {n \in StoredNonces : confirmed <= n /\ n <= nonce}

\* A transaction below the confirmed nonce clears the store up to that nonce.
ScanConfirmed ==
    /\ worker.pc = "scan"
    /\ \E t \in worker.todo :
          /\ Oldest(t) /\ t.nonce < worker.count
          /\ RemoveTxsUntilNonce(worker.count)
          /\ worker' = [worker EXCEPT !.todo = @ \ {t}]
    /\ UNCHANGED <<chain, nonces, mutex, send, sent, faults>>

\* Another one is looked up by its hash.  If it is mined, it is stored with its
\* block (even if it is not in the store any more), unless that was done before.
\* It cannot have its confirmations, or its nonce would be below the count.
ScanUnconfirmed ==
    /\ worker.pc = "scan"
    /\ \E t \in worker.todo :
          /\ Oldest(t) /\ t.nonce >= worker.count
          /\ txstore' \in {txstore, IF \E i \in DOMAIN mined : mined[i] = t
                                   THEN Stored(t) ELSE txstore}
          /\ worker' = [worker EXCEPT !.todo = @ \ {t}]
    /\ UNCHANGED <<chain, nonces, mutex, send, sent, early, faults>>

\* boostUnderpricedPendingTransactionsForSigner: all stored transactions again.
LoadPending ==
    /\ worker.pc = "scan" /\ worker.todo = {}
    /\ worker' = IF txstore = {} THEN NoWorker
                 ELSE [NoWorker EXCEPT !.pc = "check", !.todo = txstore]
    /\ UNCHANGED <<chain, nonces, mutex, txstore, send, sent, early, faults>>

\* Nothing is boosted while the oldest is mined or not late yet.
NothingToBoost ==
    /\ worker.pc = "check"
    /\ worker' = NoWorker
    /\ UNCHANGED <<chain, nonces, mutex, txstore, send, sent, early, faults>>

\* mutant
ResolveNewGasPriceSame(price) == IF price > MaxPrice THEN MaxPrice ELSE price

\* _resolveNewGasPrice: one step up from the oldest one's price, at most MaxPrice.
ResolveNewGasPrice(price) == IF price + 1 > MaxPrice THEN MaxPrice ELSE price + 1

\* The oldest is pending for too long: it and all that pay no more than its new
\* price are to be sent again.
BoostUnderpriced ==
    /\ worker.pc = "check"
    /\ \E t \in worker.todo :
          /\ Oldest(t) /\ t.nonce >= Len(mined)
          /\ LET price == ResolveNewGasPrice(t.price) IN
             worker' = [worker EXCEPT !.pc = "resend", !.price = price,
                                      !.todo = {u \in @ : u.price <= price}]
    /\ UNCHANGED <<chain, nonces, mutex, txstore, send, sent, early, faults>>

\* The same transaction, signed anew with the new price.
Resent(t) == Tx(t.nonce, t.action, worker.price)

\* mutant
ResendTransactionUnstored ==
    /\ worker.pc = "resend"
    /\ \E t \in worker.todo :
          /\ Oldest(t)
          /\ txstore' = {u \in txstore : u.nonce # t.nonce}
          /\ worker' = [worker EXCEPT !.pc = "rebroadcast"]
    /\ UNCHANGED <<chain, nonces, mutex, send, sent, early, faults>>

\* resendTransaction: it is stored over the old one, before it is sent.
ResendTransaction ==
    /\ worker.pc = "resend"
    /\ \E t \in worker.todo :
          /\ Oldest(t)
          /\ txstore' = Stored(Resent(t))
          /\ worker' = [worker EXCEPT !.pc = "rebroadcast"]
    /\ UNCHANGED <<chain, nonces, mutex, send, sent, early, faults>>

ResendBroadcast ==
    /\ worker.pc = "rebroadcast"
    /\ \E t \in worker.todo :
          /\ Oldest(t)
          /\ Broadcast(Resent(t),
                       worker' = [worker EXCEPT !.pc = "resend", !.todo = @ \ {t}],
                       worker' = NoWorker)
    /\ UNCHANGED <<mined, confirmed, nonces, mutex, txstore, send, early>>

WorkerReturns ==
    /\ worker.pc = "resend" /\ worker.todo = {}
    /\ worker' = NoWorker
    /\ UNCHANGED <<chain, nonces, mutex, txstore, send, sent, early, faults>>

(* ----------------------- the chain and the process ----------------------- *)

\* The next transaction is mined.
Mine ==
    /\ \E t \in pool : /\ t.nonce = Len(mined)
                       /\ mined' = Append(mined, t)
                       /\ pool' = pool \ {t}
    /\ UNCHANGED <<confirmed, nonces, mutex, txstore, send, worker, sent, early, faults>>

MineFairly == Mine /\ \E t \in pool : t.nonce = Len(mined) /\ t.price >= FairPrice

\* confirmationsNeeded blocks do not pass between the answer to pollNonce and
\* the write of the transaction: a timing assumption.
Confirm ==
    /\ confirmed < Len(mined)
    /\ \A s \in Sends : send[s].pc # "put"
    /\ confirmed' = confirmed + 1
    /\ UNCHANGED <<mined, pool, nonces, mutex, txstore, send, worker, sent, early, faults>>

\* The last mined transaction is not mined after all; it may be pending again.
Reorganise ==
    /\ faults < MaxFaults /\ faults' = faults + 1
    /\ confirmed < Len(mined)
    /\ mined' = SubSeq(mined, 1, Len(mined) - 1)
    /\ pool' \in {pool, Pooled(mined[Len(mined)])}
    /\ UNCHANGED <<confirmed, nonces, mutex, txstore, send, worker, sent, early>>

\* The node forgets a pending transaction.
Forget ==
    /\ faults < MaxFaults /\ faults' = faults + 1
    /\ \E t \in pool : pool' = pool \ {t}
    /\ UNCHANGED <<mined, confirmed, nonces, mutex, txstore, send, worker, sent, early>>

\* The server restarts: nonces start at zero, the store is kept.
Restart ==
    /\ faults < MaxFaults /\ faults' = faults + 1
    /\ nonces' = 0
    /\ mutex' = FALSE
    /\ worker' = NoWorker
    /\ send' = [s \in Sends |-> IF send[s].pc \in {"poll", "put", "broadcast"}
                                THEN [NoSend EXCEPT !.pc = "crashed"] ELSE send[s]]
    /\ UNCHANGED <<chain, txstore, sent, early>>

SendStep(s) == AcquireMutex(s) \/ PollNonce(s) \/ PutTx(s) \/ SendBroadcast(s)

WorkerStep ==
    \/ RemoveConfirmedTransactions \/ ScanConfirmed \/ ScanUnconfirmed
    \/ LoadPending \/ NothingToBoost \/ BoostUnderpriced
    \/ ResendTransaction \/ ResendBroadcast \/ WorkerReturns

Next ==
    \/ \E s \in Sends : SendStep(s) \/ PreventZeroDestination(s)
    \/ WorkerStep
    \/ Mine \/ Confirm \/ Reorganise \/ Forget \/ Restart

\* The worker's interval keeps firing and its calls return; a pending
\* transaction is late at some point, as blocks keep coming; miners take what
\* pays the going price.
Spec == Init /\ [][Next]_vars
             /\ WF_vars(\E s \in Sends : SendStep(s))
             /\ WF_vars(WorkerStep) /\ SF_vars(BoostUnderpriced)
             /\ WF_vars(MineFairly) /\ WF_vars(Confirm)

(* ------------------------------ properties ------------------------------ *)

AllTxs == [nonce : Nat, action : Sends, price : 1..MaxPrice]

TypeOK ==
    /\ mined \in Seq(AllTxs) /\ confirmed \in 0..Len(mined)
    /\ pool \subseteq AllTxs /\ sent \subseteq [nonce : Nat, action : Sends]
    /\ nonces \in Nat /\ mutex \in BOOLEAN
    /\ txstore \subseteq AllTxs
    /\ \A t, u \in txstore : t.nonce = u.nonce => t = u
    /\ early \subseteq Nat
    /\ faults \in 0..MaxFaults

\* Two different transactions never go out under one nonce, which is what a
\* relay is penalized for, whatever fails or restarts; unless the store lost
\* the first one early (removeConfirmedTransactions).
OneActionPerNonce ==
    \A t, u \in sent :
        t.nonce = u.nonce /\ t.action # u.action => t.nonce \in early

\* What went out and is not confirmed is in the store, to be checked and
\* boosted, however the server crashed; unless it was lost early.
PendingIsStored ==
    \A t \in sent : t.nonce >= confirmed /\ t.nonce \notin early
        => \E u \in txstore : u.nonce = t.nonce /\ u.action = t.action

\* Every stored transaction is mined in the end, through lost broadcasts,
\* a forgetful node and restarts; unless it or one before it was lost early.
StoredIsMined ==
    <>[](\A n \in StoredNonces : n < Len(mined) \/ \E k \in early : k <= n)

\* A call of sendTransaction returns or throws, unless one to the zero address
\* took the mutex with it.
SendsEnd ==
    <>[](\/ \A s \in Sends : send[s].pc \in {"returned", "failed", "crashed"}
         \/ \E s \in Sends : send[s].pc = "prevented")

\* "Clear out all confirmed transactions (ie txs with nonce less than the
\* account nonce at confirmationsNeeded blocks ago)" (TransactionManager.ts:284):
\* a transaction that is not even mined stays.  Violated: ScanConfirmed hands
\* the account's nonce, which is that of the first unconfirmed transaction, to
\* RemoveTxsUntilNonce, which removes that one too.
RemovesOnlyConfirmed ==
    \A t \in sent : t.nonce >= Len(mined) => t.nonce \in StoredNonces
=============================================================================
