---------------------- MODULE TransactionManagerProofs ----------------------
(***************************************************************************)
(* A nonce stands for one action and what went out is in the store, for    *)
(* any number of sends, prices and faults.  Neither fact is inductive: a   *)
(* transaction may also be waiting to be broadcast, be in the store since  *)
(* before a crash, or be in the hands of the worker that will send it      *)
(* again.  Each such transaction is a claim on its nonce, and the facts    *)
(* are proved of all claims.                                               *)
(***************************************************************************)
EXTENDS TransactionManager, SequenceTheorems, TLAPS

Txs == [nonce : Nat, action : Nat, price : Nat]

SendStates ==
    [pc : {"waiting", "poll", "put", "broadcast", "returned", "failed", "prevented", "crashed"},
     tx : Txs]

WorkerStates ==
    [pc : {"idle", "scan", "check", "resend", "rebroadcast"},
     todo : SUBSET Txs, count : Nat, price : Nat]

TypeInv ==
    /\ mined \in Seq(Txs) /\ confirmed \in Nat /\ confirmed <= Len(mined)
    /\ pool \subseteq Txs
    /\ nonces \in Nat
    /\ txstore \subseteq Txs
    /\ send \in [Sends -> SendStates]
    /\ worker \in WorkerStates
    /\ sent \subseteq [nonce : Nat, action : Nat]

StoredAs(n, a) == \E t \in txstore : t.nonce = n /\ t.action = a

(* Action a may go out, or went out, under nonce n.                        *)
Claimed(n, a) ==
    \/ \E t \in sent : t.nonce = n /\ t.action = a
    \/ StoredAs(n, a)
    \/ \E s \in Sends : send[s].pc = "broadcast" /\ send[s].tx.nonce = n /\ send[s].tx.action = a
    \/ \E t \in worker.todo : t.nonce = n /\ t.action = a

OneClaim ==
    \A n, a, b \in Nat : Claimed(n, a) /\ Claimed(n, b) /\ n \notin early => a = b

ClaimsStored ==
    \A n, a \in Nat : Claimed(n, a) /\ n >= confirmed /\ n \notin early => StoredAs(n, a)

(* A transaction about to be stored is for a nonce not confirmed yet.      *)
PutsAreNew == \A s \in Sends : send[s].pc = "put" => send[s].tx.nonce >= confirmed

Inv == TypeInv /\ OneClaim /\ ClaimsStored /\ PutsAreNew

LEMMA NoTxType == NoTx \in Txs /\ NoSend \in SendStates /\ NoWorker \in WorkerStates
<1>1. NoTx \in Txs
  BY DEF NoTx, Tx, Txs
<1>2. NoSend \in SendStates
  BY <1>1 DEF NoSend, SendStates
<1>3. NoWorker \in WorkerStates
  <2>1. {} \in SUBSET Txs
    OBVIOUS
  <2> QED
    BY <2>1 DEF NoWorker, WorkerStates
<1> QED
  BY <1>1, <1>2, <1>3

LEMMA InitInv == Init => Inv
<1> SUFFICES ASSUME Init PROVE Inv
  OBVIOUS
<1>1. TypeInv
  <2>1. send \in [Sends -> SendStates]
    BY NoTxType DEF Init
  <2>2. worker \in WorkerStates
    BY NoTxType DEF Init
  <2>3. mined \in Seq(Txs) /\ confirmed \in Nat /\ confirmed <= Len(mined)
    BY DEF Init
  <2>4. pool \subseteq Txs /\ nonces \in Nat /\ txstore \subseteq Txs
        /\ sent \subseteq [nonce : Nat, action : Nat]
    BY DEF Init
  <2> QED
    BY <2>1, <2>2, <2>3, <2>4 DEF TypeInv
<1>2. \A n, a \in Nat : ~Claimed(n, a)
  BY DEF Init, Claimed, StoredAs, NoSend, NoWorker
<1>3. PutsAreNew
  BY DEF Init, PutsAreNew, NoSend
<1> QED
  BY <1>1, <1>2, <1>3 DEF Inv, OneClaim, ClaimsStored

(* Handing a transaction to the node, whatever the node answers.           *)
LEMMA BroadcastType ==
    ASSUME TypeInv, NEW tx \in Txs, NEW yes, NEW no, Broadcast(tx, yes, no)
    PROVE  /\ pool' \subseteq Txs
           /\ sent' = sent \cup {[nonce |-> tx.nonce, action |-> tx.action]}
           /\ sent' \subseteq [nonce : Nat, action : Nat]
           /\ yes \/ no
<1>1. sent' = sent \cup {[nonce |-> tx.nonce, action |-> tx.action]} /\ (yes \/ no)
  BY DEF Broadcast
<1>2. [nonce |-> tx.nonce, action |-> tx.action] \in [nonce : Nat, action : Nat]
  BY DEF Txs
<1>3. pool' \subseteq Txs
  BY DEF Broadcast, Pooled, TypeInv
<1> QED
  BY <1>1, <1>2, <1>3 DEF TypeInv

LEMMA NextTypeInv == TypeInv /\ [Next]_vars => TypeInv'
<1> SUFFICES ASSUME TypeInv, [Next]_vars PROVE TypeInv'
  OBVIOUS
<1> USE DEF TypeInv, chain
<1>0. Sends \subseteq Nat
  BY TransactionAssumption DEF Sends
<1>1. ASSUME NEW s \in Sends, AcquireMutex(s) PROVE TypeInv'
  BY <1>1 DEF AcquireMutex, Goto, SendStates
<1>2. ASSUME NEW s \in Sends, PreventZeroDestination(s) PROVE TypeInv'
  BY <1>2 DEF PreventZeroDestination, Goto, SendStates
<1>3. ASSUME NEW s \in Sends, PollNonce(s) PROVE TypeInv'
  <2>1. PICK count \in Len(mined)..(Len(mined) + Cardinality(pool)) :
           /\ nonces' = NextNonce(count) + 1
           /\ send' = [send EXCEPT ![s] = [pc |-> "put", tx |-> Tx(NextNonce(count), s, 1)]]
    BY <1>3 DEF PollNonce
  <2>2. NextNonce(count) \in Nat
    BY DEF NextNonce
  <2>3. [pc |-> "put", tx |-> Tx(NextNonce(count), s, 1)] \in SendStates
    BY <1>0, <2>2 DEF Tx, Txs, SendStates
  <2> QED
    BY <1>3, <2>1, <2>2, <2>3 DEF PollNonce
<1>4. ASSUME NEW s \in Sends, PutTx(s) PROVE TypeInv'
  <2>1. [NoSend EXCEPT !.pc = "failed"] \in SendStates /\ send[s].tx \in Txs
        /\ [send[s] EXCEPT !.pc = "broadcast"] \in SendStates
    BY NoTxType DEF SendStates
  <2>2. txstore' \subseteq Txs
    BY <1>4, <2>1 DEF PutTx, Stored
  <2> QED
    BY <1>4, <2>1, <2>2 DEF PutTx, Goto
<1>5. ASSUME NEW s \in Sends, SendBroadcast(s) PROVE TypeInv'
  <2>1. [NoSend EXCEPT !.pc = "failed"] \in SendStates /\ send[s].tx \in Txs
        /\ [NoSend EXCEPT !.pc = "returned"] \in SendStates
    BY NoTxType DEF SendStates
  <2>2. /\ pool' \subseteq Txs /\ sent' \subseteq [nonce : Nat, action : Nat]
        /\ \/ send' = [send EXCEPT ![s] = [NoSend EXCEPT !.pc = "returned"]]
           \/ send' = [send EXCEPT ![s] = [NoSend EXCEPT !.pc = "failed"]]
    BY <1>5, <2>1, BroadcastType DEF SendBroadcast
  <2>3. send' \in [Sends -> SendStates]
    BY <2>1, <2>2
  <2> QED
    BY <1>5, <2>2, <2>3 DEF SendBroadcast
<1>6. CASE RemoveConfirmedTransactions
  <2>1. worker' \in WorkerStates
    BY <1>6, NoTxType DEF RemoveConfirmedTransactions, WorkerStates
  <2> QED
    BY <1>6, <2>1 DEF RemoveConfirmedTransactions
<1>7. CASE ScanConfirmed
  <2>1. worker' \in WorkerStates /\ txstore' \subseteq Txs
    BY <1>7 DEF ScanConfirmed, RemoveTxsUntilNonce, WorkerStates
  <2> QED
    BY <1>7, <2>1 DEF ScanConfirmed
<1>8. CASE ScanUnconfirmed
  <2>1. worker' \in WorkerStates /\ txstore' \subseteq Txs
    BY <1>8 DEF ScanUnconfirmed, Oldest, Stored, WorkerStates
  <2> QED
    BY <1>8, <2>1 DEF ScanUnconfirmed
<1>9. CASE LoadPending
  <2>1. worker' \in WorkerStates
    BY <1>9, NoTxType DEF LoadPending, WorkerStates
  <2> QED
    BY <1>9, <2>1 DEF LoadPending
<1>10. CASE NothingToBoost
  BY <1>10, NoTxType DEF NothingToBoost
<1>11. CASE BoostUnderpriced
  <2>1. PICK t \in worker.todo :
           worker' = [worker EXCEPT !.pc = "resend", !.price = ResolveNewGasPrice(t.price),
                                    !.todo = {u \in @ : u.price <= ResolveNewGasPrice(t.price)}]
    BY <1>11 DEF BoostUnderpriced
  <2>2. ResolveNewGasPrice(t.price) \in Nat
    BY TransactionAssumption DEF ResolveNewGasPrice, WorkerStates, Txs
  <2>3. worker' \in WorkerStates
    BY <2>1, <2>2 DEF WorkerStates
  <2> QED
    BY <1>11, <2>3 DEF BoostUnderpriced
<1>12. ASSUME NEW t \in worker.todo PROVE Resent(t) \in Txs
  BY DEF Resent, Tx, Txs, WorkerStates
<1>13. CASE ResendTransaction
  <2>1. worker' \in WorkerStates /\ txstore' \subseteq Txs
    BY <1>12, <1>13 DEF ResendTransaction, Stored, WorkerStates
  <2> QED
    BY <1>13, <2>1 DEF ResendTransaction
<1>14. CASE ResendBroadcast
  <2>1. PICK t \in worker.todo :
           Broadcast(Resent(t),
                     worker' = [worker EXCEPT !.pc = "resend", !.todo = @ \ {t}],
                     worker' = NoWorker)
    BY <1>14 DEF ResendBroadcast
  <2>2. /\ pool' \subseteq Txs /\ sent' \subseteq [nonce : Nat, action : Nat]
        /\ \/ worker' = [worker EXCEPT !.pc = "resend", !.todo = @ \ {t}]
           \/ worker' = NoWorker
    BY <1>12, <2>1, BroadcastType
  <2>3. worker' \in WorkerStates
    BY <2>2, NoTxType DEF WorkerStates
  <2> QED
    BY <1>14, <2>2, <2>3 DEF ResendBroadcast
<1>15. CASE WorkerReturns
  BY <1>15, NoTxType DEF WorkerReturns
<1>16. CASE Mine
  <2>1. PICK t \in pool : mined' = Append(mined, t) /\ pool' = pool \ {t}
    BY <1>16 DEF Mine
  <2>2. mined' \in Seq(Txs) /\ Len(mined') = Len(mined) + 1
    BY <2>1
  <2> QED
    BY <1>16, <2>1, <2>2 DEF Mine
<1>17. CASE Confirm
  BY <1>17 DEF Confirm
<1>18. CASE Reorganise
  <2>1. Len(mined) > 0 /\ mined[Len(mined)] \in Txs
    BY <1>18 DEF Reorganise
  <2>2. mined' \in Seq(Txs) /\ Len(mined') = Len(mined) - 1
    <3>1. \A i \in 1..(Len(mined) - 1) : mined[i] \in Txs
      OBVIOUS
    <3>2. 1 \in Int /\ Len(mined) - 1 \in Int /\ mined' = SubSeq(mined, 1, Len(mined) - 1)
      BY <1>18 DEF Reorganise
    <3>3. mined' \in Seq(Txs)
          /\ Len(mined') = IF 1 <= Len(mined) - 1 THEN (Len(mined) - 1) - 1 + 1 ELSE 0
      BY <3>1, <3>2, SubSeqProperties
    <3>4. Len(mined) \in Nat
      OBVIOUS
    <3> HIDE DEF TypeInv
    <3>5. Len(mined') = Len(mined) - 1
      <4> DEFINE m == Len(mined)
                 k == Len(mined')
      <4>1. m \in Nat /\ m > 0 /\ k = IF 1 <= m - 1 THEN (m - 1) - 1 + 1 ELSE 0
        BY <2>1, <3>3, <3>4
      <4> HIDE DEF m, k
      <4>2. k = m - 1
        BY <4>1
      <4> QED
        BY <4>2 DEF m, k
    <3> QED
      BY <3>3, <3>5
  <2>3. pool' \subseteq Txs
    BY <1>18, <2>1 DEF Reorganise, Pooled
  <2> QED
    BY <1>18, <2>2, <2>3 DEF Reorganise
<1>19. CASE Forget
  BY <1>19 DEF Forget
<1>20. CASE Restart
  <2>1. [NoSend EXCEPT !.pc = "crashed"] \in SendStates
    BY NoTxType DEF SendStates
  <2>2. send' \in [Sends -> SendStates]
    BY <1>20, <2>1 DEF Restart
  <2> QED
    BY <1>20, <2>2, NoTxType DEF Restart
<1>21. CASE UNCHANGED vars
  BY <1>21 DEF vars
<1> QED
  BY <1>1, <1>2, <1>3, <1>4, <1>5, <1>6, <1>7, <1>8, <1>9, <1>10, <1>11, <1>13, <1>14,
     <1>15, <1>16, <1>17, <1>18, <1>19, <1>20, <1>21 DEF Next, SendStep, WorkerStep

(* Where claims come from: what a step sends, stores, hands to the worker  *)
(* or prepares to broadcast was claimed before.                            *)
LEMMA FewerClaims ==
    ASSUME \A t \in sent' : Claimed(t.nonce, t.action),
           \A t \in txstore' : Claimed(t.nonce, t.action),
           \A t \in worker'.todo : Claimed(t.nonce, t.action),
           \A s \in Sends : send'[s].pc = "broadcast" =>
               send[s].pc = "broadcast" /\ send'[s].tx = send[s].tx
    PROVE  \A n, a \in Nat : Claimed(n, a)' => Claimed(n, a)
<1> SUFFICES ASSUME NEW n \in Nat, NEW a \in Nat, Claimed(n, a)' PROVE Claimed(n, a)
  OBVIOUS
<1>1. CASE \E t \in sent' : t.nonce = n /\ t.action = a
  BY <1>1
<1>2. CASE \E t \in txstore' : t.nonce = n /\ t.action = a
  BY <1>2
<1>3. CASE \E s \in Sends : /\ send'[s].pc = "broadcast"
                            /\ send'[s].tx.nonce = n /\ send'[s].tx.action = a
  BY <1>3 DEF Claimed
<1>4. CASE \E t \in worker'.todo : t.nonce = n /\ t.action = a
  BY <1>4
<1> QED
  BY <1>1, <1>2, <1>3, <1>4 DEF Claimed, StoredAs

LEMMA ClaimsOf ==
    /\ \A t \in sent : Claimed(t.nonce, t.action)
    /\ \A t \in txstore : Claimed(t.nonce, t.action)
    /\ \A t \in worker.todo : Claimed(t.nonce, t.action)
    /\ \A s \in Sends : send[s].pc = "broadcast" => Claimed(send[s].tx.nonce, send[s].tx.action)
BY DEF Claimed, StoredAs

(* A step that makes no new claim and leaves the store as it is.           *)
LEMMA NoNewClaim ==
    ASSUME OneClaim, ClaimsStored,
           \A n, a \in Nat : Claimed(n, a)' => Claimed(n, a),
           txstore' = txstore, early' = early,
           confirmed \in Nat, confirmed' \in Nat, confirmed' >= confirmed
    PROVE  OneClaim' /\ ClaimsStored'
<1>1. \A n, a \in Nat : StoredAs(n, a)' <=> StoredAs(n, a)
  BY DEF StoredAs
<1>2. OneClaim'
  BY DEF OneClaim
<1>3. ClaimsStored'
  BY <1>1 DEF ClaimsStored
<1> QED
  BY <1>2, <1>3

(* Such a step that prepares no transaction to be stored, either.          *)
LEMMA QuietStep ==
    ASSUME Inv, TypeInv', \A n, a \in Nat : Claimed(n, a)' => Claimed(n, a),
           txstore' = txstore, early' = early, confirmed' = confirmed,
           \A s \in Sends : send'[s].pc = "put" => send'[s] = send[s]
    PROVE  OneClaim' /\ ClaimsStored' /\ PutsAreNew'
<1>1. confirmed \in Nat /\ confirmed' \in Nat /\ confirmed' >= confirmed
  BY DEF Inv, TypeInv
<1>2. OneClaim' /\ ClaimsStored'
  BY <1>1, NoNewClaim DEF Inv
<1>3. PutsAreNew'
  BY DEF Inv, PutsAreNew
<1> QED
  BY <1>2, <1>3

(* A step that stores, in place of what is there, a transaction for a      *)
(* claim that was there before.                                            *)
LEMMA ClaimStoredAgain ==
    ASSUME TypeInv, OneClaim, ClaimsStored,
           NEW tx \in Txs, Claimed(tx.nonce, tx.action), txstore' = Stored(tx),
           \A n, a \in Nat : Claimed(n, a)' => Claimed(n, a),
           early' = early, confirmed' = confirmed
    PROVE  OneClaim' /\ ClaimsStored'
<1>1. tx.nonce \in Nat /\ tx.action \in Nat
  BY DEF Txs
<1>2. OneClaim'
  BY DEF OneClaim
<1>3. ASSUME NEW n \in Nat, NEW a \in Nat, Claimed(n, a)', n >= confirmed', n \notin early'
      PROVE  StoredAs(n, a)'
  <2>1. Claimed(n, a) /\ StoredAs(n, a)
    BY <1>3 DEF ClaimsStored
  <2>2. CASE n = tx.nonce
    <3>1. a = tx.action
      BY <1>1, <1>3, <2>1, <2>2 DEF OneClaim
    <3> QED
      BY <2>2, <3>1 DEF StoredAs, Stored
  <2>3. CASE n # tx.nonce
    BY <2>1, <2>3 DEF StoredAs, Stored
  <2> QED
    BY <2>2, <2>3
<1> QED
  BY <1>2, <1>3 DEF ClaimsStored

(* A new transaction is stored for a nonce that is neither confirmed nor   *)
(* stored: no other action can have claimed it.                            *)
LEMMA PutTxKeepsInv ==
    ASSUME TypeInv, OneClaim, ClaimsStored, PutsAreNew, NEW s \in Sends, PutTx(s)
    PROVE  OneClaim' /\ ClaimsStored'
<1> DEFINE tx == send[s].tx
<1>1. tx \in Txs /\ tx.nonce \in Nat /\ tx.action \in Nat /\ tx.nonce >= confirmed
  BY DEF PutTx, TypeInv, SendStates, Txs, PutsAreNew
<1>2. early' = early /\ confirmed' = confirmed /\ sent' = sent /\ worker' = worker
  BY DEF PutTx, chain
<1>3. CASE tx.nonce \in StoredNonces
  <2>1. send' = [send EXCEPT ![s] = [NoSend EXCEPT !.pc = "failed"]] /\ txstore' = txstore
    BY <1>3 DEF PutTx
  <2>2. \A r \in Sends : send'[r].pc = "broadcast" =>
            send[r].pc = "broadcast" /\ send'[r].tx = send[r].tx
    BY <2>1 DEF TypeInv, NoSend
  <2>3. \A n, a \in Nat : Claimed(n, a)' => Claimed(n, a)
    BY <1>2, <2>1, <2>2, ClaimsOf, FewerClaims
  <2> QED
    BY <1>2, <2>1, <2>3, NoNewClaim DEF TypeInv
<1>4. CASE tx.nonce \notin StoredNonces
  <2>1. send' = [send EXCEPT ![s].pc = "broadcast"] /\ txstore' = Stored(tx)
    BY <1>4 DEF PutTx, Goto
  <2>2. \A r \in Sends : send'[r].tx = send[r].tx /\ (r # s => send'[r] = send[r])
    BY <2>1 DEF TypeInv, SendStates
  <2>3. \A n, a \in Nat : n # tx.nonce => (StoredAs(n, a)' <=> StoredAs(n, a))
    BY <2>1 DEF StoredAs, Stored
  <2>4. \A n, a \in Nat : n = tx.nonce => (StoredAs(n, a)' <=> a = tx.action)
    BY <2>1 DEF StoredAs, Stored
  <2>5. \A n, a \in Nat : Claimed(n, a)' => Claimed(n, a) \/ (n = tx.nonce /\ a = tx.action)
    <3> SUFFICES ASSUME NEW n \in Nat, NEW a \in Nat, Claimed(n, a)',
                        ~(n = tx.nonce /\ a = tx.action)
                 PROVE  Claimed(n, a)
      OBVIOUS
    <3>1. CASE \E r \in Sends : /\ send'[r].pc = "broadcast"
                                /\ send'[r].tx.nonce = n /\ send'[r].tx.action = a
      BY <2>2, <3>1 DEF Claimed
    <3>2. CASE StoredAs(n, a)'
      BY <2>3, <2>4, <3>2 DEF Claimed
    <3> QED
      BY <1>2, <3>1, <3>2 DEF Claimed
  <2>6. \A n, a \in Nat : n = tx.nonce /\ Claimed(n, a) => n \in early
    <3> SUFFICES ASSUME NEW n \in Nat, NEW a \in Nat, n = tx.nonce, Claimed(n, a), n \notin early
                 PROVE  FALSE
      OBVIOUS
    <3>1. StoredAs(n, a)
      BY <1>1 DEF ClaimsStored
    <3> QED
      BY <1>4, <3>1 DEF StoredAs, StoredNonces
  <2> HIDE DEF tx
  <2>7. OneClaim'
    BY <1>1, <1>2, <2>5, <2>6 DEF OneClaim
  <2>8. ASSUME NEW n \in Nat, NEW a \in Nat, Claimed(n, a)', n >= confirmed', n \notin early'
        PROVE  StoredAs(n, a)'
    <3>1. CASE n = tx.nonce
      BY <1>2, <2>4, <2>5, <2>6, <2>8, <3>1
    <3>2. CASE n # tx.nonce
      BY <1>2, <2>3, <2>5, <2>8, <3>2 DEF ClaimsStored
    <3> QED
      BY <3>1, <3>2
  <2> QED
    BY <2>7, <2>8 DEF ClaimsStored
<1> QED
  BY <1>3, <1>4

(* What leaves the store is confirmed, or noted as removed early.          *)
LEMMA ScanConfirmedKeepsInv ==
    ASSUME TypeInv, OneClaim, ClaimsStored, ScanConfirmed
    PROVE  OneClaim' /\ ClaimsStored'
<1>1. RemoveTxsUntilNonce(worker.count) /\ worker'.todo \subseteq worker.todo
      /\ confirmed' = confirmed /\ sent' = sent /\ send' = send
  BY DEF ScanConfirmed, chain, TypeInv, WorkerStates
<1>2. txstore' \subseteq txstore /\ early \subseteq early' /\ worker.count \in Nat
  BY <1>1 DEF RemoveTxsUntilNonce, TypeInv, WorkerStates
<1>3. \A n, a \in Nat : Claimed(n, a)' => Claimed(n, a)
  BY <1>1, <1>2, ClaimsOf, FewerClaims
<1>4. OneClaim'
  BY <1>2, <1>3 DEF OneClaim
<1>5. ASSUME NEW n \in Nat, NEW a \in Nat, Claimed(n, a)', n >= confirmed', n \notin early'
      PROVE  StoredAs(n, a)'
  <2>1. PICK t \in txstore : t.nonce = n /\ t.action = a
    BY <1>1, <1>2, <1>3, <1>5 DEF ClaimsStored, StoredAs
  <2>2. n > worker.count
    BY <1>1, <1>2, <1>5, <2>1 DEF RemoveTxsUntilNonce, StoredNonces, TypeInv
  <2> QED
    BY <1>1, <2>1, <2>2 DEF RemoveTxsUntilNonce, StoredAs
<1> QED
  BY <1>4, <1>5 DEF ClaimsStored

LEMMA NextInv == Inv /\ [Next]_vars => Inv'
<1> SUFFICES ASSUME Inv, [Next]_vars PROVE OneClaim' /\ ClaimsStored' /\ PutsAreNew'
  BY NextTypeInv DEF Inv
<1> USE DEF Inv, chain
<1>0. TypeInv /\ TypeInv' /\ confirmed \in Nat /\ confirmed' \in Nat
  BY NextTypeInv DEF TypeInv
<1>1. ASSUME NEW s \in Sends, AcquireMutex(s) PROVE OneClaim' /\ ClaimsStored' /\ PutsAreNew'
  <2>1. \A r \in Sends : /\ send'[r].pc = "broadcast" => send'[r] = send[r]
                         /\ send'[r].pc = "put" => send'[r] = send[r]
    BY <1>1 DEF AcquireMutex, Goto, TypeInv, SendStates
  <2>2. \A n, a \in Nat : Claimed(n, a)' => Claimed(n, a)
    BY <1>1, <2>1, ClaimsOf, FewerClaims DEF AcquireMutex
  <2> QED
    BY <1>0, <1>1, <2>1, <2>2, QuietStep DEF AcquireMutex
<1>2. ASSUME NEW s \in Sends, PreventZeroDestination(s)
      PROVE  OneClaim' /\ ClaimsStored' /\ PutsAreNew'
  <2>1. \A r \in Sends : /\ send'[r].pc = "broadcast" => send'[r] = send[r]
                         /\ send'[r].pc = "put" => send'[r] = send[r]
    BY <1>2 DEF PreventZeroDestination, Goto, TypeInv, SendStates
  <2>2. \A n, a \in Nat : Claimed(n, a)' => Claimed(n, a)
    BY <1>2, <2>1, ClaimsOf, FewerClaims DEF PreventZeroDestination
  <2> QED
    BY <1>0, <1>2, <2>1, <2>2, QuietStep DEF PreventZeroDestination
<1>3. ASSUME NEW s \in Sends, PollNonce(s) PROVE OneClaim' /\ ClaimsStored' /\ PutsAreNew'
  <2>1. PICK count \in Len(mined)..(Len(mined) + Cardinality(pool)) :
           send' = [send EXCEPT ![s] = [pc |-> "put", tx |-> Tx(NextNonce(count), s, 1)]]
    BY <1>3 DEF PollNonce
  <2>2. NextNonce(count) >= confirmed
    BY <1>0 DEF NextNonce, TypeInv
  <2>3. \A r \in Sends : /\ r # s => send'[r] = send[r]
                         /\ r = s => send'[r].pc = "put" /\ send'[r].tx.nonce = NextNonce(count)
    BY <1>0, <2>1 DEF TypeInv, Tx
  <2>4. PutsAreNew'
    BY <1>3, <2>2, <2>3 DEF PutsAreNew, PollNonce
  <2>5. \A n, a \in Nat : Claimed(n, a)' => Claimed(n, a)
    BY <1>3, <2>3, ClaimsOf, FewerClaims DEF PollNonce
  <2> QED
    BY <1>0, <1>3, <2>4, <2>5, NoNewClaim DEF PollNonce
<1>4. ASSUME NEW s \in Sends, PutTx(s) PROVE OneClaim' /\ ClaimsStored' /\ PutsAreNew'
  <2>1. \A r \in Sends : send'[r].pc = "put" => send'[r] = send[r]
    BY <1>0, <1>4 DEF PutTx, Goto, TypeInv, SendStates, NoSend
  <2>2. PutsAreNew'
    BY <1>4, <2>1 DEF PutTx, PutsAreNew
  <2> QED
    BY <1>4, <2>2, PutTxKeepsInv
<1>5. ASSUME NEW s \in Sends, SendBroadcast(s) PROVE OneClaim' /\ ClaimsStored' /\ PutsAreNew'
  <2>1. send[s].tx \in Txs /\ send[s].pc = "broadcast"
    BY <1>5 DEF SendBroadcast, TypeInv, SendStates
  <2>2. /\ sent' = sent \cup {[nonce |-> send[s].tx.nonce, action |-> send[s].tx.action]}
        /\ \/ send' = [send EXCEPT ![s] = [NoSend EXCEPT !.pc = "returned"]]
           \/ send' = [send EXCEPT ![s] = [NoSend EXCEPT !.pc = "failed"]]
    BY <1>5, <2>1, BroadcastType DEF SendBroadcast
  <2>3. \A r \in Sends : /\ send'[r].pc = "broadcast" => send'[r] = send[r]
                         /\ send'[r].pc = "put" => send'[r] = send[r]
    BY <2>2 DEF TypeInv, NoSend
  <2>4. \A t \in sent' : Claimed(t.nonce, t.action)
    BY <2>1, <2>2, ClaimsOf
  <2>5. \A n, a \in Nat : Claimed(n, a)' => Claimed(n, a)
    BY <1>5, <2>3, <2>4, ClaimsOf, FewerClaims DEF SendBroadcast
  <2> QED
    BY <1>0, <1>5, <2>3, <2>5, QuietStep DEF SendBroadcast
<1>6. CASE RemoveConfirmedTransactions
  <2>1. worker'.todo = txstore
    BY <1>6 DEF RemoveConfirmedTransactions, NoWorker
  <2>2. \A n, a \in Nat : Claimed(n, a)' => Claimed(n, a)
    BY <1>6, <2>1, ClaimsOf, FewerClaims DEF RemoveConfirmedTransactions
  <2> QED
    BY <1>0, <1>6, <2>2, QuietStep DEF RemoveConfirmedTransactions
<1>7. CASE ScanConfirmed
  <2>1. PutsAreNew'
    BY <1>7 DEF ScanConfirmed, PutsAreNew
  <2> QED
    BY <1>7, <2>1, ScanConfirmedKeepsInv
<1>8. CASE ScanUnconfirmed
  <2>1. PICK t \in worker.todo : /\ txstore' = txstore \/ txstore' = Stored(t)
                                 /\ worker' = [worker EXCEPT !.todo = @ \ {t}]
    BY <1>8 DEF ScanUnconfirmed
  <2>2. t \in Txs /\ worker'.todo \subseteq worker.todo
    BY <2>1 DEF TypeInv, WorkerStates
  <2>3. \A u \in txstore' : Claimed(u.nonce, u.action)
    BY <2>1, ClaimsOf DEF Stored
  <2>4. \A n, a \in Nat : Claimed(n, a)' => Claimed(n, a)
    BY <1>8, <2>2, <2>3, ClaimsOf, FewerClaims DEF ScanUnconfirmed
  <2>5. OneClaim' /\ ClaimsStored'
    <3>1. CASE txstore' = txstore
      BY <1>0, <1>8, <2>4, <3>1, NoNewClaim DEF ScanUnconfirmed
    <3>2. CASE txstore' = Stored(t)
      BY <1>0, <1>8, <2>2, <2>4, <3>2, ClaimsOf, ClaimStoredAgain DEF ScanUnconfirmed
    <3> QED
      BY <2>1, <3>1, <3>2
  <2> QED
    BY <1>8, <2>5 DEF ScanUnconfirmed, PutsAreNew
<1>9. CASE LoadPending
  <2>1. worker'.todo \subseteq txstore
    BY <1>9 DEF LoadPending, NoWorker
  <2>2. \A n, a \in Nat : Claimed(n, a)' => Claimed(n, a)
    BY <1>9, <2>1, ClaimsOf, FewerClaims DEF LoadPending
  <2> QED
    BY <1>0, <1>9, <2>2, QuietStep DEF LoadPending
<1>10. CASE NothingToBoost \/ WorkerReturns
  <2>1. worker'.todo = {}
    BY <1>10 DEF NothingToBoost, WorkerReturns, NoWorker
  <2>2. \A n, a \in Nat : Claimed(n, a)' => Claimed(n, a)
    BY <1>10, <2>1, ClaimsOf, FewerClaims DEF NothingToBoost, WorkerReturns
  <2> QED
    BY <1>0, <1>10, <2>2, QuietStep DEF NothingToBoost, WorkerReturns
<1>11. CASE BoostUnderpriced
  <2>1. worker'.todo \subseteq worker.todo
    BY <1>11 DEF BoostUnderpriced, TypeInv, WorkerStates
  <2>2. \A n, a \in Nat : Claimed(n, a)' => Claimed(n, a)
    BY <1>11, <2>1, ClaimsOf, FewerClaims DEF BoostUnderpriced
  <2> QED
    BY <1>0, <1>11, <2>2, QuietStep DEF BoostUnderpriced
<1>12. ASSUME NEW t \in worker.todo
       PROVE  /\ Resent(t) \in Txs /\ Resent(t).nonce = t.nonce /\ Resent(t).action = t.action
              /\ Claimed(Resent(t).nonce, Resent(t).action)
  <2>1. Resent(t) \in Txs /\ Resent(t).nonce = t.nonce /\ Resent(t).action = t.action
    BY DEF Resent, Tx, Txs, TypeInv, WorkerStates
  <2> QED
    BY <2>1, ClaimsOf
<1>13. CASE ResendTransaction
  <2>1. PICK t \in worker.todo : txstore' = Stored(Resent(t))
    BY <1>13 DEF ResendTransaction
  <2>2. worker'.todo = worker.todo
    BY <1>13 DEF ResendTransaction, TypeInv, WorkerStates
  <2>3. \A u \in txstore' : Claimed(u.nonce, u.action)
    BY <1>12, <2>1, ClaimsOf DEF Stored
  <2>4. \A n, a \in Nat : Claimed(n, a)' => Claimed(n, a)
    BY <1>13, <2>2, <2>3, ClaimsOf, FewerClaims DEF ResendTransaction
  <2>5. OneClaim' /\ ClaimsStored'
    BY <1>0, <1>12, <1>13, <2>1, <2>4, ClaimStoredAgain DEF ResendTransaction
  <2> QED
    BY <1>13, <2>5 DEF ResendTransaction, PutsAreNew
<1>14. CASE ResendBroadcast
  <2>1. PICK t \in worker.todo :
           Broadcast(Resent(t),
                     worker' = [worker EXCEPT !.pc = "resend", !.todo = @ \ {t}],
                     worker' = NoWorker)
    BY <1>14 DEF ResendBroadcast
  <2>2. /\ sent' = sent \cup {[nonce |-> Resent(t).nonce, action |-> Resent(t).action]}
        /\ \/ worker' = [worker EXCEPT !.pc = "resend", !.todo = @ \ {t}]
           \/ worker' = NoWorker
    BY <1>0, <1>12, <2>1, BroadcastType
  <2>3. worker'.todo \subseteq worker.todo
    <3>1. CASE worker' = [worker EXCEPT !.pc = "resend", !.todo = @ \ {t}]
      <4>1. worker'.todo = worker.todo \ {t}
        BY <1>0, <3>1 DEF TypeInv, WorkerStates
      <4> QED
        BY <4>1
    <3>2. CASE worker' = NoWorker
      BY <3>2 DEF NoWorker
    <3> QED
      BY <2>2, <3>1, <3>2
  <2>4. \A u \in sent' : Claimed(u.nonce, u.action)
    BY <1>12, <2>2, ClaimsOf
  <2>5. \A n, a \in Nat : Claimed(n, a)' => Claimed(n, a)
    BY <1>14, <2>3, <2>4, ClaimsOf, FewerClaims DEF ResendBroadcast
  <2> QED
    BY <1>0, <1>14, <2>5, QuietStep DEF ResendBroadcast
<1>15. CASE Mine \/ Forget
  <2>1. UNCHANGED <<confirmed, txstore, send, worker, sent, early>>
    BY <1>15 DEF Mine, Forget
  <2>2. \A n, a \in Nat : Claimed(n, a)' => Claimed(n, a)
    BY <2>1, ClaimsOf, FewerClaims
  <2> QED
    BY <1>0, <2>1, <2>2, QuietStep
<1>16. CASE Confirm
  <2>1. \A n, a \in Nat : Claimed(n, a)' => Claimed(n, a)
    BY <1>16, ClaimsOf, FewerClaims DEF Confirm
  <2>2. PutsAreNew'
    BY <1>16 DEF Confirm, PutsAreNew
  <2> QED
    BY <1>0, <1>16, <2>1, <2>2, NoNewClaim DEF Confirm
<1>17. CASE Reorganise
  <2>1. \A n, a \in Nat : Claimed(n, a)' => Claimed(n, a)
    BY <1>17, ClaimsOf, FewerClaims DEF Reorganise
  <2> QED
    BY <1>0, <1>17, <2>1, QuietStep DEF Reorganise
<1>18. CASE Restart
  <2>1. worker'.todo = {}
    BY <1>18 DEF Restart, NoWorker
  <2>2. \A r \in Sends : /\ send'[r].pc = "broadcast" => send'[r] = send[r]
                         /\ send'[r].pc = "put" => send'[r] = send[r]
    BY <1>18 DEF Restart, NoSend
  <2>3. \A n, a \in Nat : Claimed(n, a)' => Claimed(n, a)
    BY <1>18, <2>1, <2>2, ClaimsOf, FewerClaims DEF Restart
  <2> QED
    BY <1>0, <1>18, <2>2, <2>3, QuietStep DEF Restart
<1>19. CASE UNCHANGED vars
  <2>1. \A n, a \in Nat : Claimed(n, a)' => Claimed(n, a)
    BY <1>19, ClaimsOf, FewerClaims DEF vars
  <2> QED
    BY <1>0, <1>19, <2>1, QuietStep DEF vars
<1> QED
  BY <1>1, <1>2, <1>3, <1>4, <1>5, <1>6, <1>7, <1>8, <1>9, <1>10, <1>11, <1>13, <1>14,
     <1>15, <1>16, <1>17, <1>18, <1>19 DEF Next, SendStep, WorkerStep

LEMMA Invariance == Spec => []Inv
<1>1. Inv /\ [Next]_vars => Inv'
  BY NextInv
<1> QED
  BY InitInv, <1>1, PTL DEF Spec

(* Whatever is sent, refused, boosted, reorganised or restarted, no two    *)
(* different transactions go out under one nonce, unless the store lost    *)
(* the first one before it was confirmed (sendTransaction, putTx).         *)
THEOREM NonceMeansOneAction == Spec => []OneActionPerNonce
<1>1. Inv => OneActionPerNonce
  <2> SUFFICES ASSUME Inv, NEW t \in sent, NEW u \in sent, t.nonce = u.nonce,
                      t.action # u.action
               PROVE  t.nonce \in early
    BY DEF OneActionPerNonce
  <2>1. t.nonce \in Nat /\ t.action \in Nat /\ u.action \in Nat
    BY DEF Inv, TypeInv
  <2>2. Claimed(t.nonce, t.action) /\ Claimed(t.nonce, u.action)
    BY ClaimsOf
  <2> QED
    BY <2>1, <2>2 DEF Inv, OneClaim
<1> QED
  BY Invariance, <1>1, PTL

(* Every transaction that went out and is not confirmed is still in the    *)
(* store after any crash, so that the worker can check and boost it,       *)
(* unless the store lost it early (resendTransaction, putTx).              *)
THEOREM SentIsStored == Spec => []PendingIsStored
<1>1. Inv => PendingIsStored
  <2> SUFFICES ASSUME Inv, NEW t \in sent, t.nonce >= confirmed, t.nonce \notin early
               PROVE  \E u \in txstore : u.nonce = t.nonce /\ u.action = t.action
    BY DEF PendingIsStored
  <2>1. t.nonce \in Nat /\ t.action \in Nat
    BY DEF Inv, TypeInv
  <2>2. Claimed(t.nonce, t.action)
    BY ClaimsOf
  <2> QED
    BY <2>1, <2>2 DEF Inv, ClaimsStored, StoredAs
<1> QED
  BY Invariance, <1>1, PTL
==============================================================================
