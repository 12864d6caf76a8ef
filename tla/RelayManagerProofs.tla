-------------------------- MODULE RelayManagerProofs --------------------------
(***************************************************************************)
(* One registration at a time, for any log a behaviour starts from and any *)
(* number of owner actions, forced registrations and failures.  The fact   *)
(* is not inductive: the worker decides from its store, some remote calls  *)
(* after it asked whether to register again, and after a restart it has    *)
(* nothing else to decide from.  So the store must know of whatever is not *)
(* mined, but for the first of the outbox where removeTxsUntilNonce took   *)
(* it, and a decision to force a registration must still be right when it  *)
(* is acted on.                                                            *)
(***************************************************************************)
EXTENDS RelayManager, SequenceTheorems, FiniteSetTheorems, WellFoundedInduction, TLAPS

Actions == {"setOwner", "addWorker", "register", "withdrawHub", "fundWorker"}

TypeInv ==
    /\ outbox \in Seq(Actions)
    /\ stored \subseteq Actions
    /\ {"pc", "force"} \subseteq DOMAIN worker

(* The store knows of every transaction that is not mined and that it did  *)
(* not forget.                                                             *)
OutboxStored == \A i \in DOMAIN outbox : Forgotten(i) \/ outbox[i] \in stored

Registers(q) == {i \in DOMAIN q : q[i] = "register"}

OneRegister == \A i, j \in Registers(outbox) : Forgotten(i) \/ Forgotten(j) \/ i = j

(* A registration is forced only if none is pending, until it is sent.     *)
ForceIsRight ==
    worker.force /\ worker.pc \in {"stakeEvents", "setOwner", "events", "pay", "register"}
        => "register" \notin stored

Inv == TypeInv /\ OutboxStored /\ OneRegister /\ ForceIsRight

LEMMA InitInv == Init => Inv
<1> SUFFICES ASSUME Init PROVE Inv
  OBVIOUS
<1>1. outbox = <<>> /\ stored = {} /\ worker = Idle
  BY DEF Init
<1>2. DOMAIN outbox = {}
  BY <1>1
<1> QED
  BY <1>1, <1>2 DEF Inv, TypeInv, OutboxStored, OneRegister, Registers, ForceIsRight, Idle

(* Sending transactions of which at most one is a registration, and that   *)
(* one only if the store knows of none.                                    *)
LEMMA SendKeeps ==
    ASSUME outbox \in Seq(Actions), stored \subseteq Actions, OutboxStored, OneRegister,
           NEW sends \in Seq(Actions),
           outbox' = outbox \o sends,
           stored' = stored \cup {sends[i] : i \in DOMAIN sends},
           \A i, j \in Registers(sends) : i = j,
           Registers(sends) # {} => "register" \notin stored,
           settling' = settling
    PROVE  /\ outbox' \in Seq(Actions) /\ stored' \subseteq Actions
           /\ OutboxStored' /\ OneRegister'
<1>1. outbox' \in Seq(Actions)
  BY ConcatProperties
<1>2. stored' \subseteq Actions
  BY ElementOfSeq
<1>3. /\ DOMAIN outbox' = 1..(Len(outbox) + Len(sends))
      /\ DOMAIN outbox = 1..Len(outbox) /\ DOMAIN sends = 1..Len(sends)
      /\ Len(outbox) \in Nat /\ Len(sends) \in Nat
  BY ConcatProperties, <1>1
<1>4. \A i \in DOMAIN outbox' :
         \/ i \in DOMAIN outbox /\ outbox'[i] = outbox[i]
         \/ i - Len(outbox) \in DOMAIN sends /\ outbox'[i] = sends[i - Len(outbox)]
  BY <1>3, ConcatProperties
<1>5. OutboxStored'
  BY <1>4 DEF OutboxStored, Forgotten
<1>6. OneRegister'
  <2> SUFFICES ASSUME NEW i \in Registers(outbox'), NEW j \in Registers(outbox'),
                      ~Forgotten(i)', ~Forgotten(j)'
               PROVE  i = j
    BY DEF OneRegister, Registers
  <2>0. ~Forgotten(i) /\ ~Forgotten(j)
    BY DEF Forgotten
  <2>1. i \in DOMAIN outbox' /\ j \in DOMAIN outbox'
        /\ outbox'[i] = "register" /\ outbox'[j] = "register"
    BY DEF Registers
  <2>2. CASE Registers(sends) = {}
    <3>1. i \in Registers(outbox) /\ j \in Registers(outbox)
      BY <2>1, <2>2, <1>4 DEF Registers
    <3> QED
      BY <3>1, <2>0 DEF OneRegister
  <2>3. CASE Registers(sends) # {}
    <3>1. \A k \in DOMAIN outbox : Forgotten(k) \/ outbox[k] # "register"
      BY <2>3 DEF OutboxStored
    <3>2. i - Len(outbox) \in Registers(sends) /\ j - Len(outbox) \in Registers(sends)
      BY <2>0, <2>1, <3>1, <1>4 DEF Registers
    <3>3. i - Len(outbox) = j - Len(outbox)
      BY <3>2
    <3> QED
      BY <3>3, <2>1, <1>3
  <2> QED
    BY <2>2, <2>3
<1> QED
  BY <1>1, <1>2, <1>5, <1>6

(* What the worker sends at a time.                                        *)
LEMMA RegisterSends ==
    \A q \in {<<"register">>, <<"addWorker", "register">>} :
        q \in Seq(Actions) /\ \A i, j \in Registers(q) : i = j
<1>1. <<"register">> \in Seq(Actions) /\ <<"addWorker", "register">> \in Seq(Actions)
  BY DEF Actions
<1>2. Registers(<<"register">>) \subseteq {1}
  BY DEF Registers
<1>3. Registers(<<"addWorker", "register">>) \subseteq {2}
  BY DEF Registers
<1>4. ASSUME NEW q \in {<<"register">>, <<"addWorker", "register">>}
      PROVE  q \in Seq(Actions) /\ \A i, j \in Registers(q) : i = j
  <2>1. CASE q = <<"register">>
    BY <1>1, <1>2, <2>1
  <2>2. CASE q = <<"addWorker", "register">>
    BY <1>1, <1>3, <2>2
  <2> QED
    BY <2>1, <2>2
<1> QED
  BY <1>4

LEMMA RefillSends ==
    \A a \in {<<>>, <<"withdrawHub">>}, b \in {<<>>, <<"fundWorker">>} :
        a \o b \in Seq(Actions) /\ Registers(a \o b) = {}
<1> SUFFICES ASSUME NEW a \in {<<>>, <<"withdrawHub">>}, NEW b \in {<<>>, <<"fundWorker">>}
             PROVE  a \o b \in Seq(Actions) /\ Registers(a \o b) = {}
  OBVIOUS
<1>1. a \in Seq(Actions) /\ \A i \in 1..Len(a) : a[i] # "register"
  <2>1. CASE a = <<>>
    BY <2>1
  <2>2. CASE a = <<"withdrawHub">>
    BY <2>2 DEF Actions
  <2> QED
    BY <2>1, <2>2
<1>2. b \in Seq(Actions) /\ \A i \in 1..Len(b) : b[i] # "register"
  <2>1. CASE b = <<>>
    BY <2>1
  <2>2. CASE b = <<"fundWorker">>
    BY <2>2 DEF Actions
  <2> QED
    BY <2>1, <2>2
<1>3. /\ a \o b \in Seq(Actions) /\ DOMAIN (a \o b) = 1..(Len(a) + Len(b))
      /\ Len(a) \in Nat /\ Len(b) \in Nat
  BY <1>1, <1>2, ConcatProperties
<1>4. \A i \in 1..(Len(a) + Len(b)) :
         (a \o b)[i] = IF i <= Len(a) THEN a[i] ELSE b[i - Len(a)]
  BY <1>1, <1>2, ConcatProperties
<1>5. \A i \in 1..(Len(a) + Len(b)) : (a \o b)[i] # "register"
  BY <1>1, <1>2, <1>3, <1>4
<1> QED
  BY <1>3, <1>5 DEF Registers

(* A step that moves the worker on without sending anything.               *)
LEMMA QuietKeeps ==
    ASSUME Inv, UNCHANGED <<outbox, stored>>,
           settling' = settling \/ "forgot" \notin {settling, settling'},
           {"pc", "force"} \subseteq DOMAIN worker', ForceIsRight'
    PROVE  Inv'
BY DEF Inv, TypeInv, OutboxStored, OneRegister, Registers, Forgotten

LEMMA IdleKeeps ==
    ASSUME Inv, UNCHANGED <<outbox, stored, settling>>, worker' = Idle
    PROVE  Inv'
<1>1. {"pc", "force"} \subseteq DOMAIN worker' /\ ForceIsRight'
  BY DEF Idle, ForceIsRight
<1> QED
  BY <1>1, QuietKeeps

LEMMA SetOwnerKeepsInv == ASSUME Inv, SetOwnerInStakeManager PROVE Inv'
<1> USE DEF Inv, TypeInv
<1> DEFINE sends == <<"setOwner">>
<1>1. sends \in Seq(Actions) /\ DOMAIN sends = {1} /\ sends[1] = "setOwner"
  BY DEF Actions
<1>2. outbox' = outbox \o sends
  BY DEF SetOwnerInStakeManager, Send
<1>3. stored' = stored \cup {sends[i] : i \in DOMAIN sends}
  BY <1>1 DEF SetOwnerInStakeManager, Send
<1>4. Registers(sends) = {}
  BY <1>1 DEF Registers
<1> HIDE DEF sends
<1>9. settling' = settling
  BY DEF SetOwnerInStakeManager, chain
<1>5. outbox' \in Seq(Actions) /\ stored' \subseteq Actions /\ OutboxStored' /\ OneRegister'
  BY <1>1, <1>2, <1>3, <1>4, <1>9, SendKeeps
<1>6. {"pc", "force"} \subseteq DOMAIN worker' /\ worker'.force = worker.force
      /\ worker.pc = "setOwner"
  BY DEF SetOwnerInStakeManager, Goto, At
<1>7. stored' = stored \cup {"setOwner"}
  BY DEF SetOwnerInStakeManager, Send
<1>8. ForceIsRight'
  BY <1>6, <1>7 DEF ForceIsRight
<1> QED
  BY <1>5, <1>6, <1>8

(* What is wanted is sent: a registration the store does not know of, with *)
(* or without a worker added before it.                                    *)
LEMMA AttemptKeepsInv == ASSUME Inv, AttemptRegistration PROVE Inv'
<1> USE DEF Inv, TypeInv
<1>1. worker' = [worker EXCEPT !.pc = "confirm"] /\ worker.pc = "register"
  BY DEF AttemptRegistration, Goto, At
<1>2. {"pc", "force"} \subseteq DOMAIN worker' /\ ForceIsRight'
  BY <1>1 DEF ForceIsRight
<1>5. settling' = settling
  BY DEF AttemptRegistration, chain
<1>3. CASE UNCHANGED <<outbox, stored>>
  BY <1>2, <1>3, <1>5, QuietKeeps
<1>4. CASE ~UNCHANGED <<outbox, stored>>
  <2>1. PICK sends \in {<<"register">>, <<"addWorker", "register">>} :
           outbox' = outbox \o sends /\ stored' = stored \cup Range(sends)
    BY <1>4 DEF AttemptRegistration
  <2>2. "register" \notin stored
    BY <1>1, <1>4 DEF AttemptRegistration, RegistrationWanted, ForceIsRight
  <2>3. sends \in Seq(Actions) /\ \A i, j \in Registers(sends) : i = j
    BY RegisterSends
  <2>4. stored' = stored \cup {sends[i] : i \in DOMAIN sends}
    BY <2>1 DEF Range
  <2>5. outbox' \in Seq(Actions) /\ stored' \subseteq Actions /\ OutboxStored' /\ OneRegister'
    BY <2>1, <2>2, <2>3, <2>4, <1>5, SendKeeps
  <2> QED
    BY <1>2, <2>5
<1> QED
  BY <1>3, <1>4

(* What is removed from the store is mined, or it is the first of the      *)
(* outbox, which is forgotten then; only a store that forgot nothing       *)
(* removes that one.                                                       *)
LEMMA ConfirmKeepsInv == ASSUME Inv, RemoveConfirmed PROVE Inv'
<1> USE DEF Inv, TypeInv
<1>1. outbox' = outbox
  BY DEF RemoveConfirmed
<1>2. PICK confirmed \in BOOLEAN : RemoveTxsUntilNonce(confirmed)
  BY DEF RemoveConfirmed
<1>3. stored' \subseteq Actions /\ OutboxStored' /\ OneRegister'
  <2>0. DOMAIN outbox = 1..Len(outbox) /\ Len(outbox) \in Nat
    OBVIOUS
  <2>1. CASE confirmed
    <3>1. settling = "mined" /\ stored' = stored \cap {outbox[i] : i \in 2..Len(outbox)}
      BY <1>2, <2>1 DEF RemoveTxsUntilNonce
    <3>2. outbox # <<>> => settling' = "forgot"
      BY <1>2, <2>1 DEF RemoveTxsUntilNonce
    <3>3. \A i \in DOMAIN outbox : i = 1 \/ i \in 2..Len(outbox)
      BY <2>0
    <3>4. \A i \in DOMAIN outbox : settling' = "forgot"
      BY <2>0, <3>2
    <3> QED
      BY <1>1, <3>1, <3>3, <3>4 DEF OutboxStored, OneRegister, Registers, Forgotten
  <2>2. CASE ~confirmed
    <3>1. stored' = stored \cap {outbox[i] : i \in 1..Len(outbox)}
      BY <1>2, <2>2 DEF RemoveTxsUntilNonce
    <3>2. settling' = "forgot" <=> settling = "forgot"
      BY <1>2, <2>2 DEF RemoveTxsUntilNonce
    <3> QED
      BY <1>1, <2>0, <3>1, <3>2 DEF OutboxStored, OneRegister, Registers, Forgotten
  <2> QED
    BY <2>1, <2>2
<1>4. worker' = [worker EXCEPT !.pc = "replenish"] \/ worker' = Idle
  BY DEF RemoveConfirmed
<1>5. {"pc", "force"} \subseteq DOMAIN worker' /\ ForceIsRight'
  BY <1>4 DEF Idle, ForceIsRight
<1> QED
  BY <1>1, <1>3, <1>5

LEMMA ReplenishKeepsInv == ASSUME Inv, ReplenishServer PROVE Inv'
<1> USE DEF Inv, TypeInv
<1>1. PICK sends \in Seq(Actions) :
         /\ Registers(sends) = {}
         /\ outbox' = outbox \o sends /\ stored' = stored \cup Range(sends)
  <2>1. PICK a \in {<<>>, <<"withdrawHub">>}, b \in {<<>>, <<"fundWorker">>} :
           outbox' = outbox \o (a \o b) /\ stored' = stored \cup Range(a \o b)
    BY DEF ReplenishServer
  <2> QED
    BY <2>1, RefillSends
<1>2. Registers(sends) = {}
  BY <1>1
<1>3. stored' = stored \cup {sends[i] : i \in DOMAIN sends}
  BY <1>1 DEF Range
<1>7. settling' = settling
  BY DEF ReplenishServer, chain
<1>4. outbox' \in Seq(Actions) /\ stored' \subseteq Actions /\ OutboxStored' /\ OneRegister'
  BY <1>1, <1>2, <1>3, <1>7, SendKeeps
<1>5. worker' = Idle
  BY DEF ReplenishServer
<1>6. {"pc", "force"} \subseteq DOMAIN worker' /\ ForceIsRight'
  BY <1>5 DEF Idle, ForceIsRight
<1> QED
  BY <1>4, <1>6

LEMMA MineKeepsInv == ASSUME Inv, MineNext PROVE Inv'
<1> USE DEF Inv, TypeInv
<1>1. outbox # <<>> /\ outbox' = Tail(outbox) /\ stored' = stored /\ worker' = worker
  BY DEF MineNext
<1>2. /\ outbox' \in Seq(Actions) /\ Len(outbox') = Len(outbox) - 1 /\ Len(outbox) \in Nat
      /\ \A i \in 1..Len(outbox') : outbox'[i] = outbox[i + 1]
  BY <1>1, HeadTailProperties
<1>3. \A i \in DOMAIN outbox' :
         i \in Int /\ i + 1 \in DOMAIN outbox /\ i + 1 # 1 /\ outbox'[i] = outbox[i + 1]
  BY <1>2
<1>6. \A i \in DOMAIN outbox' : ~Forgotten(i)' /\ ~Forgotten(i + 1)
  BY <1>3 DEF MineNext, Forgotten
<1>4. OutboxStored'
  BY <1>1, <1>3, <1>6 DEF OutboxStored
<1>5. OneRegister'
  <2> SUFFICES ASSUME NEW i \in Registers(outbox'), NEW j \in Registers(outbox') PROVE i = j
    BY DEF OneRegister, Registers
  <2>3. ~Forgotten(i + 1) /\ ~Forgotten(j + 1)
    BY <1>6 DEF Registers
  <2>1. i + 1 \in Registers(outbox) /\ j + 1 \in Registers(outbox) /\ i \in Int /\ j \in Int
    BY <1>3 DEF Registers
  <2>2. i + 1 = j + 1
    BY <2>1, <2>3 DEF OneRegister
  <2> QED
    BY <2>1, <2>2
<1> QED
  BY <1>1, <1>2, <1>4, <1>5 DEF ForceIsRight

LEMMA NextInv == Inv /\ [Next]_vars => Inv'
<1> SUFFICES ASSUME Inv, [Next]_vars PROVE Inv'
  OBVIOUS
<1> USE DEF chain
<1>1. CASE IntervalHandler
  <2>1. UNCHANGED <<outbox, stored>> /\ {"pc", "force"} \subseteq DOMAIN worker'
        /\ ~worker'.force /\ (settling' = settling \/ "forgot" \notin {settling, settling'})
    BY <1>1 DEF IntervalHandler, Idle
  <2> QED
    BY <2>1, QuietKeeps DEF ForceIsRight
<1>2. CASE InitServer \/ RefreshBalance
  <2>1. UNCHANGED <<outbox, stored, settling>>
    BY <1>2 DEF InitServer, RefreshBalance
  <2>2. worker' = Idle \/ worker' = [worker EXCEPT !.pc = "balance"]
                       \/ worker' = [worker EXCEPT !.pc = "hubEvents"]
    BY <1>2 DEF InitServer, RefreshBalance, Goto
  <2>3. {"pc", "force"} \subseteq DOMAIN worker' /\ ForceIsRight'
    BY <2>2 DEF Inv, TypeInv, Idle, ForceIsRight
  <2> QED
    BY <2>1, <2>3, QuietKeeps
<1>3. CASE GetHubEvents
  <2>1. PICK expired \in BOOLEAN :
           /\ expired => "register" \notin stored
           /\ worker' = [worker EXCEPT !.pc = "stakeEvents", !.force = expired]
    BY <1>3 DEF GetHubEvents, ShouldRegisterAgain
  <2>2. UNCHANGED <<outbox, stored, settling>>
    BY <1>3 DEF GetHubEvents
  <2>3. {"pc", "force"} \subseteq DOMAIN worker' /\ worker'.force = expired
    BY <2>1 DEF Inv, TypeInv
  <2> QED
    BY <2>1, <2>2, <2>3, QuietKeeps DEF ForceIsRight
<1>4. CASE GetStakeEvents \/ HandleEvent \/ ExtractDuePendingEvents
  <2>1. UNCHANGED <<outbox, stored, settling>>
        /\ worker.pc \in {"stakeEvents", "events"}
    BY <1>4 DEF GetStakeEvents, HandleEvent, ExtractDuePendingEvents, At
  <2>2. {"pc", "force"} \subseteq DOMAIN worker' /\ worker'.force = worker.force
    BY <1>4 DEF GetStakeEvents, HandleEvent, ExtractDuePendingEvents, Inv, TypeInv
  <2>3. ForceIsRight'
    BY <2>1, <2>2 DEF Inv, ForceIsRight
  <2> QED
    BY <2>1, <2>2, <2>3, QuietKeeps
<1>5. CASE WithdrawAllFunds
  <2>1. UNCHANGED <<outbox, stored, settling>> /\ worker.pc = "pay"
    BY <1>5 DEF WithdrawAllFunds, At
  <2>2. {"pc", "force"} \subseteq DOMAIN worker' /\ worker'.force = worker.force
    BY <1>5 DEF WithdrawAllFunds, Inv, TypeInv
  <2>3. ForceIsRight'
    BY <2>1, <2>2 DEF Inv, ForceIsRight
  <2> QED
    BY <2>1, <2>2, <2>3, QuietKeeps
<1>6. CASE OwnerAddressMissing \/ WithdrawSomeFunds \/ WorkerFails \/ Restart
  <2>1. UNCHANGED <<outbox, stored, settling>> /\ worker' = Idle
    BY <1>6 DEF OwnerAddressMissing, WithdrawSomeFunds, WorkerFails, Restart
  <2> QED
    BY <2>1, IdleKeeps
<1>7. CASE OwnerActs \/ RemovalBlockPasses \/ Relayed \/ UNCHANGED vars
  <2>1. UNCHANGED <<outbox, stored, settling, worker>>
    BY <1>7 DEF OwnerActs, RemovalBlockPasses, Relayed, vars
  <2> QED
    BY <2>1, QuietKeeps DEF Inv, TypeInv, ForceIsRight
<1> QED
  BY <1>1, <1>2, <1>3, <1>4, <1>5, <1>6, <1>7, SetOwnerKeepsInv, AttemptKeepsInv,
     ConfirmKeepsInv, ReplenishKeepsInv, MineKeepsInv DEF Next, WorkerStep

LEMMA InvCounts == Inv => OneRegistrationPending
<1> DEFINE known == {i \in Registers(outbox) : ~Forgotten(i)}
<1> SUFFICES ASSUME Inv PROVE Cardinality(known) <= 1
  <2>1. known = {i \in DOMAIN outbox : outbox[i] = "register" /\ ~Forgotten(i)}
    BY DEF Registers
  <2> QED
    BY <2>1 DEF OneRegistrationPending
<1>1. CASE known = {}
  BY <1>1, FS_EmptySet
<1>2. CASE known # {}
  <2>1. PICK i : known = {i}
    BY <1>2 DEF Inv, OneRegister
  <2> QED
    BY <2>1, FS_Singleton
<1> QED
  BY <1>1, <1>2

(* However registrations are forced, remote calls fail and the server      *)
(* restarts, at most one registration of the manager that its store knows  *)
(* of is under way (isRegistrationPending and _shouldRegisterAgain are     *)
(* asked at different moments of one _worker).  One that it does not know  *)
(* of was taken from it by removeTxsUntilNonce, and is the next to be      *)
(* mined.                                                                  *)
THEOREM RegistersOnce == Spec => []OneRegistrationPending
<1>1. Spec => []Inv
  BY InitInv, NextInv, PTL DEF Spec
<1> QED
  BY <1>1, InvCounts, PTL

(* -------------------- ready means registered --------------------------- *)
(* What the server believes of its stake and its hub is true of the log up *)
(* to some position h it has dealt with, or it became true later; where it *)
(* is not, an event that will correct it is still to come, or the stake    *)
(* was withdrawn.  While a batch is under way h lies between the last scan *)
(* and the end b of the batch, which the worker was started before.  The   *)
(* hub is the hard half: after a failure the server goes back to the last  *)
(* scan, and keeps a belief that came from events it will see again.       *)

Events == ManagerEvents \cup HubEvents

Types ==
    /\ log \in Seq(Events) /\ Possible(log)
    /\ {"ready", "scanned", "isHubAuthorized", "isStakeLocked", "stakeOk", "ownerAddress",
        "isOwnerSet", "isSetOwnerCalled", "registered", "workerAdded", "delayed",
        "initialized"} \subseteq DOMAIN srv
    /\ {"pc", "cur", "batch", "all", "due", "force"} \subseteq DOMAIN worker
    /\ {"hub", "worker", "manager"} \subseteq DOMAIN funds
    /\ srv.scanned \in 0..Now /\ worker.cur \in 0..Now
    /\ worker.all => worker.pc = "pay"
    /\ worker.pc \in {"register", "confirm"} \/ (worker.pc = "pay" /\ ~worker.all)
         => worker.batch = {}

Handling == worker.pc \in {"setOwner", "events", "pay", "register", "confirm"}

Withdrawn(n) == \E i \in (n + 1)..Now : log[i] = "StakeWithdrawn"

HubBelief(h, later) ==
    srv.isHubAuthorized =>
      \/ Authorized(h)
      \/ \E n \in h..Now : Staked(n)
      \/ \E i \in later : log[i] \in HubKinds

LockBelief(h) ==
    srv.isStakeLocked => (\E n \in h..Now : Locked(n)) \/ Withdrawn(h) \/ Emptied \/ worker.all

PaidUp(h) ==
    \A i \in 1..h : log[i] = "StakeWithdrawn" => Emptied \/ (worker.all /\ i > srv.scanned)

BatchIs(h, b) ==
    /\ h \in srv.scanned..b /\ b \in worker.cur..Now
    /\ worker.batch = {i \in (h + 1)..b : log[i] \in ManagerEvents}

Amid == \E h, b \in 0..Now :
            BatchIs(h, b) /\ HubBelief(h, worker.batch) /\ LockBelief(h) /\ PaidUp(h)

Rested(s) ==
    HubBelief(s, (s + 1)..Now) /\ LockBelief(s) /\ PaidUp(s)

Beliefs ==
    /\ Handling => Amid
    /\ ~Handling => Rested(srv.scanned)
    /\ worker.all => Withdrawn(srv.scanned)

Sound(s) ==
    \/ \E n \in s..Now : Staked(n) /\ Happened("Registered", n)
    \/ Withdrawn(s)
    \/ Emptied

Readiness ==
    /\ srv.registered => Happened("Registered", Now)
    /\ srv.ready \/ worker.pc = "replenish" => Sound(srv.scanned)

Trusted == Types /\ Beliefs /\ Readiness

LEMMA Largest ==
    ASSUME NEW n \in Nat, NEW T, T \subseteq 1..n, T # {}
    PROVE  \E m \in T : \A k \in T : k <= m
<1> DEFINE D == {n - k : k \in T}
<1>1. D \subseteq Nat /\ D # {}
  <2>1. \A k \in T : k \in 1..n /\ n - k \in Nat
    OBVIOUS
  <2> QED
    BY <2>1
<1>2. PICK d \in D : \A e \in D : ~(<<e, d>> \in OpToRel(<, Nat))
  BY <1>1, NatLessThanWellFounded, WFMin
<1>3. PICK m \in T : d = n - m
  OBVIOUS
<1>4. ASSUME NEW k \in T PROVE k <= m
  <2>1. n - k \in D /\ n - k \in Nat /\ n - m \in Nat
    BY <1>3
  <2>2. ~(n - k < n - m)
    BY <1>2, <1>3, <2>1 DEF OpToRel
  <2> QED
    BY <1>3, <2>2
<1> QED
  BY <1>3, <1>4

(* What Latest returns: an event of the kinds with none of them after it.  *)
LEMMA LatestIs ==
    ASSUME NEW events, NEW kinds, NEW n \in Nat
    PROVE  \/ /\ LatestIn(events, kinds, n) = "none"
              /\ \A i \in 1..n : events[i] \notin kinds
           \/ \E q \in 1..n : /\ events[q] \in kinds
                              /\ LatestIn(events, kinds, n) = events[q]
                              /\ \A i \in (q + 1)..n : events[i] \notin kinds
<1> DEFINE seen == {i \in 1..n : events[i] \in kinds}
<1>1. CASE seen = {}
  BY <1>1 DEF LatestIn
<1>2. CASE seen # {}
  <2>1. \E m \in seen : \A k \in seen : k <= m
    BY <1>2, Largest
  <2>2. PICK q : q = CHOOSE i \in seen : \A j \in seen : j <= i
    OBVIOUS
  <2>3. q \in seen /\ \A j \in seen : j <= q
    BY <2>1, <2>2
  <2>4. LatestIn(events, kinds, n) = events[q]
    BY <1>2, <2>2 DEF LatestIn
  <2>5. \A i \in (q + 1)..n : events[i] \notin kinds
    <3> SUFFICES ASSUME NEW i \in (q + 1)..n, events[i] \in kinds PROVE FALSE
      OBVIOUS
    <3>1. q \in 1..n
      BY <2>3
    <3>2. i \in seen
      BY <3>1
    <3> QED
      BY <2>3, <3>1, <3>2
  <2> QED
    BY <2>3, <2>4, <2>5
<1> QED
  BY <1>1, <1>2

(* An event of the kinds is the latest one where it happens.               *)
LEMMA LatestAt ==
    ASSUME NEW events, NEW kinds, NEW n \in Nat \ {0}, events[n] \in kinds
    PROVE  LatestIn(events, kinds, n) = events[n]
<1>1. n \in 1..n
  OBVIOUS
<1>2. PICK q \in 1..n : /\ LatestIn(events, kinds, n) = events[q]
                        /\ \A i \in (q + 1)..n : events[i] \notin kinds
  BY <1>1, LatestIs
<1>3. n \notin (q + 1)..n
  BY <1>2
<1>4. q = n
  BY <1>3
<1> QED
  BY <1>2, <1>4

(* It stays the latest while nothing of the kinds happens, whatever log    *)
(* the positions are looked up in.                                         *)
LEMMA LatestStays ==
    ASSUME NEW events, NEW longer, NEW kinds, NEW m \in Nat, NEW n \in Nat, m <= n,
           \A i \in 1..m : longer[i] = events[i],
           \A i \in (m + 1)..n : longer[i] \notin kinds
    PROVE  LatestIn(longer, kinds, n) = LatestIn(events, kinds, m)
<1> DEFINE before == {i \in 1..m : events[i] \in kinds}
           seen == {i \in 1..n : longer[i] \in kinds}
<1>1. seen = before
  OBVIOUS
<1>2. CASE before = {}
  BY <1>1, <1>2 DEF LatestIn
<1>3. CASE before # {}
  <2>1. \E k \in before : \A j \in before : j <= k
    BY <1>3, Largest
  <2>2. PICK q : q = CHOOSE i \in before : \A j \in before : j <= i
    OBVIOUS
  <2>3. q \in before
    BY <2>1, <2>2
  <2>4. LatestIn(events, kinds, m) = events[q]
    BY <1>3, <2>2 DEF LatestIn
  <2>5. LatestIn(longer, kinds, n) = longer[q]
    BY <1>1, <1>3, <2>2 DEF LatestIn
  <2> QED
    BY <2>3, <2>4, <2>5
<1> QED
  BY <1>2, <1>3

LEMMA LatestQuiet ==
    ASSUME NEW kinds, NEW m \in Nat, NEW n \in Nat, m <= n,
           \A i \in (m + 1)..n : log[i] \notin kinds
    PROVE  Latest(kinds, n) = Latest(kinds, m)
BY LatestStays DEF Latest

(* Where nothing of the stake manager happens, stake and hub are the same. *)
LEMMA QuietStretch ==
    ASSUME NEW m \in Nat, NEW n \in Nat, m <= n,
           \A i \in (m + 1)..n : log[i] \notin ManagerEvents
    PROVE  /\ Locked(n) = Locked(m) /\ Authorized(n) = Authorized(m)
           /\ Staked(n) = Staked(m) /\ HasStake(n) = HasStake(m)
<1>1. \A i \in (m + 1)..n : log[i] \notin StakeKinds /\ log[i] \notin HubKinds
  BY DEF ManagerEvents
<1>2. Latest(StakeKinds, n) = Latest(StakeKinds, m)
  BY <1>1, LatestStays DEF Latest
<1>3. Latest(HubKinds, n) = Latest(HubKinds, m)
  BY <1>1, LatestStays DEF Latest
<1> QED
  BY <1>2, <1>3 DEF Locked, Authorized, Staked, HasStake

(* What happened has happened for good.                                    *)
LEMMA HappenedIff ==
    ASSUME NEW kind, kind # "none", NEW n \in Nat
    PROVE  Happened(kind, n) <=> \E i \in 1..n : log[i] = kind
<1>1. CASE \E i \in 1..n : log[i] = kind
  <2>1. \E i \in 1..n : log[i] \in {kind}
    BY <1>1
  <2>2. LatestIn(log, {kind}, n) = kind
    BY <2>1, LatestIs
  <2> QED
    BY <1>1, <2>2 DEF Happened, Latest
<1>2. CASE ~\E i \in 1..n : log[i] = kind
  <2>1. ~\E q \in 1..n : log[q] \in {kind}
    BY <1>2
  <2>2. LatestIn(log, {kind}, n) = "none"
    BY <2>1, LatestIs
  <2> QED
    BY <1>2, <2>2 DEF Happened, Latest
<1> QED
  BY <1>1, <1>2

(* ------------------- the log only gets longer -------------------------- *)

Grows == \E more \in Seq(Events) : log' = log \o more

LEMMA Longer ==
    ASSUME log \in Seq(Events), Grows
    PROVE  /\ log' \in Seq(Events) /\ Now \in Nat /\ Now' \in Nat /\ Now <= Now'
           /\ DOMAIN log = 1..Now /\ DOMAIN log' = 1..Now'
           /\ \A i \in 1..Now : log'[i] = log[i]
<1>1. PICK more \in Seq(Events) : log' = log \o more
  BY DEF Grows
<1>2. /\ log' \in Seq(Events) /\ Len(log') = Len(log) + Len(more)
      /\ \A i \in 1..Len(log) : log'[i] = log[i]
      /\ Len(log) \in Nat /\ Len(more) \in Nat /\ Len(log') \in Nat
  BY <1>1, ConcatProperties, LenProperties
<1>3. DOMAIN log = 1..Len(log) /\ DOMAIN log' = 1..Len(log')
  BY <1>2, LenProperties
<1> QED
  BY <1>2, <1>3 DEF Now

LEMMA SameBefore ==
    ASSUME log \in Seq(Events), Grows, NEW n \in 0..Now
    PROVE  /\ n \in 0..Now'
           /\ Locked(n)' = Locked(n) /\ Authorized(n)' = Authorized(n) /\ Staked(n)' = Staked(n)
           /\ \A kind : Happened(kind, n)' = Happened(kind, n)
<1>1. /\ Now \in Nat /\ Now' \in Nat /\ Now <= Now'
      /\ \A i \in 1..Now : log'[i] = log[i]
  BY Longer
<1>2. n \in Nat /\ \A i \in 1..n : log'[i] = log[i]
  BY <1>1
<1>3. \A kinds : LatestIn(log', kinds, n) = LatestIn(log, kinds, n)
  <2> TAKE kinds
  <2>1. \A i \in (n + 1)..n : log'[i] \notin kinds
    BY <1>2
  <2> QED
    BY <1>2, <2>1, LatestStays
<1> QED
  BY <1>1, <1>3 DEF Latest, Locked, Authorized, Staked, Happened

LEMMA WithdrawnGrows ==
    ASSUME log \in Seq(Events), Grows, NEW n \in 0..Now, Withdrawn(n)
    PROVE  Withdrawn(n)'
<1>1. PICK i \in (n + 1)..Now : log[i] = "StakeWithdrawn"
  BY DEF Withdrawn
<1>2. i \in 1..Now /\ i \in (n + 1)..Now' /\ log'[i] = log[i]
  BY Longer
<1> QED
  BY <1>1, <1>2 DEF Withdrawn

LEMMA EarlierWithdrawn ==
    ASSUME NEW m \in Nat, NEW n \in Nat, m <= n, Now \in Nat, Withdrawn(n)
    PROVE  Withdrawn(m)
BY DEF Withdrawn

(* A registration of the log happened while staked and authorised.         *)
LEMMA RegisteredStaked ==
    ASSUME Types, NEW i \in 1..Now, log[i] = "Registered"
    PROVE  Staked(i) /\ Happened("Registered", i)
<1>1. i \in DOMAIN log /\ i \in Nat
  BY DEF Types, Now
<1>2. Locked(i) /\ Authorized(i)
  BY <1>1 DEF Types, Possible, Locked, Authorized, Latest
<1>3. Happened("Registered", i)
  BY <1>1, HappenedIff
<1> QED
  BY <1>2, <1>3 DEF Staked

LEMMA SamePrefix ==
    ASSUME NEW n \in Nat, \A i \in 1..n : log'[i] = log[i], NEW kinds
    PROVE  /\ LatestIn(log', kinds, n) = LatestIn(log, kinds, n)
           /\ log'[n + 1] \notin kinds => LatestIn(log', kinds, n + 1) = LatestIn(log, kinds, n)
<1>1. \A i \in (n + 1)..n : log'[i] \notin kinds
  OBVIOUS
<1>2. log'[n + 1] \notin kinds => \A i \in (n + 1)..(n + 1) : log'[i] \notin kinds
  OBVIOUS
<1>3. n + 1 \in Nat /\ n <= n /\ n <= n + 1
  OBVIOUS
<1> QED
  BY <1>1, <1>2, <1>3, LatestStays

(* What one event more makes of the log is still possible.                 *)
LEMMA StillPossible ==
    ASSUME log \in Seq(Events), Possible(log), NEW kind \in Events, log' = Append(log, kind),
           kind = "StakeAdded" => Latest(StakeKinds, Now) \in {"none", "StakeWithdrawn"},
           kind = "Registered" => Staked(Now)
    PROVE  log' \in Seq(Events) /\ Possible(log') /\ Grows
<1>1. /\ log' = log \o <<kind>> /\ <<kind>> \in Seq(Events)
      /\ log' \in Seq(Events) /\ Len(log') = Now + 1 /\ log'[Now + 1] = kind
      /\ \A i \in 1..Now : log'[i] = log[i]
      /\ DOMAIN log = 1..Now /\ DOMAIN log' = 1..(Now + 1) /\ Now \in Nat
  BY DEF Now
<1>2. Grows
  BY <1>1 DEF Grows
<1>3. ASSUME NEW kinds, NEW n \in 0..Now PROVE LatestIn(log', kinds, n) = LatestIn(log, kinds, n)
  <2>1. n \in Nat /\ \A i \in 1..n : log'[i] = log[i]
    BY <1>1
  <2> QED
    BY <2>1, SamePrefix
<1>4. ASSUME NEW kinds, kind \notin kinds
      PROVE  LatestIn(log', kinds, Now + 1) = LatestIn(log, kinds, Now)
  <2>1. Now \in Nat /\ \A i \in 1..Now : log'[i] = log[i]
    BY <1>1
  <2>2. log'[Now + 1] \notin kinds
    BY <1>1, <1>4
  <2> QED
    BY <2>1, <2>2, SamePrefix
<1>5. ASSUME NEW i \in DOMAIN log'
      PROVE  /\ log'[i] = "StakeAdded" => LatestIn(log', StakeKinds, i - 1) \in {"none", "StakeWithdrawn"}
             /\ log'[i] = "Registered" => /\ LatestIn(log', StakeKinds, i) = "StakeAdded"
                                          /\ LatestIn(log', HubKinds, i) = "HubAuthorized"
  <2>1. CASE i \in 1..Now
    <3>1. log'[i] = log[i] /\ i \in 0..Now /\ i - 1 \in 0..Now
      BY <1>1, <2>1
    <3>2. /\ log[i] = "StakeAdded" => LatestIn(log, StakeKinds, i - 1) \in {"none", "StakeWithdrawn"}
          /\ log[i] = "Registered" => /\ LatestIn(log, StakeKinds, i) = "StakeAdded"
                                      /\ LatestIn(log, HubKinds, i) = "HubAuthorized"
      BY <1>1, <2>1 DEF Possible
    <3>3. /\ LatestIn(log', StakeKinds, i - 1) = LatestIn(log, StakeKinds, i - 1)
          /\ LatestIn(log', StakeKinds, i) = LatestIn(log, StakeKinds, i)
          /\ LatestIn(log', HubKinds, i) = LatestIn(log, HubKinds, i)
      BY <1>3, <3>1
    <3> QED
      BY <3>1, <3>2, <3>3
  <2>2. CASE i = Now + 1
    <3>1. log'[i] = kind /\ i - 1 = Now /\ Now \in 0..Now
      BY <1>1, <2>2
    <3>2. LatestIn(log', StakeKinds, i - 1) = LatestIn(log, StakeKinds, Now)
      BY <1>3, <3>1
    <3>3. kind = "Registered" => kind \notin StakeKinds /\ kind \notin HubKinds
      BY DEF StakeKinds, HubKinds
    <3> QED
      BY <1>4, <2>2, <3>1, <3>2, <3>3 DEF Latest, Staked, Locked, Authorized
  <2> QED
    BY <1>1, <2>1, <2>2
<1> QED
  BY <1>1, <1>2, <1>5 DEF Possible

(* ---------------------- going back in the log -------------------------- *)

(* What is believed of the log up to h is believed of it up to any earlier *)
(* position: what is new since is still to come.                           *)
LEMMA BackToScan ==
    ASSUME Types, NEW h \in 0..Now, NEW s \in 0..h, NEW later, later \subseteq (s + 1)..Now,
           HubBelief(h, later)
    PROVE  HubBelief(s, (s + 1)..Now)
<1> SUFFICES ASSUME srv.isHubAuthorized
             PROVE  \/ Authorized(s) \/ \E n \in s..Now : Staked(n)
                    \/ \E i \in (s + 1)..Now : log[i] \in HubKinds
  BY DEF HubBelief
<1>0. Now \in Nat /\ h \in Nat /\ s \in Nat /\ s <= h /\ h <= Now
  BY DEF Types, Now
<1>1. CASE \E n \in h..Now : Staked(n)
  BY <1>0, <1>1
<1>2. CASE \E i \in later : log[i] \in HubKinds
  BY <1>2
<1>3. CASE Authorized(h) /\ ~\E i \in (s + 1)..Now : log[i] \in HubKinds
  <2>1. \A i \in (s + 1)..h : log[i] \notin HubKinds
    BY <1>0, <1>3
  <2>2. Latest(HubKinds, h) = Latest(HubKinds, s)
    BY <1>0, <2>1, LatestStays DEF Latest
  <2> QED
    BY <1>3, <2>2 DEF Authorized
<1> QED
  BY <1>1, <1>2, <1>3 DEF HubBelief

LEMMA LockBack ==
    ASSUME Types, NEW h \in 0..Now, NEW s \in 0..h, LockBelief(h)
    PROVE  LockBelief(s)
<1>0. Now \in Nat /\ h \in Nat /\ s \in Nat /\ s <= h /\ h <= Now
  BY DEF Types, Now
<1>1. Withdrawn(h) => Withdrawn(s)
  BY <1>0, EarlierWithdrawn
<1> QED
  BY <1>0, <1>1 DEF LockBelief

(* Whatever the worker was doing, its beliefs fit the last scan.           *)
LEMMA AtRest ==
    ASSUME Types, Beliefs
    PROVE  /\ HubBelief(srv.scanned, (srv.scanned + 1)..Now)
           /\ LockBelief(srv.scanned) /\ PaidUp(srv.scanned)
<1>1. CASE ~Handling
  BY <1>1 DEF Beliefs, Rested
<1>2. CASE Handling
  <2>1. PICK h \in 0..Now, b \in 0..Now :
           BatchIs(h, b) /\ HubBelief(h, worker.batch) /\ LockBelief(h) /\ PaidUp(h)
    BY <1>2 DEF Beliefs, Amid
  <2>2. srv.scanned \in 0..h /\ worker.batch \subseteq (srv.scanned + 1)..Now
    <3>1. srv.scanned \in Nat /\ h \in Nat /\ b \in Nat /\ Now \in Nat
      BY <2>1 DEF Types, Now
    <3>2. srv.scanned <= h /\ h <= b /\ b <= Now
      BY <2>1, <3>1 DEF BatchIs
    <3>3. \A i \in worker.batch : i \in (h + 1)..b
      BY <2>1 DEF BatchIs
    <3> HIDE DEF Now
    <3> QED
      BY <3>1, <3>2, <3>3
  <2>3. \A i \in 1..srv.scanned : i \in 1..h
    BY <2>2 DEF Types
  <2> QED
    BY <2>1, <2>2, <2>3, BackToScan, LockBack DEF PaidUp
<1> QED
  BY <1>1, <1>2

(* ---------------------- steps that learn nothing ----------------------- *)

LEMMA SameLog ==
    ASSUME log' = log
    PROVE  /\ Now' = Now /\ Possible(log)' = Possible(log)
           /\ \A n : /\ Locked(n)' = Locked(n) /\ Authorized(n)' = Authorized(n)
                     /\ Staked(n)' = Staked(n) /\ Withdrawn(n)' = Withdrawn(n)
                     /\ \A kind : Happened(kind, n)' = Happened(kind, n)
BY DEF Now, Possible, Latest, Locked, Authorized, Staked, Withdrawn, Happened

LEMMA KeepHub ==
    ASSUME log' = log, srv'.isHubAuthorized => srv.isHubAuthorized,
           NEW h, NEW later, HubBelief(h, later)
    PROVE  HubBelief(h, later)'
<1>1. /\ Now' = Now
      /\ \A n : Authorized(n)' = Authorized(n) /\ Staked(n)' = Staked(n)
  BY SameLog
<1> QED
  BY <1>1 DEF HubBelief

LEMMA KeepLock ==
    ASSUME log' = log, srv'.isStakeLocked => srv.isStakeLocked, Emptied => Emptied',
           NEW h, LockBelief(h),
           worker.all => worker'.all \/ Emptied' \/ Withdrawn(h)
    PROVE  LockBelief(h)'
<1>1. /\ Now' = Now /\ Withdrawn(h)' = Withdrawn(h)
      /\ \A n : Locked(n)' = Locked(n)
  BY SameLog
<1> QED
  BY <1>1 DEF LockBelief

LEMMA KeepSound ==
    ASSUME log' = log, Emptied => Emptied', NEW s, Sound(s)
    PROVE  Sound(s)'
<1>1. /\ Now' = Now /\ Withdrawn(s)' = Withdrawn(s)
      /\ \A n : Staked(n)' = Staked(n) /\ Happened("Registered", n)' = Happened("Registered", n)
  BY SameLog
<1> QED
  BY <1>1 DEF Sound

SameBeliefs ==
    /\ srv'.isHubAuthorized => srv.isHubAuthorized
    /\ srv'.isStakeLocked => srv.isStakeLocked
    /\ srv'.scanned = srv.scanned

(* The worker is where it handles nothing.                                 *)
LEMMA RestingStep ==
    ASSUME Types, Beliefs, log' = log, SameBeliefs, Emptied => Emptied', ~Handling', ~worker'.all
    PROVE  Beliefs'
<1>1. PICK s : s = srv.scanned
  OBVIOUS
<1>2. HubBelief(s, (s + 1)..Now) /\ LockBelief(s) /\ PaidUp(s)
  BY <1>1, AtRest
<1>3. worker.all => Withdrawn(s)
  BY <1>1 DEF Beliefs
<1>4. srv'.scanned = s
  BY <1>1 DEF SameBeliefs
<1>5. PICK n : n = Now
  OBVIOUS
<1>6. HubBelief(s, (s + 1)..n)'
  BY <1>2, <1>5, KeepHub DEF SameBeliefs
<1>7. Now' = n
  BY <1>5, SameLog
<1>8. HubBelief(s, (s + 1)..Now)'
  BY <1>6, <1>7
<1>9. LockBelief(s)'
  BY <1>2, <1>3, KeepLock DEF SameBeliefs
<1>10. PaidUp(s)'
  <2> SUFFICES ASSUME NEW i \in 1..s, log[i] = "StakeWithdrawn" PROVE Emptied'
    BY DEF PaidUp
  <2>1. ~(i > srv.scanned)
    BY <1>1 DEF Types
  <2> QED
    BY <1>2, <2>1 DEF PaidUp
<1> QED
  BY <1>4, <1>8, <1>9, <1>10 DEF Beliefs, Rested

(* The worker goes on with the same batch.                                 *)
LEMMA HandlingStep ==
    ASSUME Types, Beliefs, log' = log, SameBeliefs, Emptied => Emptied',
           Handling, Handling', worker'.batch = worker.batch, worker'.cur = worker.cur,
           worker'.all => worker.all, worker.all => worker'.all \/ Emptied'
    PROVE  Beliefs'
<1>1. PICK h \in 0..Now, b \in 0..Now :
         BatchIs(h, b) /\ HubBelief(h, worker.batch) /\ LockBelief(h) /\ PaidUp(h)
  BY DEF Beliefs, Amid
<1>2. Now' = Now /\ srv'.scanned = srv.scanned
  BY SameLog DEF SameBeliefs
<1>3. PICK later : later = worker.batch
  OBVIOUS
<1>4. HubBelief(h, later)'
  BY <1>1, <1>3, KeepHub DEF SameBeliefs
<1>5. HubBelief(h, worker.batch)'
  BY <1>3, <1>4
<1>6. LockBelief(h)'
  BY <1>1, KeepLock DEF SameBeliefs
<1>7. PaidUp(h)'
  BY <1>1, <1>2 DEF PaidUp
<1>8. BatchIs(h, b)'
  BY <1>1, <1>2 DEF BatchIs
<1>9. Amid'
  BY <1>2, <1>5, <1>6, <1>7, <1>8 DEF Amid
<1>10. worker'.all => Withdrawn(srv.scanned)'
  <2>1. PICK s : s = srv.scanned
    OBVIOUS
  <2>2. worker'.all => Withdrawn(s)
    BY <2>1 DEF Beliefs
  <2>3. Withdrawn(s)' = Withdrawn(s)
    BY SameLog
  <2> QED
    BY <1>2, <2>1, <2>2, <2>3
<1> QED
  BY <1>9, <1>10 DEF Beliefs

(* Only the log grows, or money moves.                                     *)
LEMMA ChainStep ==
    ASSUME Trusted, Grows, Possible(log)', UNCHANGED <<srv, worker>>, Emptied => Emptied',
           {"hub", "worker", "manager"} \subseteq DOMAIN funds'
    PROVE  Trusted'
<1>0. /\ log \in Seq(Events) /\ log' \in Seq(Events)
      /\ Now \in Nat /\ Now' \in Nat /\ Now <= Now'
      /\ srv.scanned \in 0..Now /\ worker.cur \in 0..Now
  BY Longer DEF Trusted, Types
<1>1. \A n \in 0..Now : /\ n \in 0..Now' /\ n \in Nat
                        /\ Locked(n)' = Locked(n) /\ Authorized(n)' = Authorized(n)
                        /\ Staked(n)' = Staked(n)
                        /\ Happened("Registered", n)' = Happened("Registered", n)
                        /\ Withdrawn(n) => Withdrawn(n)'
  BY <1>0, SameBefore, WithdrawnGrows
<1>2. \A i \in 1..Now : i \in 1..Now' /\ log'[i] = log[i]
  BY <1>0, Longer
<1>3. Types'
  BY <1>0, <1>1 DEF Trusted, Types
<1> HIDE DEF Now
<1>4. ASSUME NEW h \in 0..Now, NEW later, later \subseteq 1..Now, HubBelief(h, later)
      PROVE  HubBelief(h, later)'
  <2>1. \A n \in h..Now : n \in 0..Now /\ n \in h..Now'
    BY <1>0
  <2> QED
    BY <1>1, <1>2, <1>4, <2>1 DEF HubBelief
<1>5. ASSUME NEW h \in 0..Now, LockBelief(h) PROVE LockBelief(h)'
  <2>1. \A n \in h..Now : n \in 0..Now /\ n \in h..Now'
    BY <1>0
  <2> QED
    BY <1>1, <1>5, <2>1 DEF LockBelief
<1>6. ASSUME NEW h \in 0..Now, PaidUp(h) PROVE PaidUp(h)'
  <2>1. \A i \in 1..h : i \in 1..Now
    BY <1>0
  <2> QED
    BY <1>2, <1>6, <2>1 DEF PaidUp
<1>7. ASSUME NEW s \in 0..Now, Sound(s) PROVE Sound(s)'
  <2>1. \A n \in s..Now : n \in 0..Now /\ n \in s..Now'
    BY <1>0
  <2> QED
    BY <1>1, <1>7, <2>1 DEF Sound
<1>8. Beliefs'
  <2>1. ASSUME Handling PROVE Amid'
    <3>1. PICK h \in 0..Now, b \in 0..Now :
             BatchIs(h, b) /\ HubBelief(h, worker.batch) /\ LockBelief(h) /\ PaidUp(h)
      BY <2>1 DEF Trusted, Beliefs, Amid
    <3>2. PICK later : later = worker.batch
      OBVIOUS
    <3>3. later = {i \in (h + 1)..b : log[i] \in ManagerEvents} /\ h \in srv.scanned..b
          /\ b \in worker.cur..Now
      BY <3>1, <3>2 DEF BatchIs
    <3>4. \A i \in (h + 1)..b : i \in 1..Now
      BY <1>0
    <3>5. later \subseteq 1..Now
      BY <3>3, <3>4
    <3>6. HubBelief(h, later)'
      BY <1>4, <3>1, <3>2, <3>5
    <3>7. LockBelief(h)' /\ PaidUp(h)'
      BY <1>5, <1>6, <3>1
    <3>8. later = {i \in (h + 1)..b : log'[i] \in ManagerEvents}
      BY <1>2, <3>3, <3>4
    <3>9. b \in worker.cur..Now'
      BY <1>0, <3>3
    <3>10. BatchIs(h, b)'
      BY <3>2, <3>3, <3>8, <3>9 DEF BatchIs
    <3> QED
      BY <1>1, <3>2, <3>6, <3>7, <3>10 DEF Amid
  <2>2. ASSUME ~Handling PROVE Rested(srv.scanned)'
    <3>1. PICK s \in 0..Now : s = srv.scanned
      BY <1>0
    <3>2. HubBelief(s, (s + 1)..Now) /\ LockBelief(s) /\ PaidUp(s)
      BY <2>2, <3>1 DEF Trusted, Beliefs, Rested
    <3>3. PICK n : n = Now
      OBVIOUS
    <3>4. (s + 1)..n \subseteq 1..Now
      BY <1>0, <3>3
    <3>5. HubBelief(s, (s + 1)..n)'
      BY <1>4, <3>2, <3>3, <3>4
    <3>6. \A i \in (s + 1)..n : i \in (s + 1)..Now'
      BY <1>0, <3>3
    <3>7. HubBelief(s, (s + 1)..Now)'
      BY <3>5, <3>6 DEF HubBelief
    <3>8. LockBelief(s)' /\ PaidUp(s)'
      BY <1>5, <1>6, <3>2
    <3> QED
      BY <3>1, <3>7, <3>8 DEF Rested
  <2>3. worker.all => Withdrawn(srv.scanned)'
    <3>1. PICK s \in 0..Now : s = srv.scanned
      BY <1>0
    <3> QED
      BY <1>1, <3>1 DEF Trusted, Beliefs
  <2> QED
    BY <2>1, <2>2, <2>3 DEF Beliefs, Handling
<1>9. Readiness'
  <2>1. srv.registered => Happened("Registered", Now)'
    <3> SUFFICES ASSUME srv.registered PROVE Happened("Registered", Now)'
      OBVIOUS
    <3>1. PICK i \in 1..Now : log[i] = "Registered"
      BY <1>0, HappenedIff DEF Trusted, Readiness
    <3>2. PICK n \in Nat : n = Now'
      BY <1>0
    <3>3. i \in 1..n /\ log'[i] = "Registered"
      BY <1>2, <3>1, <3>2
    <3>4. \E j \in 1..n : log'[j] \in {"Registered"}
      BY <3>3
    <3>5. LatestIn(log', {"Registered"}, n) = "Registered"
      BY <3>4, LatestIs
    <3>6. Happened("Registered", n)'
      BY <3>5 DEF Happened, Latest
    <3> QED
      BY <3>2, <3>6
  <2>2. ASSUME srv.ready \/ worker.pc = "replenish" PROVE Sound(srv.scanned)'
    <3>1. PICK s \in 0..Now : s = srv.scanned
      BY <1>0
    <3>2. Sound(s)
      BY <2>2, <3>1 DEF Trusted, Readiness
    <3> QED
      BY <1>7, <3>1, <3>2
  <2> QED
    BY <2>1, <2>2 DEF Readiness
<1> QED
  BY <1>3, <1>8, <1>9 DEF Trusted

(* ------------------ steps that refresh the stake ----------------------- *)

LEMMA Refreshed ==
    ASSUME Types, NEW t, t = RefreshStake(srv)
    PROVE  /\ DOMAIN t = DOMAIN srv
           /\ t.isHubAuthorized => srv.isHubAuthorized \/ Staked(Now)
           /\ HasStake(Now) => (t.isStakeLocked => Locked(Now))
           /\ ~HasStake(Now) => t.isStakeLocked = srv.isStakeLocked
           /\ t.scanned = srv.scanned /\ t.ready = srv.ready /\ t.registered = srv.registered
<1> DEFINE u == [srv EXCEPT !.isHubAuthorized = srv.isHubAuthorized \/ Staked(Now),
                            !.isOwnerSet = Happened("OwnerSet", Now)]
<1>1. /\ DOMAIN u = DOMAIN srv
      /\ u.isHubAuthorized => srv.isHubAuthorized \/ Staked(Now)
      /\ u.scanned = srv.scanned /\ u.ready = srv.ready /\ u.registered = srv.registered
      /\ u.isStakeLocked = srv.isStakeLocked
  BY DEF Types
<1>2. CASE HasStake(Now)
  <2>1. t = [u EXCEPT !.isStakeLocked = Locked(Now), !.stakeOk = TRUE, !.ownerAddress = TRUE]
    BY <1>2 DEF RefreshStake
  <2> HIDE DEF u
  <2> QED
    BY <1>1, <1>2, <2>1 DEF Types
<1>3. CASE ~HasStake(Now)
  <2>1. t = u
    BY <1>3 DEF RefreshStake
  <2> HIDE DEF u
  <2> QED
    BY <1>1, <1>3, <2>1
<1> QED
  BY <1>2, <1>3

(* RegistrationManager.init reads the chain as it is.                      *)
LEMMA InitServerTrusted == ASSUME Trusted, InitServer PROVE Trusted'
<1>1. /\ worker' = [worker EXCEPT !.pc = "balance"] /\ worker.pc = "init"
      /\ log' = log /\ funds' = funds
  BY DEF InitServer, Goto, At, chain
<1>2. /\ {"pc", "cur", "batch", "all", "due", "force"} \subseteq DOMAIN worker'
      /\ worker'.pc = "balance" /\ worker'.all = worker.all /\ worker'.batch = worker.batch
      /\ worker'.cur = worker.cur
  BY <1>1 DEF Trusted, Types
<1>3. PICK t : t = RefreshStake(srv)
  OBVIOUS
<1>4. /\ DOMAIN t = DOMAIN srv
      /\ t.isHubAuthorized => srv.isHubAuthorized \/ Staked(Now)
      /\ HasStake(Now) => (t.isStakeLocked => Locked(Now))
      /\ ~HasStake(Now) => t.isStakeLocked = srv.isStakeLocked
      /\ t.scanned = srv.scanned /\ t.ready = srv.ready /\ t.registered = srv.registered
  BY <1>3, Refreshed DEF Trusted
<1>5. srv' = [[t EXCEPT !.registered = Happened("Registered", Now),
                        !.workerAdded = Happened("WorkersAdded", Now)] EXCEPT !.initialized = TRUE]
  BY <1>3 DEF InitServer, Discover
<1>6. /\ DOMAIN srv' = DOMAIN srv /\ srv'.isHubAuthorized = t.isHubAuthorized
      /\ srv'.isStakeLocked = t.isStakeLocked /\ srv'.scanned = srv.scanned
      /\ srv'.ready = srv.ready
      /\ srv'.registered => Happened("Registered", Now)
  BY <1>4, <1>5 DEF Trusted, Types
<1>7. /\ Now' = Now /\ Possible(log)' = Possible(log) /\ Emptied' = Emptied
      /\ \A n : /\ Locked(n)' = Locked(n) /\ Authorized(n)' = Authorized(n)
                /\ Staked(n)' = Staked(n) /\ Withdrawn(n)' = Withdrawn(n)
                /\ Happened("Registered", n)' = Happened("Registered", n)
  BY <1>1, SameLog DEF Emptied
<1>8. Types'
  BY <1>1, <1>2, <1>6, <1>7 DEF Trusted, Types
<1>9. ~worker.all /\ ~Handling /\ ~Handling'
  BY <1>1, <1>2 DEF Trusted, Types, Handling
<1>10. PICK s : s = srv.scanned
  OBVIOUS
<1>11. HubBelief(s, (s + 1)..Now) /\ LockBelief(s) /\ PaidUp(s)
  BY <1>9, <1>10 DEF Trusted, Beliefs, Rested
<1>12. PICK n : n = Now
  OBVIOUS
<1>13. s \in 0..n /\ n \in Nat
  BY <1>10, <1>12 DEF Trusted, Types, Now
<1>14. n \in s..n
  BY <1>13
<1>15. HubBelief(s, (s + 1)..n)'
  BY <1>1, <1>4, <1>6, <1>7, <1>11, <1>12, <1>14 DEF HubBelief
<1>16. LockBelief(s)'
  BY <1>1, <1>2, <1>4, <1>6, <1>7, <1>11, <1>12, <1>14 DEF LockBelief
<1>17. PaidUp(s)'
  BY <1>1, <1>2, <1>6, <1>7, <1>9, <1>11 DEF PaidUp
<1>18. Beliefs'
  BY <1>2, <1>6, <1>7, <1>9, <1>10, <1>12, <1>15, <1>16, <1>17 DEF Beliefs, Rested
<1>19. Readiness'
  <2>1. ASSUME srv.ready PROVE Sound(s)'
    BY <1>1, <1>7, <1>10, <2>1, KeepSound DEF Trusted, Readiness
  <2>2. srv'.ready \/ worker'.pc = "replenish" => Sound(s)'
    <3>1. worker'.pc # "replenish"
      BY <1>2
    <3>2. srv'.ready = srv.ready
      BY <1>6
    <3> QED
      BY <2>1, <3>1, <3>2
  <2>3. n = Now' /\ s = srv'.scanned
    BY <1>6, <1>7, <1>10, <1>12
  <2>4. srv'.registered => Happened("Registered", n)
    <3>1. srv'.registered => Happened("Registered", Now)
      BY <1>6
    <3> QED
      BY <1>12, <3>1
  <2>5. Happened("Registered", n)' = Happened("Registered", n)
    BY <1>7
  <2>6. srv'.registered => Happened("Registered", Now)'
    BY <2>3, <2>4, <2>5
  <2>7. srv'.ready \/ worker'.pc = "replenish" => Sound(srv.scanned)'
    BY <2>2, <2>3
  <2> QED
    BY <2>6, <2>7 DEF Readiness
<1> QED
  BY <1>8, <1>18, <1>19 DEF Trusted

(* The events are fetched to the end of the log.                           *)
LEMMA GetStakeEventsTrusted == ASSUME Trusted, GetStakeEvents PROVE Trusted'
<1> DEFINE positions == {i \in (srv.scanned + 1)..Now : log[i] \in ManagerEvents}
<1>1. /\ worker.pc = "stakeEvents" /\ log' = log /\ funds' = funds
      /\ \E pc \in {"setOwner", "events"} :
            worker' = [worker EXCEPT !.batch = positions, !.pc = pc]
      /\ \E called : srv' = [srv EXCEPT !.isSetOwnerCalled = called]
  BY DEF GetStakeEvents, At, chain
<1>2. /\ {"pc", "cur", "batch", "all", "due", "force"} \subseteq DOMAIN worker'
      /\ worker'.pc \in {"setOwner", "events"} /\ worker'.all = worker.all
      /\ worker'.batch = positions /\ worker'.cur = worker.cur
  BY <1>1 DEF Trusted, Types
<1>3. /\ DOMAIN srv' = DOMAIN srv /\ srv'.isHubAuthorized = srv.isHubAuthorized
      /\ srv'.isStakeLocked = srv.isStakeLocked /\ srv'.scanned = srv.scanned
      /\ srv'.ready = srv.ready /\ srv'.registered = srv.registered
  BY <1>1 DEF Trusted, Types
<1>4. /\ Now' = Now /\ Possible(log)' = Possible(log) /\ Emptied' = Emptied
      /\ \A n : /\ Locked(n)' = Locked(n) /\ Authorized(n)' = Authorized(n)
                /\ Staked(n)' = Staked(n) /\ Withdrawn(n)' = Withdrawn(n)
                /\ Happened("Registered", n)' = Happened("Registered", n)
  BY <1>1, SameLog DEF Emptied
<1>5. ~worker.all /\ ~worker'.all /\ ~Handling /\ Handling'
  BY <1>1, <1>2 DEF Trusted, Types, Handling
<1>6. Types'
  BY <1>1, <1>2, <1>3, <1>4, <1>5 DEF Trusted, Types
<1>7. PICK s : s = srv.scanned
  OBVIOUS
<1>8. PICK n : n = Now
  OBVIOUS
<1>9. n \in Nat /\ s \in 0..n /\ worker.cur \in 0..n
  BY <1>7, <1>8 DEF Trusted, Types, Now
<1>10. HubBelief(s, (s + 1)..n) /\ LockBelief(s) /\ PaidUp(s)
  BY <1>5, <1>7, <1>8 DEF Trusted, Beliefs, Rested
<1>11. PICK batch : batch = {i \in (s + 1)..n : log[i] \in ManagerEvents}
  OBVIOUS
<1>12. HubBelief(s, batch)
  BY <1>10, <1>11 DEF HubBelief, ManagerEvents
<1>13. HubBelief(s, batch)'
  BY <1>1, <1>3, <1>12, KeepHub
<1>14. LockBelief(s)'
  BY <1>1, <1>3, <1>4, <1>5, <1>10, KeepLock
<1>15. PaidUp(s)'
  BY <1>1, <1>3, <1>4, <1>5, <1>10 DEF PaidUp
<1>16. worker'.batch = batch
  BY <1>2, <1>7, <1>8, <1>11
<1>17. BatchIs(s, n)'
  <2>1. s \in s..n /\ n \in worker.cur..n
    BY <1>9
  <2> QED
    BY <1>1, <1>2, <1>3, <1>4, <1>7, <1>8, <1>11, <1>16, <2>1 DEF BatchIs
<1>18. HubBelief(s, worker.batch)'
  BY <1>13, <1>16
<1>19. Amid'
  <2>1. s \in 0..n /\ n \in 0..n
    BY <1>9
  <2> QED
    BY <1>4, <1>8, <1>14, <1>15, <1>17, <1>18, <2>1 DEF Amid
<1>20. Beliefs'
  BY <1>5, <1>19 DEF Beliefs
<1>21. Readiness'
  <2>1. ASSUME srv.ready PROVE Sound(s)'
    BY <1>1, <1>4, <1>7, <2>1, KeepSound DEF Trusted, Readiness
  <2> QED
    BY <1>2, <1>3, <1>4, <1>7, <2>1 DEF Trusted, Readiness
<1> QED
  BY <1>6, <1>20, <1>21 DEF Trusted

(* One event of the batch.  The stretch before it is quiet, so whatever    *)
(* was believed up to h is believed up to the event, and the event or the  *)
(* refresh it causes sets the rest right.                                  *)
LEMMA HandleEventTrusted == ASSUME Trusted, HandleEvent PROVE Trusted'
<1>1. PICK p \in worker.batch :
         /\ worker.pc = "events" /\ \A later \in worker.batch : p <= later
         /\ srv' = CASE log[p] = "HubAuthorized" -> [srv EXCEPT !.isHubAuthorized = TRUE]
                     [] log[p] = "HubUnauthorized" ->
                          [srv EXCEPT !.isHubAuthorized = FALSE, !.delayed = @ \cup {p}]
                     [] OTHER -> RefreshStake(srv)
         /\ worker' = [worker EXCEPT
              !.batch = worker.batch \ {p},
              !.pc = IF log[p] = "StakeWithdrawn" THEN "pay" ELSE "events",
              !.all = log[p] = "StakeWithdrawn"]
         /\ log' = log /\ funds' = funds
  BY DEF HandleEvent, At, chain
<1>2. /\ {"pc", "cur", "batch", "all", "due", "force"} \subseteq DOMAIN worker'
      /\ worker'.batch = worker.batch \ {p} /\ worker'.cur = worker.cur
      /\ worker'.all <=> log[p] = "StakeWithdrawn"
      /\ worker'.pc = IF log[p] = "StakeWithdrawn" THEN "pay" ELSE "events"
  BY <1>1 DEF Trusted, Types
<1>3. ~worker.all /\ Handling /\ Handling'
  BY <1>1, <1>2 DEF Trusted, Types, Handling
<1>4. PICK h \in 0..Now, b \in 0..Now :
         BatchIs(h, b) /\ HubBelief(h, worker.batch) /\ LockBelief(h) /\ PaidUp(h)
  BY <1>3 DEF Trusted, Beliefs, Amid
<1>5. PICK n : n = Now
  OBVIOUS
<1>6. PICK s : s = srv.scanned
  OBVIOUS
<1>7. n \in Nat /\ s \in 0..n /\ h \in 0..n /\ b \in 0..n
  BY <1>4, <1>5, <1>6 DEF Trusted, Types, Now
<1>8. /\ h \in s..b /\ b \in worker.cur..n
      /\ worker.batch = {i \in (h + 1)..b : log[i] \in ManagerEvents}
  BY <1>4, <1>5, <1>6 DEF BatchIs
<1>9. p \in (h + 1)..b /\ log[p] \in ManagerEvents
  BY <1>1, <1>8
<1>10. p \in Nat /\ p \in 1..n /\ p - 1 \in Nat /\ h <= p - 1 /\ h <= p /\ p <= n /\ s < p
  BY <1>7, <1>8, <1>9
<1>11. \A i \in (h + 1)..(p - 1) : log[i] \notin ManagerEvents
  <2> SUFFICES ASSUME NEW i \in (h + 1)..(p - 1), log[i] \in ManagerEvents PROVE FALSE
    OBVIOUS
  <2>1. i \in (h + 1)..b /\ ~(p <= i)
    BY <1>7, <1>9
  <2>2. i \in worker.batch
    BY <1>8, <2>1
  <2> QED
    BY <1>1, <2>1, <2>2
<1>12. ASSUME NEW m \in h..(p - 1)
       PROVE  /\ Locked(m) = Locked(p - 1) /\ Authorized(m) = Authorized(p - 1)
              /\ Staked(m) = Staked(p - 1)
  <2>1. m \in Nat /\ m <= p - 1 /\ \A i \in (m + 1)..(p - 1) : i \in (h + 1)..(p - 1)
    BY <1>7, <1>10
  <2>2. \A i \in (m + 1)..(p - 1) : log[i] \notin ManagerEvents
    BY <1>11, <2>1
  <2> QED
    BY <1>10, <2>1, <2>2, QuietStretch
<1>13. /\ log[p] \notin StakeKinds => Locked(p) = Locked(p - 1)
       /\ log[p] \notin HubKinds => Authorized(p) = Authorized(p - 1)
  <2>1. \A kinds : log[p] \notin kinds => \A i \in ((p - 1) + 1)..p : log[i] \notin kinds
    BY <1>10
  <2>2. \A kinds : log[p] \notin kinds => Latest(kinds, p) = Latest(kinds, p - 1)
    <3>1. p - 1 \in Nat /\ p \in Nat /\ p - 1 <= p
      BY <1>10
    <3> QED
      BY <2>1, <3>1, LatestQuiet
  <2> QED
    BY <2>2 DEF Locked, Authorized
<1>14. /\ Now' = n /\ Possible(log)' = Possible(log) /\ Emptied' = Emptied
       /\ \A m : /\ Locked(m)' = Locked(m) /\ Authorized(m)' = Authorized(m)
                 /\ Staked(m)' = Staked(m) /\ Withdrawn(m)' = Withdrawn(m)
                 /\ Happened("Registered", m)' = Happened("Registered", m)
  BY <1>1, <1>5, SameLog DEF Emptied
<1>15. PICK t : t = RefreshStake(srv)
  OBVIOUS
<1>16. /\ DOMAIN t = DOMAIN srv
       /\ t.isHubAuthorized => srv.isHubAuthorized \/ Staked(n)
       /\ HasStake(n) => (t.isStakeLocked => Locked(n))
       /\ ~HasStake(n) => t.isStakeLocked = srv.isStakeLocked
       /\ t.scanned = srv.scanned /\ t.ready = srv.ready /\ t.registered = srv.registered
  BY <1>5, <1>15, Refreshed DEF Trusted
<1>17. /\ DOMAIN srv' = DOMAIN srv /\ srv'.scanned = s
       /\ srv'.ready = srv.ready /\ srv'.registered = srv.registered
  <2>1. srv' = [srv EXCEPT !.isHubAuthorized = TRUE]
          \/ srv' = [srv EXCEPT !.isHubAuthorized = FALSE, !.delayed = @ \cup {p}]
          \/ srv' = t
    BY <1>1, <1>15
  <2> QED
    BY <1>6, <1>16, <2>1 DEF Trusted, Types
<1>18. /\ log[p] = "HubAuthorized" => srv'.isStakeLocked = srv.isStakeLocked
       /\ log[p] = "HubUnauthorized" =>
            ~srv'.isHubAuthorized /\ srv'.isStakeLocked = srv.isStakeLocked
       /\ log[p] \notin HubKinds => srv' = t
  BY <1>1, <1>15 DEF HubKinds, Trusted, Types
<1>19. Types'
  <2>1. worker'.pc = "pay" => worker'.all
    BY <1>2
  <2>2. worker'.all => worker'.pc = "pay"
    BY <1>2
  <2>3. worker'.pc \notin {"register", "confirm"}
    BY <1>2
  <2> QED
    BY <1>1, <1>2, <1>5, <1>6, <1>14, <1>17, <2>1, <2>2, <2>3 DEF Trusted, Types
<1>20. PICK rest : rest = worker.batch \ {p}
  OBVIOUS
<1>21. HubBelief(p, rest)'
  <2> SUFFICES ASSUME srv'.isHubAuthorized
               PROVE  \/ Authorized(p) \/ \E m \in p..n : Staked(m)
                      \/ \E i \in rest : log[i] \in HubKinds
    BY <1>1, <1>14 DEF HubBelief
  <2>1. CASE log[p] = "HubAuthorized"
    <3>1. log[p] \in HubKinds /\ p \in Nat \ {0}
      BY <1>10, <2>1 DEF HubKinds
    <3>2. LatestIn(log, HubKinds, p) = log[p]
      BY <3>1, LatestAt
    <3> QED
      BY <2>1, <3>2 DEF Authorized, Latest
  <2>2. CASE log[p] = "HubUnauthorized"
    BY <1>18, <2>2
  <2>3. CASE log[p] \notin HubKinds
    <3>1. srv.isHubAuthorized \/ Staked(n)
      BY <1>16, <1>18, <2>3
    <3>2. CASE Staked(n)
      <4>1. n \in p..n
        BY <1>7, <1>10
      <4> QED
        BY <3>2, <4>1
    <3>3. CASE srv.isHubAuthorized
      <4>1. \/ Authorized(h) \/ (\E m \in h..n : Staked(m))
            \/ \E i \in worker.batch : log[i] \in HubKinds
        BY <1>4, <1>5, <3>3 DEF HubBelief
      <4>2. CASE Authorized(h)
        <5>1. h \in h..(p - 1)
          BY <1>7, <1>10
        <5> QED
          BY <1>12, <1>13, <2>3, <4>2, <5>1
      <4>3. ASSUME NEW m \in h..n, Staked(m) PROVE Authorized(p) \/ \E k \in p..n : Staked(k)
        <5>1. CASE m \in p..n
          BY <4>3, <5>1
        <5>2. CASE m \in h..(p - 1)
          BY <1>12, <1>13, <2>3, <4>3, <5>2 DEF Staked
        <5> QED
          BY <1>7, <1>10, <5>1, <5>2
      <4>4. CASE \E i \in worker.batch : log[i] \in HubKinds
        BY <1>20, <2>3, <4>4
      <4> QED
        BY <4>1, <4>2, <4>3, <4>4
    <3> QED
      BY <3>1, <3>2, <3>3
  <2> QED
    BY <2>1, <2>2, <2>3 DEF HubKinds
<1>22. LockBelief(p)'
  <2> SUFFICES ASSUME srv'.isStakeLocked
               PROVE  \/ \E m \in p..n : Locked(m)
                      \/ Withdrawn(p) \/ Emptied \/ log[p] = "StakeWithdrawn"
    BY <1>1, <1>2, <1>14 DEF LockBelief
  <2>1. CASE srv.isStakeLocked /\ log[p] \notin StakeKinds
    <3>1. (\E m \in h..n : Locked(m)) \/ Withdrawn(h) \/ Emptied
      BY <1>3, <1>4, <1>5, <2>1 DEF LockBelief
    <3>2. ASSUME NEW m \in h..n, Locked(m) PROVE \E k \in p..n : Locked(k)
      <4>1. CASE m \in p..n
        BY <3>2, <4>1
      <4>2. CASE m \in h..(p - 1)
        <5>1. Locked(p)
          BY <1>12, <1>13, <2>1, <3>2, <4>2
        <5>2. p \in p..n
          BY <1>7, <1>10
        <5> QED
          BY <5>1, <5>2
      <4> QED
        BY <1>7, <1>10, <4>1, <4>2
    <3>3. Withdrawn(h) => Withdrawn(p)
      <4> SUFFICES ASSUME NEW i \in (h + 1)..n, log[i] = "StakeWithdrawn" PROVE Withdrawn(p)
        BY <1>5 DEF Withdrawn
      <4>1. log[i] \in ManagerEvents /\ log[i] \in StakeKinds
        BY DEF ManagerEvents, StakeKinds
      <4>2. i \notin (h + 1)..(p - 1) /\ i # p
        BY <1>11, <2>1, <4>1
      <4>3. i \in (p + 1)..n
        BY <1>7, <1>10, <4>2
      <4> QED
        BY <1>5, <4>3 DEF Withdrawn
    <3> QED
      BY <3>1, <3>2, <3>3
  <2>2. CASE log[p] \notin HubKinds /\ HasStake(n)
    <3>1. Locked(n) /\ n \in p..n
      BY <1>7, <1>10, <1>16, <1>18, <2>2
    <3> QED
      BY <3>1
  <2>3. CASE log[p] \in StakeKinds /\ ~HasStake(n)
    <3>1. PICK q \in 1..n : /\ log[q] \in StakeKinds
                            /\ LatestIn(log, StakeKinds, n) = log[q]
                            /\ \A i \in (q + 1)..n : log[i] \notin StakeKinds
      BY <1>7, <1>10, <2>3, LatestIs
    <3>2. log[q] = "StakeWithdrawn"
      BY <2>3, <3>1 DEF HasStake, Latest, StakeKinds
    <3>3. p <= q
      <4>1. p \notin (q + 1)..n
        BY <2>3, <3>1
      <4> QED
        BY <1>10, <3>1, <4>1
    <3>4. CASE q = p
      BY <3>2, <3>4
    <3>5. CASE q # p
      <4>1. q \in (p + 1)..n
        BY <1>10, <3>1, <3>3, <3>5
      <4> QED
        BY <1>5, <3>2, <4>1 DEF Withdrawn
    <3> QED
      BY <3>4, <3>5
  <2>4. log[p] \in StakeKinds => log[p] \notin HubKinds
    BY DEF StakeKinds, HubKinds
  <2>5. log[p] \in HubKinds => srv'.isStakeLocked = srv.isStakeLocked
    BY <1>18 DEF HubKinds
  <2>6. log[p] \notin HubKinds /\ ~HasStake(n) => srv'.isStakeLocked = srv.isStakeLocked
    BY <1>16, <1>18
  <2> QED
    BY <2>1, <2>2, <2>3, <2>4, <2>5, <2>6
<1>23. PaidUp(p)'
  <2> SUFFICES ASSUME NEW i \in 1..p, log[i] = "StakeWithdrawn"
               PROVE  Emptied \/ (worker'.all /\ i > srv'.scanned)
    BY <1>1, <1>14 DEF PaidUp
  <2>1. CASE i \in 1..h
    BY <1>3, <1>4, <2>1 DEF PaidUp
  <2>2. CASE i \in (h + 1)..(p - 1)
    BY <1>11, <2>2 DEF ManagerEvents, StakeKinds
  <2>3. CASE i = p
    BY <1>2, <1>7, <1>10, <1>17, <2>3
  <2> QED
    BY <1>7, <1>10, <2>1, <2>2, <2>3
<1>24. BatchIs(p, b)'
  <2>1. p \in s..b /\ b \in worker.cur..n
    BY <1>7, <1>8, <1>9, <1>10
  <2>2. rest = {i \in (p + 1)..b : log[i] \in ManagerEvents}
    <3>1. ASSUME NEW i \in rest PROVE i \in (p + 1)..b /\ log[i] \in ManagerEvents
      <4>1. i \in (h + 1)..b /\ log[i] \in ManagerEvents /\ p <= i /\ i # p
        BY <1>1, <1>8, <1>20, <3>1
      <4> QED
        BY <1>7, <1>10, <4>1
    <3>2. ASSUME NEW i \in (p + 1)..b, log[i] \in ManagerEvents PROVE i \in rest
      <4>1. i \in (h + 1)..b /\ i # p
        BY <1>7, <1>10, <3>2
      <4> QED
        BY <1>8, <1>20, <3>2, <4>1
    <3> QED
      BY <3>1, <3>2
  <2> QED
    BY <1>1, <1>2, <1>14, <1>17, <1>20, <2>1, <2>2 DEF BatchIs
<1>25. Amid'
  <2>1. p \in 0..n /\ b \in 0..n
    BY <1>7, <1>10
  <2>2. HubBelief(p, worker.batch)'
    BY <1>2, <1>20, <1>21
  <2> QED
    BY <1>14, <1>22, <1>23, <1>24, <2>1, <2>2 DEF Amid
<1>26. worker'.all => Withdrawn(srv.scanned)'
  <2>1. log[p] = "StakeWithdrawn" => Withdrawn(s)
    <3>1. p \in (s + 1)..n
      BY <1>7, <1>10
    <3> QED
      BY <1>5, <3>1 DEF Withdrawn
  <2> QED
    BY <1>2, <1>14, <1>17, <2>1
<1>27. Readiness'
  <2>1. ASSUME srv.ready PROVE Sound(s)'
    BY <1>1, <1>6, <1>14, <2>1, KeepSound DEF Trusted, Readiness
  <2>2. srv.registered => Happened("Registered", n)
    BY <1>5 DEF Trusted, Readiness
  <2>3. srv.registered => Happened("Registered", n)'
    BY <1>14, <2>2
  <2>4. worker'.pc # "replenish"
    BY <1>2
  <2> QED
    BY <1>14, <1>17, <2>1, <2>3, <2>4 DEF Readiness
<1> QED
  BY <1>3, <1>19, <1>25, <1>26, <1>27 DEF Trusted, Beliefs

(* --------------------- the end of one _worker -------------------------- *)

(* With the batch handled the two beliefs meet: a server that believes it  *)
(* is registered was so at some position since the block it was woken for. *)
LEMMA ConfirmedSound ==
    ASSUME Trusted, worker.pc = "confirm", IsRegistered
    PROVE  Sound(worker.cur)
<1>1. srv.isHubAuthorized /\ srv.isStakeLocked /\ srv.registered
  BY DEF IsRegistered
<1>2. ~worker.all /\ worker.batch = {} /\ Handling
  BY DEF Trusted, Types, Handling
<1>3. PICK h \in 0..Now, b \in 0..Now :
         BatchIs(h, b) /\ HubBelief(h, worker.batch) /\ LockBelief(h) /\ PaidUp(h)
  BY <1>2 DEF Trusted, Beliefs, Amid
<1>4. PICK n : n = Now
  OBVIOUS
<1>5. PICK c : c = worker.cur
  OBVIOUS
<1>6. n \in Nat /\ c \in Nat /\ h \in Nat /\ b \in Nat
  BY <1>3, <1>4, <1>5 DEF Trusted, Types, Now
<1>7. h <= b /\ c <= b /\ b <= n /\ \A i \in (h + 1)..b : log[i] \notin ManagerEvents
  <2>1. h \in srv.scanned..b /\ b \in c..n
    BY <1>3, <1>4, <1>5 DEF BatchIs
  <2>2. \A i \in (h + 1)..b : log[i] \notin ManagerEvents
    BY <1>2, <1>3 DEF BatchIs
  <2>3. h <= b /\ c <= b /\ b <= n
    BY <1>6, <2>1 DEF Trusted, Types
  <2> QED
    BY <2>2, <2>3
(* A moment at which it was staked and authorised is enough: if it         *)
(* registered only later, then that is another such moment.                *)
<1>8. ASSUME NEW m \in c..n, Staked(m) PROVE Sound(c)
  <2>1. Happened("Registered", n)
    BY <1>1, <1>4 DEF Trusted, Readiness
  <2>2. PICK x \in 1..n : log[x] = "Registered"
    BY <1>6, <2>1, HappenedIff
  <2>3. Staked(x) /\ Happened("Registered", x)
    BY <1>4, <2>2, RegisteredStaked DEF Trusted
  <2>4. CASE x <= m
    <3>1. x \in 1..m /\ m \in Nat
      BY <1>6, <2>4
    <3>2. Happened("Registered", m)
      BY <2>2, <3>1, HappenedIff
    <3> QED
      BY <1>4, <1>8, <3>2 DEF Sound
  <2>5. CASE ~(x <= m)
    <3>1. x \in c..n
      BY <1>6, <2>5
    <3> QED
      BY <1>4, <2>3, <3>1 DEF Sound
  <2> QED
    BY <2>4, <2>5
<1>9. Authorized(h) \/ \E m \in h..n : Staked(m)
  BY <1>1, <1>2, <1>3, <1>4 DEF HubBelief
<1>10. (\E m \in h..n : Locked(m)) \/ Withdrawn(h) \/ Emptied
  BY <1>1, <1>2, <1>3, <1>4 DEF LockBelief
<1>11. Withdrawn(h) => Withdrawn(b)
  <2> SUFFICES ASSUME NEW i \in (h + 1)..n, log[i] = "StakeWithdrawn" PROVE Withdrawn(b)
    BY <1>4 DEF Withdrawn
  <2>1. i \notin (h + 1)..b
    BY <1>7 DEF ManagerEvents, StakeKinds
  <2>2. i \in (b + 1)..n
    BY <1>6, <1>7, <2>1
  <2> QED
    BY <1>4, <2>2 DEF Withdrawn
<1>12. Withdrawn(b) => Sound(c)
  BY <1>4, <1>6, <1>7, EarlierWithdrawn DEF Sound
<1>13. ASSUME NEW m \in h..b PROVE Locked(m) = Locked(b) /\ Authorized(m) = Authorized(b)
  <2>1. m \in Nat /\ m <= b
    BY <1>6
  <2>2. \A i \in (m + 1)..b : log[i] \notin ManagerEvents
    BY <1>6, <1>7
  <2> QED
    BY <1>6, <2>1, <2>2, QuietStretch
<1>14. ASSUME NEW m \in h..n, Staked(m) PROVE Sound(c)
  <2>1. CASE m \in b..n
    BY <1>6, <1>7, <1>8, <1>14, <2>1
  <2>2. CASE m \in h..b
    <3>1. Staked(b)
      BY <1>13, <1>14, <2>2 DEF Staked
    <3>2. b \in c..n
      BY <1>6, <1>7
    <3> QED
      BY <1>8, <3>1, <3>2
  <2> QED
    BY <1>6, <1>7, <2>1, <2>2
(* Otherwise it was authorised at the end of the batch, and its stake came *)
(* only after that.                                                        *)
<1>15. ASSUME Authorized(h), NEW m \in h..n, Locked(m), ~Withdrawn(h), ~Emptied PROVE Sound(c)
  <2>1. Authorized(b) /\ b \in c..n
    BY <1>6, <1>7, <1>13, <1>15
  <2>2. CASE Locked(b)
    BY <1>8, <2>1, <2>2 DEF Staked
  <2>3. CASE ~Locked(b)
    <3>1. m \in b..n
      BY <1>6, <1>7, <1>13, <1>15, <2>3
    <3>2. m \in Nat /\ LatestIn(log, StakeKinds, m) = "StakeAdded"
      BY <1>6, <1>15 DEF Locked, Latest
    <3>3. PICK q \in 1..m : /\ log[q] \in StakeKinds /\ log[q] = "StakeAdded"
                            /\ \A i \in (q + 1)..m : log[i] \notin StakeKinds
      BY <3>2, LatestIs
    <3>4. b < q
      <4> SUFFICES ASSUME q <= b PROVE FALSE
        BY <1>6, <3>2, <3>3
      <4>1. \A i \in (b + 1)..m : log[i] \notin StakeKinds
        BY <1>6, <3>2, <3>3
      <4>2. b <= m
        BY <1>6, <3>1
      <4>3. Latest(StakeKinds, m) = Latest(StakeKinds, b)
        BY <1>6, <3>2, <4>1, <4>2, LatestQuiet
      <4> QED
        BY <1>15, <2>3, <4>3 DEF Locked
    <3>5. q \in 1..n /\ q - 1 \in Nat /\ q \in DOMAIN log
      BY <1>4, <1>6, <3>1, <3>2, <3>3 DEF Trusted, Types, Now
    <3>6. LatestIn(log, StakeKinds, q - 1) \in {"none", "StakeWithdrawn"}
      BY <3>3, <3>5 DEF Trusted, Types, Possible
    <3>7. CASE LatestIn(log, StakeKinds, q - 1) = "StakeWithdrawn"
      <4>1. PICK w \in 1..(q - 1) : log[w] = "StakeWithdrawn"
        BY <3>5, <3>7, LatestIs
      <4>2. w \in 1..n
        BY <1>6, <3>5, <4>1
      <4>3. CASE w <= h
        <5>1. w \in 1..h
          BY <1>6, <4>2, <4>3
        <5> QED
          BY <1>2, <1>3, <1>15, <4>1, <5>1 DEF PaidUp
      <4>4. CASE ~(w <= h)
        <5>1. w \in (h + 1)..n
          BY <1>6, <4>2, <4>4
        <5> QED
          BY <1>4, <1>15, <4>1, <5>1 DEF Withdrawn
      <4> QED
        BY <4>3, <4>4
    <3>8. CASE LatestIn(log, StakeKinds, q - 1) = "none"
      <4>1. \A i \in 1..(q - 1) : log[i] \notin StakeKinds
        BY <3>5, <3>8, LatestIs DEF StakeKinds
      <4>2. PICK x \in 1..n : log[x] = "Registered"
        BY <1>1, <1>4, <1>6, HappenedIff DEF Trusted, Readiness
      <4>3. Staked(x)
        BY <1>4, <4>2, RegisteredStaked DEF Trusted
      <4>4. PICK y \in 1..x : log[y] \in StakeKinds
        <5>1. LatestIn(log, StakeKinds, x) = "StakeAdded" /\ x \in Nat
          BY <4>2, <4>3 DEF Staked, Locked, Latest
        <5> QED
          BY <5>1, LatestIs
      <4>5. x \in c..n
        <5>1. y \notin 1..(q - 1)
          BY <4>1, <4>4
        <5> QED
          BY <1>6, <1>7, <3>4, <3>5, <4>2, <4>4, <5>1
      <4> QED
        BY <1>8, <4>3, <4>5
    <3> QED
      BY <3>6, <3>7, <3>8
  <2> QED
    BY <2>2, <2>3
<1>16. Emptied => Sound(c)
  BY DEF Sound
<1> QED
  BY <1>5, <1>9, <1>10, <1>11, <1>12, <1>14, <1>15, <1>16

(* ------------------------ the remaining steps --------------------------- *)

WorkerFields == {"pc", "cur", "batch", "all", "due", "force"}

LEMMA StillReady ==
    ASSUME Trusted, log' = log, Emptied => Emptied', srv'.scanned = srv.scanned,
           srv'.registered => Happened("Registered", Now),
           srv'.ready \/ worker'.pc = "replenish" => srv.ready \/ worker.pc = "replenish"
    PROVE  Readiness'
<1>1. PICK s : s = srv.scanned
  OBVIOUS
<1>2. PICK n : n = Now
  OBVIOUS
<1>3. Now' = n /\ Happened("Registered", n)' = Happened("Registered", n)
  BY <1>2, SameLog
<1>4. srv'.registered => Happened("Registered", Now)'
  BY <1>2, <1>3
<1>5. srv.ready \/ worker.pc = "replenish" => Sound(s)
  BY <1>1 DEF Trusted, Readiness
<1>6. Sound(s) => Sound(s)'
  BY KeepSound
<1> QED
  BY <1>1, <1>4, <1>5, <1>6 DEF Readiness

(* A step that leaves the worker where it handles nothing.                 *)
LEMMA RestingTrusted ==
    ASSUME Trusted, log' = log, DOMAIN srv' = DOMAIN srv, SameBeliefs,
           {"hub", "worker", "manager"} \subseteq DOMAIN funds', Emptied => Emptied',
           WorkerFields \subseteq DOMAIN worker', worker'.cur \in 0..Now, ~worker'.all, ~Handling',
           srv'.registered => Happened("Registered", Now),
           srv'.ready \/ worker'.pc = "replenish" => srv.ready \/ worker.pc = "replenish"
    PROVE  Trusted'
<1>1. Now' = Now /\ Possible(log)' = Possible(log)
  BY SameLog
<1>2. Types'
  BY <1>1 DEF Trusted, Types, SameBeliefs, Handling, WorkerFields
<1>3. Beliefs'
  BY RestingStep DEF Trusted
<1>4. Readiness'
  BY StillReady DEF SameBeliefs
<1> QED
  BY <1>2, <1>3, <1>4 DEF Trusted

(* A step that goes on with the batch.                                     *)
LEMMA HandlingTrusted ==
    ASSUME Trusted, log' = log, DOMAIN srv' = DOMAIN srv, SameBeliefs,
           {"hub", "worker", "manager"} \subseteq DOMAIN funds', Emptied => Emptied',
           WorkerFields \subseteq DOMAIN worker', worker'.batch = worker.batch,
           worker'.cur = worker.cur, Handling, Handling',
           worker'.all => worker.all /\ worker'.pc = "pay",
           worker.all => worker'.all \/ Emptied',
           worker'.pc \in {"register", "confirm"} \/ (worker'.pc = "pay" /\ ~worker'.all)
             => worker.batch = {},
           srv'.registered => Happened("Registered", Now),
           srv'.ready => srv.ready
    PROVE  Trusted'
<1>1. Now' = Now /\ Possible(log)' = Possible(log)
  BY SameLog
<1>2. Types'
  BY <1>1 DEF Trusted, Types, SameBeliefs, WorkerFields
<1>3. Beliefs'
  BY HandlingStep DEF Trusted
<1>4. worker'.pc # "replenish"
  BY DEF Handling
<1>5. Readiness'
  BY <1>4, StillReady DEF SameBeliefs
<1> QED
  BY <1>2, <1>3, <1>5 DEF Trusted

LEMMA SameFunds ==
    ASSUME Trusted, funds' = funds
    PROVE  {"hub", "worker", "manager"} \subseteq DOMAIN funds' /\ (Emptied => Emptied')
BY DEF Trusted, Types, Emptied

LEMMA SameServer ==
    ASSUME Trusted, srv' = srv \/ srv' = [srv EXCEPT !.ready = FALSE]
    PROVE  /\ DOMAIN srv' = DOMAIN srv /\ SameBeliefs
           /\ srv'.registered => Happened("Registered", Now)
           /\ srv'.ready => srv.ready
BY DEF Trusted, Types, Readiness, SameBeliefs

(* The worker is done, or gave up: the server may have turned unready.     *)
LEMMA GivesUp ==
    ASSUME Trusted, log' = log, {"hub", "worker", "manager"} \subseteq DOMAIN funds',
           Emptied => Emptied', worker' = Idle,
           srv' = srv \/ srv' = [srv EXCEPT !.ready = FALSE]
    PROVE  Trusted'
<1>1. Now \in Nat
  BY DEF Trusted, Types, Now
<1>2. /\ WorkerFields \subseteq DOMAIN worker' /\ worker'.cur \in 0..Now
      /\ ~worker'.all /\ ~Handling' /\ worker'.pc # "replenish"
  BY <1>1 DEF Idle, WorkerFields, Handling
<1> QED
  BY <1>2, SameServer, RestingTrusted

LEMMA RestingActions ==
    ASSUME Trusted,
           IntervalHandler \/ RefreshBalance \/ GetHubEvents \/ WithdrawSomeFunds
             \/ OwnerAddressMissing \/ WorkerFails \/ ReplenishServer
    PROVE  Trusted'
<1>0. Now \in Nat
  BY DEF Trusted, Types, Now
<1>1. ASSUME IntervalHandler PROVE Trusted'
  <2>1. /\ srv' = srv /\ log' = log /\ funds' = funds
        /\ worker' = [Idle EXCEPT !.pc = IF srv.initialized THEN "balance" ELSE "init", !.cur = Now]
    BY <1>1 DEF IntervalHandler, chain
  <2>2. /\ WorkerFields \subseteq DOMAIN worker' /\ worker'.cur \in 0..Now
        /\ ~worker'.all /\ worker'.pc \in {"balance", "init"}
    BY <1>0, <2>1 DEF Idle, WorkerFields
  <2>3. ~Handling' /\ worker'.pc # "replenish"
    BY <2>2 DEF Handling
  <2> QED
    BY <2>1, <2>2, <2>3, SameFunds, SameServer, RestingTrusted
<1>2. ASSUME RefreshBalance PROVE Trusted'
  <2>1. /\ log' = log /\ funds' = funds /\ worker.pc = "balance"
        /\ \/ worker' = Idle /\ srv' = [srv EXCEPT !.ready = FALSE]
           \/ worker' = [worker EXCEPT !.pc = "hubEvents"] /\ srv' = srv
    BY <1>2 DEF RefreshBalance, chain, At, Goto
  <2>2. CASE worker' = Idle
    BY <2>1, <2>2, SameFunds, GivesUp
  <2>3. CASE worker' = [worker EXCEPT !.pc = "hubEvents"]
    <3>1. /\ WorkerFields \subseteq DOMAIN worker' /\ worker'.cur \in 0..Now
          /\ ~worker'.all /\ worker'.pc = "hubEvents"
      BY <2>1, <2>3 DEF Trusted, Types, WorkerFields
    <3>2. ~Handling' /\ worker'.pc # "replenish"
      BY <3>1 DEF Handling
    <3> QED
      BY <2>1, <3>1, <3>2, SameFunds, SameServer, RestingTrusted
  <2> QED
    BY <2>1, <2>2, <2>3
<1>3. ASSUME GetHubEvents PROVE Trusted'
  <2>1. /\ log' = log /\ funds' = funds /\ worker.pc = "hubEvents"
        /\ srv' = UpdateLatestRegistrationTxs(srv, AllHubEventsSinceLastScan)
        /\ \E expired : worker' = [worker EXCEPT !.pc = "stakeEvents", !.force = expired]
    BY <1>3 DEF GetHubEvents, chain, At
  <2>2. /\ WorkerFields \subseteq DOMAIN worker' /\ worker'.cur \in 0..Now
        /\ ~worker'.all /\ worker'.pc = "stakeEvents"
    BY <2>1 DEF Trusted, Types, WorkerFields
  <2>3. ~Handling' /\ worker'.pc # "replenish"
    BY <2>2 DEF Handling
  <2>4. "Registered" \in AllHubEventsSinceLastScan => Happened("Registered", Now)
    <3>1. PICK n : n = Now
      OBVIOUS
    <3>2. n \in Nat /\ srv.scanned \in 0..n
      BY <1>0, <3>1 DEF Trusted, Types
    <3> SUFFICES ASSUME NEW i \in (srv.scanned + 1)..n, log[i] = "Registered"
                 PROVE  Happened("Registered", n)
      BY <3>1 DEF AllHubEventsSinceLastScan
    <3>3. i \in 1..n
      BY <3>2
    <3> QED
      BY <3>2, <3>3, HappenedIff
  <2>5. /\ DOMAIN srv' = DOMAIN srv /\ SameBeliefs /\ srv'.ready = srv.ready
        /\ srv'.registered => srv.registered \/ "Registered" \in AllHubEventsSinceLastScan
    BY <2>1 DEF UpdateLatestRegistrationTxs, Trusted, Types, SameBeliefs
  <2>6. srv'.registered => Happened("Registered", Now)
    BY <2>4, <2>5 DEF Trusted, Readiness
  <2> QED
    BY <2>1, <2>2, <2>3, <2>5, <2>6, SameFunds, RestingTrusted
<1>4. ASSUME WithdrawSomeFunds PROVE Trusted'
  <2>1. /\ log' = log /\ worker' = Idle /\ srv' = [srv EXCEPT !.ready = FALSE]
        /\ funds' \in {[funds EXCEPT !.hub = FALSE],
                       [funds EXCEPT !.hub = FALSE, !.worker = FALSE]}
    BY <1>4 DEF WithdrawSomeFunds
  <2>2. {"hub", "worker", "manager"} \subseteq DOMAIN funds' /\ (Emptied => Emptied')
    BY <2>1 DEF Trusted, Types, Emptied
  <2> QED
    BY <2>1, <2>2, GivesUp
<1>5. ASSUME OwnerAddressMissing \/ WorkerFails PROVE Trusted'
  <2>1. /\ log' = log /\ funds' = funds /\ worker' = Idle
        /\ srv' = [srv EXCEPT !.ready = FALSE]
    BY <1>5 DEF OwnerAddressMissing, WorkerFails, chain
  <2> QED
    BY <2>1, SameFunds, GivesUp
<1>6. ASSUME ReplenishServer PROVE Trusted'
  <2>1. /\ log' = log /\ funds' = funds /\ worker' = Idle /\ worker.pc = "replenish"
        /\ srv' = [srv EXCEPT !.ready = funds.worker]
    BY <1>6 DEF ReplenishServer, chain, At
  <2>2. /\ DOMAIN srv' = DOMAIN srv /\ SameBeliefs
        /\ srv'.registered => Happened("Registered", Now)
    BY <2>1 DEF Trusted, Types, Readiness, SameBeliefs
  <2>3. /\ WorkerFields \subseteq DOMAIN worker' /\ worker'.cur \in 0..Now
        /\ ~worker'.all /\ ~Handling'
    BY <1>0, <2>1 DEF Idle, WorkerFields, Handling
  <2> QED
    BY <2>1, <2>2, <2>3, SameFunds, RestingTrusted
<1> QED
  BY <1>1, <1>2, <1>3, <1>4, <1>5, <1>6

LEMMA HandlingActions ==
    ASSUME Trusted,
           SetOwnerInStakeManager \/ ExtractDuePendingEvents \/ WithdrawAllFunds
             \/ AttemptRegistration
    PROVE  Trusted'
<1>1. ASSUME SetOwnerInStakeManager PROVE Trusted'
  <2>1. /\ log' = log /\ funds' = funds /\ srv' = srv /\ worker.pc = "setOwner"
        /\ worker' = [worker EXCEPT !.pc = "events"]
    BY <1>1 DEF SetOwnerInStakeManager, chain, At, Goto
  <2>2. /\ WorkerFields \subseteq DOMAIN worker' /\ worker'.batch = worker.batch
        /\ worker'.cur = worker.cur /\ ~worker.all /\ ~worker'.all /\ worker'.pc = "events"
    BY <2>1 DEF Trusted, Types, WorkerFields
  <2>3. Handling /\ Handling'
    BY <2>1, <2>2 DEF Handling
  <2> QED
    BY <2>1, <2>2, <2>3, SameFunds, SameServer, HandlingTrusted
<1>2. ASSUME ExtractDuePendingEvents PROVE Trusted'
  <2>1. /\ log' = log /\ funds' = funds /\ worker.pc = "events" /\ worker.batch = {}
        /\ srv' = [srv EXCEPT !.delayed = srv.delayed \ removed]
        /\ \E due, pc : /\ pc \in {"register", "pay"}
                        /\ worker' = [worker EXCEPT !.pc = pc, !.due = due]
    BY <1>2 DEF ExtractDuePendingEvents, chain, At
  <2>2. /\ WorkerFields \subseteq DOMAIN worker' /\ worker'.batch = worker.batch
        /\ worker'.cur = worker.cur /\ ~worker.all /\ ~worker'.all
        /\ worker'.pc \in {"register", "pay"}
    BY <2>1 DEF Trusted, Types, WorkerFields
  <2>3. Handling /\ Handling'
    BY <2>1, <2>2 DEF Handling
  <2>4. /\ DOMAIN srv' = DOMAIN srv /\ SameBeliefs /\ srv'.ready = srv.ready
        /\ srv'.registered => Happened("Registered", Now)
    BY <2>1 DEF Trusted, Types, Readiness, SameBeliefs
  <2> QED
    BY <2>1, <2>2, <2>3, <2>4, SameFunds, HandlingTrusted
<1>3. ASSUME WithdrawAllFunds PROVE Trusted'
  <2>1. /\ log' = log /\ srv' = srv /\ worker.pc = "pay"
        /\ funds' = [hub |-> FALSE, worker |-> FALSE,
                     manager |-> IF worker.all THEN 0 ELSE funds.manager]
        /\ worker' = IF worker.all THEN [worker EXCEPT !.pc = "events", !.all = FALSE]
                     ELSE [worker EXCEPT !.due = worker.due - 1,
                                         !.pc = IF worker.due = 1 THEN "register" ELSE "pay"]
    BY <1>3 DEF WithdrawAllFunds, At
  <2>2. /\ {"hub", "worker", "manager"} \subseteq DOMAIN funds'
        /\ Emptied => Emptied'
        /\ worker.all => Emptied'
    BY <2>1 DEF Emptied
  <2>3. CASE worker.all
    <3>1. /\ WorkerFields \subseteq DOMAIN worker' /\ worker'.batch = worker.batch
          /\ worker'.cur = worker.cur /\ ~worker'.all /\ worker'.pc = "events"
      BY <2>1, <2>3 DEF Trusted, Types, WorkerFields
    <3>2. Handling /\ Handling'
      BY <2>1, <3>1 DEF Handling
    <3> QED
      BY <2>1, <2>2, <2>3, <3>1, <3>2, SameServer, HandlingTrusted
  <2>4. CASE ~worker.all
    <3>1. /\ WorkerFields \subseteq DOMAIN worker' /\ worker'.batch = worker.batch
          /\ worker'.cur = worker.cur /\ ~worker'.all /\ worker'.pc \in {"register", "pay"}
          /\ worker.batch = {}
      BY <2>1, <2>4 DEF Trusted, Types, WorkerFields
    <3>2. Handling /\ Handling'
      BY <2>1, <3>1 DEF Handling
    <3> QED
      BY <2>1, <2>2, <2>4, <3>1, <3>2, SameServer, HandlingTrusted
  <2> QED
    BY <2>3, <2>4
<1>4. ASSUME AttemptRegistration PROVE Trusted'
  <2>1. /\ log' = log /\ funds' = funds /\ srv' = srv /\ worker.pc = "register"
        /\ worker' = [worker EXCEPT !.pc = "confirm"]
    BY <1>4 DEF AttemptRegistration, chain, At, Goto
  <2>2. /\ WorkerFields \subseteq DOMAIN worker' /\ worker'.batch = worker.batch
        /\ worker'.cur = worker.cur /\ ~worker.all /\ ~worker'.all /\ worker'.pc = "confirm"
        /\ worker.batch = {}
    BY <2>1 DEF Trusted, Types, WorkerFields
  <2>3. Handling /\ Handling'
    BY <2>1, <2>2 DEF Handling
  <2> QED
    BY <2>1, <2>2, <2>3, SameFunds, SameServer, HandlingTrusted
<1> QED
  BY <1>1, <1>2, <1>3, <1>4

(* A scan is complete to the block the worker was started for, and not to  *)
(* the end of the batch: what lies between is seen again.                  *)
LEMMA RemoveConfirmedTrusted == ASSUME Trusted, RemoveConfirmed PROVE Trusted'
<1>1. /\ log' = log /\ funds' = funds /\ worker.pc = "confirm"
      /\ srv' = [srv EXCEPT !.scanned = worker.cur, !.ready = srv.ready /\ IsRegistered]
      /\ worker' = IF IsRegistered THEN [worker EXCEPT !.pc = "replenish"] ELSE Idle
  BY DEF RemoveConfirmed, chain, At
<1>2. PICK c : c = worker.cur
  OBVIOUS
<1>3. PICK n : n = Now
  OBVIOUS
<1>4. n \in Nat /\ c \in 0..n
  BY <1>2, <1>3 DEF Trusted, Types, Now
<1>5. ~worker.all /\ worker.batch = {} /\ Handling
  BY <1>1 DEF Trusted, Types, Handling
<1>6. PICK h \in 0..Now, b \in 0..Now :
         BatchIs(h, b) /\ HubBelief(h, worker.batch) /\ LockBelief(h) /\ PaidUp(h)
  BY <1>5 DEF Trusted, Beliefs, Amid
<1>7. /\ h \in srv.scanned..b /\ b \in c..n /\ h \in 0..n /\ b \in 0..n
      /\ \A i \in (h + 1)..b : log[i] \notin ManagerEvents
  BY <1>2, <1>3, <1>5, <1>6 DEF BatchIs
<1>8. srv.scanned \in Nat
  BY DEF Trusted, Types
(* What is believed up to h is believed up to b, then of c before it.      *)
<1>9. HubBelief(c, (c + 1)..n) /\ LockBelief(c) /\ PaidUp(c)
  <2>1. HubBelief(b, {})
    <3> SUFFICES ASSUME srv.isHubAuthorized
                 PROVE  Authorized(b) \/ \E m \in b..n : Staked(m)
      BY <1>3 DEF HubBelief
    <3>1. Authorized(h) \/ \E m \in h..n : Staked(m)
      BY <1>3, <1>5, <1>6 DEF HubBelief
    <3>2. ASSUME NEW m \in h..b PROVE Authorized(m) = Authorized(b)
      <4>1. m \in Nat /\ b \in Nat /\ m <= b /\ \A i \in (m + 1)..b : i \in (h + 1)..b
        BY <1>4, <1>7
      <4>2. \A i \in (m + 1)..b : log[i] \notin ManagerEvents
        BY <1>7, <4>1
      <4> QED
        BY <4>1, <4>2, QuietStretch
    <3>3. CASE Authorized(h)
      <4>1. h \in h..b
        BY <1>4, <1>7
      <4> QED
        BY <3>2, <3>3, <4>1
    <3>4. ASSUME NEW m \in h..n, Staked(m) PROVE Authorized(b) \/ \E k \in b..n : Staked(k)
      <4>1. CASE m \in b..n
        BY <3>4, <4>1
      <4>2. CASE m \in h..b
        BY <3>2, <3>4, <4>2 DEF Staked
      <4> QED
        BY <1>4, <1>7, <4>1, <4>2
    <3> QED
      BY <3>1, <3>3, <3>4
  <2>2. LockBelief(b)
    <3> SUFFICES ASSUME srv.isStakeLocked
                 PROVE  (\E m \in b..n : Locked(m)) \/ Withdrawn(b) \/ Emptied
      BY <1>3 DEF LockBelief
    <3>1. (\E m \in h..n : Locked(m)) \/ Withdrawn(h) \/ Emptied
      BY <1>3, <1>5, <1>6 DEF LockBelief
    <3>2. ASSUME NEW m \in h..n, Locked(m) PROVE \E k \in b..n : Locked(k)
      <4>1. CASE m \in b..n
        BY <3>2, <4>1
      <4>2. CASE m \in h..b
        <5>1. m \in Nat /\ b \in Nat /\ m <= b /\ b \in b..n
              /\ \A i \in (m + 1)..b : i \in (h + 1)..b
          BY <1>4, <1>7, <4>2
        <5>2. \A i \in (m + 1)..b : log[i] \notin ManagerEvents
          BY <1>7, <5>1
        <5>3. Locked(b)
          BY <3>2, <5>1, <5>2, QuietStretch
        <5> QED
          BY <5>1, <5>3
      <4> QED
        BY <1>4, <1>7, <4>1, <4>2
    <3>3. Withdrawn(h) => Withdrawn(b)
      <4> SUFFICES ASSUME NEW i \in (h + 1)..n, log[i] = "StakeWithdrawn" PROVE Withdrawn(b)
        BY <1>3 DEF Withdrawn
      <4>1. i \notin (h + 1)..b
        BY <1>7 DEF ManagerEvents, StakeKinds
      <4>2. i \in (b + 1)..n
        BY <1>4, <1>7, <4>1
      <4> QED
        BY <1>3, <4>2 DEF Withdrawn
    <3> QED
      BY <3>1, <3>2, <3>3
  <2>3. PaidUp(b)
    <3> SUFFICES ASSUME NEW i \in 1..b, log[i] = "StakeWithdrawn" PROVE Emptied
      BY DEF PaidUp
    <3>1. i \notin (h + 1)..b
      BY <1>7 DEF ManagerEvents, StakeKinds
    <3>2. i \in 1..h
      BY <1>4, <1>7, <3>1
    <3> QED
      BY <1>5, <1>6, <3>2 DEF PaidUp
  <2>4. c \in 0..b /\ b \in 0..Now /\ {} \subseteq (c + 1)..Now
    BY <1>3, <1>4, <1>7
  <2>5. \A i \in 1..c : i \in 1..b
    BY <1>4, <1>7
  <2>6. Types
    BY DEF Trusted
  <2>7. HubBelief(c, (c + 1)..Now)
    BY <2>1, <2>4, <2>6, BackToScan
  <2>8. LockBelief(c)
    BY <2>2, <2>4, <2>6, LockBack
  <2>9. PaidUp(c)
    BY <1>5, <2>3, <2>5 DEF PaidUp
  <2> QED
    BY <1>3, <2>7, <2>8, <2>9
<1>10. /\ DOMAIN srv' = DOMAIN srv /\ srv'.scanned = c /\ (srv'.ready => IsRegistered)
       /\ srv'.isHubAuthorized = srv.isHubAuthorized
       /\ srv'.isStakeLocked = srv.isStakeLocked /\ srv'.registered = srv.registered
  BY <1>1, <1>2 DEF Trusted, Types
<1>11. /\ WorkerFields \subseteq DOMAIN worker' /\ worker'.cur \in 0..n /\ ~worker'.all
       /\ worker'.pc \in {"replenish", "idle"} /\ (worker'.pc = "replenish" => IsRegistered)
  <2>1. CASE IsRegistered
    BY <1>1, <1>2, <1>4, <1>5, <2>1 DEF Trusted, Types, WorkerFields
  <2>2. CASE ~IsRegistered
    BY <1>1, <1>4, <2>2 DEF Idle, WorkerFields
  <2> QED
    BY <2>1, <2>2
<1>12. /\ Now' = n /\ Possible(log)' = Possible(log) /\ Emptied' = Emptied
       /\ Happened("Registered", n)' = Happened("Registered", n)
  BY <1>1, <1>3, SameLog DEF Emptied
<1>13. ~Handling'
  BY <1>11 DEF Handling
<1>14. Types'
  BY <1>1, <1>4, <1>10, <1>11, <1>12 DEF Trusted, Types, WorkerFields
<1>15. Beliefs'
  <2>1. HubBelief(c, (c + 1)..n)'
    BY <1>1, <1>9, <1>10, KeepHub
  <2>2. LockBelief(c)'
    BY <1>1, <1>5, <1>9, <1>10, <1>12, KeepLock
  <2>3. PaidUp(c)'
    BY <1>1, <1>5, <1>9, <1>12 DEF PaidUp
  <2> QED
    BY <1>10, <1>11, <1>12, <1>13, <2>1, <2>2, <2>3 DEF Beliefs, Rested
<1>16. Readiness'
  <2>1. ASSUME IsRegistered PROVE Sound(c)'
    BY <1>1, <1>2, <1>12, <2>1, ConfirmedSound, KeepSound
  <2>2. srv.registered => Happened("Registered", n)
    BY <1>3 DEF Trusted, Readiness
  <2> QED
    BY <1>10, <1>11, <1>12, <2>1, <2>2 DEF Readiness
<1> QED
  BY <1>14, <1>15, <1>16 DEF Trusted

(* A process that has just started believes nothing and has scanned nothing. *)
LEMMA FreshTrusted ==
    ASSUME log \in Seq(Events), Possible(log), srv = Fresh, worker = Idle,
           {"hub", "worker", "manager"} \subseteq DOMAIN funds
    PROVE  Trusted
<1>1. Now \in Nat
  BY DEF Now
<1>2. Types
  BY <1>1 DEF Types, Fresh, Idle
<1>3. ~Handling /\ ~worker.all /\ srv.scanned = 0 /\ worker.pc # "replenish"
  BY DEF Handling, Idle, Fresh
<1>4. HubBelief(0, (0 + 1)..Now) /\ LockBelief(0) /\ PaidUp(0)
  BY DEF HubBelief, LockBelief, PaidUp, Fresh
<1>5. Beliefs
  BY <1>3, <1>4 DEF Beliefs, Rested
<1>6. Readiness
  BY <1>3 DEF Readiness, Fresh
<1> QED
  BY <1>2, <1>5, <1>6 DEF Trusted

LEMMA RestartTrusted == ASSUME Trusted, Restart PROVE Trusted'
<1>1. srv' = Fresh /\ worker' = Idle /\ log' = log /\ funds' = funds
  BY DEF Restart, chain
<1>2. Now \in Nat /\ Now' = Now /\ Possible(log)' = Possible(log)
  BY <1>1, SameLog DEF Trusted, Types, Now
<1>3. Types'
  BY <1>1, <1>2 DEF Trusted, Types, Fresh, Idle
<1>4. /\ ~Handling' /\ ~worker'.all /\ srv'.scanned = 0 /\ worker'.pc # "replenish"
      /\ ~srv'.isHubAuthorized /\ ~srv'.isStakeLocked /\ ~srv'.ready /\ ~srv'.registered
  BY <1>1 DEF Handling, Idle, Fresh
<1>5. HubBelief(0, (0 + 1)..Now)' /\ LockBelief(0)' /\ PaidUp(0)'
  BY <1>4 DEF HubBelief, LockBelief, PaidUp
<1>6. Beliefs'
  BY <1>4, <1>5 DEF Beliefs, Rested
<1>7. Readiness'
  BY <1>4 DEF Readiness
<1> QED
  BY <1>3, <1>6, <1>7 DEF Trusted

(* ------------------------------ the chain ------------------------------ *)

LEMMA NothingNew ==
    ASSUME Trusted, log' = log, UNCHANGED <<srv, worker>>, Emptied => Emptied',
           {"hub", "worker", "manager"} \subseteq DOMAIN funds'
    PROVE  Trusted'
<1>1. <<>> \in Seq(Events) /\ log' = log \o <<>>
  BY ConcatEmptySeq DEF Trusted, Types
<1>2. Grows
  BY <1>1 DEF Grows
<1>3. Possible(log)'
  BY SameLog DEF Trusted, Types
<1> QED
  BY <1>2, <1>3, ChainStep

LEMMA SomethingNew ==
    ASSUME Trusted, NEW kind \in Events, log' = Append(log, kind), UNCHANGED <<srv, worker>>,
           kind = "StakeAdded" => Latest(StakeKinds, Now) \in {"none", "StakeWithdrawn"},
           kind = "Registered" => Staked(Now), Emptied => Emptied',
           {"hub", "worker", "manager"} \subseteq DOMAIN funds'
    PROVE  Trusted'
<1>1. log \in Seq(Events) /\ Possible(log)
  BY DEF Trusted, Types
<1>2. Possible(log') /\ Grows
  BY <1>1, StillPossible
<1> QED
  BY <1>2, ChainStep

LEMMA OwnerActsTrusted == ASSUME Trusted, OwnerActs PROVE Trusted'
<1>1. PICK kind \in OwnerMoves : log' = Append(log, kind) /\ UNCHANGED <<funds, srv, worker>>
  BY DEF OwnerActs
<1>2. Now \in Nat /\ log \in Seq(Events)
  BY DEF Trusted, Types, Now
<1>3. kind \in Events /\ kind # "Registered"
  BY <1>1 DEF OwnerMoves, Events, ManagerEvents, StakeKinds, HubKinds
<1>4. kind = "StakeAdded" => Latest(StakeKinds, Now) \in {"none", "StakeWithdrawn"}
  <2> SUFFICES ASSUME kind = "StakeAdded"
               PROVE  Latest(StakeKinds, Now) \in {"none", "StakeWithdrawn"}
    OBVIOUS
  <2>1. ~Locked(Now) /\ Latest(StakeKinds, Now) # "StakeUnlocked"
    BY <1>1 DEF OwnerMoves
  <2>2. Latest(StakeKinds, Now) \in StakeKinds \cup {"none"}
    BY <1>2, LatestIs DEF Latest
  <2> QED
    BY <2>1, <2>2 DEF Locked, StakeKinds
<1> QED
  BY <1>1, <1>3, <1>4, SameFunds, SomethingNew

LEMMA MineNextTrusted == ASSUME Trusted, MineNext PROVE Trusted'
<1>0. PICK event :
         event = CASE Head(outbox) = "setOwner" /\ ~Happened("OwnerSet", Now) -> <<"OwnerSet">>
                   [] Head(outbox) = "addWorker" /\ Staked(Now) /\ ~Happened("WorkersAdded", Now)
                        -> <<"WorkersAdded">>
                   [] Head(outbox) = "register" /\ Staked(Now) /\ Happened("WorkersAdded", Now)
                        -> <<"Registered">>
                   [] OTHER -> <<>>
  OBVIOUS
<1>1. log' = log \o event /\ UNCHANGED <<srv, worker>>
  BY <1>0 DEF MineNext
<1>2. {"hub", "worker", "manager"} \subseteq DOMAIN funds' /\ (Emptied => Emptied')
  <2>1. \/ funds' = funds
        \/ funds.hub /\ funds' = [funds EXCEPT !.hub = FALSE, !.manager = 2]
        \/ funds.manager = 2 /\ funds' = [funds EXCEPT !.worker = TRUE, !.manager = 1]
    BY DEF MineNext
  <2>2. {"hub", "worker", "manager"} \subseteq DOMAIN funds
    BY DEF Trusted, Types
  <2>3. CASE funds' = funds
    BY <2>2, <2>3 DEF Emptied
  <2>4. CASE funds.hub /\ funds' = [funds EXCEPT !.hub = FALSE, !.manager = 2]
    BY <2>2, <2>4 DEF Emptied
  <2>5. CASE funds.manager = 2 /\ funds' = [funds EXCEPT !.worker = TRUE, !.manager = 1]
    <3>1. DOMAIN funds' = DOMAIN funds /\ ~Emptied
      BY <2>5 DEF Emptied
    <3> QED
      BY <2>2, <3>1
  <2> QED
    BY <2>1, <2>3, <2>4, <2>5
<1>3. CASE event = <<>>
  <2>1. log' = log
    BY <1>1, <1>3, ConcatEmptySeq DEF Trusted, Types
  <2> QED
    BY <1>1, <1>2, <2>1, NothingNew
<1>4. ASSUME NEW kind \in {"OwnerSet", "WorkersAdded", "Registered"},
             event = <<kind>>, kind = "Registered" => Staked(Now)
      PROVE  Trusted'
  <2>1. kind \in Events /\ kind # "StakeAdded"
    BY DEF Events, HubEvents, ManagerEvents
  <2>2. log \in Seq(Events) /\ log' = log \o <<kind>>
    BY <1>1, <1>4 DEF Trusted, Types
  <2>3. log' = Append(log, kind)
    BY <2>1, <2>2, AppendIsConcat
  <2> QED
    BY <1>1, <1>2, <1>4, <2>1, <2>3, SomethingNew
<1>5. \/ event = <<>> \/ event = <<"OwnerSet">> \/ event = <<"WorkersAdded">>
      \/ event = <<"Registered">> /\ Staked(Now)
  BY <1>0
<1> QED
  BY <1>3, <1>4, <1>5

LEMMA NextTrusted == Trusted /\ [Next]_vars => Trusted'
<1> SUFFICES ASSUME Trusted, [Next]_vars PROVE Trusted'
  OBVIOUS
<1>1. ASSUME WorkerStep \/ WithdrawSomeFunds \/ WorkerFails PROVE Trusted'
  BY <1>1, InitServerTrusted, GetStakeEventsTrusted, HandleEventTrusted, RestingActions,
     HandlingActions, RemoveConfirmedTrusted DEF WorkerStep
<1>2. ASSUME RemovalBlockPasses PROVE Trusted'
  <2>1. log' = log /\ funds' = funds /\ UNCHANGED <<srv, worker>>
    BY <1>2 DEF RemovalBlockPasses
  <2> QED
    BY <2>1, SameFunds, NothingNew
<1>3. ASSUME Relayed PROVE Trusted'
  <2>1. /\ funds.worker /\ funds' = [funds EXCEPT !.worker = FALSE, !.hub = TRUE]
        /\ log' = log /\ UNCHANGED <<srv, worker>>
    BY <1>3 DEF Relayed
  <2>2. {"hub", "worker", "manager"} \subseteq DOMAIN funds' /\ (Emptied => Emptied')
    BY <2>1 DEF Trusted, Types, Emptied
  <2> QED
    BY <2>1, <2>2, NothingNew
<1>4. ASSUME UNCHANGED vars PROVE Trusted'
  <2>1. log' = log /\ funds' = funds /\ UNCHANGED <<srv, worker>>
    BY <1>4 DEF vars, chain
  <2> QED
    BY <2>1, SameFunds, NothingNew
<1> QED
  BY <1>1, <1>2, <1>3, <1>4, RestartTrusted, OwnerActsTrusted, MineNextTrusted DEF Next

LEMMA InitTrusted == Init => Trusted
<1> SUFFICES ASSUME Init PROVE Trusted
  OBVIOUS
<1>1. log \in Histories /\ srv = Fresh /\ worker = Idle
      /\ funds = [hub |-> FALSE, worker |-> TRUE, manager |-> 2]
  BY DEF Init
<1>2. log \in Seq(Events) /\ Possible(log)
  BY <1>1, ManagerAssumption DEF Events
<1> QED
  BY <1>1, <1>2, FreshTrusted

(* A ready server was registered at a position since its last scan at      *)
(* which it was staked and authorised, unless the stake was withdrawn      *)
(* since that scan or the accounts are empty: whatever the owner does      *)
(* between the reads of a worker, through any failure and restart.         *)
THEOREM ReadyIsRegistered == Spec => []ReadyMeansRegistered
<1>1. Trusted => ReadyMeansRegistered
  BY DEF Trusted, Readiness, Sound, Withdrawn, ReadyMeansRegistered
<1> QED
  BY <1>1, InitTrusted, NextTrusted, PTL DEF Spec
===============================================================================
