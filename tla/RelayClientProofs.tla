-------------------------- MODULE RelayClientProofs --------------------------
(***************************************************************************)
(* A call runs at most once more often than the client lost an answer, for *)
(* any number of calls, relays and addresses.  The executions alone do not *)
(* carry the argument: a relay may send a request long after the client    *)
(* gave up on it.  So the requests still held count as well, and the one   *)
(* of an attempt that succeeded has no lost answer to its name (Budget).   *)
(* The same for two more promises: an address is tried once (Fresh), and   *)
(* whoever the hub owed a refresh is not missed by a call that waited for  *)
(* one, whatever the other calls refresh meanwhile (Informed).             *)
(***************************************************************************)
EXTENDS RelayClient, FiniteSetTheorems, FunctionTheorems, WellFoundedInduction, TLAPS

HeldOf(c) == {r \in held : r.call = c}
MinedOf(c) == {x \in receipts : x.request.call = c}

Fields == {"pc", "lost", "relay", "nonce", "tried"}

TypeInv ==
    /\ IsFiniteSet(held) /\ IsFiniteSet(receipts)
    /\ DOMAIN call = Calls
    /\ \A c \in Calls : Fields \subseteq DOMAIN call[c] /\ call[c].lost \in Nat

(* The attempt whose answer the client took.                               *)
Answered(c) == IF call[c].pc \in {"broadcast", "relayed"} THEN 1 ELSE 0

Budget ==
    \A c \in Calls : Cardinality(HeldOf(c)) + Cardinality(MinedOf(c)) <= call[c].lost + Answered(c)

Inv == TypeInv /\ Budget

LEMMA Finite ==
    ASSUME TypeInv, NEW c
    PROVE  /\ IsFiniteSet(HeldOf(c)) /\ Cardinality(HeldOf(c)) \in Nat
           /\ IsFiniteSet(MinedOf(c)) /\ Cardinality(MinedOf(c)) \in Nat
<1>1. HeldOf(c) \subseteq held /\ MinedOf(c) \subseteq receipts
  BY DEF HeldOf, MinedOf
<1> QED
  BY <1>1, FS_Subset, FS_CardinalityType DEF TypeInv

(* One more element makes a set larger by one at most.                     *)
LEMMA AddOne ==
    ASSUME NEW S, IsFiniteSet(S), NEW x
    PROVE  /\ IsFiniteSet(S \cup {x})
           /\ Cardinality(S \cup {x}) \in Nat /\ Cardinality(S \cup {x}) <= Cardinality(S) + 1
<1>1. Cardinality(S) \in Nat
  BY FS_CardinalityType
<1>2. IsFiniteSet(S \cup {x})
  BY FS_AddElement
<1>3. Cardinality(S \cup {x}) \in {Cardinality(S), Cardinality(S) + 1}
  BY FS_AddElement
<1> QED
  BY <1>1, <1>2, <1>3

(* ------------------ steps that hand out no request --------------------- *)

(* The call of c changes, but neither the requests nor the lost answers.   *)
MovesOn(c) ==
    /\ UNCHANGED <<held, receipts>>
    /\ DOMAIN call' = Calls /\ \A d \in Calls \ {c} : call'[d] = call[d]
    /\ Fields \subseteq DOMAIN call'[c]
    /\ call'[c].lost = call[c].lost
    /\ call[c].pc \in {"broadcast", "relayed"} => call'[c].pc \in {"broadcast", "relayed"}

LEMMA MovesOnKeeps == ASSUME Inv, NEW c \in Calls, MovesOn(c) PROVE Inv'
<1>1. /\ DOMAIN call' = Calls /\ \A d \in Calls \ {c} : call'[d] = call[d]
      /\ UNCHANGED <<held, receipts>>
  BY DEF MovesOn
<1>2. TypeInv'
  BY <1>1 DEF Inv, TypeInv, MovesOn
<1>3. ASSUME NEW d \in Calls
      PROVE  (Cardinality(HeldOf(d)) + Cardinality(MinedOf(d)) <= call[d].lost + Answered(d))'
  <2>1. HeldOf(d)' = HeldOf(d) /\ MinedOf(d)' = MinedOf(d)
    BY <1>1 DEF HeldOf, MinedOf
  <2>2. call'[d].lost = call[d].lost /\ Answered(d) <= Answered(d)'
    BY <1>1 DEF MovesOn, Answered
  <2>3. Cardinality(HeldOf(d)) \in Nat /\ Cardinality(MinedOf(d)) \in Nat /\ call[d].lost \in Nat
        /\ Answered(d) \in Nat /\ Answered(d)' \in Nat
    BY Finite DEF Inv, TypeInv, Answered
  <2> QED
    BY <2>1, <2>2, <2>3 DEF Inv, Budget
<1> QED
  BY <1>2, <1>3 DEF Inv, Budget

(* A relay gets the request of call c: the client takes its answer, or has *)
(* lost one more.                                                          *)
LEMMA HandedOut ==
    ASSUME Inv, NEW c \in Calls, receipts' = receipts, held' = held \cup {Request(c)},
           NEW new, call' = [call EXCEPT ![c] = new], call[c].pc = "send",
           Fields \subseteq DOMAIN new,
           \/ new.lost = call[c].lost /\ new.pc = "broadcast"
           \/ new.lost = call[c].lost + 1
    PROVE  Inv'
<1>1. call'[c] = new /\ \A d \in Calls \ {c} : call'[d] = call[d]
  BY DEF Inv, TypeInv
<1>2. TypeInv'
  <2>1. IsFiniteSet(held')
    BY AddOne DEF Inv, TypeInv
  <2> QED
    BY <1>1, <2>1 DEF Inv, TypeInv
<1>3. ASSUME NEW d \in Calls
      PROVE  (Cardinality(HeldOf(d)) + Cardinality(MinedOf(d)) <= call[d].lost + Answered(d))'
  <2>1. MinedOf(d)' = MinedOf(d)
    BY DEF MinedOf
  <2>2. /\ IsFiniteSet(HeldOf(d)) /\ Cardinality(HeldOf(d)) \in Nat
        /\ Cardinality(MinedOf(d)) \in Nat /\ call[d].lost \in Nat
        /\ Answered(d) \in Nat /\ Answered(d)' \in Nat
        /\ Cardinality(HeldOf(d)) + Cardinality(MinedOf(d)) <= call[d].lost + Answered(d)
    BY Finite DEF Inv, TypeInv, Budget, Answered
  <2>3. CASE d = c
    <3>1. HeldOf(c)' = HeldOf(c) \cup {Request(c)}
      BY DEF HeldOf, Request
    <3>2. Cardinality(HeldOf(c)') \in Nat /\ Cardinality(HeldOf(c)') <= Cardinality(HeldOf(c)) + 1
      BY <2>2, <2>3, <3>1, AddOne
    <3>3. Answered(c) = 0
      BY DEF Answered
    <3>4. call'[c].lost + Answered(c)' >= call[c].lost + 1
      BY <1>1, <2>2, <2>3 DEF Answered
    <3>5. call'[c].lost \in Nat
      BY <1>1, <2>2, <2>3
    <3> QED
      BY <2>1, <2>2, <2>3, <3>2, <3>3, <3>4, <3>5
  <2>4. CASE d # c
    <3>1. HeldOf(d)' = HeldOf(d)
      BY <2>4 DEF HeldOf, Request
    <3>2. call'[d] = call[d]
      BY <1>1, <2>4
    <3> QED
      BY <2>1, <2>2, <3>1, <3>2 DEF Answered
  <2> QED
    BY <2>3, <2>4
<1> QED
  BY <1>2, <1>3 DEF Inv, Budget

LEMMA MineKeepsInv == ASSUME Inv, Mine PROVE Inv'
<1>1. PICK r, x :
         /\ r \in held
         /\ held' = held \ {r} /\ receipts' = receipts \cup {x} /\ x.request = r
         /\ call' = call
  <2>1. PICK r, event :
           /\ r \in held
           /\ held' = held \ {r} /\ receipts' = receipts \cup {[request |-> r, event |-> event]}
           /\ call' = call
    BY DEF Mine
  <2>2. [request |-> r, event |-> event].request = r
    OBVIOUS
  <2> QED
    BY <2>1, <2>2
<1>2. TypeInv'
  <2>1. IsFiniteSet(held') /\ IsFiniteSet(receipts')
    BY <1>1, FS_RemoveElement, AddOne DEF Inv, TypeInv
  <2> QED
    BY <1>1, <2>1 DEF Inv, TypeInv
<1>3. ASSUME NEW d \in Calls
      PROVE  (Cardinality(HeldOf(d)) + Cardinality(MinedOf(d)) <= call[d].lost + Answered(d))'
  <2>1. /\ IsFiniteSet(HeldOf(d)) /\ Cardinality(HeldOf(d)) \in Nat
        /\ IsFiniteSet(MinedOf(d)) /\ Cardinality(MinedOf(d)) \in Nat
        /\ Cardinality(HeldOf(d)) + Cardinality(MinedOf(d)) <= call[d].lost + Answered(d)
        /\ call[d].lost \in Nat /\ Answered(d) \in Nat
    BY Finite DEF Inv, TypeInv, Budget, Answered
  <2>2. call'[d].lost = call[d].lost /\ Answered(d)' = Answered(d)
    BY <1>1 DEF Answered
  <2>3. CASE r.call = d
    <3>1. r \in HeldOf(d) /\ HeldOf(d)' = HeldOf(d) \ {r} /\ MinedOf(d)' = MinedOf(d) \cup {x}
      BY <1>1, <2>3 DEF HeldOf, MinedOf
    <3>2. Cardinality(HeldOf(d)') = Cardinality(HeldOf(d)) - 1
      BY <2>1, <3>1, FS_RemoveElement
    <3>3. Cardinality(MinedOf(d)') \in Nat /\ Cardinality(MinedOf(d)') <= Cardinality(MinedOf(d)) + 1
      BY <2>1, <3>1, AddOne
    <3> QED
      BY <2>1, <2>2, <3>2, <3>3
  <2>4. CASE r.call # d
    <3>1. HeldOf(d)' = HeldOf(d) /\ MinedOf(d)' = MinedOf(d)
      BY <1>1, <2>4 DEF HeldOf, MinedOf
    <3> QED
      BY <2>1, <2>2, <3>1
  <2> QED
    BY <2>3, <2>4
<1> QED
  BY <1>2, <1>3 DEF Inv, Budget

(* Nothing happens to the calls, the requests and the receipts.            *)
LEMMA Untouched == ASSUME Inv, UNCHANGED <<call, held, receipts>> PROVE Inv'
BY DEF Inv, TypeInv, Budget, HeldOf, MinedOf, Answered

(* --------------------------- the steps --------------------------------- *)

(* What becomes of a call when it is settled or abandoned.                 *)
LEMMA Outcomes ==
    ASSUME Inv, NEW c \in Calls
    PROVE  /\ \A outcome :
               LET new == [NoCall EXCEPT !.pc = outcome, !.raced = call[c].raced,
                             !.since = call[c].since,
                             !.nonce = call[c].nonce, !.tried = call[c].tried,
                             !.lost = call[c].lost]
               IN  Fields \subseteq DOMAIN new /\ new.lost = call[c].lost /\ new.pc = outcome
           /\ Fields \subseteq DOMAIN Abandoned(c) /\ Abandoned(c).lost = call[c].lost
           /\ Fields \subseteq DOMAIN Lost(c) /\ Lost(c).lost = call[c].lost + 1
BY DEF Inv, TypeInv, Fields, NoCall, Abandoned, Lost

LEMMA SettleKeepsInv ==
    ASSUME Inv, NEW c \in Calls, NEW outcome, Settle(c, outcome), UNCHANGED <<held, receipts>>,
           call[c].pc \in {"broadcast", "relayed"} => outcome = "relayed"
    PROVE  Inv'
<1> DEFINE new == [NoCall EXCEPT !.pc = outcome, !.raced = call[c].raced,
                             !.since = call[c].since,
                             !.nonce = call[c].nonce, !.tried = call[c].tried,
                             !.lost = call[c].lost]
<1>1. Fields \subseteq DOMAIN new /\ new.lost = call[c].lost /\ new.pc = outcome
  BY Outcomes
<1>2. MovesOn(c)
  BY <1>1 DEF Settle, MovesOn, Inv, TypeInv
<1> QED
  BY <1>2, MovesOnKeeps

(* What a call keeps of a race that is won, and of a refresh that begins.  *)
LEMMA RaceWon ==
    ASSUME NEW c, PingSucceeds(c)
    PROVE  \E i \in call[c].pings : \E query, pc :
             /\ pc \in {"lookup", "attempt"}
             /\ call' = [call EXCEPT
                  ![c].remaining = Without(@, call[c].errors \cup {call[c].slice[i].url}),
                  ![c].relay = call[c].slice[i],
                  ![c].slice = <<>>, ![c].pings = {}, ![c].errors = {},
                  ![c].query = query, ![c].pc = pc]
<1> DEFINE winner(i) == call[c].slice[i]
           unlisted(i) == winner(i).manager = NoManager
           query(i, m) == IF unlisted(i) THEN [NoQuery EXCEPT !.managers = {m}] ELSE NoQuery
           pc(i) == IF unlisted(i) THEN "lookup" ELSE "attempt"
<1>1. PICK i \in call[c].pings : \E m \in Named(call[c].slice[i].url) :
         call' = [call EXCEPT
           ![c].remaining = Without(@, call[c].errors \cup {winner(i).url}),
           ![c].relay = winner(i),
           ![c].slice = <<>>, ![c].pings = {}, ![c].errors = {},
           ![c].query = query(i, m), ![c].pc = pc(i)]
  BY Zenon DEF PingSucceeds
<1>2. PICK m :
         call' = [call EXCEPT
           ![c].remaining = Without(@, call[c].errors \cup {winner(i).url}),
           ![c].relay = winner(i),
           ![c].slice = <<>>, ![c].pings = {}, ![c].errors = {},
           ![c].query = query(i, m), ![c].pc = pc(i)]
  BY <1>1, Zenon
<1>3. pc(i) \in {"lookup", "attempt"}
  OBVIOUS
<1> HIDE DEF query, pc
<1> WITNESS i \in call[c].pings
<1> WITNESS query(i, m), pc(i)
<1> QED
  BY <1>2, <1>3, Zenon

Begun(query, since) ==
    /\ \E managers \in RecentlyActive :
         query = [NoQuery EXCEPT !.managers = managers, !.asked = Len(log)]
    /\ since = Min({Len(log)} \cup {call[d].query.asked : d \in {x \in Calls : At(x, "info")}})

LEMMA RefreshBegun ==
    ASSUME NEW c, RefreshFailures(c)
    PROVE  \E query, since :
             /\ Begun(query, since)
             /\ call' = [call EXCEPT ![c].pc = "info", ![c].g = deps,
                                     ![c].query = query, ![c].since = since]
<1> DEFINE query(managers) == [NoQuery EXCEPT !.managers = managers, !.asked = Len(log)]
           since == Min({Len(log)} \cup {call[d].query.asked : d \in {x \in Calls : At(x, "info")}})
<1>1. PICK managers \in RecentlyActive :
         call' = [call EXCEPT ![c].pc = "info", ![c].g = deps,
                              ![c].query = query(managers), ![c].since = since]
  BY Zenon DEF RefreshFailures
<1>2. Begun(query(managers), since)
  BY Zenon DEF Begun
<1> HIDE DEF query, since
<1> QED
  BY <1>1, <1>2, Zenon

LEMMA BeforeSending ==
    ASSUME Inv, NEW c \in Calls,
           \/ RelayTransaction(c) \/ InitInternal(c) \/ RefreshFailures(c) \/ Refreshed(c)
           \/ GetBlockNumber(c) \/ GetRegistrations(c) \/ PingSucceeds(c) \/ PingFails(c)
           \/ Prepare(c) \/ AttemptFails(c) \/ ViewCallAccepts(c) \/ Callback(c)
    PROVE  Inv'
<1>0. Fields \subseteq DOMAIN call[c] /\ DOMAIN call = Calls
  BY DEF Inv, TypeInv
<1> USE <1>0 DEF MovesOn, Fields, At, chainVars, clientVars
<1>1. CASE RelayTransaction(c)
  <2>1. MovesOn(c)
    BY <1>1 DEF RelayTransaction
  <2> QED
    BY <2>1, MovesOnKeeps
<1>2. CASE InitInternal(c)
  <2>1. MovesOn(c)
    BY <1>2 DEF InitInternal, Goto
  <2> QED
    BY <2>1, MovesOnKeeps
<1>3. CASE RefreshFailures(c)
  <2>1. PICK query, since :
           /\ Begun(query, since)
           /\ call' = [call EXCEPT ![c].pc = "info", ![c].g = deps,
                                   ![c].query = query, ![c].since = since]
    BY <1>3, RefreshBegun
  <2>2. UNCHANGED <<held, receipts>> /\ call[c].pc = "refresh"
    BY <1>3 DEF RefreshFailures
  <2>3. MovesOn(c)
    BY <2>1, <2>2
  <2> QED
    BY <2>3, MovesOnKeeps
<1>4. CASE Refreshed(c)
  <2>1. MovesOn(c)
    BY <1>4 DEF Refreshed
  <2> QED
    BY <2>1, MovesOnKeeps
<1>5. CASE PingSucceeds(c)
  <2> DEFINE remaining(i) == Without(call[c].remaining, call[c].errors \cup {call[c].slice[i].url})
  <2>1. PICK i \in call[c].pings : \E query, pc :
           /\ pc \in {"lookup", "attempt"}
           /\ call' = [call EXCEPT ![c].remaining = remaining(i), ![c].relay = call[c].slice[i],
                                   ![c].slice = <<>>, ![c].pings = {}, ![c].errors = {},
                                   ![c].query = query, ![c].pc = pc]
    BY <1>5, RaceWon, Zenon
  <2> HIDE DEF remaining
  <2>2. UNCHANGED <<held, receipts>> /\ call[c].pc = "race"
    BY <1>5 DEF PingSucceeds
  <2>3. MovesOn(c)
    BY <2>1, <2>2
  <2> QED
    BY <2>3, MovesOnKeeps
<1>6. CASE PingFails(c)
  <2> DEFINE errors(i)    == call[c].errors \cup {call[c].slice[i].url}
             over(i)      == Cardinality(errors(i)) = Cardinality(DOMAIN call[c].slice)
             slice(i)     == IF over(i) THEN <<>> ELSE call[c].slice
             pings(i)     == IF over(i) THEN {} ELSE call[c].pings \ {i}
             failed(i)    == IF over(i) THEN {} ELSE errors(i)
             remaining(i) == IF over(i) THEN Without(call[c].remaining, errors(i))
                             ELSE call[c].remaining
             pc(i)        == IF over(i) THEN "next" ELSE "race"
  <2>1. PICK i \in call[c].pings :
           call' = [call EXCEPT ![c].slice = slice(i), ![c].pings = pings(i),
                                ![c].errors = failed(i), ![c].remaining = remaining(i),
                                ![c].pc = pc(i)]
    BY <1>6, Zenon DEF PingFails
  <2> HIDE DEF slice, pings, failed, remaining, pc
  <2>2. UNCHANGED <<held, receipts>> /\ call[c].pc = "race"
    BY <1>6 DEF PingFails
  <2>3. MovesOn(c)
    BY <2>1, <2>2
  <2> QED
    BY <2>3, MovesOnKeeps
<1>7. CASE Prepare(c)
  <2>1. MovesOn(c)
    BY <1>7 DEF Prepare
  <2> QED
    BY <2>1, MovesOnKeeps
<1>8. CASE AttemptFails(c)
  <2>1. MovesOn(c)
    BY <1>8 DEF AttemptFails, Abandoned
  <2> QED
    BY <2>1, MovesOnKeeps
<1>9. CASE ViewCallAccepts(c)
  <2>1. MovesOn(c)
    BY <1>9 DEF ViewCallAccepts, Goto
  <2> QED
    BY <2>1, MovesOnKeeps
<1>10. CASE Callback(c)
  <2>1. MovesOn(c)
    BY <1>10 DEF Callback
  <2> QED
    BY <2>1, MovesOnKeeps
<1>11. CASE GetBlockNumber(c) \/ GetRegistrations(c)
  <2>1. MovesOn(c)
    BY <1>11 DEF GetBlockNumber, GetRegistrations
  <2> QED
    BY <2>1, MovesOnKeeps
<1> QED
  BY <1>1, <1>2, <1>3, <1>4, <1>5, <1>6, <1>7, <1>8, <1>9, <1>10, <1>11

(* Choosing a relay, and the ends of relayTransaction.                     *)
LEMMA ChoosingKeepsInv ==
    ASSUME Inv, NEW c \in Calls,
           \/ StartSelection(c) \/ SelectNextRelay(c) \/ LookupPreferred(c)
           \/ RpcFails(c) \/ BroadcastRawTx(c)
    PROVE  Inv'
<1>0. Fields \subseteq DOMAIN call[c] /\ DOMAIN call = Calls
  BY DEF Inv, TypeInv
<1> USE <1>0 DEF MovesOn, Fields, At, chainVars, clientVars
<1>1. CASE StartSelection(c)
  <2>1. UNCHANGED <<held, receipts>> /\ call[c].pc = "select"
    BY <1>1 DEF StartSelection
  <2>2. CASE Settle(c, "norelayers")
    BY <2>1, <2>2, SettleKeepsInv
  <2>3. CASE ~Settle(c, "norelayers")
    <3>1. MovesOn(c)
      BY <1>1, <2>1, <2>3 DEF StartSelection
    <3> QED
      BY <3>1, MovesOnKeeps
  <2> QED
    BY <2>2, <2>3
<1>2. CASE SelectNextRelay(c)
  <2>1. UNCHANGED <<held, receipts>> /\ call[c].pc = "next"
    BY <1>2 DEF SelectNextRelay
  <2>2. CASE Settle(c, "failed")
    BY <2>1, <2>2, SettleKeepsInv
  <2>3. CASE ~Settle(c, "failed")
    <3>1. MovesOn(c)
      BY <1>2, <2>1, <2>3 DEF SelectNextRelay
    <3> QED
      BY <3>1, MovesOnKeeps
  <2> QED
    BY <2>2, <2>3
<1>3. CASE LookupPreferred(c)
  <2>1. UNCHANGED <<held, receipts>> /\ call[c].pc = "lookup"
    BY <1>3 DEF LookupPreferred
  <2>2. CASE Settle(c, "rejected")
    BY <2>1, <2>2, SettleKeepsInv
  <2>3. CASE ~Settle(c, "rejected")
    <3>1. MovesOn(c)
      BY <1>3, <2>1, <2>3 DEF LookupPreferred
    <3> QED
      BY <3>1, MovesOnKeeps
  <2> QED
    BY <2>2, <2>3
<1>4. CASE RpcFails(c)
  BY <1>4, SettleKeepsInv DEF RpcFails
<1>5. CASE BroadcastRawTx(c)
  BY <1>5, SettleKeepsInv DEF BroadcastRawTx
<1> QED
  BY <1>1, <1>2, <1>3, <1>4, <1>5

(* The HTTP request is answered, in whatever way, or it is not.            *)
LEMMA AnswersKeepInv ==
    ASSUME Inv, NEW c \in Calls,
           \/ RelayAnswers(c) \/ RelayCheats(c) \/ RelayExceedsNonce(c)
           \/ RelayRefuses(c) \/ RelayTimesOut(c)
    PROVE  Inv'
<1>0. Fields \subseteq DOMAIN call[c] /\ DOMAIN call = Calls /\ call[c].lost \in Nat
  BY DEF Inv, TypeInv
<1>1. receipts' = receipts /\ call[c].pc = "send"
  BY DEF RelayAnswers, RelayCheats, RelayExceedsNonce, RelayRefuses, RelayTimesOut, At, chainVars
<1>2. \/ held' = held \cup {Request(c)} /\ call' = [call EXCEPT ![c] = Lost(c)]
      \/ held' = held /\ call' = [call EXCEPT ![c] = Abandoned(c)]
      \/ held' = held \cup {Request(c)}
           /\ call' = [call EXCEPT ![c] = [call[c] EXCEPT !.pc = "broadcast"]]
  BY DEF RelayAnswers, RelayCheats, RelayExceedsNonce, RelayRefuses, RelayTimesOut, Goto
<1>3. CASE held' = held \cup {Request(c)} /\ call' = [call EXCEPT ![c] = Lost(c)]
  BY <1>1, <1>3, Outcomes, HandedOut
<1>4. CASE held' = held /\ call' = [call EXCEPT ![c] = Abandoned(c)]
  <2>1. MovesOn(c)
    BY <1>0, <1>1, <1>4, Outcomes DEF MovesOn
  <2> QED
    BY <2>1, MovesOnKeeps
<1>5. CASE /\ held' = held \cup {Request(c)}
           /\ call' = [call EXCEPT ![c] = [call[c] EXCEPT !.pc = "broadcast"]]
  <2>1. PICK new : new = [call[c] EXCEPT !.pc = "broadcast"]
    OBVIOUS
  <2>2. Fields \subseteq DOMAIN new /\ new.lost = call[c].lost /\ new.pc = "broadcast"
    BY <1>0, <2>1 DEF Fields
  <2> QED
    BY <1>1, <1>5, <2>1, <2>2, HandedOut
<1> QED
  BY <1>2, <1>3, <1>4, <1>5

LEMMA InitInv == Init => Inv
<1> SUFFICES ASSUME Init PROVE Inv
  OBVIOUS
<1>1. held = {} /\ receipts = {} /\ call = [c \in Calls |-> NoCall]
  BY DEF Init
<1>2. IsFiniteSet({}) /\ Cardinality({}) = 0
  BY FS_EmptySet
<1>3. TypeInv
  BY <1>1, <1>2 DEF TypeInv, NoCall, Fields
<1>4. \A c \in Calls : HeldOf(c) = {} /\ MinedOf(c) = {}
  BY <1>1 DEF HeldOf, MinedOf
<1>5. ASSUME NEW c \in Calls
      PROVE  Cardinality(HeldOf(c)) + Cardinality(MinedOf(c)) <= call[c].lost + Answered(c)
  <2>1. HeldOf(c) = {} /\ MinedOf(c) = {}
    BY <1>4
  <2>2. call[c].lost \in Nat /\ Answered(c) \in Nat
    BY <1>3 DEF TypeInv, Answered
  <2>3. Cardinality(HeldOf(c)) = 0 /\ Cardinality(MinedOf(c)) = 0
    BY <1>2, <2>1
  <2> QED
    BY <2>2, <2>3
<1> QED
  BY <1>3, <1>5 DEF Inv, Budget

LEMMA NextInv == Inv /\ [Next]_vars => Inv'
<1> SUFFICES ASSUME Inv, [Next]_vars PROVE Inv'
  OBVIOUS
<1>1. CASE \/ AuditorAnswers \/ BlocksPass \/ UNCHANGED vars
         \/ \E m \in Managers : Register(m) \/ Exit(m)
  <2>1. UNCHANGED <<call, held, receipts>>
    BY <1>1 DEF AuditorAnswers, BlocksPass, Register, Exit, vars, chainVars
  <2> QED
    BY <2>1, Untouched
<1> QED
  BY <1>1, BeforeSending, ChoosingKeepsInv, AnswersKeepInv, MineKeepsInv
  DEF Next, ClientStep, HttpStep

LEMMA InvBounds == Inv => ExtraRunsNeedLostAnswers
<1> SUFFICES ASSUME Inv, NEW c \in Calls
             PROVE  Cardinality(Executions(c)) <= 1 + call[c].lost
  BY DEF ExtraRunsNeedLostAnswers
<1>1. /\ IsFiniteSet(MinedOf(c)) /\ Cardinality(MinedOf(c)) \in Nat
      /\ Cardinality(HeldOf(c)) \in Nat
      /\ Cardinality(HeldOf(c)) + Cardinality(MinedOf(c)) <= call[c].lost + Answered(c)
      /\ call[c].lost \in Nat /\ Answered(c) \in 0..1
  BY Finite DEF Inv, TypeInv, Budget, Answered
<1>2. Executions(c) \subseteq MinedOf(c)
  BY DEF Executions, MinedOf
<1>3. Cardinality(Executions(c)) <= Cardinality(MinedOf(c)) /\ Cardinality(Executions(c)) \in Nat
  BY <1>1, <1>2, FS_Subset, FS_CardinalityType
<1> QED
  BY <1>1, <1>3

(* A user's call runs twice only if a relay got the signed request and the *)
(* client gave up on it: each further successful run needs one more lost   *)
(* answer, however the relays time out, cheat, refuse or keep requests     *)
(* (_attemptRelay, and the loop of relayTransaction around it).            *)
THEOREM ExtraRunsCost == Spec => []ExtraRunsNeedLostAnswers
<1>1. Spec => []Inv
  BY InitInv, NextInv, PTL DEF Spec
<1> QED
  BY <1>1, InvBounds, PTL

(* --------------------- an address is tried once ------------------------ *)
(* What a call may still try, in whichever of its variables it is kept:    *)
(* the two lists, the relays being pinged, and the relay that won.         *)

Chosen == {"lookup", "attempt"}
Before == {"idle", "init", "refresh", "info", "select"}

Untried(k, url) == \A i \in DOMAIN k.tried : k.tried[i] # url

LeftToTry(k) == \A i \in 1..2 : \A p \in DOMAIN k.remaining[i] : Untried(k, k.remaining[i][p].url)

Parts == {"pc", "tried", "remaining", "slice", "pings", "relay"}

Fresh(k) ==
    /\ Parts \subseteq DOMAIN k
    /\ k.tried \in Seq(Range(k.tried)) /\ IsInjective(k.tried)
    /\ k.pc \in Before => k.tried = <<>>
    /\ LeftToTry(k)
    /\ \A p \in k.pings : Untried(k, k.slice[p].url)
    /\ k.pc # "race" => k.pings = {}
    /\ k.pc \in Chosen =>
         /\ Untried(k, k.relay.url)
         /\ \A i \in 1..2 : \A p \in DOMAIN k.remaining[i] : k.remaining[i][p].url # k.relay.url

Choosing == DOMAIN call = Calls /\ \A c \in Calls : Fresh(call[c])

(* Only the call of c changes, and it stays as it must be.                 *)
LEMMA OneCallMoves ==
    ASSUME Choosing, NEW c \in Calls, DOMAIN call' = Calls,
           \A d \in Calls \ {c} : call'[d] = call[d], Fresh(call'[c])
    PROVE  Choosing'
<1>1. ASSUME NEW d \in Calls PROVE Fresh(call'[d])
  <2>1. CASE d = c
    BY <2>1
  <2>2. CASE d # c
    BY <2>2 DEF Choosing
  <2> QED
    BY <2>1, <2>2
<1>2. (\A d \in Calls : Fresh(call[d]))'
  BY <1>1
<1> QED
  BY <1>2 DEF Choosing

(* A step that touches none of the variables above but pc.                 *)
LEMMA SameChoices ==
    ASSUME NEW k, NEW n, Fresh(k), Parts \subseteq DOMAIN n,
           n.tried = k.tried, n.remaining = k.remaining, n.slice = k.slice, n.pings = k.pings,
           k.pc # "race",
           n.pc \in Before => k.pc \in Before,
           n.pc \in Chosen => k.pc \in Chosen /\ n.relay.url = k.relay.url
    PROVE  Fresh(n)
<1>1. \A url : Untried(n, url) <=> Untried(k, url)
  BY DEF Untried
<1>2. LeftToTry(n)
  BY <1>1 DEF LeftToTry, Fresh
<1>3. k.pings = {}
  BY DEF Fresh
<1>4. n.pc \in Chosen =>
        /\ Untried(n, n.relay.url)
        /\ \A i \in 1..2 : \A p \in DOMAIN n.remaining[i] : n.remaining[i][p].url # n.relay.url
  BY <1>1 DEF Fresh
<1> QED
  BY <1>2, <1>3, <1>4 DEF Fresh

(* relayTransaction is over: what is left of it is the list of addresses.  *)
LEMMA SettledIsFresh ==
    ASSUME NEW k, NEW n, Fresh(k), Parts \subseteq DOMAIN n, n.tried = k.tried,
           n.remaining = <<<<>>, <<>>>>, n.pings = {}, n.pc \notin Before, n.pc \notin Chosen
    PROVE  Fresh(n)
<1>1. \A i \in 1..2 : DOMAIN n.remaining[i] = {}
  OBVIOUS
<1>2. LeftToTry(n)
  BY <1>1 DEF LeftToTry
<1> QED
  BY <1>2 DEF Fresh

(* _handleRaceResults: what Without leaves was on the lists before and has *)
(* none of the addresses.                                                  *)
LEMMA WithoutLeaves ==
    ASSUME NEW remaining, NEW urls, NEW i \in 1..2, NEW p \in DOMAIN Without(remaining, urls)[i]
    PROVE  /\ p \in DOMAIN remaining[i]
           /\ Without(remaining, urls)[i][p] = remaining[i][p]
           /\ remaining[i][p].url \notin urls
<1>1. Without(remaining, urls)[i] = Others(remaining[i], urls)
  BY DEF Without
<1>2. Others(remaining[i], urls) =
        [q \in {q \in DOMAIN remaining[i] : remaining[i][q].url \notin urls} |-> remaining[i][q]]
  BY DEF Others, Restrict
<1> QED
  BY <1>1, <1>2

(* The next slice is made of entries that are left to try.                 *)
LEMMA SliceLeaves ==
    ASSUME NEW remaining, NEW p \in DOMAIN GetNextSlice(remaining)
    PROVE  \E i \in 1..2 : /\ p \in DOMAIN remaining[i]
                           /\ GetNextSlice(remaining)[p] = remaining[i][p]
<1>1. ASSUME NEW list, NEW q \in DOMAIN Prefix(list)
      PROVE  q \in DOMAIN list /\ Prefix(list)[q] = list[q]
  BY <1>1 DEF Prefix, Restrict
<1>2. GetNextSlice(remaining) = Prefix(remaining[1]) \/ GetNextSlice(remaining) = Prefix(remaining[2])
  BY DEF GetNextSlice
<1> QED
  BY <1>1, <1>2

(* The address that was chosen becomes the last one tried.                 *)
LEMMA TriedGrows ==
    ASSUME NEW tried, tried \in Seq(Range(tried)), IsInjective(tried), NEW url,
           \A i \in DOMAIN tried : tried[i] # url
    PROVE  LET longer == Append(tried, url)
           IN  /\ longer \in Seq(Range(longer)) /\ IsInjective(longer)
               /\ \A i \in DOMAIN longer : longer[i] = url \/ \E j \in DOMAIN tried : longer[i] = tried[j]
<1> DEFINE S == Range(tried) \cup {url}
           longer == Append(tried, url)
           len == Len(tried)
<1>1. tried \in Seq(S)
  BY DEF S
<1>2. len \in Nat /\ DOMAIN tried = 1..len
  BY <1>1
<1>3. /\ longer \in Seq(S) /\ Len(longer) = len + 1
      /\ \A i \in 1..len : longer[i] = tried[i]
      /\ longer[len + 1] = url
  BY <1>1
<1>4. DOMAIN longer = 1..(len + 1)
  BY <1>3
<1> HIDE DEF longer, len, S
<1>5. \A i \in 1..(len + 1) : i = len + 1 \/ i \in 1..len
  BY <1>2
<1>6. \A i \in DOMAIN longer : longer[i] = url \/ \E j \in DOMAIN tried : longer[i] = tried[j]
  BY <1>2, <1>3, <1>4, <1>5
<1>7. IsInjective(longer)
  <2> SUFFICES ASSUME NEW a \in DOMAIN longer, NEW b \in DOMAIN longer, longer[a] = longer[b]
               PROVE  a = b
    BY DEF IsInjective
  <2>1. CASE a \in 1..len /\ b \in 1..len
    BY <1>2, <1>3, <2>1 DEF IsInjective
  <2>2. CASE a = len + 1 /\ b \in 1..len
    BY <1>2, <1>3, <2>2
  <2>3. CASE b = len + 1 /\ a \in 1..len
    BY <1>2, <1>3, <2>3
  <2> QED
    BY <1>4, <1>5, <2>1, <2>2, <2>3
<1>8. longer \in Seq(Range(longer))
  <2>1. \A i \in 1..(len + 1) : longer[i] \in Range(longer)
    BY <1>4 DEF Range
  <2>2. longer = [i \in 1..(len + 1) |-> longer[i]] 
    BY <1>3, <1>4
  <2>3. [i \in 1..(len + 1) |-> longer[i]] \in [1..(len + 1) -> Range(longer)]
    BY <2>1
  <2>4. len + 1 \in Nat
    BY <1>2
  <2> QED
    BY <2>2, <2>3, <2>4
<1> QED
  BY <1>6, <1>7, <1>8 DEF longer

(* Steps that neither choose a relay nor try one.                          *)
LEMMA StepsThatKeepChoices ==
    ASSUME Choosing, NEW c \in Calls,
           \/ RelayTransaction(c) \/ InitInternal(c) \/ RefreshFailures(c) \/ Refreshed(c)
           \/ GetBlockNumber(c) \/ GetRegistrations(c) \/ ViewCallAccepts(c) \/ Callback(c) \/ RelayAnswers(c)
    PROVE  Choosing'
<1>0. Parts \subseteq DOMAIN call[c] /\ DOMAIN call = Calls /\ Fresh(call[c])
  BY DEF Choosing, Fresh
<1> DEFINE Same == /\ DOMAIN call' = Calls /\ \A d \in Calls \ {c} : call'[d] = call[d]
                   /\ Parts \subseteq DOMAIN call'[c]
                   /\ call'[c].tried = call[c].tried /\ call'[c].remaining = call[c].remaining
                   /\ call'[c].slice = call[c].slice /\ call'[c].pings = call[c].pings
                   /\ call'[c].relay = call[c].relay
                   /\ call[c].pc # "race"
                   /\ call'[c].pc \in Before => call[c].pc \in Before
                   /\ call'[c].pc \in Chosen => call[c].pc \in Chosen
<1>1. ASSUME Same PROVE Choosing'
  <2>1. Fresh(call'[c])
    BY <1>0, <1>1, SameChoices
  <2> QED
    BY <1>1, <2>1, OneCallMoves
<1> USE <1>0 DEF Parts, Before, Chosen, At, Goto
<1>2. CASE RelayTransaction(c)
  BY <1>1, <1>2 DEF RelayTransaction
<1>3. CASE InitInternal(c)
  BY <1>1, <1>3 DEF InitInternal
<1>4. CASE RefreshFailures(c)
  <2>1. PICK query, since :
           /\ Begun(query, since)
           /\ call' = [call EXCEPT ![c].pc = "info", ![c].g = deps,
                                   ![c].query = query, ![c].since = since]
    BY <1>4, RefreshBegun
  <2>2. call[c].pc = "refresh"
    BY <1>4 DEF RefreshFailures
  <2> QED
    BY <1>1, <2>1, <2>2
<1>5. CASE Refreshed(c)
  BY <1>1, <1>5 DEF Refreshed
<1>6. CASE ViewCallAccepts(c)
  BY <1>1, <1>6 DEF ViewCallAccepts
<1>7. CASE Callback(c)
  BY <1>1, <1>7 DEF Callback, Settled
<1>8. CASE RelayAnswers(c)
  BY <1>1, <1>8 DEF RelayAnswers
<1>9. CASE GetBlockNumber(c) \/ GetRegistrations(c)
  BY <1>1, <1>9 DEF GetBlockNumber, GetRegistrations, Querying
<1> QED
  BY <1>2, <1>3, <1>4, <1>5, <1>6, <1>7, <1>8, <1>9

(* The attempt is given up: the next relay is chosen from the same lists.  *)
LEMMA AbandonedKeepsChoices ==
    ASSUME Choosing, NEW c \in Calls, call[c].pc \notin Before, call[c].pc # "race",
           call' = [call EXCEPT ![c] = Abandoned(c)] \/ call' = [call EXCEPT ![c] = Lost(c)]
    PROVE  Choosing'
<1>0. Parts \subseteq DOMAIN call[c] /\ DOMAIN call = Calls /\ Fresh(call[c])
  BY DEF Choosing, Fresh
<1>1. ASSUME NEW n, n = Abandoned(c) \/ n = Lost(c)
      PROVE  /\ DOMAIN n = DOMAIN call[c] /\ n.pc = "next"
             /\ n.tried = call[c].tried /\ n.remaining = call[c].remaining
             /\ n.slice = call[c].slice /\ n.pings = call[c].pings
  BY <1>0, <1>1 DEF Abandoned, Lost, Parts
<1>2. \/ call'[c] = Abandoned(c) \/ call'[c] = Lost(c)
  BY <1>0
<1>3. DOMAIN call' = Calls /\ \A d \in Calls \ {c} : call'[d] = call[d]
  BY <1>0
<1>4. Fresh(call'[c])
  <2>1. PICK n : n = call'[c]
    OBVIOUS
  <2>2. Fresh(n)
    BY <1>0, <1>1, <1>2, <2>1, SameChoices DEF Before, Chosen
  <2> QED
    BY <2>1, <2>2
<1> QED
  BY <1>3, <1>4, OneCallMoves

LEMMA SettleKeepsChoices ==
    ASSUME Choosing, NEW c \in Calls, NEW outcome, outcome \in Settled, Settle(c, outcome)
    PROVE  Choosing'
<1>0. DOMAIN call = Calls /\ Fresh(call[c])
  BY DEF Choosing
<1> DEFINE n == [NoCall EXCEPT !.pc = outcome, !.raced = call[c].raced,
                             !.since = call[c].since,
                             !.nonce = call[c].nonce, !.tried = call[c].tried,
                             !.lost = call[c].lost]
<1>1. Parts \subseteq DOMAIN n /\ n.pc = outcome /\ n.tried = call[c].tried
      /\ n.remaining = <<<<>>, <<>>>> /\ n.pings = {}
  BY DEF NoCall, Parts
<1>2. call' = [call EXCEPT ![c] = n]
  BY DEF Settle
<1> HIDE DEF n
<1>3. Fresh(n)
  BY <1>0, <1>1, SettledIsFresh DEF Settled, Before, Chosen
<1>4. DOMAIN call' = Calls /\ (\A d \in Calls \ {c} : call'[d] = call[d]) /\ call'[c] = n
  BY <1>0, <1>2
<1> QED
  BY <1>3, <1>4, OneCallMoves

(* The lists are made for a call that has tried no relay yet.              *)
LEMMA StartKeepsChoices == ASSUME Choosing, NEW c \in Calls, StartSelection(c) PROVE Choosing'
<1>0. Parts \subseteq DOMAIN call[c] /\ DOMAIN call = Calls /\ Fresh(call[c])
      /\ call[c].pc = "select"
  BY DEF Choosing, Fresh, StartSelection, At
<1>1. CASE Settle(c, "norelayers")
  BY <1>1, SettleKeepsChoices DEF Settled
<1>2. CASE ~Settle(c, "norelayers")
  <2>1. PICK lists : call' = [call EXCEPT ![c].remaining = lists, ![c].since = 0, ![c].pc = "next"]
    BY <1>2 DEF StartSelection
  <2>2. /\ DOMAIN call' = Calls /\ \A d \in Calls \ {c} : call'[d] = call[d]
        /\ Parts \subseteq DOMAIN call'[c] /\ call'[c].pc = "next"
        /\ call'[c].tried = call[c].tried /\ call'[c].pings = call[c].pings
    BY <1>0, <2>1 DEF Parts
  <2>3. call[c].tried = <<>> /\ call[c].pings = {}
    BY <1>0 DEF Fresh, Before
  <2>4. \A url : Untried(call'[c], url)
    BY <2>2, <2>3 DEF Untried
  <2>5. Fresh(call'[c])
    BY <1>0, <2>2, <2>3, <2>4 DEF Fresh, LeftToTry, Before, Chosen
  <2> QED
    BY <2>2, <2>5, OneCallMoves
<1> QED
  BY <1>1, <1>2

LEMMA SelectKeepsChoices == ASSUME Choosing, NEW c \in Calls, SelectNextRelay(c) PROVE Choosing'
<1>0. Parts \subseteq DOMAIN call[c] /\ DOMAIN call = Calls /\ Fresh(call[c])
      /\ call[c].pc = "next"
  BY DEF Choosing, Fresh, SelectNextRelay, At
<1>1. CASE Settle(c, "failed")
  BY <1>1, SettleKeepsChoices DEF Settled
<1>2. CASE ~Settle(c, "failed")
  <2>1. PICK slice : /\ slice = GetNextSlice(call[c].remaining)
                     /\ call' = [call EXCEPT ![c].pc = "race", ![c].slice = slice,
                                             ![c].pings = DOMAIN slice]
    BY <1>2 DEF SelectNextRelay
  <2>2. /\ DOMAIN call' = Calls /\ \A d \in Calls \ {c} : call'[d] = call[d]
        /\ Parts \subseteq DOMAIN call'[c] /\ call'[c].pc = "race"
        /\ call'[c].tried = call[c].tried /\ call'[c].remaining = call[c].remaining
        /\ call'[c].slice = slice /\ call'[c].pings = DOMAIN slice
    BY <1>0, <2>1 DEF Parts
  <2>3. \A p \in DOMAIN slice : Untried(call[c], slice[p].url)
    <3>1. TAKE p \in DOMAIN slice
    <3>2. PICK i \in 1..2 : p \in DOMAIN call[c].remaining[i] /\ slice[p] = call[c].remaining[i][p]
      BY <2>1, SliceLeaves
    <3> QED
      BY <1>0, <3>2 DEF Fresh, LeftToTry
  <2>4. \A url : Untried(call'[c], url) <=> Untried(call[c], url)
    BY <2>2 DEF Untried
  <2>5. LeftToTry(call'[c])
    BY <1>0, <2>2, <2>4 DEF Fresh, LeftToTry
  <2>6. Fresh(call'[c])
    BY <1>0, <2>2, <2>3, <2>4, <2>5 DEF Fresh, Before, Chosen
  <2> QED
    BY <2>2, <2>6, OneCallMoves
<1> QED
  BY <1>1, <1>2

(* The winner leaves both lists, so its address is on none of them.        *)
LEMMA WinnerKeepsChoices == ASSUME Choosing, NEW c \in Calls, PingSucceeds(c) PROVE Choosing'
<1>0. Parts \subseteq DOMAIN call[c] /\ DOMAIN call = Calls /\ Fresh(call[c])
      /\ call[c].pc = "race"
  BY DEF Choosing, Fresh, PingSucceeds, At
<1> DEFINE relay(i) == call[c].slice[i]
           gone(i)  == call[c].errors \cup {call[c].slice[i].url}
           left(i)  == Without(call[c].remaining, gone(i))
<1>1. PICK i \in call[c].pings : \E query, pc :
         /\ pc \in Chosen
         /\ call' = [call EXCEPT ![c].remaining = left(i), ![c].relay = relay(i),
                                 ![c].slice = <<>>, ![c].pings = {}, ![c].errors = {},
                                 ![c].query = query, ![c].pc = pc]
  BY RaceWon, Zenon DEF Chosen
<1>3. relay(i).url \in gone(i) /\ Untried(call[c], relay(i).url)
  BY <1>0 DEF Fresh
<1>4. \A j \in 1..2 : \A p \in DOMAIN left(i)[j] :
         /\ Untried(call[c], left(i)[j][p].url)
         /\ left(i)[j][p].url # relay(i).url
  <2>1. TAKE j \in 1..2
  <2>2. TAKE p \in DOMAIN left(i)[j]
  <2>3. /\ p \in DOMAIN call[c].remaining[j] /\ left(i)[j][p] = call[c].remaining[j][p]
        /\ call[c].remaining[j][p].url \notin gone(i)
    BY <2>2, WithoutLeaves
  <2>4. Untried(call[c], call[c].remaining[j][p].url)
    BY <1>0, <2>3 DEF Fresh, LeftToTry
  <2> QED
    BY <1>3, <2>3, <2>4
<1> HIDE DEF relay, gone, left
<1>5. /\ DOMAIN call' = Calls /\ \A d \in Calls \ {c} : call'[d] = call[d]
      /\ Parts \subseteq DOMAIN call'[c] /\ call'[c].pc \in Chosen
      /\ call'[c].tried = call[c].tried /\ call'[c].remaining = left(i)
      /\ call'[c].relay = relay(i) /\ call'[c].pings = {}
  BY <1>0, <1>1 DEF Parts
<1>6. \A url : Untried(call'[c], url) <=> Untried(call[c], url)
  BY <1>5 DEF Untried
<1>7. LeftToTry(call'[c])
  BY <1>4, <1>5, <1>6 DEF LeftToTry
<1>8. Fresh(call'[c])
  BY <1>0, <1>3, <1>4, <1>5, <1>6, <1>7 DEF Fresh, Before, Chosen
<1> QED
  BY <1>5, <1>8, OneCallMoves

LEMMA PingFailsKeepsChoices == ASSUME Choosing, NEW c \in Calls, PingFails(c) PROVE Choosing'
<1>0. Parts \subseteq DOMAIN call[c] /\ DOMAIN call = Calls /\ Fresh(call[c])
      /\ call[c].pc = "race"
  BY DEF Choosing, Fresh, PingFails, At
<1> DEFINE errors(i)    == call[c].errors \cup {call[c].slice[i].url}
           over(i)      == Cardinality(errors(i)) = Cardinality(DOMAIN call[c].slice)
           slice(i)     == IF over(i) THEN <<>> ELSE call[c].slice
           pings(i)     == IF over(i) THEN {} ELSE call[c].pings \ {i}
           failed(i)    == IF over(i) THEN {} ELSE errors(i)
           remaining(i) == IF over(i) THEN Without(call[c].remaining, errors(i))
                           ELSE call[c].remaining
           pc(i)        == IF over(i) THEN "next" ELSE "race"
<1>1. PICK i \in call[c].pings :
         call' = [call EXCEPT ![c].slice = slice(i), ![c].pings = pings(i),
                              ![c].errors = failed(i), ![c].remaining = remaining(i),
                              ![c].pc = pc(i)]
  BY Zenon DEF PingFails
<1>2. pc(i) \in {"next", "race"} /\ (pc(i) # "race" => pings(i) = {})
  OBVIOUS
<1>3. \A p \in pings(i) : p \in call[c].pings /\ slice(i)[p] = call[c].slice[p]
  OBVIOUS
<1>4. \A j \in 1..2 : \A p \in DOMAIN remaining(i)[j] : Untried(call[c], remaining(i)[j][p].url)
  <2>1. TAKE j \in 1..2
  <2>2. TAKE p \in DOMAIN remaining(i)[j]
  <2>3. p \in DOMAIN call[c].remaining[j] /\ remaining(i)[j][p] = call[c].remaining[j][p]
    <3>1. CASE over(i)
      <4>1. remaining(i) = Without(call[c].remaining, errors(i))
        BY <3>1
      <4> QED
        BY <2>2, <4>1, WithoutLeaves
    <3>2. CASE ~over(i)
      BY <2>2, <3>2
    <3> QED
      BY <3>1, <3>2
  <2> QED
    BY <1>0, <2>3 DEF Fresh, LeftToTry
<1> HIDE DEF slice, pings, failed, remaining, pc
<1>5. /\ DOMAIN call' = Calls /\ \A d \in Calls \ {c} : call'[d] = call[d]
      /\ Parts \subseteq DOMAIN call'[c] /\ call'[c].pc = pc(i)
      /\ call'[c].tried = call[c].tried /\ call'[c].remaining = remaining(i)
      /\ call'[c].slice = slice(i) /\ call'[c].pings = pings(i)
  BY <1>0, <1>1 DEF Parts
<1>6. \A url : Untried(call'[c], url) <=> Untried(call[c], url)
  BY <1>5 DEF Untried
<1>7. LeftToTry(call'[c])
  BY <1>4, <1>5, <1>6 DEF LeftToTry
<1>8. \A p \in call'[c].pings : Untried(call'[c], call'[c].slice[p].url)
  BY <1>0, <1>3, <1>5, <1>6 DEF Fresh
<1>9. Fresh(call'[c])
  BY <1>0, <1>2, <1>5, <1>7, <1>8 DEF Fresh, Before, Chosen
<1> QED
  BY <1>5, <1>9, OneCallMoves

LEMMA LookupKeepsChoices == ASSUME Choosing, NEW c \in Calls, LookupPreferred(c) PROVE Choosing'
<1>0. Parts \subseteq DOMAIN call[c] /\ DOMAIN call = Calls /\ Fresh(call[c])
      /\ call[c].pc = "lookup"
  BY DEF Choosing, Fresh, LookupPreferred, At
<1>1. CASE Settle(c, "rejected")
  BY <1>1, SettleKeepsChoices DEF Settled
<1>2. CASE ~Settle(c, "rejected")
  <2>1. PICK m : call' = [call EXCEPT ![c].relay.manager = m, ![c].query = NoQuery,
                                      ![c].pc = "attempt"]
    BY <1>2 DEF LookupPreferred
  <2>2. /\ DOMAIN call' = Calls /\ \A d \in Calls \ {c} : call'[d] = call[d]
        /\ Parts \subseteq DOMAIN call'[c] /\ call'[c].pc = "attempt"
        /\ call'[c].tried = call[c].tried /\ call'[c].remaining = call[c].remaining
        /\ call'[c].slice = call[c].slice /\ call'[c].pings = call[c].pings
    BY <1>0, <2>1 DEF Parts
  <2>3. call'[c].relay.url = call[c].relay.url
    BY <1>0, <2>1 DEF Parts
  <2>4. Fresh(call'[c])
    BY <1>0, <2>2, <2>3, SameChoices DEF Before, Chosen
  <2> QED
    BY <2>2, <2>4, OneCallMoves
<1> QED
  BY <1>1, <1>2

(* The chosen address is tried: it is on no list any more.                 *)
LEMMA PrepareKeepsChoices == ASSUME Choosing, NEW c \in Calls, Prepare(c) PROVE Choosing'
<1>0. Parts \subseteq DOMAIN call[c] /\ DOMAIN call = Calls /\ Fresh(call[c])
      /\ call[c].pc = "attempt"
  BY DEF Choosing, Fresh, Prepare, At
<1>1. call' = [call EXCEPT ![c].pc = "view", ![c].nonce = nonce,
                           ![c].tried = Append(call[c].tried, call[c].relay.url)]
  BY DEF Prepare
<1>2. /\ DOMAIN call' = Calls /\ \A d \in Calls \ {c} : call'[d] = call[d]
      /\ Parts \subseteq DOMAIN call'[c] /\ call'[c].pc = "view"
      /\ call'[c].tried = Append(call[c].tried, call[c].relay.url)
      /\ call'[c].remaining = call[c].remaining /\ call'[c].pings = call[c].pings
  BY <1>0, <1>1 DEF Parts
<1>3. \A i \in DOMAIN call[c].tried : call[c].tried[i] # call[c].relay.url
  BY <1>0 DEF Fresh, Chosen, Untried
<1>4. call[c].tried \in Seq(Range(call[c].tried)) /\ IsInjective(call[c].tried)
  BY <1>0 DEF Fresh
<1>5. /\ call'[c].tried \in Seq(Range(call'[c].tried)) /\ IsInjective(call'[c].tried)
      /\ \A i \in DOMAIN call'[c].tried :
           call'[c].tried[i] = call[c].relay.url
             \/ \E j \in DOMAIN call[c].tried : call'[c].tried[i] = call[c].tried[j]
  BY <1>2, <1>3, <1>4, TriedGrows
<1>6. LeftToTry(call'[c])
  <2> SUFFICES ASSUME NEW i \in 1..2, NEW p \in DOMAIN call[c].remaining[i]
               PROVE  Untried(call'[c], call[c].remaining[i][p].url)
    BY <1>2 DEF LeftToTry
  <2>1. Untried(call[c], call[c].remaining[i][p].url)
        /\ call[c].remaining[i][p].url # call[c].relay.url
    BY <1>0 DEF Fresh, LeftToTry, Chosen
  <2> QED
    BY <1>5, <2>1 DEF Untried
<1>7. call'[c].pings = {}
  BY <1>0, <1>2 DEF Fresh
<1>8. Fresh(call'[c])
  BY <1>2, <1>5, <1>6, <1>7 DEF Fresh, Before, Chosen
<1> QED
  BY <1>2, <1>8, OneCallMoves

LEMMA NextKeepsChoices == Choosing /\ [Next]_vars => Choosing'
<1> SUFFICES ASSUME Choosing, [Next]_vars PROVE Choosing'
  OBVIOUS
<1>1. CASE \/ AuditorAnswers \/ Mine \/ BlocksPass \/ UNCHANGED vars
         \/ \E m \in Managers : Register(m) \/ Exit(m)
  <2>1. call' = call
    BY <1>1 DEF AuditorAnswers, Mine, BlocksPass, Register, Exit, vars, chainVars
  <2> QED
    BY <2>1 DEF Choosing
<1>2. ASSUME NEW c \in Calls, RpcFails(c) \/ BroadcastRawTx(c) PROVE Choosing'
  BY <1>2, SettleKeepsChoices DEF RpcFails, BroadcastRawTx, Settled
<1>3. ASSUME NEW c \in Calls,
             \/ AttemptFails(c) \/ RelayCheats(c) \/ RelayExceedsNonce(c)
             \/ RelayRefuses(c) \/ RelayTimesOut(c)
      PROVE  Choosing'
  <2>1. call[c].pc \in {"attempt", "view", "send"}
    BY <1>3 DEF AttemptFails, RelayCheats, RelayExceedsNonce, RelayRefuses, RelayTimesOut, At
  <2>2. call' = [call EXCEPT ![c] = Abandoned(c)] \/ call' = [call EXCEPT ![c] = Lost(c)]
    BY <1>3 DEF AttemptFails, RelayCheats, RelayExceedsNonce, RelayRefuses, RelayTimesOut
  <2> QED
    BY <2>1, <2>2, AbandonedKeepsChoices DEF Before
<1> QED
  BY <1>1, <1>2, <1>3, StepsThatKeepChoices, StartKeepsChoices, SelectKeepsChoices,
     WinnerKeepsChoices, PingFailsKeepsChoices, LookupKeepsChoices, PrepareKeepsChoices
  DEF Next, ClientStep, HttpStep

LEMMA InitChoices == Init => Choosing
<1> SUFFICES ASSUME Init PROVE Choosing
  OBVIOUS
<1>1. call = [c \in Calls |-> NoCall]
  BY DEF Init
<1>2. Parts \subseteq DOMAIN NoCall /\ NoCall.pc = "idle" /\ NoCall.tried = <<>>
      /\ NoCall.remaining = <<<<>>, <<>>>> /\ NoCall.pings = {}
  BY DEF NoCall, Parts
<1>3. \A i \in 1..2 : DOMAIN NoCall.remaining[i] = {}
  BY <1>2
<1>4. LeftToTry(NoCall)
  BY <1>3 DEF LeftToTry
<1>5. NoCall.tried \in Seq(Range(NoCall.tried)) /\ IsInjective(NoCall.tried)
  BY <1>2 DEF IsInjective
<1>6. Fresh(NoCall)
  BY <1>2, <1>4, <1>5 DEF Fresh, Chosen
<1> QED
  BY <1>1, <1>6 DEF Choosing

(* However often an address is listed, by configuration or by managers     *)
(* that share it, one call of relayTransaction hands its request there     *)
(* once at most: whatever a race decides, the winner leaves both lists     *)
(* (RelaySelectionManager._handleRaceResults).                             *)
THEOREM EachRelayOnce == Spec => []NeverTheSameRelayTwice
<1>1. Spec => []Choosing
  BY InitChoices, NextKeepsChoices, PTL DEF Spec
<1>2. Choosing => NeverTheSameRelayTwice
  BY DEF Choosing, Fresh, NeverTheSameRelayTwice
<1> QED
  BY <1>1, <1>2, PTL

(* ------------------- what an answer of the hub holds ------------------- *)

(* A set of numbers that is not empty has a least element.                 *)
LEMMA Smallest ==
    ASSUME NEW T, T \subseteq Nat, T # {}
    PROVE  \E m \in T : \A k \in T : m <= k
<1>1. PICK m \in T : \A k \in T : ~(<<k, m>> \in OpToRel(<, Nat))
  BY NatLessThanWellFounded, WFMin
<1>2. ASSUME NEW k \in T PROVE m <= k
  <2>1. ~(k < m)
    BY <1>1 DEF OpToRel
  <2> QED
    BY <2>1
<1> QED
  BY <1>2

LEMMA MinIs ==
    ASSUME NEW T, T \subseteq Nat, T # {}
    PROVE  Min(T) \in T /\ \A k \in T : Min(T) <= k
<1>1. \E m \in T : \A k \in T : m <= k
  BY Smallest
<1> QED
  BY <1>1 DEF Min

(* Whoever is asked for, accepted, and registered at a place that was read *)
(* is in the answer, at the first place of the same registration.          *)
LEMMA AnswerFinds ==
    ASSUME NEW query, query.from \in Nat, query.upto \in Nat, NEW i \in Nat,
           query.from < i, i <= query.upto, StillRegistered(i),
           log[i].manager \in query.managers \cap world.accepted
    PROVE  LET found == GetRelayInfoForManagers(query)
           IN  \E p \in DOMAIN found : found[p] = log[i].manager
<1> DEFINE asked == {k \in (query.from + 1)..query.upto :
                       /\ StillRegistered(k)
                       /\ log[k].manager \in query.managers \cap world.accepted}
           first == {k \in asked : \A j \in asked : log[j] = log[k] => k <= j}
           twins == {k \in asked : log[k] = log[i]}
<1>1. i \in asked
  OBVIOUS
<1>2. asked \subseteq Nat
  OBVIOUS
<1>3. GetRelayInfoForManagers(query) = [p \in first |-> log[p].manager]
  BY DEF GetRelayInfoForManagers
<1> HIDE DEF asked
<1>4. PICK p \in twins : \A k \in twins : p <= k
  BY <1>1, <1>2, Smallest
<1>5. p \in first
  BY <1>4
<1> HIDE DEF first
<1> QED
  BY <1>3, <1>4, <1>5

(* And an answer is finite.                                                *)
LEMMA AnswerFinite ==
    ASSUME NEW query, query.managers = {} \/ (query.from \in Nat /\ query.upto \in Nat)
    PROVE  IsFiniteSet(DOMAIN GetRelayInfoForManagers(query))
<1> DEFINE asked == {k \in (query.from + 1)..query.upto :
                       /\ StillRegistered(k)
                       /\ log[k].manager \in query.managers \cap world.accepted}
           first == {k \in asked : \A j \in asked : log[j] = log[k] => k <= j}
<1>1. DOMAIN GetRelayInfoForManagers(query) = first
  BY DEF GetRelayInfoForManagers
<1>2. CASE query.managers = {}
  <2>1. first = {}
    BY <1>2
  <2> QED
    BY <1>1, <2>1, FS_EmptySet
<1>3. CASE query.from \in Nat /\ query.upto \in Nat
  <2>1. first \subseteq (query.from + 1)..query.upto
    OBVIOUS
  <2>2. IsFiniteSet((query.from + 1)..query.upto)
    BY <1>3, FS_Interval
  <2> QED
    BY <1>1, <2>1, <2>2, FS_Subset
<1> QED
  BY <1>2, <1>3

(* ------------------- who is told nobody is there ----------------------- *)

Kept == {"pc", "raced", "g", "since", "query"}
Asking == {"awaits", "managers", "asked", "from", "upto"}
Watched == {"info", "select", "norelayers"}
Waiting == {c \in Calls : call[c].pc \in {"idle", "init"}}

(* Every result a call may yet write to has its lists.                     *)
ListsInv ==
    /\ DOMAIN call = Calls /\ \A c \in Calls : Kept \subseteq DOMAIN call[c]
    /\ log \in Seq(Events) /\ past \in [active : Nat, registered : Nat]
    /\ DOMAIN known = Generations
    /\ \A g \in Generations : /\ {"all", "preferred"} \subseteq DOMAIN known[g]
                              /\ IsFiniteSet(DOMAIN known[g].all)
    /\ deps \in Nat /\ deps + Cardinality(Waiting) <= Cardinality(Calls)

(* The registrations that stand, of a manager the filter accepts, inside   *)
(* both windows; and those whose manager is on the client's list.          *)
Owed == {i \in DOMAIN log : /\ StillRegistered(i) /\ log[i].manager \in world.accepted
                            /\ i > past.active /\ i > past.registered}
Listed == {i \in DOMAIN log :
             \E p \in DOMAIN known[deps].all : known[deps].all[p] = log[i].manager}

(* What a refresh under way has asked for and read so far.                 *)
Sound(c) ==
    LET q == call[c].query
    IN /\ Asking \subseteq DOMAIN q
       /\ q.asked \in Nat /\ q.asked <= Len(log)
       /\ \A i \in DOMAIN log : StillRegistered(i) /\ i > past.active /\ i <= q.asked
                                  => log[i].manager \in q.managers
       /\ q.awaits \in {"registrations", "exits"} => q.from \in Nat /\ q.from <= past.registered
       /\ q.awaits = "exits" => q.upto \in Nat /\ q.asked <= q.upto

(* No refresh under way is older than a call that still waits for its list.*)
Timely ==
    \A c \in Calls :
      /\ call[c].pc \in Watched => call[c].since \in Nat /\ call[c].since <= Len(log)
      /\ call[c].pc \in {"info", "select"} =>
           \A d \in Calls : At(d, "info") => call[c].since <= call[d].query.asked

(* The dependencies stay what they are from now on.                        *)
Quiet == initialized /\ \A c \in Calls : ~At(c, "init")

Informed(c) ==
    ~call[c].raced /\ ~At(c, "idle") =>
        /\ Quiet
        /\ At(c, "info") => call[c].g = deps
        /\ At(c, "select") => \A i \in Owed : i <= call[c].since => i \in Listed
        /\ At(c, "norelayers") => \A i \in Owed : i > call[c].since

SeenInv ==
    /\ ListsInv
    /\ Timely
    /\ \A c \in Calls : At(c, "info") => Sound(c)
    /\ \A c \in Calls : Informed(c)

Resting == {"idle", "init", "info", "select", "norelayers"}

(* The calls that have not initialized anything yet are finitely many.     *)
LEMMA WaitingFinite ==
    /\ IsFiniteSet(Waiting) /\ Cardinality(Waiting) \in Nat
    /\ IsFiniteSet(Calls) /\ Cardinality(Calls) \in Nat
<1>1. Waiting \subseteq Calls /\ IsFiniteSet(Calls)
  BY ClientAssumption DEF Waiting
<1> QED
  BY <1>1, FS_Subset, FS_CardinalityType

(* Only the call of c changes, and it does not begin to wait again.        *)
OnlyCall(c) ==
    /\ DOMAIN call' = Calls /\ \A d \in Calls \ {c} : call'[d] = call[d]
    /\ Kept \subseteq DOMAIN call'[c]
    /\ call'[c].pc \in {"idle", "init"} => call[c].pc \in {"idle", "init"}

(* No call goes back to waiting, and one that leaves makes them fewer.     *)
LEMMA OneFewer ==
    ASSUME NEW c \in Calls, OnlyCall(c)
    PROVE  /\ Cardinality(Waiting)' \in Nat /\ Cardinality(Waiting)' <= Cardinality(Waiting)
           /\ call[c].pc \in {"idle", "init"} /\ call'[c].pc \notin {"idle", "init"}
                => Cardinality(Waiting)' = Cardinality(Waiting) - 1
<1>1. Waiting' \subseteq Waiting
  BY DEF Waiting, OnlyCall
<1>2. Cardinality(Waiting') \in Nat /\ Cardinality(Waiting') <= Cardinality(Waiting)
  BY <1>1, WaitingFinite, FS_Subset, FS_CardinalityType
<1>3. ASSUME call[c].pc \in {"idle", "init"}, call'[c].pc \notin {"idle", "init"}
      PROVE  Cardinality(Waiting') = Cardinality(Waiting) - 1
  <2>1. Waiting' = Waiting \ {c} /\ c \in Waiting
    BY <1>3 DEF Waiting, OnlyCall
  <2> QED
    BY <2>1, WaitingFinite, FS_RemoveElement
<1> QED
  BY <1>2, <1>3

(* The lists stay in order when one call moves.                            *)
LEMMA ListsKept ==
    ASSUME SeenInv, NEW c \in Calls, OnlyCall(c), UNCHANGED <<log, past>>,
           \/ deps' = deps
           \/ deps' = deps + 1 /\ call[c].pc = "init" /\ call'[c].pc \notin {"idle", "init"},
           DOMAIN known' = Generations,
           \A g \in Generations : /\ {"all", "preferred"} \subseteq DOMAIN known'[g]
                                  /\ IsFiniteSet(DOMAIN known'[g].all)
    PROVE  ListsInv'
<1>1. /\ Cardinality(Waiting)' \in Nat /\ Cardinality(Waiting)' <= Cardinality(Waiting)
      /\ call[c].pc = "init" /\ call'[c].pc \notin {"idle", "init"}
           => Cardinality(Waiting)' = Cardinality(Waiting) - 1
  BY OneFewer
<1>2. deps' \in Nat /\ deps' + Cardinality(Waiting)' <= Cardinality(Calls)
  BY <1>1, WaitingFinite DEF SeenInv, ListsInv
<1>3. \A d \in Calls : Kept \subseteq DOMAIN call'[d]
  BY DEF SeenInv, ListsInv, OnlyCall
<1> QED
  BY <1>2, <1>3 DEF SeenInv, ListsInv, OnlyCall

(* A call that is not beginning a refresh keeps its place among the others.*)
KeepsPace(c) ==
    \/ call'[c].pc \notin Watched
    \/ /\ call[c].pc \in Watched /\ call'[c].since = call[c].since
       /\ call'[c].pc \in {"info", "select"} => call[c].pc \in {"info", "select"}
       /\ call'[c].pc = "info" => /\ call[c].pc = "info"
                                  /\ call'[c].query.asked = call[c].query.asked

LEMMA PaceKept ==
    ASSUME SeenInv, NEW c \in Calls, OnlyCall(c), UNCHANGED <<world, log, past>>, KeepsPace(c),
           call'[c].pc = "info" => Sound(c)'
    PROVE  Timely' /\ (\A d \in Calls : At(d, "info") => Sound(d))'
<1>1. ASSUME NEW d \in Calls PROVE (At(d, "info") => Sound(d))'
  <2>1. CASE d = c
    BY <2>1 DEF At
  <2>2. CASE d # c
    BY <2>2 DEF At, SeenInv, Sound, StillRegistered, OnlyCall
  <2> QED
    BY <2>1, <2>2
<1>2. ASSUME NEW d \in Calls
      PROVE  call'[d].pc \in Watched => call'[d].since \in Nat /\ call'[d].since <= Len(log')
  BY DEF SeenInv, Timely, OnlyCall, KeepsPace
<1>3. ASSUME NEW d \in Calls, call'[d].pc \in {"info", "select"}
      PROVE  call[d].pc \in {"info", "select"} /\ call'[d].since = call[d].since
  BY <1>3 DEF OnlyCall, KeepsPace, Watched
<1>4. ASSUME NEW d \in Calls, call'[d].pc = "info"
      PROVE  call[d].pc = "info" /\ call'[d].query.asked = call[d].query.asked
  BY <1>4 DEF OnlyCall, KeepsPace, Watched
<1>5. ASSUME NEW d \in Calls, call'[d].pc \in {"info", "select"}, NEW e \in Calls, call'[e].pc = "info"
      PROVE  call'[d].since <= call'[e].query.asked
  BY <1>3, <1>4, <1>5 DEF SeenInv, Timely, At
<1> QED
  BY <1>1, <1>2, <1>5 DEF Timely, At

(* What is owed changes with the hub only.                                 *)
LEMMA SameHub == UNCHANGED <<world, log, past>> => Owed' = Owed
BY DEF Owed, StillRegistered

LEMMA SameLists == UNCHANGED <<log, deps, known>> => Listed' = Listed
BY DEF Listed

(* A step of c that leaves the hub, the dependencies and the lists alone.  *)
LEMMA MoverKeeps ==
    ASSUME SeenInv, NEW c \in Calls, OnlyCall(c), KeepsPace(c),
           UNCHANGED <<world, log, past, deps, known, initialized>>,
           call'[c].pc = "init" => call[c].pc = "init",
           call'[c].pc = "info" => Sound(c)',
           ~call'[c].raced /\ call'[c].pc # "idle" =>
             /\ Quiet
             /\ call'[c].pc = "info" => call'[c].g = deps
             /\ call'[c].pc = "select" => \A i \in Owed : i <= call'[c].since => i \in Listed
             /\ call'[c].pc = "norelayers" => \A i \in Owed : i > call'[c].since
    PROVE  SeenInv'
<1>1. ListsInv'
  BY ListsKept DEF SeenInv, ListsInv
<1>2. Timely' /\ (\A d \in Calls : At(d, "info") => Sound(d))'
  BY PaceKept
<1>3. Quiet => Quiet'
  BY DEF Quiet, At, OnlyCall
<1>4. Owed' = Owed /\ Listed' = Listed
  BY SameHub, SameLists
<1>5. ASSUME NEW d \in Calls \ {c} PROVE Informed(d)'
  BY <1>3, <1>4 DEF SeenInv, Informed, At, OnlyCall
<1>6. Informed(c)'
  BY <1>3, <1>4 DEF Informed, At
<1> QED
  BY <1>1, <1>2, <1>5, <1>6 DEF SeenInv

(* Only c moves, past the steps the invariant speaks of or not at all.     *)
Proceeds(c) ==
    /\ UNCHANGED <<world, log, past, deps, known, initialized>>
    /\ DOMAIN call' = Calls /\ \A d \in Calls \ {c} : call'[d] = call[d]
    /\ Kept \subseteq DOMAIN call'[c] /\ call'[c].raced = call[c].raced
    /\ call[c].pc # "idle"
    /\ \/ call'[c].pc \notin Resting
       \/ /\ call'[c].pc = call[c].pc /\ call'[c].g = call[c].g
          /\ call'[c].since = call[c].since /\ call'[c].query = call[c].query

(* Such a step takes nothing from what the calls know.                     *)
LEMMA ProceedsKeeps == ASSUME SeenInv, NEW c \in Calls, Proceeds(c) PROVE SeenInv'
<1>1. OnlyCall(c) /\ KeepsPace(c)
  BY DEF Proceeds, OnlyCall, KeepsPace, Resting, Watched
<1>2. call'[c].pc = "info" => Sound(c)'
  BY DEF Proceeds, Resting, SeenInv, At, Sound, StillRegistered
<1>3. Informed(c)
  BY DEF SeenInv
<1> QED
  BY <1>1, <1>2, <1>3, MoverKeeps DEF Proceeds, Resting, Informed, At

(* Nothing the invariant speaks of changes.                                *)
LEMMA OthersKeepSeen ==
    ASSUME SeenInv, UNCHANGED <<call, world, log, past, deps, known, initialized>>
    PROVE  SeenInv'
<1>1. ListsInv' /\ Timely'
  BY DEF SeenInv, ListsInv, Timely, Waiting, At
<1>2. \A c \in Calls : (At(c, "info") => Sound(c))'
  BY DEF SeenInv, At, Sound, StillRegistered
<1>3. Owed' = Owed /\ Listed' = Listed
  BY SameHub, SameLists
<1>4. \A c \in Calls : Informed(c)'
  BY <1>3 DEF SeenInv, Informed, Quiet, At
<1> QED
  BY <1>1, <1>2, <1>4 DEF SeenInv

(* A call that finds the client initialized begins in the quiet.           *)
LEMMA BeginKeepsSeen == ASSUME SeenInv, NEW c \in Calls, RelayTransaction(c) PROVE SeenInv'
<1>0. /\ UNCHANGED <<world, log, past, deps, known, initialized>>
      /\ Kept \subseteq DOMAIN call[c] /\ DOMAIN call = Calls /\ call[c].pc = "idle"
  BY DEF RelayTransaction, chainVars, clientVars, At, SeenInv, ListsInv
<1>1. /\ DOMAIN call' = Calls /\ \A d \in Calls \ {c} : call'[d] = call[d]
      /\ Kept \subseteq DOMAIN call'[c]
      /\ call'[c].pc = IF initialized THEN "refresh" ELSE "init"
      /\ call'[c].raced = (~initialized \/ \E d \in Calls : At(d, "init"))
  BY <1>0 DEF RelayTransaction, Kept
<1>2. OnlyCall(c) /\ KeepsPace(c) /\ call'[c].pc \notin Watched
  BY <1>0, <1>1 DEF OnlyCall, KeepsPace, Watched
<1>3. ListsInv'
  BY <1>0, <1>2, ListsKept DEF SeenInv, ListsInv
<1>4. Timely' /\ (\A d \in Calls : At(d, "info") => Sound(d))'
  BY <1>0, <1>2, PaceKept DEF Watched
<1>5. Quiet => Quiet'
  BY <1>0, <1>1 DEF Quiet, At
<1>6. Owed' = Owed /\ Listed' = Listed
  BY <1>0, SameHub, SameLists
<1>7. ASSUME NEW d \in Calls \ {c} PROVE Informed(d)'
  BY <1>0, <1>2, <1>5, <1>6 DEF SeenInv, Informed, At, OnlyCall
<1>8. Informed(c)'
  BY <1>0, <1>1, <1>2, <1>5 DEF Informed, Quiet, At, Watched
<1> QED
  BY <1>3, <1>4, <1>7, <1>8 DEF SeenInv

(* While somebody initializes, no call claims to be informed.              *)
LEMMA InitKeepsSeen == ASSUME SeenInv, NEW c \in Calls, InitInternal(c) PROVE SeenInv'
<1>0. /\ UNCHANGED <<world, log, past, known>> /\ deps' = deps + 1
      /\ Kept \subseteq DOMAIN call[c] /\ DOMAIN call = Calls /\ call[c].pc = "init"
  BY DEF InitInternal, ResolveDependencies, chainVars, At, SeenInv, ListsInv
<1>1. /\ DOMAIN call' = Calls /\ \A d \in Calls \ {c} : call'[d] = call[d]
      /\ Kept \subseteq DOMAIN call'[c]
      /\ call'[c].pc = "refresh" /\ call'[c].raced = call[c].raced
  BY <1>0 DEF InitInternal, Goto, Kept
<1>2. OnlyCall(c) /\ KeepsPace(c)
  BY <1>1 DEF OnlyCall, KeepsPace, Watched
<1>3. ListsInv'
  BY <1>0, <1>1, <1>2, ListsKept DEF SeenInv, ListsInv
<1>4. Timely' /\ (\A d \in Calls : At(d, "info") => Sound(d))'
  BY <1>0, <1>1, <1>2, PaceKept
<1>5. ~Quiet
  BY <1>0 DEF Quiet, At
<1>6. \A d \in Calls : call[d].raced \/ At(d, "idle")
  BY <1>5 DEF SeenInv, Informed
<1>7. \A d \in Calls : (call[d].raced \/ At(d, "idle"))'
  BY <1>0, <1>1, <1>6 DEF At
<1>8. \A d \in Calls : Informed(d)'
  BY <1>7 DEF Informed
<1> QED
  BY <1>3, <1>4, <1>8 DEF SeenInv


(* The managers are fetched for the dependencies there are: whoever is in  *)
(* the window is among them, and the other refreshes are not younger.      *)
LEMMA FetchKeepsSeen == ASSUME SeenInv, NEW c \in Calls, RefreshFailures(c) PROVE SeenInv'
<1>0. /\ UNCHANGED <<world, log, past, deps, initialized>>
      /\ known' = [known EXCEPT ![deps].preferred = TRUE]
      /\ Kept \subseteq DOMAIN call[c] /\ DOMAIN call = Calls /\ call[c].pc = "refresh"
  BY DEF RefreshFailures, chainVars, At, SeenInv, ListsInv
<1>1. PICK query, since :
         /\ Begun(query, since)
         /\ call' = [call EXCEPT ![c].pc = "info", ![c].g = deps,
                                 ![c].query = query, ![c].since = since]
  BY RefreshBegun
<1>2. /\ OnlyCall(c) /\ call'[c].raced = call[c].raced /\ call'[c].pc = "info"
      /\ call'[c].g = deps /\ call'[c].query = query /\ call'[c].since = since
  BY <1>0, <1>1 DEF OnlyCall, Kept
<1>3. deps \in Generations
  BY WaitingFinite DEF SeenInv, ListsInv, Generations
<1>4. ListsInv' /\ Listed' = Listed
  <2>1. /\ DOMAIN known' = Generations
        /\ \A g \in Generations : known'[g].all = known[g].all
        /\ \A g \in Generations : {"all", "preferred"} \subseteq DOMAIN known'[g]
    BY <1>0, <1>3 DEF SeenInv, ListsInv
  <2>2. ListsInv'
    BY <1>0, <1>2, <2>1, ListsKept DEF SeenInv, ListsInv
  <2> QED
    BY <1>0, <1>3, <2>1, <2>2 DEF Listed
<1>5. PICK managers \in RecentlyActive :
         query = [NoQuery EXCEPT !.managers = managers, !.asked = Len(log)]
  BY <1>1 DEF Begun
<1>6. /\ Asking \subseteq DOMAIN query /\ query.managers = managers
      /\ query.asked = Len(log) /\ query.awaits = "block"
  BY <1>5 DEF NoQuery, Asking
<1>7. Len(log) \in Nat /\ DOMAIN log = 1..Len(log)
  BY DEF SeenInv, ListsInv
<1>8. Sound(c)'
  <2>1. \A i \in DOMAIN log : StillRegistered(i) /\ i > past.active => log[i].manager \in managers
    BY DEF RecentlyActive, StillRegistered
  <2> QED
    BY <1>0, <1>2, <1>6, <1>7, <2>1 DEF Sound, StillRegistered
<1>9. /\ since \in Nat /\ since <= Len(log)
      /\ \A d \in Calls : At(d, "info") => since <= call[d].query.asked
  <2> DEFINE T == {Len(log)} \cup {call[d].query.asked : d \in {x \in Calls : At(x, "info")}}
  <2>1. since = Min(T)
    BY <1>1 DEF Begun
  <2>2. T \subseteq Nat /\ T # {}
    BY <1>7 DEF SeenInv, Sound
  <2>3. since \in T /\ \A k \in T : since <= k
    BY <2>1, <2>2, MinIs
  <2>4. Len(log) \in T /\ \A d \in Calls : At(d, "info") => call[d].query.asked \in T
    OBVIOUS
  <2> QED
    BY <2>2, <2>3, <2>4
<1>10. Timely'
  <2>1. ASSUME NEW d \in Calls
        PROVE  call'[d].pc \in Watched => call'[d].since \in Nat /\ call'[d].since <= Len(log')
    BY <1>0, <1>2, <1>9 DEF SeenInv, Timely, OnlyCall
  <2>2. ASSUME NEW d \in Calls, call'[d].pc \in {"info", "select"}, NEW e \in Calls, call'[e].pc = "info"
        PROVE  call'[d].since <= call'[e].query.asked
    <3>1. CASE e = c
      BY <1>0, <1>2, <1>6, <2>1, <2>2, <3>1 DEF Watched
    <3>2. CASE e # c /\ d = c
      BY <1>2, <1>9, <2>2, <3>2 DEF OnlyCall, At
    <3>3. CASE e # c /\ d # c
      BY <1>2, <2>2, <3>3 DEF SeenInv, Timely, OnlyCall, At
    <3> QED
      BY <3>1, <3>2, <3>3
  <2> QED
    BY <2>1, <2>2 DEF Timely, At
<1>11. ASSUME NEW d \in Calls PROVE (At(d, "info") => Sound(d))'
  <2>1. CASE d = c
    BY <1>8, <2>1
  <2>2. CASE d # c
    BY <1>0, <1>2, <2>2 DEF At, SeenInv, Sound, StillRegistered, OnlyCall
  <2> QED
    BY <2>1, <2>2
<1>12. Quiet => Quiet'
  BY <1>0, <1>2 DEF Quiet, At, OnlyCall
<1>13. Owed' = Owed
  BY <1>0, SameHub
<1>14. ASSUME NEW d \in Calls \ {c} PROVE Informed(d)'
  BY <1>0, <1>2, <1>4, <1>12, <1>13 DEF SeenInv, Informed, At, OnlyCall
<1>15. Informed(c)'
  BY <1>0, <1>2, <1>12 DEF SeenInv, Informed, At
<1> QED
  BY <1>4, <1>10, <1>11, <1>14, <1>15 DEF SeenInv

(* The query goes on: its window lies behind the one there is later, and   *)
(* it reads at least what there was when it was asked.                     *)
LEMMA QueryKeepsSeen ==
    ASSUME SeenInv, NEW c \in Calls, GetBlockNumber(c) \/ GetRegistrations(c)
    PROVE  SeenInv'
<1>0. /\ UNCHANGED <<world, log, past, deps, known, initialized>>
      /\ Kept \subseteq DOMAIN call[c] /\ DOMAIN call = Calls
      /\ call[c].pc \in {"info", "lookup"}
  BY DEF GetBlockNumber, GetRegistrations, Querying, chainVars, clientVars, SeenInv, ListsInv
<1> DEFINE query == call'[c].query
<1>1. \/ /\ call[c].query.awaits = "block"
         /\ query = [call[c].query EXCEPT !.from = past.registered, !.awaits = "registrations"]
      \/ /\ call[c].query.awaits = "registrations"
         /\ query = [call[c].query EXCEPT !.upto = Len(log), !.awaits = "exits"]
  <2>1. CASE GetBlockNumber(c)
    BY <1>0, <2>1 DEF GetBlockNumber, Querying, Kept
  <2>2. CASE GetRegistrations(c)
    BY <1>0, <2>2 DEF GetRegistrations, Querying, Kept
  <2> QED
    BY <2>1, <2>2
<1>2. /\ OnlyCall(c) /\ call'[c].pc = call[c].pc /\ call'[c].raced = call[c].raced
      /\ call'[c].g = call[c].g /\ call'[c].since = call[c].since
  BY <1>0 DEF GetBlockNumber, GetRegistrations, OnlyCall, Kept
<1> HIDE DEF query
<1>3. CASE call[c].pc = "lookup"
  <2>1. Proceeds(c)
    BY <1>0, <1>2, <1>3 DEF Proceeds, OnlyCall, Resting
  <2> QED
    BY <2>1, ProceedsKeeps
<1>4. CASE call[c].pc = "info"
  <2>1. Sound(c)
    BY <1>4 DEF SeenInv, At
  <2>2. Len(log) \in Nat /\ past.registered \in Nat
    BY DEF SeenInv, ListsInv
  <2>3. query.asked = call[c].query.asked /\ query.managers = call[c].query.managers
        /\ Asking \subseteq DOMAIN query
    BY <1>1, <2>1 DEF Sound, Asking
  <2>4. \/ query.awaits = "registrations" /\ query.from = past.registered
        \/ /\ query.awaits = "exits" /\ query.upto = Len(log)
           /\ query.from = call[c].query.from /\ call[c].query.awaits = "registrations"
    BY <1>1, <2>1 DEF Sound, Asking
  <2>5. Sound(c)'
    BY <1>0, <2>1, <2>2, <2>3, <2>4 DEF Sound, StillRegistered, query
  <2>6. KeepsPace(c)
    BY <1>2, <1>4, <2>3 DEF KeepsPace, Watched, query
  <2>7. Informed(c)
    BY DEF SeenInv
  <2> QED
    BY <1>0, <1>2, <1>4, <2>5, <2>6, <2>7, MoverKeeps DEF Informed, At
<1> QED
  BY <1>0, <1>3, <1>4

(* The list is replaced as a whole, by one in which nobody is missing who  *)
(* was owed when the refresh began; no other call is older than that.      *)
LEMMA AnswerKeepsSeen == ASSUME SeenInv, NEW c \in Calls, Refreshed(c) PROVE SeenInv'
<1> DEFINE q == call[c].query
           found == GetRelayInfoForManagers(q)
<1>0. /\ UNCHANGED <<world, log, past, deps, initialized>>
      /\ known' = [known EXCEPT ![call[c].g].all = found]
      /\ Kept \subseteq DOMAIN call[c] /\ DOMAIN call = Calls /\ call[c].pc = "info"
      /\ q.awaits = "exits" \/ q.managers = {}
  BY DEF Refreshed, Querying, chainVars, At, SeenInv, ListsInv
<1>1. /\ OnlyCall(c) /\ call'[c].raced = call[c].raced
      /\ call'[c].pc = "select" /\ call'[c].since = call[c].since
  BY <1>0 DEF Refreshed, OnlyCall, Kept
<1>2. KeepsPace(c)
  BY <1>0, <1>1 DEF KeepsPace, Watched
<1>3. Sound(c) /\ Len(log) \in Nat /\ DOMAIN log = 1..Len(log)
      /\ past \in [active : Nat, registered : Nat]
  BY <1>0 DEF SeenInv, ListsInv, At
<1>4. q.asked \in Nat /\ (q.managers = {} \/ (q.from \in Nat /\ q.upto \in Nat))
  BY <1>0, <1>3 DEF Sound
<1>5. IsFiniteSet(DOMAIN found)
  BY <1>4, AnswerFinite
<1>6. ASSUME NEW i \in Owed, i <= q.asked
      PROVE  \E p \in DOMAIN found : found[p] = log[i].manager
  <2>1. /\ i \in DOMAIN log /\ StillRegistered(i) /\ log[i].manager \in world.accepted
        /\ i > past.active /\ i > past.registered /\ i \in Nat
    BY <1>3 DEF Owed
  <2>2. log[i].manager \in q.managers
    BY <1>3, <1>6, <2>1 DEF Sound
  <2>3. q.awaits = "exits"
    BY <1>0, <2>2
  <2>4. q.from \in Nat /\ q.upto \in Nat /\ q.from <= past.registered /\ q.asked <= q.upto
    BY <1>3, <2>3 DEF Sound
  <2>5. q.from < i /\ i <= q.upto
    BY <1>3, <1>4, <1>6, <2>1, <2>4
  <2> QED
    BY <2>1, <2>2, <2>4, <2>5, AnswerFinds
<1>7. \A d \in Calls : call[d].pc \in {"info", "select"} =>
        call[d].since \in Nat /\ call[d].since <= q.asked
  BY <1>0 DEF SeenInv, Timely, At, Watched
<1> HIDE DEF found, q
<1>8. deps \in Generations
  BY WaitingFinite DEF SeenInv, ListsInv, Generations
<1>9. /\ DOMAIN known' = Generations
      /\ \A g \in Generations : /\ {"all", "preferred"} \subseteq DOMAIN known'[g]
                                /\ known'[g].all = IF g = call[c].g THEN found ELSE known[g].all
  BY <1>0 DEF SeenInv, ListsInv
<1>10. \A g \in Generations : IsFiniteSet(DOMAIN known'[g].all)
  BY <1>5, <1>9 DEF SeenInv, ListsInv
<1>11. ListsInv'
  BY <1>0, <1>1, <1>9, <1>10, ListsKept
<1>12. Timely' /\ (\A d \in Calls : At(d, "info") => Sound(d))'
  BY <1>0, <1>1, <1>2, PaceKept
<1>13. Quiet => Quiet'
  BY <1>0, <1>1 DEF Quiet, At, OnlyCall
<1>14. Owed' = Owed
  BY <1>0, SameHub
<1>15. CASE call[c].g = deps
  <2>1. \A i \in Owed : i <= q.asked => i \in Listed'
    BY <1>0, <1>6, <1>8, <1>9, <1>15 DEF Listed, Owed
  <2>2. ASSUME NEW d \in Calls, call[d].pc \in {"info", "select"}, NEW i \in Owed, i <= call[d].since
        PROVE  i \in Listed'
    <3>1. i \in Nat
      BY <1>3 DEF Owed
    <3>2. i <= q.asked
      BY <1>4, <1>7, <2>2, <3>1
    <3> QED
      BY <2>1, <3>2
  <2>3. ASSUME NEW d \in Calls \ {c} PROVE Informed(d)'
    BY <1>0, <1>1, <1>13, <1>14, <2>2, <2>3 DEF SeenInv, Informed, At, OnlyCall
  <2>4. Informed(c)'
    BY <1>0, <1>1, <1>13, <1>14, <2>2 DEF SeenInv, Informed, At
  <2> QED
    BY <1>11, <1>12, <2>3, <2>4 DEF SeenInv
<1>16. CASE call[c].g # deps
  <2>1. Listed' = Listed
    BY <1>0, <1>8, <1>9, <1>16 DEF Listed
  <2>2. ASSUME NEW d \in Calls \ {c} PROVE Informed(d)'
    BY <1>0, <1>1, <1>13, <1>14, <2>1 DEF SeenInv, Informed, At, OnlyCall
  <2>3. Informed(c)'
    BY <1>0, <1>1, <1>16 DEF SeenInv, Informed, At
  <2> QED
    BY <1>11, <1>12, <2>2, <2>3 DEF SeenInv
<1> QED
  BY <1>15, <1>16

(* What is left of a call that ended.                                      *)
LEMMA EndOf ==
    ASSUME SeenInv, NEW c \in Calls, NEW outcome, Settle(c, outcome), outcome \in Settled
    PROVE  /\ OnlyCall(c) /\ call'[c].pc = outcome /\ call'[c].raced = call[c].raced
           /\ call'[c].since = call[c].since
<1> DEFINE n == [NoCall EXCEPT !.pc = outcome, !.raced = call[c].raced,
                             !.since = call[c].since,
                             !.nonce = call[c].nonce, !.tried = call[c].tried,
                             !.lost = call[c].lost]
<1>1. /\ Kept \subseteq DOMAIN n /\ n.pc = outcome /\ n.raced = call[c].raced
      /\ n.since = call[c].since
  BY DEF NoCall, Kept
<1>2. call' = [call EXCEPT ![c] = n] /\ DOMAIN call = Calls
  BY DEF Settle, SeenInv, ListsInv
<1> HIDE DEF n
<1> QED
  BY <1>1, <1>2 DEF OnlyCall, Settled

(* A call ends in another way than by finding nobody.                      *)
LEMMA SettleKeepsSeen ==
    ASSUME SeenInv, NEW c \in Calls, NEW outcome, Settle(c, outcome),
           outcome \in Settled \ {"norelayers"}, call[c].pc # "idle",
           UNCHANGED <<world, log, past, deps, known, initialized>>
    PROVE  SeenInv'
<1>1. /\ OnlyCall(c) /\ call'[c].pc = outcome /\ call'[c].raced = call[c].raced
  BY EndOf
<1>2. Proceeds(c)
  BY <1>1 DEF Proceeds, OnlyCall, Settled, Resting
<1> QED
  BY <1>2, ProceedsKeeps

(* "no registered relayers" is said of an empty list.                      *)
LEMMA StartKeepsSeen == ASSUME SeenInv, NEW c \in Calls, StartSelection(c) PROVE SeenInv'
<1>0. /\ UNCHANGED <<world, log, past, deps, known, initialized>>
      /\ Kept \subseteq DOMAIN call[c] /\ DOMAIN call = Calls /\ call[c].pc = "select"
      /\ deps \in Generations
  <2>1. deps \in Generations
    BY WaitingFinite DEF SeenInv, ListsInv, Generations
  <2> QED
    BY <2>1 DEF StartSelection, chainVars, clientVars, At, SeenInv, ListsInv
<1>1. CASE \A i \in 1..2 : RelaysSortedForTransaction(deps)[i] = <<>>
  <2>1. /\ OnlyCall(c) /\ call'[c].pc = "norelayers" /\ call'[c].raced = call[c].raced
        /\ call'[c].since = call[c].since
    BY <1>1, EndOf DEF StartSelection, Settled
  <2>2. Listed = {}
    <3> DEFINE all == known[deps].all
               sorted == SortRelays(deps, all)
               second == [i \in DOMAIN sorted |-> Entry(world.site[sorted[i]], sorted[i])]
    <3>1. RelaysSortedForTransaction(deps)[2] = second
      BY DEF RelaysSortedForTransaction
    <3>2. DOMAIN sorted = 1..Cardinality(DOMAIN all)
      BY DEF SortRelays
    <3>3. second = <<>>
      BY <1>1, <3>1
    <3>4. DOMAIN second = {}
      BY <3>3
    <3>5. IsFiniteSet(DOMAIN all) /\ Cardinality(DOMAIN all) \in Nat
      BY <1>0, FS_CardinalityType DEF SeenInv, ListsInv
    <3> HIDE DEF sorted
    <3>6. 1..Cardinality(DOMAIN all) = {}
      BY <3>2, <3>4
    <3>7. DOMAIN all = {}
      BY <3>5, <3>6, FS_EmptySet
    <3> QED
      BY <3>7 DEF Listed
  <2>3. ASSUME ~call[c].raced, NEW i \in Owed PROVE Quiet /\ i > call[c].since
    <3>1. Quiet /\ ~(i <= call[c].since)
      BY <1>0, <2>2, <2>3 DEF SeenInv, Informed, At
    <3>2. i \in Nat /\ call[c].since \in Nat
      BY <1>0 DEF SeenInv, Timely, Watched, ListsInv, Owed
    <3> QED
      BY <3>1, <3>2
  <2>4. ~call[c].raced => Quiet
    BY <1>0 DEF SeenInv, Informed, At
  <2>5. KeepsPace(c)
    BY <1>0, <2>1 DEF KeepsPace, Watched
  <2> QED
    BY <1>0, <2>1, <2>3, <2>4, <2>5, MoverKeeps
<1>2. CASE ~ \A i \in 1..2 : RelaysSortedForTransaction(deps)[i] = <<>>
  <2>1. PICK lists : call' = [call EXCEPT ![c].remaining = lists, ![c].since = 0, ![c].pc = "next"]
    BY <1>2 DEF StartSelection
  <2>2. Proceeds(c)
    BY <1>0, <2>1 DEF Proceeds, Kept, Resting
  <2> QED
    BY <2>2, ProceedsKeeps
<1> QED
  BY <1>1, <1>2

(* Choosing, trying and giving up a relay, and calling back.               *)
LEMMA ChoosingKeepsSeen ==
    ASSUME SeenInv, NEW c \in Calls,
           \/ SelectNextRelay(c) \/ PingSucceeds(c) \/ PingFails(c) \/ LookupPreferred(c)
           \/ Prepare(c) \/ AttemptFails(c) \/ ViewCallAccepts(c) \/ RpcFails(c)
           \/ BroadcastRawTx(c) \/ Callback(c)
    PROVE  SeenInv'
<1>0. Kept \subseteq DOMAIN call[c] /\ DOMAIN call = Calls
  BY DEF SeenInv, ListsInv
<1>00. UNCHANGED <<world, log, past, deps, known, initialized>>
  BY DEF SelectNextRelay, PingSucceeds, PingFails, LookupPreferred, Prepare, AttemptFails,
         ViewCallAccepts, RpcFails, BroadcastRawTx, Callback, chainVars, clientVars
<1> USE <1>0, <1>00 DEF Proceeds, Kept, Resting, At
<1>1. CASE SelectNextRelay(c)
  <2>1. CASE Settle(c, "failed")
    BY <1>1, <2>1, SettleKeepsSeen DEF SelectNextRelay, Settled
  <2>2. CASE ~Settle(c, "failed")
    <3>1. PICK slice, pings : call' = [call EXCEPT ![c].pc = "race", ![c].slice = slice,
                                                   ![c].pings = pings]
      BY <1>1, <2>2 DEF SelectNextRelay
    <3>2. call[c].pc = "next"
      BY <1>1 DEF SelectNextRelay
    <3>3. Proceeds(c)
      BY <3>1, <3>2
    <3> QED
      BY <3>3, ProceedsKeeps
  <2> QED
    BY <2>1, <2>2
<1>2. CASE PingSucceeds(c)
  <2> DEFINE left(i) == Without(call[c].remaining, call[c].errors \cup {call[c].slice[i].url})
  <2>1. PICK i \in call[c].pings : \E query, pc :
           /\ pc \in {"lookup", "attempt"}
           /\ call' = [call EXCEPT ![c].remaining = left(i), ![c].relay = call[c].slice[i],
                                   ![c].slice = <<>>, ![c].pings = {}, ![c].errors = {},
                                   ![c].query = query, ![c].pc = pc]
    BY <1>2, RaceWon, Zenon
  <2>2. call[c].pc = "race"
    BY <1>2 DEF PingSucceeds
  <2> HIDE DEF left
  <2>3. Proceeds(c)
    BY <2>1, <2>2
  <2> QED
    BY <2>3, ProceedsKeeps
<1>3. CASE PingFails(c)
  <2> DEFINE errors(i)    == call[c].errors \cup {call[c].slice[i].url}
             over(i)      == Cardinality(errors(i)) = Cardinality(DOMAIN call[c].slice)
             slice(i)     == IF over(i) THEN <<>> ELSE call[c].slice
             pings(i)     == IF over(i) THEN {} ELSE call[c].pings \ {i}
             failed(i)    == IF over(i) THEN {} ELSE errors(i)
             remaining(i) == IF over(i) THEN Without(call[c].remaining, errors(i))
                             ELSE call[c].remaining
             pc(i)        == IF over(i) THEN "next" ELSE "race"
  <2>1. PICK i \in call[c].pings :
           call' = [call EXCEPT ![c].slice = slice(i), ![c].pings = pings(i),
                                ![c].errors = failed(i), ![c].remaining = remaining(i),
                                ![c].pc = pc(i)]
    BY <1>3, Zenon DEF PingFails
  <2>2. call[c].pc = "race" /\ pc(i) \in {"next", "race"}
    BY <1>3 DEF PingFails
  <2> HIDE DEF slice, pings, failed, remaining, pc
  <2>3. Proceeds(c)
    BY <2>1, <2>2
  <2> QED
    BY <2>3, ProceedsKeeps
<1>4. CASE LookupPreferred(c)
  <2>1. CASE Settle(c, "rejected")
    BY <1>4, <2>1, SettleKeepsSeen DEF LookupPreferred, Settled
  <2>2. CASE ~Settle(c, "rejected")
    <3>1. PICK m : call' = [call EXCEPT ![c].relay.manager = m, ![c].query = NoQuery,
                                        ![c].pc = "attempt"]
      BY <1>4, <2>2 DEF LookupPreferred
    <3>2. call[c].pc = "lookup"
      BY <1>4 DEF LookupPreferred
    <3>3. Proceeds(c)
      BY <3>1, <3>2
    <3> QED
      BY <3>3, ProceedsKeeps
  <2> QED
    BY <2>1, <2>2
<1>5. CASE Prepare(c)
  <2>1. Proceeds(c)
    BY <1>5 DEF Prepare
  <2> QED
    BY <2>1, ProceedsKeeps
<1>9. CASE AttemptFails(c)
  <2>1. Proceeds(c)
    BY <1>9 DEF AttemptFails, Abandoned
  <2> QED
    BY <2>1, ProceedsKeeps
<1>10. CASE ViewCallAccepts(c)
  <2>1. Proceeds(c)
    BY <1>10 DEF ViewCallAccepts, Goto
  <2> QED
    BY <2>1, ProceedsKeeps
<1>6. CASE RpcFails(c)
  <2>1. Settle(c, "rejected") /\ call[c].pc # "idle"
    BY <1>6 DEF RpcFails
  <2>2. "rejected" \in Settled \ {"norelayers"}
    BY DEF Settled
  <2> QED
    BY <2>1, <2>2, SettleKeepsSeen
<1>7. CASE BroadcastRawTx(c)
  <2>1. Settle(c, "relayed") /\ call[c].pc # "idle"
    BY <1>7 DEF BroadcastRawTx
  <2>2. "relayed" \in Settled \ {"norelayers"}
    BY DEF Settled
  <2> QED
    BY <2>1, <2>2, SettleKeepsSeen
<1>8. CASE Callback(c)
  <2>1. Proceeds(c)
    BY <1>8 DEF Callback, Settled
  <2> QED
    BY <2>1, ProceedsKeeps
<1> QED
  BY <1>1, <1>2, <1>3, <1>4, <1>5, <1>6, <1>7, <1>8, <1>9, <1>10

(* However the relay answers, if it does.                                  *)
LEMMA RelayKeepsSeen ==
    ASSUME SeenInv, NEW c \in Calls,
           \/ RelayAnswers(c) \/ RelayCheats(c) \/ RelayExceedsNonce(c)
           \/ RelayRefuses(c) \/ RelayTimesOut(c)
    PROVE  SeenInv'
<1>0. Kept \subseteq DOMAIN call[c] /\ DOMAIN call = Calls
  BY DEF SeenInv, ListsInv
<1>1. UNCHANGED <<world, log, past, deps, known, initialized>> /\ call[c].pc = "send"
  BY DEF RelayAnswers, RelayCheats, RelayExceedsNonce, RelayRefuses, RelayTimesOut, At,
         chainVars, clientVars
<1>2. \/ call' = [call EXCEPT ![c] = Lost(c)] \/ call' = [call EXCEPT ![c] = Abandoned(c)]
      \/ call' = [call EXCEPT ![c].pc = "broadcast"]
  BY DEF RelayAnswers, RelayCheats, RelayExceedsNonce, RelayRefuses, RelayTimesOut, Goto
<1>3. Proceeds(c)
  BY <1>0, <1>1, <1>2 DEF Proceeds, Kept, Resting, Lost, Abandoned
<1> QED
  BY <1>3, ProceedsKeeps

(* Events are added to the log, and events leave the windows.             *)
HubMoves ==
    /\ log' \in Seq(Events) /\ Len(log') \in Nat /\ Len(log) <= Len(log')
    /\ DOMAIN log' = 1..Len(log') /\ \A i \in DOMAIN log : log'[i] = log[i]
    /\ past' \in [active : Nat, registered : Nat]
    /\ past'.active >= past.active /\ past'.registered >= past.registered

LEMMA HubKeepsSeen ==
    ASSUME SeenInv, UNCHANGED <<call, world, deps, known, initialized>>, HubMoves
    PROVE  SeenInv'
<1>1. /\ log \in Seq(Events) /\ past.active \in Nat /\ past.registered \in Nat
      /\ Len(log) \in Nat /\ DOMAIN log = 1..Len(log)
  BY DEF SeenInv, ListsInv
<1>2. /\ Len(log') \in Nat /\ Len(log) <= Len(log') /\ DOMAIN log' = 1..Len(log')
      /\ \A i \in DOMAIN log : i \in DOMAIN log' /\ log'[i] = log[i]
  BY <1>1 DEF HubMoves
<1>3. /\ past'.active \in Nat /\ past'.registered \in Nat
      /\ past'.active >= past.active /\ past'.registered >= past.registered
  BY DEF HubMoves
<1>4. ASSUME NEW i \in DOMAIN log, StillRegistered(i)' PROVE StillRegistered(i)
  BY <1>2, <1>4 DEF StillRegistered
<1>5. ListsInv'
  BY DEF SeenInv, ListsInv, Waiting, HubMoves
<1>6. Timely'
  <2>1. ASSUME NEW c \in Calls, call[c].pc \in Watched
        PROVE  call[c].since \in Nat /\ call[c].since <= Len(log')
    <3>1. call[c].since \in Nat /\ call[c].since <= Len(log)
      BY <2>1 DEF SeenInv, Timely
    <3> QED
      BY <1>1, <1>2, <3>1
  <2> QED
    BY <2>1 DEF SeenInv, Timely, At
<1>7. ASSUME NEW c \in Calls, At(c, "info") PROVE Sound(c)'
  <2>1. Sound(c)
    BY <1>7 DEF SeenInv
  <2>0. call[c].query.asked \in Nat /\ call[c].query.asked <= Len(log)
    BY <2>1 DEF Sound
  <2>2. ASSUME NEW i \in DOMAIN log', StillRegistered(i)', i > past'.active, i <= call[c].query.asked
        PROVE  log'[i].manager \in call[c].query.managers
    <3>1. i \in DOMAIN log
      BY <1>1, <1>2, <2>0, <2>2
    <3>2. i > past.active
      BY <1>1, <1>3, <2>2, <3>1
    <3> QED
      BY <1>2, <1>4, <2>1, <2>2, <3>1, <3>2 DEF Sound
  <2>3. call[c].query.asked <= Len(log')
    BY <1>1, <1>2, <2>0
  <2>4. call[c].query.from \in Nat /\ call[c].query.from <= past.registered
          => call[c].query.from <= past'.registered
    BY <1>1, <1>3
  <2> QED
    BY <2>1, <2>2, <2>3, <2>4 DEF Sound
<1>8. ASSUME NEW i \in Owed', i \in DOMAIN log PROVE i \in Owed /\ (i \in Listed => i \in Listed')
  <2>1. i > past.active /\ i > past.registered
    BY <1>1, <1>3, <1>8 DEF Owed
  <2> QED
    BY <1>2, <1>4, <1>8, <2>1 DEF Owed, Listed
<1>9. ASSUME NEW i \in Owed', i \notin DOMAIN log PROVE i \in Nat /\ i > Len(log)
  <2>1. i \in DOMAIN log'
    BY DEF Owed
  <2> QED
    BY <1>1, <1>2, <1>9, <2>1
<1>10. ASSUME NEW c \in Calls PROVE Informed(c)'
  <2>1. ASSUME call[c].pc \in Watched, NEW i \in Owed', i \notin DOMAIN log
        PROVE  i > call[c].since /\ ~(i <= call[c].since)
    <3>1. call[c].since \in Nat /\ call[c].since <= Len(log)
      BY <2>1 DEF SeenInv, Timely
    <3> QED
      BY <1>1, <1>9, <2>1, <3>1
  <2>2. call[c].pc = "select" => \A i \in Owed' : i <= call[c].since =>
          (i \in DOMAIN log)
    BY <2>1 DEF Watched
  <2> QED
    BY <1>8, <2>1, <2>2 DEF SeenInv, Informed, Quiet, At, Watched
<1> QED
  BY <1>5, <1>6, <1>7, <1>10 DEF SeenInv, At

(* One more event keeps the ones there are.                                *)
LEMMA OneMore ==
    ASSUME NEW S, NEW s \in Seq(S), NEW e \in S
    PROVE  LET longer == Append(s, e)
           IN  /\ longer \in Seq(S) /\ Len(longer) \in Nat /\ Len(s) <= Len(longer)
               /\ DOMAIN longer = 1..Len(longer) /\ \A i \in DOMAIN s : longer[i] = s[i]
OBVIOUS

LEMMA EventsKeepSeen ==
    ASSUME SeenInv, BlocksPass \/ \E m \in Managers : Register(m) \/ Exit(m)
    PROVE  SeenInv'
<1>1. UNCHANGED <<call, world, deps, known, initialized>>
  BY DEF BlocksPass, Register, Exit, clientVars
<1>2. /\ log \in Seq(Events) /\ Len(log) \in Nat /\ DOMAIN log = 1..Len(log)
      /\ past \in [active : Nat, registered : Nat]
  BY DEF SeenInv, ListsInv
<1>3. CASE BlocksPass
  <2>1. \/ past' = [past EXCEPT !.active = @ + 1] \/ past' = [past EXCEPT !.registered = @ + 1]
    BY <1>3 DEF BlocksPass
  <2>2. /\ past' \in [active : Nat, registered : Nat]
        /\ past'.active >= past.active /\ past'.registered >= past.registered
    BY <1>2, <2>1
  <2>3. log' = log
    BY <1>3 DEF BlocksPass
  <2>4. HubMoves
    BY <1>2, <2>2, <2>3 DEF HubMoves
  <2> QED
    BY <1>1, <2>4, HubKeepsSeen
<1>4. CASE \E m \in Managers : Register(m) \/ Exit(m)
  <2>1. PICK e \in Events : log' = Append(log, e)
    BY <1>4 DEF Register, Exit, Events
  <2>2. past' = past
    BY <1>4 DEF Register, Exit
  <2>3. HubMoves
    BY <1>2, <2>1, <2>2, OneMore DEF HubMoves
  <2> QED
    BY <1>1, <2>3, HubKeepsSeen
<1> QED
  BY <1>3, <1>4

(* Every step of the client, the relays and the chain keeps the invariant. *)
LEMMA NextKeepsSeen == SeenInv /\ [Next]_vars => SeenInv'
<1> SUFFICES ASSUME SeenInv, [Next]_vars PROVE SeenInv'
  OBVIOUS
<1>1. CASE AuditorAnswers \/ Mine \/ UNCHANGED vars
  <2>1. UNCHANGED <<call, world, log, past, deps, known, initialized>>
    BY <1>1 DEF AuditorAnswers, Mine, vars, chainVars, clientVars
  <2> QED
    BY <2>1, OthersKeepSeen
<1> QED
  BY <1>1, BeginKeepsSeen, InitKeepsSeen, FetchKeepsSeen, QueryKeepsSeen, AnswerKeepsSeen,
     StartKeepsSeen, ChoosingKeepsSeen, RelayKeepsSeen, EventsKeepSeen
  DEF Next, ClientStep, HttpStep

(* At first nobody has called.                                             *)
LEMMA InitSeen == Init => SeenInv
<1> SUFFICES ASSUME Init PROVE SeenInv
  OBVIOUS
<1>1. /\ call = [c \in Calls |-> NoCall] /\ deps = 0
      /\ known = [g \in Generations |-> [all |-> <<>>, preferred |-> FALSE]]
      /\ past = [active |-> 0, registered |-> 0]
  BY DEF Init
<1>2. DOMAIN call = Calls /\ \A c \in Calls : Kept \subseteq DOMAIN call[c] /\ call[c].pc = "idle"
  BY <1>1 DEF NoCall, Kept
<1>3. log \in Seq(Events)
  BY ClientAssumption DEF Init
<1>4. /\ DOMAIN known = Generations
      /\ \A g \in Generations : /\ {"all", "preferred"} \subseteq DOMAIN known[g]
                                /\ IsFiniteSet(DOMAIN known[g].all)
  <2>1. DOMAIN <<>> = {} /\ IsFiniteSet({})
    BY FS_EmptySet
  <2> QED
    BY <1>1, <2>1
<1>5. Waiting = Calls
  BY <1>2 DEF Waiting
<1>6. ListsInv
  BY <1>1, <1>2, <1>3, <1>4, <1>5, WaitingFinite DEF ListsInv
<1> QED
  BY <1>2, <1>6 DEF SeenInv, Timely, Informed, At, Watched

(* A call that began on an initialized client, with no other call still    *)
(* initializing it, fails with "no registered relayers" only when every    *)
(* registration on the hub is of a manager the relay filter refuses, lies  *)
(* before a lookup window, or is later than the oldest refresh that was    *)
(* under way: whatever the other calls refresh, the list it selects from   *)
(* was asked for no earlier, and read whole (KnownRelaysManager.refresh,   *)
(* getRelayInfoForManagers, RelayClient.relayTransaction).                 *)
THEOREM NobodyMissed == Spec => []NoRelayersMeansNone
<1>1. Spec => []SeenInv
  BY InitSeen, NextKeepsSeen, PTL DEF Spec
<1>2. ASSUME SeenInv PROVE NoRelayersMeansNone
  <2> SUFFICES ASSUME NEW c \in Calls, At(c, "norelayers"), ~call[c].raced,
                      NEW i \in DOMAIN log, StillRegistered(i)
               PROVE  \/ log[i].manager \notin world.accepted
                      \/ i <= past.active \/ i <= past.registered
                      \/ i > call[c].since
    BY DEF NoRelayersMeansNone
  <2>1. i \in Owed => i > call[c].since
    BY <1>2 DEF SeenInv, Informed, At
  <2>2. i \in Nat /\ past.active \in Nat /\ past.registered \in Nat
    BY <1>2 DEF SeenInv, ListsInv
  <2> QED
    BY <2>1, <2>2 DEF Owed
<1> QED
  BY <1>1, <1>2, PTL
===============================================================================
