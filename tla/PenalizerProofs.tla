--------------------------- MODULE PenalizerProofs ---------------------------
(***************************************************************************)
(* The auditor, for any number of requests and interval handlers, any      *)
(* transactions and any explorer pages.  Three facts, each with an         *)
(* invariant of its own: a reveal is due on the word of its commitment,    *)
(* because a commitment is mined once; a handler that is alone has in hand *)
(* what it took off the schedule and nobody else reveals; and the first    *)
(* search has read, stored and found unfit every page before its last one. *)
(***************************************************************************)
EXTENDS Penalizer, SequenceTheorems, FiniteSetTheorems, WellFoundedInduction, TLAPS

(* ------------------------- the inductive invariant ------------------------ *)

Listed == Txs \cup {Incoming}

\* What a filter may keep of a list whose items are in S.
Kept(S) == UNION {[D -> S] : D \in SUBSET Nat}

AuditRecords ==
    [pc : PcsOfAudits, pass : Passes, tx : Txs \cup {NoTx}, last : Nat, page : Seq(Listed),
     left : Kept(Txs), found : Txs \cup {NoTx}, seen : Nat,
     searched : BOOLEAN, missed : BOOLEAN]

HandlerRecords ==
    [pc : {"idle", "events", "block", "reveal"}, asked : SUBSET Penalizations,
     todo : Kept(Penalizations)]

TodoWhenRevealing ==
    \A h \in Handlers : (handler[h].pc = "reveal") <=> (DOMAIN handler[h].todo # {})

TypesAre ==
    /\ world \in Worlds /\ listing \in Seq(Listed)
    /\ block \in 0..world.blocks
    /\ commits \in [Penalizations -> Nat] /\ ready \in [Penalizations -> Nat]
    /\ pool \subseteq Penalizations
    /\ pages \in Nat /\ txstore \subseteq Txs
    /\ audit \in [Audits -> AuditRecords]
    /\ \A a \in Audits : audit[a].pc \in {"fetch", "put", "page", "insert"} => audit[a].last # 0
    /\ scheduled \in Seq(Penalizations)
    /\ handler \in [Handlers -> HandlerRecords]
    /\ TodoWhenRevealing
    /\ reveals \subseteq [of : Penalizations, at : Nat, by : Handlers]
    /\ dropped \subseteq [of : Penalizations, at : Nat]
    /\ overlapped \in BOOLEAN

\* An audit that has not reached its commitment has put nothing on the
\* schedule, and one that is not over has broadcast nothing.
Fresh(p) == /\ p \notin Range(scheduled)
            /\ \A r \in reveals : r.of # p
Schedules == \A p \in Penalizations : audit[p[1]].pc \notin {"commit", "done"} => Fresh(p)

Broadcasts ==
    /\ \A p \in Penalizations : audit[p[1]].pc # "done" => commits[p] = 0 /\ p \notin pool
    /\ \A p \in pool : commits[p] = 0

\* What a handler has set out to reveal is due, on its commitment's word.
ReadyIsKnown == \A p \in Penalizations : ready[p] # 0 => ready[p] = commits[p]
IsDue(p, b)  == commits[p] # 0 /\ commits[p] <= b
TakenAreDue  == \A h \in Handlers : \A i \in DOMAIN handler[h].todo : IsDue(handler[h].todo[i], block)
RevealedDue  == \A r \in reveals : IsDue(r.of, r.at)

Timely == /\ Schedules /\ Broadcasts /\ ReadyIsKnown /\ TakenAreDue /\ RevealedDue /\ IsInjective(scheduled)

\* A handler that is alone has the first of what it took off the schedule in
\* hand, the rest is still on it, and none of that was revealed before.
OneHandler ==
    \A g, h \in Handlers : g = h \/ handler[g].pc = "idle" \/ handler[h].pc = "idle"

Holds(todo) ==
    /\ IsInjective(todo)
    /\ \A i \in DOMAIN todo : \A r \in reveals : r.of # todo[i]
    /\ FirstOf(todo) \notin Range(scheduled)
    /\ \A i \in DOMAIN RestOf(todo) : todo[i] \in Range(scheduled)

Lonely ==
    ~overlapped =>
        /\ OneHandler
        /\ \A h \in Handlers : handler[h].pc = "reveal" => Holds(handler[h].todo)
        /\ \A i \in DOMAIN scheduled : \A r \in reveals : r.of # scheduled[i]
        /\ RemovesOnlyReady
        /\ \A r, q \in reveals : r.of = q.of => r = q

\* An audit says whether it has searched, by what it still has to do.
Early     == {"idle", "validate", "mined", "nonce", "cached"}
Searching == {"last", "fetch", "put", "page", "insert"}
Says(s)   == /\ s.pc \in Searching => s.searched
             /\ s.pc \in Early => ~s.searched
             /\ s.missed => s.pc = "done"

SearchesSay == \A a \in Audits : Says(audit[a])

Alone(a) == \A b \in Audits \ {a} : ~audit[b].searched

Untouched == (\A a \in Audits : ~audit[a].searched) => pages = 0 /\ txstore = {}

\* The places before page n.
Before(n) == (n - 1) * PageSize

\* None of the first k transactions listed answers the question of audit a.
NoneIn(a, k) ==
    \A i \in 1..k : listing[i] # Incoming => listing[i].nonce # audit[a].tx.nonce

\* Every page before the last was full, is stored and has no answer.
PagesRead(a) ==
    LET k == Before(audit[a].last)
    IN /\ k <= Len(listing)
       /\ NoneIn(a, k)
       /\ audit[a].last = 1 => pages = 0
       /\ pages < audit[a].last

StoredBefore(a, t) == \E i \in 1..Before(audit[a].last) : listing[i] = t

\* The page in hand is the list's, as far as it went when it was fetched.
PageInHand(a) ==
    LET k == Before(audit[a].last)
        s == audit[a]
    IN /\ k <= s.seen /\ s.seen <= Len(listing)
       /\ Len(s.page) <= PageSize
       /\ Len(s.page) < PageSize => s.seen = k + Len(s.page)
       /\ k + Len(s.page) <= s.seen
       /\ \A i \in DOMAIN s.page : s.page[i] = listing[k + i]

\* What is left to store of the page in hand; the rest of it is in the store.
LeftOfPage(a) ==
    LET s == audit[a]
    IN /\ \A i \in DOMAIN s.left : i \in DOMAIN s.page /\ s.left[i] = s.page[i] /\ s.left[i] # Incoming
       /\ \A t \in txstore : \/ StoredBefore(a, t)
                             \/ \E i \in DOMAIN s.page \ DOMAIN s.left : s.page[i] = t

Search(a) ==
    /\ audit[a].pc = "last" => pages = 0 /\ txstore = {}
    /\ audit[a].pc \in {"fetch", "put", "page"} =>
         PagesRead(a) /\ \A t \in txstore : StoredBefore(a, t)
    /\ audit[a].pc \in {"put", "page"} => PageInHand(a)
    /\ audit[a].pc = "page" => pages = 0
    /\ audit[a].pc = "insert" => /\ pages <= audit[a].last /\ pages # 0
                                 /\ NoneIn(a, Before(audit[a].last))
                                 /\ PageInHand(a) /\ LeftOfPage(a)
    /\ audit[a].missed => audit[a].seen <= Len(listing) /\ NoneIn(a, audit[a].seen)

Searches ==
    /\ SearchesSay /\ Untouched /\ Numbered(listing)
    /\ \A a \in Audits : Alone(a) => Search(a)

(* ------------------------- lists kept by a filter ------------------------- *)

LEMMA KeptIs ==
    ASSUME NEW S, NEW list \in Kept(S)
    PROVE  /\ DOMAIN list \subseteq Nat
           /\ list \in [DOMAIN list -> S]
BY DEF Kept

LEMMA KeptIf ==
    ASSUME NEW S, NEW D, D \subseteq Nat, NEW list \in [D -> S]
    PROVE  list \in Kept(S)
BY DEF Kept

LEMMA NothingKept ==
    ASSUME NEW S
    PROVE  <<>> \in Kept(S) /\ DOMAIN <<>> = {}
<1>1. DOMAIN <<>> = {}
  OBVIOUS
<1>2. <<>> \in [{} -> S]
  BY <1>1
<1> QED
  BY <1>1, <1>2, KeptIf

(* Of the natural numbers in a set one is the smallest.                    *)
LEMMA SmallestPlace ==
    ASSUME NEW T, T \subseteq Nat, T # {}
    PROVE  \E m \in T : \A k \in T : m <= k
<1>1. PICK m \in T : \A k \in T : ~(<<k, m>> \in OpToRel(<, Nat))
  BY NatLessThanWellFounded, WFMin
<1>2. ASSUME NEW k \in T PROVE m <= k
  <2>1. k \in Nat /\ m \in Nat
    OBVIOUS
  <2>2. ~(k < m)
    BY <1>1, <2>1 DEF OpToRel
  <2> QED
    BY <2>1, <2>2
<1> QED
  BY <1>2

LEMMA FirstAndRest ==
    ASSUME NEW S, NEW list \in Kept(S), DOMAIN list # {}
    PROVE  /\ FirstPlace(list) \in DOMAIN list
           /\ FirstOf(list) = list[FirstPlace(list)] /\ FirstOf(list) \in S
           /\ RestOf(list) \in Kept(S)
           /\ DOMAIN RestOf(list) = DOMAIN list \ {FirstPlace(list)}
           /\ \A i \in DOMAIN RestOf(list) : RestOf(list)[i] = list[i]
<1>1. DOMAIN list \subseteq Nat /\ list \in [DOMAIN list -> S]
  BY KeptIs
<1>2. \E m \in DOMAIN list : \A k \in DOMAIN list : m <= k
  BY <1>1, SmallestPlace
<1>3. FirstPlace(list) \in DOMAIN list
  BY <1>2 DEF FirstPlace
<1>4. FirstOf(list) = list[FirstPlace(list)] /\ FirstOf(list) \in S
  BY <1>1, <1>3 DEF FirstOf
<1> DEFINE D == DOMAIN list \ {FirstPlace(list)}
<1>5. RestOf(list) = [i \in D |-> list[i]]
  BY DEF RestOf, Restrict
<1>6. RestOf(list) \in [D -> S] /\ D \subseteq Nat
  BY <1>1, <1>5
<1>7. RestOf(list) \in Kept(S)
  BY <1>6, KeptIf
<1> QED
  BY <1>3, <1>4, <1>5, <1>7

(* What a filter of a sequence keeps.                                      *)
LEMMA RestrictedList ==
    ASSUME NEW S, NEW T, NEW s \in Seq(S), NEW D, D \subseteq DOMAIN s,
           \A i \in D : s[i] \in T
    PROVE  /\ Restrict(s, D) \in Kept(T)
           /\ DOMAIN Restrict(s, D) = D
           /\ \A i \in D : Restrict(s, D)[i] = s[i]
<1>1. DOMAIN s = 1..Len(s) /\ Len(s) \in Nat
  BY LenProperties
<1>2. D \subseteq Nat
  BY <1>1
<1>3. Restrict(s, D) = [i \in D |-> s[i]]
  BY DEF Restrict
<1>4. Restrict(s, D) \in [D -> T]
  BY <1>3
<1> QED
  BY <1>2, <1>3, <1>4, KeptIf

(* One splice of the schedule: the item at a place is gone, the others are *)
(* there, and no item is there twice that was not.                         *)
LEMMA Spliced ==
    ASSUME NEW S, NEW s \in Seq(S), NEW k \in 1..Len(s)
    PROVE  /\ RemoveAt(s, k) \in Seq(S)
           /\ Range(RemoveAt(s, k)) \subseteq Range(s)
           /\ \A i \in DOMAIN s : i # k => s[i] \in Range(RemoveAt(s, k))
           /\ IsInjective(s) => /\ IsInjective(RemoveAt(s, k))
                                /\ s[k] \notin Range(RemoveAt(s, k))
<1>1. Len(s) \in Nat /\ DOMAIN s = 1..Len(s) /\ \A i \in 1..Len(s) : s[i] \in S
  BY LenProperties
<1> DEFINE f == SubSeq(s, 1, k - 1)
           g == SubSeq(s, k + 1, Len(s))
           t == RemoveAt(s, k)
<1>2. /\ f \in Seq(S) /\ Len(f) = k - 1
      /\ \A i \in 1..(k - 1) : f[i] = s[i]
  <2>1. k - 1 \in Int /\ \A i \in 1..(k - 1) : s[i] \in S
    BY <1>1
  <2>2. /\ f \in Seq(S) /\ Len(f) = IF 1 <= k - 1 THEN (k - 1) - 1 + 1 ELSE 0
        /\ \A i \in 1..((k - 1) - 1 + 1) : f[i] = s[1 + i - 1]
    BY <2>1, SubSeqProperties
  <2> QED
    BY <2>2
<1>3. /\ g \in Seq(S) /\ Len(g) = Len(s) - k
      /\ \A i \in 1..(Len(s) - k) : g[i] = s[k + i]
  <2>1. k + 1 \in Int /\ \A i \in (k + 1)..Len(s) : s[i] \in S
    BY <1>1
  <2>2. /\ g \in Seq(S) /\ Len(g) = IF k + 1 <= Len(s) THEN Len(s) - (k + 1) + 1 ELSE 0
        /\ \A i \in 1..(Len(s) - (k + 1) + 1) : g[i] = s[(k + 1) + i - 1]
    BY <1>1, <2>1, SubSeqProperties
  <2> HIDE DEF g
  <2>3. Len(g) = Len(s) - k
    <3>1. Len(s) \in Nat /\ k \in Nat /\ k <= Len(s)
      BY <1>1
    <3>2. CASE k + 1 <= Len(s)
      BY <2>2, <3>1, <3>2
    <3>3. CASE ~(k + 1 <= Len(s))
      BY <2>2, <3>1, <3>3
    <3> QED
      BY <3>2, <3>3
  <2>4. ASSUME NEW i \in 1..(Len(s) - k) PROVE g[i] = s[k + i]
    <3>1. i \in 1..(Len(s) - (k + 1) + 1) /\ (k + 1) + i - 1 = k + i
      BY <1>1
    <3> QED
      BY <2>2, <3>1
  <2> QED
    BY <2>2, <2>3, <2>4
<1>4. t = f \o g
  BY DEF RemoveAt
<1> HIDE DEF f, g, t
<1>5. /\ t \in Seq(S) /\ Len(t) = Len(s) - 1
      /\ \A i \in 1..(Len(s) - 1) : t[i] = IF i < k THEN s[i] ELSE s[i + 1]
  <2>1. /\ t \in Seq(S) /\ Len(t) = Len(f) + Len(g)
        /\ \A i \in 1..(Len(f) + Len(g)) : t[i] = IF i <= Len(f) THEN f[i] ELSE g[i - Len(f)]
    <3>1. /\ f \o g \in Seq(S) /\ Len(f \o g) = Len(f) + Len(g)
          /\ \A i \in 1..(Len(f) + Len(g)) :
                (f \o g)[i] = IF i <= Len(f) THEN f[i] ELSE g[i - Len(f)]
      BY <1>2, <1>3, ConcatProperties
    <3> QED
      BY <1>4, <3>1
  <2>2. ASSUME NEW i \in 1..(Len(s) - 1) PROVE t[i] = IF i < k THEN s[i] ELSE s[i + 1]
    <3>0. i \in 1..(Len(f) + Len(g)) /\ Len(f) = k - 1
      BY <1>1, <1>2, <1>3
    <3>1. CASE i < k
      <4>1. i <= Len(f) /\ i \in 1..(k - 1)
        BY <1>1, <3>0, <3>1
      <4>2. t[i] = f[i] /\ f[i] = s[i]
        BY <1>2, <2>1, <3>0, <4>1
      <4> QED
        BY <3>1, <4>2
    <3>2. CASE ~(i < k)
      <4>1. i - (k - 1) \in 1..(Len(s) - k)
        BY <1>1, <3>2
      <4>2. t[i] = g[i - (k - 1)]
        <5>1. ~(i <= Len(f)) /\ i - Len(f) = i - (k - 1)
          BY <1>1, <3>0, <3>2
        <5> QED
          BY <2>1, <3>0, <5>1
      <4>3. g[i - (k - 1)] = s[k + (i - (k - 1))]
        BY <1>3, <4>1
      <4>4. k + (i - (k - 1)) = i + 1
        BY <1>1
      <4> QED
        BY <3>2, <4>2, <4>3, <4>4
    <3> QED
      BY <3>1, <3>2
  <2> QED
    BY <1>1, <1>2, <1>3, <2>1, <2>2
<1>6. DOMAIN t = 1..(Len(s) - 1)
  BY <1>5, LenProperties
<1>7. ASSUME NEW i \in DOMAIN t
      PROVE  \E j \in DOMAIN s : /\ t[i] = s[j] /\ j # k
                                 /\ j = IF i < k THEN i ELSE i + 1
  BY <1>1, <1>5, <1>6
<1>8. Range(t) \subseteq Range(s)
  BY <1>7 DEF Range
<1>9. ASSUME NEW i \in DOMAIN s, i # k PROVE s[i] \in Range(t)
  <2>1. CASE i < k
    <3>1. i \in DOMAIN t /\ t[i] = s[i]
      BY <1>1, <1>5, <1>6, <2>1
    <3> QED
      BY <3>1 DEF Range
  <2>2. CASE ~(i < k)
    <3>1. i - 1 \in DOMAIN t /\ t[i - 1] = s[i]
      BY <1>1, <1>5, <1>6, <1>9, <2>2
    <3> QED
      BY <3>1 DEF Range
  <2> QED
    BY <2>1, <2>2
<1>10. ASSUME IsInjective(s) PROVE IsInjective(t) /\ s[k] \notin Range(t)
  <2>1. ASSUME NEW i \in DOMAIN t, NEW j \in DOMAIN t, t[i] = t[j] PROVE i = j
    <3>1. PICK m \in DOMAIN s : t[i] = s[m] /\ m # k /\ m = IF i < k THEN i ELSE i + 1
      BY <1>7
    <3>2. PICK n \in DOMAIN s : t[j] = s[n] /\ n # k /\ n = IF j < k THEN j ELSE j + 1
      BY <1>7
    <3>3. m = n
      BY <1>10, <2>1, <3>1, <3>2 DEF IsInjective
    <3> QED
      BY <1>1, <1>6, <3>1, <3>2, <3>3
  <2>2. s[k] \notin Range(t)
    <3>1. ASSUME NEW i \in DOMAIN t PROVE t[i] # s[k]
      <4>1. PICK m \in DOMAIN s : t[i] = s[m] /\ m # k
        BY <1>7
      <4> QED
        BY <1>1, <1>10, <4>1 DEF IsInjective
    <3> QED
      BY <3>1 DEF Range
  <2> QED
    BY <2>1, <2>2 DEF IsInjective
<1> QED
  BY <1>5, <1>8, <1>9, <1>10 DEF t

(* ---------------------------------- types --------------------------------- *)

LEMMA OutgoingKept ==
    ASSUME NEW list \in Seq(Listed)
    PROVE  /\ Outgoing(list) \in Kept(Txs)
           /\ DOMAIN Outgoing(list) = {i \in DOMAIN list : list[i] # Incoming}
           /\ \A i \in DOMAIN Outgoing(list) : Outgoing(list)[i] = list[i]
<1> DEFINE D == {i \in DOMAIN list : list[i] # Incoming}
<1>1. \A i \in D : list[i] \in Txs
  <2>1. \A i \in DOMAIN list : list[i] \in Listed
    BY LenProperties
  <2> QED
    BY <2>1 DEF Listed
<1>2. Outgoing(list) = Restrict(list, D) /\ D \subseteq DOMAIN list
  BY DEF Outgoing
<1> HIDE DEF D
<1>3. /\ Restrict(list, D) \in Kept(Txs)
      /\ DOMAIN Restrict(list, D) = D
      /\ \A i \in D : Restrict(list, D)[i] = list[i]
  <2>1. D \subseteq DOMAIN list
    BY <1>2
  <2> QED
    BY <1>1, <2>1, RestrictedList
<1> QED
  BY <1>2, <1>3 DEF D

LEMMA NothingYet == NoAudit \in AuditRecords /\ NoHandler \in HandlerRecords
<1>1. <<>> \in Seq(Listed) /\ <<>> \in Kept(Txs) /\ <<>> \in Kept(Penalizations)
  BY NothingKept, EmptySeq
<1> QED
  BY <1>1 DEF NoAudit, NoHandler, AuditRecords, HandlerRecords, PcsOfAudits, Passes

LEMMA AnswersAreAudits ==
    ASSUME NEW a \in Audits, audit[a] \in AuditRecords
    PROVE  Done(a) \in AuditRecords /\ Missed(a) \in AuditRecords /\ NotRepeated(a) \in AuditRecords
<1>1. Done(a) \in AuditRecords
  BY NothingYet DEF Done, NoAudit, AuditRecords, PcsOfAudits
<1>2. Missed(a) \in AuditRecords
  BY <1>1 DEF Missed, AuditRecords
<1>3. NotRepeated(a) \in AuditRecords
  BY DEF NotRepeated, AuditRecords, PcsOfAudits, Passes
<1> QED
  BY <1>1, <1>2, <1>3

LEMMA PageOfIsList ==
    ASSUME NEW n \in Nat, n # 0, listing \in Seq(Listed)
    PROVE  PageOf(n) \in Seq(Listed)
<1>1. PageSize \in Nat /\ Len(listing) \in Nat
  BY PenalizerAssumption, LenProperties
<1> DEFINE m == (n - 1) * PageSize + 1
           e == IF n * PageSize < Len(listing) THEN n * PageSize ELSE Len(listing)
<1>2. m \in Nat /\ m >= 1
  <2>1. n - 1 \in Nat
    OBVIOUS
  <2> DEFINE j == n - 1
  <2>2. j * PageSize \in Nat
    BY <1>1, <2>1
  <2> QED
    BY <2>2
<1>3. e \in Nat /\ e <= Len(listing)
  <2>1. n * PageSize \in Nat
    BY <1>1
  <2> DEFINE k == n * PageSize
  <2> HIDE DEF k
  <2> QED
    BY <1>1, <2>1 DEF k
<1> HIDE DEF m, e
<1>4. \A i \in m..e : listing[i] \in Listed
  BY <1>1, <1>2, <1>3, LenProperties
<1>5. SubSeq(listing, m, e) \in Seq(Listed)
  BY <1>2, <1>3, <1>4, SubSeqProperties
<1> QED
  BY <1>5 DEF PageOf, m, e

LEMMA TypesInit == Init => TypesAre
<1> SUFFICES ASSUME Init PROVE TypesAre
  OBVIOUS
<1>1. world \in Worlds /\ listing \in Seq(Listed) /\ block \in 0..world.blocks
  BY PenalizerAssumption DEF Init, Listed
<1>2. <<>> \in Seq(Penalizations)
  BY EmptySeq
<1>3. audit \in [Audits -> AuditRecords] /\ \A a \in Audits : audit[a].pc = "idle"
  BY NothingYet DEF Init, NoAudit
<1>4. handler \in [Handlers -> HandlerRecords]
  BY NothingYet DEF Init
<1>5. TodoWhenRevealing
  BY NothingKept DEF Init, NoHandler, TodoWhenRevealing
<1> QED
  BY <1>1, <1>2, <1>3, <1>4, <1>5 DEF Init, TypesAre

\* A step of an audit gives it another state, and nothing but what it stores,
\* schedules or broadcasts besides.
LEMMA AuditTypes ==
    ASSUME TypesAre, NEW a \in Audits, AuditHandler(a) \/ AuditStep(a)
    PROVE  /\ \E r \in AuditRecords : audit' = [audit EXCEPT ![a] = r]
           /\ pages' \in Nat /\ txstore' \subseteq Txs
<1> USE DEF At
<1>1. audit \in [Audits -> AuditRecords] /\ audit[a] \in AuditRecords
      /\ pages \in Nat /\ txstore \subseteq Txs
  BY DEF TypesAre
<1>2. Done(a) \in AuditRecords /\ Missed(a) \in AuditRecords /\ NotRepeated(a) \in AuditRecords
  BY <1>1, AnswersAreAudits
<1>3. CASE AuditHandler(a)
  <2>1. PICK t \in {r[2] : r \in {q \in world.requests : q[1] = a}} :
          audit' = [audit EXCEPT ![a] =
             [@ EXCEPT !.pc = "validate", !.tx = t,
                       !.pass = IF world.explorer THEN audit[a].pass ELSE "illegalTransaction"]]
    BY <1>3 DEF AuditHandler
  <2>2. world.requests \subseteq Audits \X Txs
    BY PenalizerAssumption DEF TypesAre
  <2>3. t \in Txs
    BY <2>1, <2>2
  <2>4. [audit[a] EXCEPT !.pc = "validate", !.tx = t,
           !.pass = IF world.explorer THEN audit[a].pass ELSE "illegalTransaction"] \in AuditRecords
    BY <1>1, <2>3 DEF AuditRecords, PcsOfAudits, Passes
  <2> QED
    BY <1>1, <1>3, <2>1, <2>4 DEF AuditHandler, cache
<1>4. CASE ValidateTransaction(a)
  <2>1. [audit[a] EXCEPT !.pc = IF audit[a].pass = "repeatedNonce" THEN "mined" ELSE "view"]
            \in AuditRecords
    BY <1>1 DEF AuditRecords, PcsOfAudits
  <2> QED
    BY <1>1, <1>2, <1>4, <2>1 DEF ValidateTransaction, cache
<1>5. CASE IsTransactionMined(a)
  <2>1. [audit[a] EXCEPT !.pc = "nonce"] \in AuditRecords
    BY <1>1 DEF AuditRecords, PcsOfAudits
  <2> QED
    BY <1>1, <1>2, <1>5, <2>1 DEF IsTransactionMined, cache
<1>6. CASE GetTransactionCount(a)
  <2>1. [audit[a] EXCEPT !.pc = "cached"] \in AuditRecords
    BY <1>1 DEF AuditRecords, PcsOfAudits
  <2> QED
    BY <1>1, <1>2, <1>6, <2>1 DEF GetTransactionCount, cache
<1>7. CASE QueryCachedTransaction(a)
  <2>1. /\ [audit[a] EXCEPT !.pc = "last", !.searched = TRUE] \in AuditRecords
        /\ \A t \in txstore : [audit[a] EXCEPT !.pc = "node", !.found = t] \in AuditRecords
    BY <1>1 DEF AuditRecords, PcsOfAudits
  <2> QED
    BY <1>1, <1>7, <2>1 DEF QueryCachedTransaction, cache
<1>8. CASE GetLastPageQueried(a)
  <2> DEFINE n == pages + 1
  <2>0. n \in Nat
    BY <1>1
  <2> HIDE DEF n
  <2>1. [audit[a] EXCEPT !.pc = "fetch", !.last = n] \in AuditRecords
    BY <1>1, <2>0 DEF AuditRecords, PcsOfAudits
  <2> QED
    BY <1>1, <1>8, <2>1 DEF n, GetLastPageQueried, cache
<1>9. CASE FetchPage(a)
  <2>1. PageOf(audit[a].last) \in Seq(Listed) /\ Len(listing) \in Nat
    <3>1. audit[a].last \in Nat /\ audit[a].last # 0 /\ listing \in Seq(Listed)
      BY <1>1, <1>9 DEF AuditRecords, TypesAre, FetchPage
    <3> QED
      BY <3>1, PageOfIsList, LenProperties
  <2>2. [audit[a] EXCEPT !.pc = "put", !.page = PageOf(audit[a].last), !.seen = Len(listing)]
            \in AuditRecords
    BY <1>1, <2>1 DEF AuditRecords, PcsOfAudits
  <2> QED
    BY <1>1, <1>2, <1>9, <2>2 DEF FetchPage, cache
<1>10. Outgoing(audit[a].page) \in Kept(Txs)
  BY <1>1, OutgoingKept DEF AuditRecords
<1>11. [audit[a] EXCEPT !.pc = "insert", !.left = Outgoing(audit[a].page)] \in AuditRecords
  BY <1>1, <1>10 DEF AuditRecords, PcsOfAudits
<1>12. CASE FindPage(a)
  <2>1. [audit[a] EXCEPT !.pc = "page"] \in AuditRecords
    BY <1>1 DEF AuditRecords, PcsOfAudits
  <2> QED
    BY <1>1, <1>2, <1>11, <1>12, <2>1 DEF FindPage, cache
<1>13. CASE InsertPage(a)
  <2>1. audit[a].last \in Nat
    BY <1>1 DEF AuditRecords
  <2> QED
    BY <1>1, <1>2, <1>11, <1>13, <2>1 DEF InsertPage
<1>14. CASE InsertTransaction(a)
  <2>1. audit[a].left \in Kept(Txs) /\ DOMAIN audit[a].left # {}
    BY <1>1, <1>14 DEF InsertTransaction, AuditRecords
  <2>2. FirstOf(audit[a].left) \in Txs /\ RestOf(audit[a].left) \in Kept(Txs)
    BY <2>1, FirstAndRest
  <2>3. [audit[a] EXCEPT !.left = RestOf(audit[a].left)] \in AuditRecords
    BY <1>1, <2>2 DEF AuditRecords
  <2> QED
    BY <1>1, <1>2, <1>14, <2>2, <2>3 DEF InsertTransaction
<1>15. CASE PageStored(a)
  <2> DEFINE page == audit[a].page
             hits == {t \in Range(Outgoing(page)) : t.nonce = audit[a].tx.nonce}
  <2>1. Range(Outgoing(page)) \subseteq Txs
    BY <1>10, KeptIs DEF Range
  <2>2. hits # {} => (CHOOSE t \in hits : TRUE) \in Txs
    BY <2>1
  <2> HIDE DEF hits
  <2>3. <<>> \in Seq(Listed)
    BY EmptySeq
  <2>4. hits # {} => [audit[a] EXCEPT !.pc = "node", !.found = CHOOSE t \in hits : TRUE,
                                     !.page = <<>>] \in AuditRecords
    BY <1>1, <2>2, <2>3 DEF AuditRecords, PcsOfAudits
  <2> DEFINE n == audit[a].last + 1
  <2>5. n \in Nat
    BY <1>1 DEF AuditRecords
  <2> HIDE DEF n
  <2>6. [audit[a] EXCEPT !.pc = "fetch", !.last = n, !.page = <<>>] \in AuditRecords
    BY <1>1, <2>3, <2>5 DEF AuditRecords, PcsOfAudits
  <2> QED
    BY <1>1, <1>2, <1>15, <2>4, <2>6 DEF n,  PageStored, cache, hits
<1>16. CASE GetTransaction(a)
  <2>1. <<>> \in Seq(Listed)
    BY EmptySeq
  <2>2. [audit[a] EXCEPT !.pc = "view", !.page = <<>>] \in AuditRecords
    BY <1>1, <2>1 DEF AuditRecords, PcsOfAudits
  <2> QED
    BY <1>1, <1>16, <2>2 DEF GetTransaction, cache
<1>17. CASE ValidatePenalization(a)
  <2>1. [audit[a] EXCEPT !.pc = "commit"] \in AuditRecords
    BY <1>1 DEF AuditRecords, PcsOfAudits
  <2> QED
    BY <1>1, <1>2, <1>17, <2>1 DEF ValidatePenalization, cache
<1>18. CASE CommitAndScheduleReveal(a)
  BY <1>1, <1>2, <1>18 DEF CommitAndScheduleReveal, cache
<1> QED
  BY <1>3, <1>4, <1>5, <1>6, <1>7, <1>8, <1>9, <1>12, <1>13, <1>14, <1>15, <1>16, <1>17, <1>18
     DEF AuditStep

\* What an audit that ends, or goes on to the illegal transaction, keeps.
LEMMA AnswersKeep ==
    ASSUME NEW a \in Audits, audit[a] \in AuditRecords
    PROVE  /\ Done(a).pc = "done" /\ Missed(a).pc = "done" /\ NotRepeated(a).pc = "validate"
           /\ ~Done(a).missed /\ Missed(a).missed /\ NotRepeated(a).missed = audit[a].missed
           /\ Done(a).tx = audit[a].tx /\ Missed(a).tx = audit[a].tx
           /\ Done(a).seen = audit[a].seen /\ Missed(a).seen = audit[a].seen
           /\ Done(a).searched = audit[a].searched
           /\ Missed(a).searched = audit[a].searched
           /\ NotRepeated(a).searched = audit[a].searched
<1>1. /\ Done(a).pc = "done" /\ ~Done(a).missed
      /\ Done(a).tx = audit[a].tx /\ Done(a).seen = audit[a].seen
      /\ Done(a).searched = audit[a].searched
  BY DEF Done, NoAudit
<1>2. /\ Missed(a).pc = "done" /\ Missed(a).missed
      /\ Missed(a).tx = audit[a].tx /\ Missed(a).seen = audit[a].seen
      /\ Missed(a).searched = audit[a].searched
  BY <1>1 DEF Missed, Done, NoAudit
<1>3. /\ NotRepeated(a).pc = "validate" /\ NotRepeated(a).missed = audit[a].missed
      /\ NotRepeated(a).searched = audit[a].searched
  BY DEF NotRepeated, AuditRecords
<1> QED
  BY <1>1, <1>2, <1>3

LEMMA LastIsAsked ==
    ASSUME TypesAre, NEW a \in Audits, AuditHandler(a) \/ AuditStep(a)
    PROVE  /\ \A b \in Audits \ {a} : audit'[b] = audit[b]
           /\ audit'[a].pc \in {"fetch", "put", "page", "insert"} => audit'[a].last # 0
<1> USE DEF At
<1>1. PICK r \in AuditRecords : audit' = [audit EXCEPT ![a] = r]
  BY AuditTypes
<1>2. audit \in [Audits -> AuditRecords] /\ audit[a] \in AuditRecords /\ pages \in Nat
  BY DEF TypesAre
<1>3. audit'[a] = r /\ \A b \in Audits \ {a} : audit'[b] = audit[b]
  BY <1>1, <1>2
<1> DEFINE Paged(s) == s.pc \in {"fetch", "put", "page", "insert"} => s.last # 0
<1>4. Paged(audit[a])
  BY DEF TypesAre
<1>5. Done(a).pc = "done" /\ Missed(a).pc = "done" /\ NotRepeated(a).pc = "validate"
  BY <1>2, AnswersKeep
<1>6. CASE AuditHandler(a)
  <2>1. PICK t \in {q[2] : q \in {q \in world.requests : q[1] = a}} :
          audit' = [audit EXCEPT ![a] =
             [@ EXCEPT !.pc = "validate", !.tx = t,
                       !.pass = IF world.explorer THEN audit[a].pass ELSE "illegalTransaction"]]
    BY <1>6 DEF AuditHandler
  <2>2. audit'[a].pc = "validate"
    BY <1>2, <2>1 DEF AuditRecords
  <2> QED
    BY <1>3, <2>2
<1>7. CASE ValidateTransaction(a)
  <2>1. audit'[a].pc \in {"mined", "view", "validate", "done"}
    BY <1>2, <1>5, <1>7 DEF ValidateTransaction, AuditRecords
  <2> QED
    BY <1>3, <2>1
<1>8. CASE IsTransactionMined(a)
  BY <1>2, <1>3, <1>5, <1>8 DEF IsTransactionMined, AuditRecords
<1>9. CASE GetTransactionCount(a)
  BY <1>2, <1>3, <1>5, <1>9 DEF GetTransactionCount, AuditRecords
<1>10. CASE QueryCachedTransaction(a)
  <2>1. audit'[a].pc \in {"node", "last"}
    <3>1. CASE \E t \in txstore :
               audit' = [audit EXCEPT ![a] = [@ EXCEPT !.pc = "node", !.found = t]]
      BY <1>2, <3>1 DEF AuditRecords
    <3>2. CASE audit' = [audit EXCEPT ![a] = [@ EXCEPT !.pc = "last", !.searched = TRUE]]
      BY <1>2, <3>2 DEF AuditRecords
    <3> QED
      BY <1>10, <3>1, <3>2 DEF QueryCachedTransaction
  <2> QED
    BY <1>3, <2>1
<1>11. CASE GetLastPageQueried(a)
  <2>1. pages + 1 # 0
    BY <1>2
  <2>2. audit'[a].last = pages + 1
    BY <1>2, <1>11 DEF GetLastPageQueried, AuditRecords
  <2> QED
    BY <1>3, <2>1, <2>2
<1>12. CASE FetchPage(a)
  <2>1. audit'[a].pc = "done" \/ audit'[a].last = audit[a].last
    <3>1. CASE audit' = [audit EXCEPT ![a] = Done(a)]
      BY <1>2, <1>5, <3>1
    <3>2. CASE audit' = [audit EXCEPT ![a] =
             [@ EXCEPT !.pc = "put", !.page = PageOf(audit[a].last), !.seen = Len(listing)]]
      BY <1>2, <3>2 DEF AuditRecords
    <3> QED
      BY <1>12, <3>1, <3>2 DEF FetchPage
  <2>2. audit[a].last # 0
    BY <1>4, <1>12 DEF FetchPage
  <2> QED
    BY <1>3, <2>1, <2>2
<1>13. CASE FindPage(a)
  BY <1>2, <1>3, <1>4, <1>5, <1>13 DEF FindPage, AuditRecords
<1>14. CASE InsertPage(a)
  BY <1>2, <1>3, <1>4, <1>5, <1>14 DEF InsertPage, AuditRecords
<1>15. CASE InsertTransaction(a)
  BY <1>2, <1>3, <1>4, <1>5, <1>15 DEF InsertTransaction, AuditRecords
<1>16. CASE PageStored(a)
  <2>1. audit[a].last \in Nat
    BY <1>2 DEF AuditRecords
  <2>2. audit[a].last + 1 # 0
    BY <2>1
  <2>3. \/ audit'[a].pc = "node" \/ audit'[a].pc = "done"
        \/ audit'[a].last = audit[a].last + 1
    BY <1>2, <1>5, <1>16 DEF PageStored, AuditRecords
  <2> QED
    BY <1>3, <2>2, <2>3
<1>17. CASE GetTransaction(a)
  BY <1>2, <1>3, <1>17 DEF GetTransaction, AuditRecords
<1>18. CASE ValidatePenalization(a)
  BY <1>2, <1>3, <1>5, <1>18 DEF ValidatePenalization, AuditRecords
<1>19. CASE CommitAndScheduleReveal(a)
  BY <1>2, <1>3, <1>5, <1>19 DEF CommitAndScheduleReveal, AuditRecords
<1> QED
  BY <1>6, <1>7, <1>8, <1>9, <1>10, <1>11, <1>12, <1>13, <1>14, <1>15, <1>16, <1>17, <1>18,
     <1>19 DEF AuditStep

\* The steps of an audit that neither schedule nor broadcast.
Quiet(a) ==
    /\ audit[a].pc \notin {"commit", "done"}
    /\ UNCHANGED <<chain, plan, service, restarts>>

LEMMA AuditSteps ==
    ASSUME NEW a \in Audits, AuditHandler(a) \/ AuditStep(a)
    PROVE  Quiet(a) \/ ValidatePenalization(a) \/ CommitAndScheduleReveal(a)
BY DEF AuditStep, AuditHandler, ValidateTransaction, IsTransactionMined, GetTransactionCount,
       QueryCachedTransaction, GetLastPageQueried, FetchPage, FindPage, InsertPage,
       InsertTransaction, PageStored, GetTransaction, Quiet, At

\* What a handler takes off the schedule was on it, and is what it was asked
\* to take if that was on it.
LEMMA Takes ==
    ASSUME TypesAre, NEW h \in Handlers, NEW todo \in Kept(Penalizations), TakeNext(h, todo)
    PROVE  /\ handler' \in [Handlers -> HandlerRecords]
           /\ \A g \in Handlers \ {h} : handler'[g] = handler[g]
           /\ DOMAIN todo = {} => /\ handler'[h] = NoHandler
                                  /\ UNCHANGED <<scheduled, dropped>>
           /\ DOMAIN todo # {} =>
                /\ handler'[h].pc = "reveal" /\ handler'[h].todo = todo
                /\ \/ scheduled = <<>> /\ UNCHANGED <<scheduled, dropped>>
                   \/ \E k \in 1..Len(scheduled) :
                        /\ FirstOf(todo) \in Range(scheduled) => scheduled[k] = FirstOf(todo)
                        /\ scheduled' = RemoveAt(scheduled, k)
                        /\ dropped' = dropped \cup {[of |-> scheduled[k], at |-> block]}
<1>1. handler \in [Handlers -> HandlerRecords] /\ scheduled \in Seq(Penalizations)
  BY DEF TypesAre
<1>2. DOMAIN scheduled = 1..Len(scheduled) /\ Len(scheduled) \in Nat
  BY <1>1, LenProperties
<1>3. CASE DOMAIN todo = {}
  BY <1>1, <1>3, NothingYet DEF TakeNext
<1>4. CASE DOMAIN todo # {}
  <2>1. /\ handler' = [handler EXCEPT ![h] = [@ EXCEPT !.pc = "reveal", !.todo = todo]]
        /\ IF scheduled = <<>> THEN UNCHANGED <<scheduled, dropped>>
           ELSE /\ scheduled' = RemoveAt(scheduled, IndexOf(FirstOf(todo)))
                /\ dropped' = dropped \cup {[of |-> scheduled[IndexOf(FirstOf(todo))], at |-> block]}
    BY <1>4 DEF TakeNext
  <2>2. [handler[h] EXCEPT !.pc = "reveal", !.todo = todo] \in HandlerRecords
    BY <1>1 DEF HandlerRecords
  <2>3. /\ handler' \in [Handlers -> HandlerRecords]
        /\ \A g \in Handlers \ {h} : handler'[g] = handler[g]
        /\ handler'[h] = [handler[h] EXCEPT !.pc = "reveal", !.todo = todo]
    BY <1>1, <2>1, <2>2
  <2>4. handler'[h].pc = "reveal" /\ handler'[h].todo = todo
    BY <1>1, <2>3 DEF HandlerRecords
  <2>5. ASSUME scheduled # <<>>
        PROVE  LET k == IndexOf(FirstOf(todo))
               IN k \in 1..Len(scheduled)
                  /\ (FirstOf(todo) \in Range(scheduled) => scheduled[k] = FirstOf(todo))
    <3>1. Len(scheduled) \in 1..Len(scheduled)
      BY <1>1, <2>5, EmptySeq
    <3>2. CASE Contains(scheduled, FirstOf(todo))
      BY <1>2, <3>2 DEF IndexOf, Contains
    <3>3. CASE ~Contains(scheduled, FirstOf(todo))
      <4>1. FirstOf(todo) \notin Range(scheduled)
        BY <1>2, <3>3 DEF Contains, Range
      <4> QED
        BY <3>1, <3>3, <4>1 DEF IndexOf
    <3> QED
      BY <3>2, <3>3
  <2> QED
    BY <1>4, <2>1, <2>3, <2>4, <2>5
<1> QED
  BY <1>3, <1>4

LEMMA TypesNext == TypesAre /\ [Next]_vars => TypesAre'
<1> SUFFICES ASSUME TypesAre, [Next]_vars PROVE TypesAre'
  OBVIOUS
<1>1. ASSUME NEW a \in Audits, AuditHandler(a) \/ AuditStep(a) PROVE TypesAre'
  <2>1. /\ audit' \in [Audits -> AuditRecords]
        /\ pages' \in Nat /\ txstore' \subseteq Txs
    BY <1>1, AuditTypes DEF TypesAre
  <2>2. \A b \in Audits : audit'[b].pc \in {"fetch", "put", "page", "insert"} => audit'[b].last # 0
    BY <1>1, LastIsAsked DEF TypesAre
  <2>3. CASE Quiet(a)
    BY <2>1, <2>2, <2>3 DEF TypesAre, TodoWhenRevealing, Quiet, chain, plan, service
  <2>4. CASE ValidatePenalization(a)
    <3>1. <<a, audit[a].pass>> \in Penalizations
      BY DEF TypesAre, AuditRecords, Penalizations
    <3>2. scheduled' \in Seq(Penalizations)
      <4>1. scheduled' = scheduled \/ scheduled' = Append(scheduled, <<a, audit[a].pass>>)
        BY <2>4 DEF ValidatePenalization
      <4>2. scheduled \in Seq(Penalizations)
        BY DEF TypesAre
      <4> QED
        BY <3>1, <4>1, <4>2, AppendProperties
    <3> QED
      BY <2>1, <2>2, <2>4, <3>2 DEF TypesAre, TodoWhenRevealing, ValidatePenalization, chain, service
  <2>5. CASE CommitAndScheduleReveal(a)
    <3>1. <<a, audit[a].pass>> \in Penalizations
      BY DEF TypesAre, AuditRecords, Penalizations
    <3>2. pool' \subseteq Penalizations
      BY <2>5, <3>1 DEF CommitAndScheduleReveal, TypesAre
    <3> QED
      BY <2>1, <2>2, <2>5, <3>2 DEF TypesAre, TodoWhenRevealing, CommitAndScheduleReveal, plan, service
  <2> QED
    BY <1>1, <2>3, <2>4, <2>5, AuditSteps
<1>2. ASSUME NEW h \in Handlers, IntervalHandler(h) PROVE TypesAre'
  <2> DEFINE unconfirmed == {p \in Range(scheduled) : ready[p] = 0}
  <2>1. unconfirmed \subseteq Penalizations
    <3>1. \A i \in DOMAIN scheduled : scheduled[i] \in Penalizations
      BY LenProperties DEF TypesAre
    <3> QED
      BY <3>1 DEF Range
  <2> HIDE DEF unconfirmed
  <2>2. handler[h] \in HandlerRecords
    BY DEF TypesAre
  <2>3. [handler[h] EXCEPT !.pc = IF unconfirmed = {} THEN "block" ELSE "events",
                           !.asked = unconfirmed] \in HandlerRecords
    BY <2>1, <2>2 DEF HandlerRecords
  <2>4. handler' \in [Handlers -> HandlerRecords]
    BY <1>2, <2>3 DEF IntervalHandler, unconfirmed, TypesAre
  <2>5. overlapped' \in BOOLEAN
    BY <1>2 DEF IntervalHandler
  <2>6. TodoWhenRevealing'
    <3>1. handler[h].pc # "reveal"
      BY <1>2 DEF IntervalHandler
    <3>2. /\ \A g \in Handlers \ {h} : handler'[g] = handler[g]
          /\ handler'[h].pc # "reveal" /\ handler'[h].todo = handler[h].todo
      BY <1>2, <2>2 DEF IntervalHandler, TypesAre, HandlerRecords
    <3> QED
      BY <3>1, <3>2 DEF TodoWhenRevealing, TypesAre
  <2> QED
    BY <1>2, <2>4, <2>5, <2>6 DEF TypesAre, IntervalHandler, chain, cache, plan
<1>3. ASSUME NEW h \in Handlers, QueryReadyBlocks(h) PROVE TypesAre'
  <2>1. handler[h] \in HandlerRecords
    BY DEF TypesAre
  <2>2. [handler[h] EXCEPT !.pc = "block", !.asked = {}] \in HandlerRecords
    BY <2>1 DEF HandlerRecords
  <2>3. handler' \in [Handlers -> HandlerRecords]
    BY <1>3, <2>2 DEF QueryReadyBlocks, TypesAre
  <2>4. ready' \in [Penalizations -> Nat]
    BY <1>3 DEF QueryReadyBlocks, TypesAre
  <2>5. TodoWhenRevealing'
    <3>1. handler[h].pc # "reveal"
      BY <1>3 DEF QueryReadyBlocks
    <3>2. /\ \A g \in Handlers \ {h} : handler'[g] = handler[g]
          /\ handler'[h].pc # "reveal" /\ handler'[h].todo = handler[h].todo
      BY <1>3, <2>1 DEF QueryReadyBlocks, TypesAre, HandlerRecords
    <3> QED
      BY <3>1, <3>2 DEF TodoWhenRevealing, TypesAre
  <2> QED
    BY <1>3, <2>3, <2>4, <2>5 DEF TypesAre, QueryReadyBlocks, chain, cache
<1>4. ASSUME NEW h \in Handlers, NEW todo \in Kept(Penalizations), TakeNext(h, todo)
      PROVE  /\ handler' \in [Handlers -> HandlerRecords]
             /\ scheduled' \in Seq(Penalizations)
             /\ dropped' \subseteq [of : Penalizations, at : Nat]
             /\ TodoWhenRevealing'
  <2>1. handler' \in [Handlers -> HandlerRecords]
    BY <1>4, Takes
  <2>2. \/ UNCHANGED <<scheduled, dropped>>
        \/ \E k \in 1..Len(scheduled) :
             /\ scheduled' = RemoveAt(scheduled, k)
             /\ dropped' = dropped \cup {[of |-> scheduled[k], at |-> block]}
    BY <1>4, Takes
  <2>3. scheduled \in Seq(Penalizations) /\ dropped \subseteq [of : Penalizations, at : Nat]
        /\ block \in Nat
    BY PenalizerAssumption DEF TypesAre
  <2>4. ASSUME UNCHANGED <<scheduled, dropped>>
        PROVE  scheduled' \in Seq(Penalizations) /\ dropped' \subseteq [of : Penalizations, at : Nat]
    BY <2>3, <2>4
  <2>5. ASSUME NEW k \in 1..Len(scheduled),
               scheduled' = RemoveAt(scheduled, k),
               dropped' = dropped \cup {[of |-> scheduled[k], at |-> block]}
        PROVE  scheduled' \in Seq(Penalizations) /\ dropped' \subseteq [of : Penalizations, at : Nat]
    <3>1. scheduled' \in Seq(Penalizations)
      BY <2>3, <2>5, Spliced
    <3>2. scheduled[k] \in Penalizations
      BY <2>3, ElementOfSeq
    <3> QED
      BY <2>3, <2>5, <3>1, <3>2
  <2>6. TodoWhenRevealing'
    <3>1. \A g \in Handlers \ {h} : handler'[g] = handler[g]
      BY <1>4, Takes
    <3>2. (handler'[h].pc = "reveal") <=> (DOMAIN handler'[h].todo # {})
      <4>1. CASE DOMAIN todo = {}
        <5>1. handler'[h] = NoHandler
          BY <1>4, <4>1, Takes
        <5> QED
          BY <5>1, NothingKept DEF NoHandler
      <4>2. CASE DOMAIN todo # {}
        <5>1. handler'[h].pc = "reveal" /\ handler'[h].todo = todo
          BY <1>4, <4>2, Takes
        <5> QED
          BY <4>2, <5>1
      <4> QED
        BY <4>1, <4>2
    <3> QED
      BY <3>1, <3>2 DEF TodoWhenRevealing, TypesAre
  <2> QED
    BY <2>1, <2>2, <2>4, <2>5, <2>6
<1>5. ASSUME NEW h \in Handlers, ExecuteReadyPenalizations(h) PROVE TypesAre'
  <2>1. ReadyPenalizations \in Kept(Penalizations)
    <3> DEFINE D == {i \in DOMAIN scheduled : Due(scheduled[i])}
    <3>1. D \subseteq DOMAIN scheduled /\ \A i \in D : scheduled[i] \in Penalizations
      BY LenProperties DEF TypesAre
    <3> HIDE DEF D
    <3>2. Restrict(scheduled, D) \in Kept(Penalizations)
      BY <3>1, RestrictedList DEF TypesAre
    <3> QED
      BY <3>2 DEF ReadyPenalizations, D
  <2>2. TakeNext(h, ReadyPenalizations)
    BY <1>5 DEF ExecuteReadyPenalizations
  <2> HIDE DEF ReadyPenalizations
  <2>3. /\ handler' \in [Handlers -> HandlerRecords]
        /\ scheduled' \in Seq(Penalizations)
        /\ dropped' \subseteq [of : Penalizations, at : Nat]
        /\ TodoWhenRevealing'
    BY <1>4, <2>1, <2>2
  <2> QED
    BY <1>5, <2>3 DEF TypesAre, ExecuteReadyPenalizations, chain, cache
<1>6. ASSUME NEW h \in Handlers, ExecuteDelayedPenalization(h),
             handler[h].pc = "reveal"
      PROVE TypesAre'
  <2>1. handler[h].todo \in Kept(Penalizations) /\ DOMAIN handler[h].todo # {}
    BY <1>6 DEF TypesAre, HandlerRecords, TodoWhenRevealing
  <2>2. FirstOf(handler[h].todo) \in Penalizations /\ RestOf(handler[h].todo) \in Kept(Penalizations)
    BY <1>6, <2>1, FirstAndRest
  <2>3. TakeNext(h, RestOf(handler[h].todo))
    BY <1>6 DEF ExecuteDelayedPenalization
  <2>4. /\ handler' \in [Handlers -> HandlerRecords]
        /\ scheduled' \in Seq(Penalizations)
        /\ dropped' \subseteq [of : Penalizations, at : Nat]
        /\ TodoWhenRevealing'
    BY <1>4, <2>2, <2>3
  <2>5. block \in Nat
    BY PenalizerAssumption DEF TypesAre
  <2>6. reveals' \subseteq [of : Penalizations, at : Nat, by : Handlers]
    BY <1>6, <2>2, <2>5 DEF TypesAre, ExecuteDelayedPenalization
  <2> QED
    BY <1>6, <2>4, <2>6 DEF TypesAre, ExecuteDelayedPenalization, chain, cache
<1>7. ASSUME NEW h \in Handlers, HandlerFails(h) PROVE TypesAre'
  <2>1. handler' \in [Handlers -> HandlerRecords]
    BY <1>7, NothingYet DEF HandlerFails, TypesAre
  <2>2. TodoWhenRevealing'
    BY <1>7, NothingKept DEF HandlerFails, NoHandler, TypesAre, TodoWhenRevealing
  <2> QED
    BY <1>7, <2>1, <2>2 DEF TypesAre, HandlerFails, chain, cache, plan
<1>8. CASE MineBlock
  <2>1. block' \in 0..world'.blocks
    BY <1>8, PenalizerAssumption DEF MineBlock, TypesAre
  <2>2. commits' \in [Penalizations -> Nat] /\ pool' \subseteq Penalizations
    <3>1. block + 1 + Delay \in Nat
      BY PenalizerAssumption DEF TypesAre
    <3>2. PICK included \in SUBSET pool :
             /\ pool' = pool \ included
             /\ commits' = [p \in Penalizations |-> IF p \in included THEN block + 1 + Delay
                                                    ELSE commits[p]]
      BY <1>8 DEF MineBlock
    <3> QED
      BY <3>1, <3>2 DEF TypesAre
  <2> QED
    BY <1>8, <2>1, <2>2 DEF TypesAre, TodoWhenRevealing, MineBlock, cache, plan, service
<1>9. CASE MineTransaction
  <2>1. listing' \in Seq(Listed)
    BY <1>9, PenalizerAssumption DEF MineTransaction, TypesAre, Listed
  <2> QED
    BY <1>9, <2>1 DEF TypesAre, TodoWhenRevealing, MineTransaction, cache, plan, service
<1>10. CASE Restart
  <2>1. audit' \in [Audits -> AuditRecords]
    <3>1. \A a \in Audits : Done(a) \in AuditRecords
      BY AnswersAreAudits DEF TypesAre
    <3> QED
      BY <1>10, <3>1, NothingYet DEF Restart
  <2>2. \A a \in Audits : audit'[a].pc \in {"idle", "done"}
    <3>1. \A a \in Audits : Done(a).pc = "done"
      BY AnswersKeep DEF TypesAre
    <3> QED
      BY <1>10, <3>1 DEF Restart, NoAudit
  <2>3. handler' \in [Handlers -> HandlerRecords]
    BY <1>10, NothingYet DEF Restart
  <2>4. scheduled' \in Seq(Penalizations) /\ ready' \in [Penalizations -> Nat]
    BY <1>10, EmptySeq DEF Restart
  <2>5. TodoWhenRevealing'
    BY <1>10, NothingKept DEF Restart, NoHandler, TodoWhenRevealing
  <2> QED
    BY <1>10, <2>1, <2>2, <2>3, <2>4, <2>5 DEF TypesAre, Restart, chain, cache
<1>11. CASE UNCHANGED vars
  BY <1>11 DEF TypesAre, TodoWhenRevealing, vars, chain, cache, plan, service
<1> QED
  BY <1>1, <1>2, <1>3, <1>5, <1>6, <1>7, <1>8, <1>9, <1>10, <1>11 DEF Next, HandlerStep,
     ExecuteDelayedPenalization

(* --------------------- reveals, and when they are due --------------------- *)

LEMMA Appended ==
    ASSUME NEW S, NEW s \in Seq(S), NEW e \in S
    PROVE  /\ Range(Append(s, e)) = Range(s) \cup {e}
           /\ IsInjective(s) /\ e \notin Range(s) => IsInjective(Append(s, e))
<1> DEFINE t == Append(s, e)
<1>1. /\ t \in Seq(S) /\ Len(t) = Len(s) + 1 /\ Len(s) \in Nat
      /\ \A i \in 1..Len(s) : t[i] = s[i]
      /\ t[Len(s) + 1] = e
  BY AppendProperties, LenProperties
<1>2. DOMAIN s = 1..Len(s) /\ DOMAIN t = 1..(Len(s) + 1)
  BY <1>1, LenProperties
<1> HIDE DEF t
<1>3. Range(t) = Range(s) \cup {e}
  <2>1. ASSUME NEW i \in DOMAIN t PROVE t[i] \in Range(s) \cup {e}
    <3>1. CASE i = Len(s) + 1
      BY <1>1, <3>1
    <3>2. CASE i # Len(s) + 1
      <4>1. i \in DOMAIN s
        BY <1>1, <1>2, <3>2
      <4> QED
        BY <1>1, <1>2, <4>1 DEF Range
    <3> QED
      BY <3>1, <3>2
  <2>2. ASSUME NEW i \in DOMAIN s PROVE s[i] \in Range(t)
    <3>1. i \in DOMAIN t /\ t[i] = s[i]
      BY <1>1, <1>2
    <3> QED
      BY <3>1 DEF Range
  <2>3. e \in Range(t)
    <3>1. Len(s) + 1 \in DOMAIN t
      BY <1>1, <1>2
    <3> QED
      BY <1>1, <3>1 DEF Range
  <2>4. Range(s) \subseteq Range(t)
    BY <2>2 DEF Range
  <2>5. Range(t) \subseteq Range(s) \cup {e}
    BY <2>1 DEF Range
  <2> QED
    BY <2>3, <2>4, <2>5
<1>4. ASSUME IsInjective(s), e \notin Range(s), NEW i \in DOMAIN t, NEW j \in DOMAIN t, t[i] = t[j]
      PROVE  i = j
  <2>1. \A k \in DOMAIN s : s[k] # e
    BY <1>4 DEF Range
  <2>2. \A k \in DOMAIN t : k = Len(s) + 1 \/ (k \in DOMAIN s /\ t[k] = s[k])
    BY <1>1, <1>2
  <2>3. t[Len(s) + 1] = e
    BY <1>1
  <2>4. CASE i \in DOMAIN s /\ t[i] = s[i] /\ j \in DOMAIN s /\ t[j] = s[j]
    BY <1>4, <2>4 DEF IsInjective
  <2>5. CASE i = Len(s) + 1 \/ j = Len(s) + 1
    BY <1>4, <2>1, <2>2, <2>3, <2>5
  <2> QED
    BY <2>2, <2>4, <2>5
<1> QED
  BY <1>3, <1>4 DEF IsInjective, t

LEMMA TimelyInit == Init => Timely
<1> SUFFICES ASSUME Init PROVE Timely
  OBVIOUS
<1>1. Range(scheduled) = {} /\ IsInjective(scheduled)
  BY DEF Init, Range, IsInjective
<1>2. \A h \in Handlers : DOMAIN handler[h].todo = {}
  BY NothingKept DEF Init, NoHandler
<1>3. Schedules /\ RevealedDue
  BY <1>1 DEF Init, Schedules, Fresh, RevealedDue
<1>4. Broadcasts /\ ReadyIsKnown
  BY DEF Init, Broadcasts, ReadyIsKnown
<1>5. TakenAreDue
  BY <1>2 DEF TakenAreDue
<1> QED
  BY <1>1, <1>3, <1>4, <1>5 DEF Timely

\* Where an audit is that has not reached its commitment, or is not over, after
\* a step, it was before.
LEMMA AuditsGoOn ==
    ASSUME TypesAre, [Next]_vars, NEW a \in Audits
    PROVE  /\ audit'[a].pc \notin {"commit", "done"} => audit[a].pc \notin {"commit", "done"}
           /\ audit'[a].pc # "done" => audit[a].pc # "done"
<1>0. audit \in [Audits -> AuditRecords]
  BY DEF TypesAre
<1>1. ASSUME NEW b \in Audits, AuditHandler(b) \/ AuditStep(b)
      PROVE  /\ audit'[a].pc \notin {"commit", "done"} => audit[a].pc \notin {"commit", "done"}
             /\ audit'[a].pc # "done" => audit[a].pc # "done"
  <2>1. \A c \in Audits \ {b} : audit'[c] = audit[c]
    BY <1>1, LastIsAsked
  <2>2. CASE Quiet(b)
    BY <2>1, <2>2 DEF Quiet
  <2>3. CASE ValidatePenalization(b)
    <3>1. audit[b].pc = "view"
      BY <2>3 DEF ValidatePenalization, At
    <3> QED
      BY <2>1, <3>1
  <2>4. CASE CommitAndScheduleReveal(b)
    <3>1. audit'[b].pc = "done"
      BY <1>0, <2>4, AnswersKeep DEF CommitAndScheduleReveal
    <3> QED
      BY <2>1, <3>1
  <2> QED
    BY <1>1, <2>2, <2>3, <2>4, AuditSteps
<1>2. CASE Restart
  <2>1. audit'[a] = IF audit[a].pc = "idle" THEN NoAudit ELSE Done(a)
    BY <1>2 DEF Restart, At
  <2>2. Done(a).pc = "done"
    BY <1>0, AnswersKeep
  <2> QED
    BY <2>1, <2>2
<1>3. CASE audit' = audit
  BY <1>3
<1>4. audit' = audit \/ Restart \/ \E b \in Audits : AuditHandler(b) \/ AuditStep(b)
  BY DEF Next, vars, IntervalHandler, HandlerStep, QueryReadyBlocks, ExecuteReadyPenalizations,
         ExecuteDelayedPenalization, HandlerFails, MineBlock, MineTransaction
<1> QED
  BY <1>1, <1>2, <1>3, <1>4

\* A commitment is mined once: what has a block keeps it.
LEMMA CommitsStay ==
    ASSUME TypesAre, Broadcasts, [Next]_vars
    PROVE  /\ \A p \in Penalizations : commits[p] # 0 => commits'[p] = commits[p]
           /\ block' \in Nat /\ block \in Nat /\ block <= block'
<1>0. block \in Nat /\ commits \in [Penalizations -> Nat]
  BY PenalizerAssumption DEF TypesAre
<1>1. CASE MineBlock
  BY <1>0, <1>1 DEF MineBlock, Broadcasts
<1>2. CASE UNCHANGED <<block, commits>>
  BY <1>0, <1>2
<1>3. MineBlock \/ UNCHANGED <<block, commits>>
  BY DEF Next, vars, chain, IntervalHandler, HandlerStep, QueryReadyBlocks, ExecuteReadyPenalizations,
         ExecuteDelayedPenalization, HandlerFails, MineTransaction, Restart, AuditStep,
         AuditHandler, ValidateTransaction, IsTransactionMined, GetTransactionCount,
         QueryCachedTransaction, GetLastPageQueried, FetchPage, FindPage, InsertPage,
         InsertTransaction, PageStored, GetTransaction, ValidatePenalization,
         CommitAndScheduleReveal
<1> QED
  BY <1>1, <1>2, <1>3

LEMMA TakesTimely ==
    ASSUME TypesAre, Timely, [Next]_vars, NEW h \in Handlers, NEW todo \in Kept(Penalizations),
           TakeNext(h, todo), UNCHANGED <<block, commits>>,
           \A i \in DOMAIN todo : IsDue(todo[i], block)
    PROVE  /\ Range(scheduled') \subseteq Range(scheduled) /\ IsInjective(scheduled')
           /\ TakenAreDue'
<1>1. scheduled \in Seq(Penalizations) /\ IsInjective(scheduled)
  BY DEF TypesAre, Timely
<1>2. UNCHANGED scheduled \/ \E k \in 1..Len(scheduled) : scheduled' = RemoveAt(scheduled, k)
  BY Takes
<1>3. Range(scheduled') \subseteq Range(scheduled) /\ IsInjective(scheduled')
  BY <1>1, <1>2, Spliced
<1>4. \A g \in Handlers \ {h} : handler'[g] = handler[g]
  BY Takes
<1>5. \A i \in DOMAIN handler'[h].todo : IsDue(handler'[h].todo[i], block)
  <2>1. CASE DOMAIN todo = {}
    <3>1. handler'[h] = NoHandler
      BY <2>1, Takes
    <3> QED
      BY <3>1, NothingKept DEF NoHandler
  <2>2. CASE DOMAIN todo # {}
    <3>1. handler'[h].todo = todo
      BY <2>2, Takes
    <3> QED
      BY <3>1
  <2> QED
    BY <2>1, <2>2
<1>6. TakenAreDue'
  BY <1>4, <1>5 DEF TakenAreDue, Timely, IsDue
<1> QED
  BY <1>3, <1>6

\* What a handler finds ready is due.
LEMMA ReadyAreDue ==
    ASSUME TypesAre, ReadyIsKnown
    PROVE  /\ ReadyPenalizations \in Kept(Penalizations)
           /\ \A i \in DOMAIN ReadyPenalizations :
                 /\ i \in DOMAIN scheduled /\ ReadyPenalizations[i] = scheduled[i]
                 /\ IsDue(ReadyPenalizations[i], block)
<1> DEFINE D == {i \in DOMAIN scheduled : Due(scheduled[i])}
<1>1. D \subseteq DOMAIN scheduled /\ \A i \in D : scheduled[i] \in Penalizations
  BY LenProperties DEF TypesAre
<1>2. \A i \in D : IsDue(scheduled[i], block)
  BY <1>1 DEF Due, IsDue, ReadyIsKnown
<1> HIDE DEF D
<1>3. /\ Restrict(scheduled, D) \in Kept(Penalizations)
      /\ DOMAIN Restrict(scheduled, D) = D
      /\ \A i \in D : Restrict(scheduled, D)[i] = scheduled[i]
  <2>1. scheduled \in Seq(Penalizations)
    BY DEF TypesAre
  <2>2. D \subseteq DOMAIN scheduled
    BY <1>1
  <2>3. \A i \in D : scheduled[i] \in Penalizations
    BY <1>1
  <2> QED
    BY <2>1, <2>2, <2>3, RestrictedList
<1>4. ReadyPenalizations = Restrict(scheduled, D)
  BY DEF ReadyPenalizations, D
<1> QED
  BY <1>1, <1>2, <1>3, <1>4

LEMMA TimelyNext == TypesAre /\ Timely /\ [Next]_vars => Timely'
<1> SUFFICES ASSUME TypesAre, Timely, [Next]_vars PROVE Timely'
  OBVIOUS
<1>0. /\ Schedules /\ Broadcasts /\ ReadyIsKnown /\ TakenAreDue /\ RevealedDue
      /\ IsInjective(scheduled)
  BY DEF Timely
\* What holds of reveals and takings already made is not undone.
<1>a. ASSUME UNCHANGED reveals PROVE RevealedDue'
  <2>1. ASSUME NEW r \in reveals PROVE IsDue(r.of, r.at)'
    <3>1. r.of \in Penalizations
      BY DEF TypesAre
    <3> QED
      BY <1>0, <3>1, CommitsStay DEF RevealedDue, IsDue
  <2> QED
    BY <1>a, <2>1 DEF RevealedDue
<1>b. ASSUME NEW p \in Penalizations, IsDue(p, block) PROVE IsDue(p, block)'
  BY <1>0, <1>b, CommitsStay DEF IsDue, TypesAre
<1>c. ASSUME \A h \in Handlers : handler'[h].todo = handler[h].todo \/ DOMAIN handler'[h].todo = {}
      PROVE  TakenAreDue'
  <2>1. ASSUME NEW h \in Handlers, NEW i \in DOMAIN handler[h].todo
        PROVE  LET p == handler[h].todo[i] IN commits'[p] # 0 /\ commits'[p] <= block'
    <3>1. handler[h].todo \in Kept(Penalizations)
      BY DEF TypesAre, HandlerRecords
    <3>2. handler[h].todo[i] \in Penalizations
      BY <3>1, KeptIs
    <3>3. IsDue(handler[h].todo[i], block)
      BY <1>0 DEF TakenAreDue
    <3>4. \A p \in Penalizations : IsDue(p, block) => commits'[p] # 0 /\ commits'[p] <= block'
      BY <1>b DEF IsDue
    <3> QED
      BY <3>2, <3>3, <3>4
  <2> QED
    BY <1>c, <2>1 DEF TakenAreDue, IsDue
<1>d. ASSUME Range(scheduled') \subseteq Range(scheduled), UNCHANGED reveals
      PROVE  Schedules'
  <2>1. ASSUME NEW p \in Penalizations, audit'[p[1]].pc \notin {"commit", "done"} PROVE Fresh(p)'
    <3>1. p[1] \in Audits
      BY DEF Penalizations
    <3>2. Fresh(p)
      BY <1>0, <2>1, <3>1, AuditsGoOn DEF Schedules
    <3> QED
      BY <1>d, <3>2 DEF Fresh
  <2> QED
    BY <2>1 DEF Schedules
<1>e. ASSUME UNCHANGED <<commits, pool>> PROVE Broadcasts'
  <2>1. \A p \in Penalizations : p[1] \in Audits
    BY DEF Penalizations
  <2> QED
    BY <1>0, <1>e, <2>1, AuditsGoOn DEF Broadcasts
<1>f. ASSUME UNCHANGED <<commits, ready>> PROVE ReadyIsKnown'
  BY <1>0, <1>f DEF ReadyIsKnown
<1>1. ASSUME NEW a \in Audits, Quiet(a) PROVE Timely'
  BY <1>0, <1>1, <1>a, <1>c, <1>d, <1>e, <1>f DEF Quiet, chain, plan, service, Timely
<1>2. ASSUME NEW a \in Audits, ValidatePenalization(a) PROVE Timely'
  <2> DEFINE p == <<a, audit[a].pass>>
  <2>1. p \in Penalizations /\ scheduled \in Seq(Penalizations) /\ p[1] = a
    BY DEF TypesAre, AuditRecords, Penalizations
  <2>2. audit[a].pc = "view"
    BY <1>2 DEF ValidatePenalization, At
  <2>3. audit'[a].pc \in {"commit", "done"}
    <3>1. Done(a).pc = "done" /\ audit \in [Audits -> AuditRecords]
      BY AnswersKeep DEF TypesAre
    <3> QED
      BY <1>2, <3>1 DEF ValidatePenalization, AuditRecords
  <2>4. CASE UNCHANGED scheduled
    BY <1>0, <1>2, <2>4, <1>a, <1>c, <1>d, <1>e, <1>f
       DEF ValidatePenalization, chain, service, Timely
  <2>5. CASE scheduled' = Append(scheduled, p)
    <3>1. Fresh(p)
      BY <1>0, <2>1, <2>2 DEF Schedules
    <3>2. Range(scheduled') = Range(scheduled) \cup {p} /\ IsInjective(scheduled')
      BY <1>0, <2>1, <2>5, <3>1, Appended DEF Fresh
    <3>3. Schedules'
      <4>1. ASSUME NEW q \in Penalizations, audit'[q[1]].pc \notin {"commit", "done"}
            PROVE  Fresh(q)'
        <5>1. q # p
          BY <2>1, <2>3, <4>1
        <5>2. q[1] \in Audits
          BY DEF Penalizations
        <5>3. Fresh(q)
          BY <1>0, <4>1, <5>2, AuditsGoOn DEF Schedules
        <5> QED
          BY <1>2, <3>2, <5>1, <5>3 DEF Fresh, ValidatePenalization, service
      <4> QED
        BY <4>1 DEF Schedules
    <3> QED
      BY <1>0, <1>2, <3>2, <3>3, <1>a, <1>c, <1>e, <1>f
         DEF ValidatePenalization, chain, service, Timely
  <2> QED
    BY <1>2, <2>4, <2>5 DEF ValidatePenalization
<1>3. ASSUME NEW a \in Audits, CommitAndScheduleReveal(a) PROVE Timely'
  <2> DEFINE p == <<a, audit[a].pass>>
  <2>1. p \in Penalizations /\ p[1] = a
    BY DEF TypesAre, AuditRecords, Penalizations
  <2>2. audit[a].pc = "commit" /\ pool' \subseteq pool \cup {p} /\ UNCHANGED commits
    BY <1>3 DEF CommitAndScheduleReveal, At
  <2>3. audit'[a].pc = "done"
    BY <1>3, AnswersKeep DEF CommitAndScheduleReveal, TypesAre
  <2>4. commits[p] = 0
    BY <1>0, <2>1, <2>2 DEF Broadcasts
  <2>5. Broadcasts'
    <3>1. ASSUME NEW q \in Penalizations, audit'[q[1]].pc # "done"
          PROVE  commits'[q] = 0 /\ q \notin pool'
      <4>1. q # p /\ q[1] \in Audits
        BY <2>1, <2>3, <3>1 DEF Penalizations
      <4>2. audit[q[1]].pc # "done"
        BY <3>1, <4>1, AuditsGoOn
      <4> QED
        BY <1>0, <2>2, <4>1, <4>2 DEF Broadcasts
    <3>2. \A q \in pool' : commits'[q] = 0
      BY <1>0, <2>2, <2>4 DEF Broadcasts
    <3> QED
      BY <3>1, <3>2 DEF Broadcasts
  <2> QED
    BY <1>0, <1>3, <2>5, <1>a, <1>c, <1>d, <1>f
       DEF CommitAndScheduleReveal, plan, service, Timely
<1>4. ASSUME NEW h \in Handlers, IntervalHandler(h) PROVE Timely'
  <2>1. \A g \in Handlers : handler'[g].todo = handler[g].todo
    BY <1>4 DEF IntervalHandler, TypesAre, HandlerRecords
  <2> QED
    BY <1>0, <1>4, <2>1, <1>a, <1>c, <1>d, <1>e, <1>f DEF IntervalHandler, chain, plan, Timely
<1>5. ASSUME NEW h \in Handlers, QueryReadyBlocks(h) PROVE Timely'
  <2>1. \A g \in Handlers : handler'[g].todo = handler[g].todo
    BY <1>5 DEF QueryReadyBlocks, TypesAre, HandlerRecords
  <2>2. ReadyIsKnown'
    BY <1>0, <1>5 DEF QueryReadyBlocks, chain, ReadyIsKnown
  <2> QED
    BY <1>0, <1>5, <2>1, <2>2, <1>a, <1>c, <1>d, <1>e DEF QueryReadyBlocks, chain, Timely
<1>6. ASSUME NEW h \in Handlers, ExecuteReadyPenalizations(h) PROVE Timely'
  <2>1. /\ ReadyPenalizations \in Kept(Penalizations)
        /\ \A i \in DOMAIN ReadyPenalizations : IsDue(ReadyPenalizations[i], block)
    BY <1>0, ReadyAreDue
  <2>2. TakeNext(h, ReadyPenalizations) /\ UNCHANGED <<block, commits, pool, ready, reveals>>
    BY <1>6 DEF ExecuteReadyPenalizations, chain
  <2> HIDE DEF ReadyPenalizations
  <2>3. Range(scheduled') \subseteq Range(scheduled) /\ IsInjective(scheduled') /\ TakenAreDue'
    BY <2>1, <2>2, TakesTimely
  <2> QED
    BY <1>0, <2>2, <2>3, <1>a, <1>d, <1>e, <1>f DEF Timely
<1>7. ASSUME NEW h \in Handlers, ExecuteDelayedPenalization(h) PROVE Timely'
  <2> DEFINE todo == handler[h].todo
             first == FirstOf(todo)
  <2>1. todo \in Kept(Penalizations) /\ DOMAIN todo # {}
    BY <1>7 DEF TypesAre, TodoWhenRevealing, ExecuteDelayedPenalization, HandlerRecords
  <2>2. /\ FirstPlace(todo) \in DOMAIN todo /\ first = todo[FirstPlace(todo)]
        /\ first \in Penalizations
        /\ RestOf(todo) \in Kept(Penalizations)
        /\ DOMAIN RestOf(todo) \subseteq DOMAIN todo
        /\ \A i \in DOMAIN RestOf(todo) : RestOf(todo)[i] = todo[i]
    BY <2>1, FirstAndRest
  <2>3. \A i \in DOMAIN todo : IsDue(todo[i], block)
    BY <1>0 DEF TakenAreDue
  <2>4. IsDue(first, block) /\ \A i \in DOMAIN RestOf(todo) : IsDue(RestOf(todo)[i], block)
    BY <2>2, <2>3
  <2>5. /\ TakeNext(h, RestOf(todo)) /\ UNCHANGED <<block, commits, pool, ready, audit>>
        /\ reveals' = reveals \cup {[of |-> first, at |-> block, by |-> h]}
    BY <1>7 DEF ExecuteDelayedPenalization, chain
  <2> HIDE DEF todo, first
  <2>6. Range(scheduled') \subseteq Range(scheduled) /\ IsInjective(scheduled') /\ TakenAreDue'
    BY <2>2, <2>4, <2>5, TakesTimely
  <2>7. RevealedDue'
    BY <1>0, <2>4, <2>5 DEF RevealedDue, IsDue
  <2>8. audit[first[1]].pc = "done"
    BY <1>0, <2>2, <2>4 DEF Broadcasts, IsDue
  <2>9. Schedules'
    <3>1. ASSUME NEW p \in Penalizations, audit[p[1]].pc \notin {"commit", "done"} PROVE Fresh(p)'
      <4>1. p # first
        BY <2>8, <3>1
      <4>2. Fresh(p)
        BY <1>0, <3>1 DEF Schedules
      <4> QED
        BY <2>5, <2>6, <4>1, <4>2 DEF Fresh
    <3> QED
      BY <2>5, <3>1 DEF Schedules
  <2> QED
    BY <1>0, <2>5, <2>6, <2>7, <2>9, <1>e, <1>f DEF Timely
<1>8. ASSUME NEW h \in Handlers, HandlerFails(h) PROVE Timely'
  <2>1. \A g \in Handlers : handler'[g].todo = handler[g].todo \/ DOMAIN handler'[g].todo = {}
    BY <1>8, NothingKept DEF HandlerFails, NoHandler, TypesAre
  <2> QED
    BY <1>0, <1>8, <2>1, <1>a, <1>c, <1>d, <1>e, <1>f DEF HandlerFails, chain, plan, Timely
<1>9. CASE MineBlock
  <2>1. PICK included \in SUBSET pool :
             /\ pool' = pool \ included
             /\ commits' = [p \in Penalizations |-> IF p \in included THEN block + 1 + Delay
                                                    ELSE commits[p]]
    BY <1>9 DEF MineBlock
  <2>2. pool \subseteq Penalizations /\ commits \in [Penalizations -> Nat]
    BY DEF TypesAre
  <2>3. \A p \in Penalizations : p \notin pool => commits'[p] = commits[p]
    BY <2>1, <2>2
  <2>4. Broadcasts'
    <3>1. \A p \in pool' : commits'[p] = commits[p] /\ p \in pool
      BY <2>1, <2>2
    <3>2. ASSUME NEW p \in Penalizations, audit'[p[1]].pc # "done"
          PROVE  commits'[p] = 0 /\ p \notin pool'
      <4>1. audit[p[1]].pc # "done"
        BY <1>9, <3>2 DEF MineBlock
      <4>2. commits[p] = 0 /\ p \notin pool
        BY <1>0, <4>1 DEF Broadcasts
      <4> QED
        BY <2>1, <2>3, <4>2
    <3> QED
      BY <1>0, <3>1, <3>2 DEF Broadcasts
  <2>5. ReadyIsKnown'
    <3>1. UNCHANGED ready
      BY <1>9 DEF MineBlock, plan
    <3>2. \A p \in Penalizations : ready[p] # 0 => commits'[p] = commits[p]
      BY <1>0, <2>3 DEF Broadcasts, ReadyIsKnown
    <3> QED
      BY <1>0, <3>1, <3>2 DEF ReadyIsKnown
  <2> QED
    BY <1>0, <1>9, <2>4, <2>5, <1>a, <1>c, <1>d DEF MineBlock, plan, service, Timely
<1>10. CASE MineTransaction
  BY <1>0, <1>10, <1>a, <1>c, <1>d, <1>e, <1>f DEF MineTransaction, plan, service, Timely
<1>11. CASE Restart
  <2>1. Range(scheduled') = {} /\ IsInjective(scheduled')
    BY <1>11 DEF Restart, Range, IsInjective
  <2>2. \A h \in Handlers : DOMAIN handler'[h].todo = {}
    BY <1>11, NothingKept DEF Restart, NoHandler
  <2>3. ReadyIsKnown'
    BY <1>11 DEF Restart, ReadyIsKnown
  <2> QED
    BY <1>11, <2>1, <2>2, <2>3, <1>a, <1>c, <1>d, <1>e DEF Restart, chain, Timely
<1>12. CASE UNCHANGED vars
  BY <1>0, <1>12, <1>a, <1>c, <1>d, <1>e, <1>f DEF vars, chain, plan, service, Timely
<1> QED
  BY <1>1, <1>2, <1>3, <1>4, <1>5, <1>6, <1>7, <1>8, <1>9, <1>10, <1>11, <1>12, AuditSteps
     DEF Next, HandlerStep

(* --------------------------- a handler that is alone ---------------------- *)

LEMMA LonelyInit == Init => Lonely
<1> SUFFICES ASSUME Init PROVE Lonely
  OBVIOUS
<1>1. \A h \in Handlers : handler[h].pc = "idle"
  BY DEF Init, NoHandler
<1>2. reveals = {} /\ dropped = {} /\ DOMAIN scheduled = {}
  BY DEF Init
<1> QED
  BY <1>1, <1>2 DEF Lonely, OneHandler, RemovesOnlyReady

\* What is taken off a schedule that holds it is what was meant.
LEMMA TakesAlone ==
    ASSUME TypesAre, IsInjective(scheduled), NEW h \in Handlers,
           NEW todo \in Kept(Penalizations), TakeNext(h, todo), DOMAIN todo # {},
           \A i \in DOMAIN todo : todo[i] \in Range(scheduled), IsInjective(todo)
    PROVE  /\ handler'[h].pc = "reveal" /\ handler'[h].todo = todo
           /\ Range(scheduled') \subseteq Range(scheduled)
           /\ FirstOf(todo) \notin Range(scheduled')
           /\ \A i \in DOMAIN RestOf(todo) : todo[i] \in Range(scheduled')
           /\ dropped' = dropped \cup {[of |-> FirstOf(todo), at |-> block]}
<1>1. /\ FirstPlace(todo) \in DOMAIN todo /\ FirstOf(todo) = todo[FirstPlace(todo)]
      /\ DOMAIN RestOf(todo) = DOMAIN todo \ {FirstPlace(todo)}
  BY FirstAndRest
<1>2. FirstOf(todo) \in Range(scheduled)
  BY <1>1
<1>3. scheduled # <<>>
  <2>1. PICK i \in DOMAIN scheduled : scheduled[i] = FirstOf(todo)
    BY <1>2 DEF Range
  <2> QED
    BY <2>1
<1>4. /\ handler'[h].pc = "reveal" /\ handler'[h].todo = todo
      /\ \E k \in 1..Len(scheduled) :
            /\ scheduled[k] = FirstOf(todo)
            /\ scheduled' = RemoveAt(scheduled, k)
            /\ dropped' = dropped \cup {[of |-> scheduled[k], at |-> block]}
  BY <1>2, <1>3, Takes
<1>5. PICK k \in 1..Len(scheduled) :
            /\ scheduled[k] = FirstOf(todo)
            /\ scheduled' = RemoveAt(scheduled, k)
            /\ dropped' = dropped \cup {[of |-> scheduled[k], at |-> block]}
  BY <1>4
<1>6. scheduled \in Seq(Penalizations)
  BY DEF TypesAre
<1>7. /\ Range(scheduled') \subseteq Range(scheduled)
      /\ \A i \in DOMAIN scheduled : i # k => scheduled[i] \in Range(scheduled')
      /\ scheduled[k] \notin Range(scheduled')
  BY <1>5, <1>6, Spliced
<1>8. ASSUME NEW i \in DOMAIN RestOf(todo) PROVE todo[i] \in Range(scheduled')
  <2>1. i \in DOMAIN todo /\ i # FirstPlace(todo)
    BY <1>1
  <2>2. todo[i] # FirstOf(todo)
    BY <1>1, <2>1 DEF IsInjective
  <2>3. PICK j \in DOMAIN scheduled : scheduled[j] = todo[i]
    BY <2>1 DEF Range
  <2> QED
    BY <1>5, <1>7, <2>2, <2>3
<1> QED
  BY <1>4, <1>5, <1>7, <1>8

LEMMA LonelyNext == TypesAre /\ Timely /\ Lonely /\ [Next]_vars => Lonely'
<1> SUFFICES ASSUME TypesAre, Timely, Lonely, [Next]_vars, ~overlapped' PROVE Lonely'
  BY DEF Lonely
<1>0. /\ Schedules /\ Broadcasts /\ ReadyIsKnown /\ TakenAreDue /\ IsInjective(scheduled)
      /\ scheduled \in Seq(Penalizations) /\ handler \in [Handlers -> HandlerRecords]
  BY DEF Timely, TypesAre
<1> DEFINE Unrevealed == \A p \in Range(scheduled) : \A r \in reveals : r.of # p
           Once == \A r, q \in reveals : r.of = q.of => r = q
           Held == \A h \in Handlers : handler[h].pc = "reveal" => Holds(handler[h].todo)
<1>1. ASSUME ~overlapped PROVE OneHandler /\ Held /\ Unrevealed /\ RemovesOnlyReady /\ Once
  BY <1>1 DEF Lonely, Range
<1>2. ASSUME OneHandler', Held', Unrevealed', RemovesOnlyReady', Once' PROVE Lonely'
  BY <1>2 DEF Lonely, Range
<1>3. ASSUME UNCHANGED dropped, ~overlapped PROVE RemovesOnlyReady'
  <2>1. ASSUME NEW d \in dropped PROVE commits'[d.of] # 0 /\ commits'[d.of] <= d.at
    <3>1. d.of \in Penalizations
      BY DEF TypesAre
    <3>2. commits[d.of] # 0 /\ commits[d.of] <= d.at
      BY <1>1, <1>3 DEF RemovesOnlyReady
    <3> QED
      BY <1>0, <3>1, <3>2, CommitsStay
  <2> QED
    BY <1>3, <2>1 DEF RemovesOnlyReady
<1>4. ASSUME UNCHANGED <<handler, scheduled, reveals, overlapped, dropped>> PROVE Lonely'
  <2>1. ~overlapped
    BY <1>4
  <2>2. OneHandler' /\ Held' /\ Unrevealed' /\ Once'
    BY <1>1, <1>4, <2>1 DEF OneHandler, Holds
  <2> QED
    BY <1>2, <1>3, <1>4, <2>1, <2>2
<1> HIDE DEF Unrevealed, Once, Held
<1>5. ASSUME NEW a \in Audits, Quiet(a) PROVE Lonely'
  BY <1>4, <1>5 DEF Quiet, service, plan
<1>6. ASSUME NEW a \in Audits, ValidatePenalization(a) PROVE Lonely'
  <2> DEFINE p == <<a, audit[a].pass>>
  <2>1. p \in Penalizations /\ p[1] = a
    BY DEF TypesAre, AuditRecords, Penalizations
  <2>2. audit[a].pc = "view" /\ UNCHANGED <<handler, reveals, overlapped, dropped>>
    BY <1>6 DEF ValidatePenalization, At, service
  <2>3. ~overlapped
    BY <2>2
  <2>4. CASE UNCHANGED scheduled
    BY <1>4, <2>2, <2>4
  <2>5. CASE scheduled' = Append(scheduled, p)
    <3>1. Fresh(p)
      BY <1>0, <2>1, <2>2 DEF Schedules
    <3>2. Range(scheduled') = Range(scheduled) \cup {p}
      BY <1>0, <2>1, <2>5, Appended
    <3>3. OneHandler' /\ Once'
      BY <1>1, <2>2, <2>3 DEF OneHandler, Once
    <3>4. Unrevealed'
      BY <1>1, <2>2, <2>3, <3>1, <3>2 DEF Unrevealed, Fresh
    <3>5. Held'
      <4>1. ASSUME NEW h \in Handlers, handler[h].pc = "reveal"
            PROVE  FirstOf(handler[h].todo) # p
        <5>1. handler[h].todo \in Kept(Penalizations) /\ DOMAIN handler[h].todo # {}
          BY <4>1 DEF TypesAre, TodoWhenRevealing, HandlerRecords
        <5>2. /\ FirstPlace(handler[h].todo) \in DOMAIN handler[h].todo
              /\ FirstOf(handler[h].todo) = handler[h].todo[FirstPlace(handler[h].todo)]
          BY <5>1, FirstAndRest
        <5>3. commits[FirstOf(handler[h].todo)] # 0
          BY <1>0, <5>2 DEF TakenAreDue, IsDue
        <5>4. commits[p] = 0
          BY <1>0, <2>1, <2>2 DEF Broadcasts
        <5> QED
          BY <5>3, <5>4
      <4>2. ASSUME NEW h \in Handlers, handler[h].pc = "reveal"
            PROVE  Holds(handler[h].todo)'
        <5>1. Holds(handler[h].todo)
          BY <1>1, <2>3, <4>2 DEF Held
        <5>2. FirstOf(handler[h].todo) # p
          BY <4>1, <4>2
        <5> HIDE DEF p
        <5> QED
          BY <2>2, <3>2, <5>1, <5>2 DEF Holds
      <4> QED
        BY <2>2, <4>2 DEF Held
    <3> QED
      BY <1>2, <1>3, <2>2, <2>3, <3>3, <3>4, <3>5
  <2> QED
    BY <1>6, <2>4, <2>5 DEF ValidatePenalization
<1>7. ASSUME NEW a \in Audits, CommitAndScheduleReveal(a) PROVE Lonely'
  BY <1>4, <1>7 DEF CommitAndScheduleReveal, service, plan
<1>8. ASSUME NEW h \in Handlers, IntervalHandler(h) PROVE Lonely'
  <2>1. ~overlapped /\ \A g \in Handlers \ {h} : handler[g].pc = "idle"
    BY <1>8 DEF IntervalHandler
  <2>2. /\ handler'[h].pc # "reveal"
        /\ \A g \in Handlers \ {h} : handler'[g].pc = "idle"
    BY <1>0, <1>8, <2>1 DEF IntervalHandler, HandlerRecords
  <2>3. OneHandler' /\ Held'
    BY <2>2 DEF OneHandler, Held
  <2>4. Unrevealed' /\ Once' /\ UNCHANGED dropped
    BY <1>1, <1>8, <2>1 DEF IntervalHandler, Unrevealed, Once, plan
  <2> QED
    BY <1>2, <1>3, <2>1, <2>3, <2>4
\* A handler that takes a step is the one that is not idle.
<1>9. ASSUME NEW h \in Handlers, handler[h].pc # "idle", ~overlapped
      PROVE  \A g \in Handlers \ {h} : handler[g].pc = "idle"
  BY <1>1, <1>9 DEF OneHandler
<1>10. ASSUME NEW h \in Handlers, QueryReadyBlocks(h) PROVE Lonely'
  <2>1. ~overlapped /\ handler[h].pc # "idle"
    BY <1>10 DEF QueryReadyBlocks
  <2>2. /\ handler'[h].pc # "reveal"
        /\ \A g \in Handlers \ {h} : handler'[g].pc = "idle"
    BY <1>0, <1>9, <1>10, <2>1 DEF QueryReadyBlocks, HandlerRecords
  <2>3. OneHandler' /\ Held'
    BY <2>2 DEF OneHandler, Held
  <2>4. Unrevealed' /\ Once' /\ UNCHANGED dropped
    BY <1>1, <1>10, <2>1 DEF QueryReadyBlocks, Unrevealed, Once
  <2> QED
    BY <1>2, <1>3, <2>1, <2>3, <2>4
\* Both handlers' steps that take a penalization off the schedule.
<1>11. ASSUME NEW h \in Handlers, handler[h].pc # "idle", ~overlapped,
              NEW todo \in Kept(Penalizations), TakeNext(h, todo), UNCHANGED <<commits, block>>,
              IsInjective(todo),
              \A i \in DOMAIN todo : todo[i] \in Range(scheduled) /\ IsDue(todo[i], block),
              \A p \in Range(scheduled) : \A r \in reveals' : r.of # p, Once'
       PROVE  Lonely'
  <2>1. /\ handler' \in [Handlers -> HandlerRecords]
        /\ \A g \in Handlers \ {h} : handler'[g].pc = "idle"
    BY <1>9, <1>11, Takes
  <2>2. OneHandler'
    BY <2>1 DEF OneHandler
  <2>3. CASE DOMAIN todo = {}
    <3>1. handler'[h] = NoHandler /\ UNCHANGED <<scheduled, dropped>>
      BY <1>11, <2>3, Takes
    <3>2. Held' /\ Unrevealed'
      BY <1>11, <2>1, <3>1 DEF Held, Unrevealed, NoHandler
    <3> QED
      BY <1>2, <1>3, <1>11, <2>2, <3>1, <3>2
  <2>4. CASE DOMAIN todo # {}
    <3>1. /\ handler'[h].pc = "reveal" /\ handler'[h].todo = todo
          /\ Range(scheduled') \subseteq Range(scheduled)
          /\ FirstOf(todo) \notin Range(scheduled')
          /\ \A i \in DOMAIN RestOf(todo) : todo[i] \in Range(scheduled')
          /\ dropped' = dropped \cup {[of |-> FirstOf(todo), at |-> block]}
      BY <1>0, <1>11, <2>4, TakesAlone
    <3>2. Holds(todo)'
      BY <1>11, <3>1 DEF Holds
    <3>3. Held'
      BY <2>1, <3>1, <3>2 DEF Held
    <3>4. Unrevealed'
      BY <1>11, <3>1 DEF Unrevealed
    <3>5. IsDue(FirstOf(todo), block)
      <4>1. FirstPlace(todo) \in DOMAIN todo /\ FirstOf(todo) = todo[FirstPlace(todo)]
        BY <2>4, FirstAndRest
      <4> QED
        BY <1>11, <4>1
    <3>6. RemovesOnlyReady'
      BY <1>1, <1>11, <3>1, <3>5 DEF RemovesOnlyReady, IsDue
    <3> QED
      BY <1>2, <1>11, <2>2, <3>3, <3>4, <3>6
  <2> QED
    BY <2>3, <2>4
<1>12. ASSUME NEW h \in Handlers, ExecuteReadyPenalizations(h) PROVE Lonely'
  <2>1. /\ ~overlapped /\ handler[h].pc # "idle" /\ TakeNext(h, ReadyPenalizations)
        /\ UNCHANGED <<block, commits, reveals>>
    BY <1>12 DEF ExecuteReadyPenalizations, chain
  <2>2. /\ ReadyPenalizations \in Kept(Penalizations)
        /\ \A i \in DOMAIN ReadyPenalizations :
              /\ i \in DOMAIN scheduled /\ ReadyPenalizations[i] = scheduled[i]
              /\ IsDue(ReadyPenalizations[i], block)
    BY <1>0, ReadyAreDue
  <2> HIDE DEF ReadyPenalizations
  <2>3. IsInjective(ReadyPenalizations)
    BY <1>0, <2>2 DEF IsInjective
  <2>4. \A i \in DOMAIN ReadyPenalizations : ReadyPenalizations[i] \in Range(scheduled)
    BY <2>2 DEF Range
  <2>5. (\A p \in Range(scheduled) : \A r \in reveals' : r.of # p) /\ Once'
    BY <1>1, <2>1 DEF Unrevealed, Once
  <2> QED
    BY <1>11, <2>1, <2>2, <2>3, <2>4, <2>5
<1>13. ASSUME NEW h \in Handlers, ExecuteDelayedPenalization(h) PROVE Lonely'
  <2> DEFINE todo == handler[h].todo
             first == FirstOf(todo)
  <2>1. /\ ~overlapped /\ handler[h].pc = "reveal" /\ TakeNext(h, RestOf(todo))
        /\ UNCHANGED <<block, commits>>
        /\ reveals' = reveals \cup {[of |-> first, at |-> block, by |-> h]}
    BY <1>13 DEF ExecuteDelayedPenalization, chain
  <2>2. todo \in Kept(Penalizations) /\ DOMAIN todo # {}
    BY <2>1 DEF TypesAre, TodoWhenRevealing, HandlerRecords
  <2>3. Holds(todo)
    BY <1>1, <2>1 DEF Held
  <2>4. \A i \in DOMAIN todo : IsDue(todo[i], block)
    BY <1>0 DEF TakenAreDue
  <2> HIDE DEF todo, first
  <2>5. /\ FirstPlace(todo) \in DOMAIN todo /\ first = todo[FirstPlace(todo)]
        /\ RestOf(todo) \in Kept(Penalizations)
        /\ DOMAIN RestOf(todo) = DOMAIN todo \ {FirstPlace(todo)}
        /\ \A i \in DOMAIN RestOf(todo) : RestOf(todo)[i] = todo[i]
    BY <2>2, FirstAndRest DEF first
  <2>6. IsInjective(RestOf(todo))
    BY <2>3, <2>5 DEF Holds, IsInjective
  <2>7. \A i \in DOMAIN RestOf(todo) :
          RestOf(todo)[i] \in Range(scheduled) /\ IsDue(RestOf(todo)[i], block)
    BY <2>3, <2>4, <2>5 DEF Holds
  <2>8. first \notin Range(scheduled) /\ \A r \in reveals : r.of # first
    BY <2>3, <2>5 DEF Holds, first
  <2>9. \A p \in Range(scheduled) : \A r \in reveals' : r.of # p
    BY <1>1, <2>1, <2>8 DEF Unrevealed
  <2>10. Once'
    BY <1>1, <2>1, <2>8 DEF Once
  <2>11. handler[h].pc # "idle"
    BY <2>1
  <2> QED
    BY <1>11, <2>1, <2>5, <2>6, <2>7, <2>9, <2>10, <2>11
<1>14. ASSUME NEW h \in Handlers, HandlerFails(h) PROVE Lonely'
  <2>1. ~overlapped /\ UNCHANGED <<scheduled, reveals, dropped>>
    BY <1>14 DEF HandlerFails, plan
  <2>2. \A g \in Handlers : handler'[g] = IF g = h THEN NoHandler ELSE handler[g]
    BY <1>0, <1>14 DEF HandlerFails
  <2>3. OneHandler'
    BY <1>1, <2>1, <2>2 DEF OneHandler, NoHandler
  <2>4. Held'
    BY <1>1, <2>1, <2>2 DEF Held, Holds, NoHandler
  <2>5. Unrevealed' /\ Once'
    BY <1>1, <2>1 DEF Unrevealed, Once
  <2> QED
    BY <1>2, <1>3, <2>1, <2>3, <2>4, <2>5
<1>15. CASE MineBlock \/ MineTransaction
  BY <1>4, <1>15 DEF MineBlock, MineTransaction, service, plan
<1>16. CASE Restart
  <2>1. ~overlapped /\ UNCHANGED <<reveals, dropped>>
    BY <1>16 DEF Restart
  <2>2. \A g \in Handlers : handler'[g].pc = "idle"
    BY <1>16 DEF Restart, NoHandler
  <2>3. OneHandler' /\ Held'
    BY <2>2 DEF OneHandler, Held
  <2>4. Unrevealed' /\ Once'
    BY <1>1, <1>16, <2>1 DEF Restart, Unrevealed, Once, Range
  <2> QED
    BY <1>2, <1>3, <2>1, <2>3, <2>4
<1>17. CASE UNCHANGED vars
  BY <1>4, <1>17 DEF vars, service, plan
<1> QED
  BY <1>5, <1>6, <1>7, <1>8, <1>10, <1>12, <1>13, <1>14, <1>15, <1>16, <1>17, AuditSteps
     DEF Next, HandlerStep

(* -------------------------------- the search ------------------------------ *)

LEMMA PagesFollow ==
    ASSUME NEW n \in Nat, n # 0
    PROVE  /\ Before(n) \in Nat
           /\ n * PageSize = Before(n) + PageSize
           /\ Before(n + 1) = Before(n) + PageSize
           /\ Before(1) = 0
<1>1. PageSize \in Nat
  BY PenalizerAssumption
<1>2. PICK m \in Nat : n = m + 1
  <2>1. n - 1 \in Nat /\ n = (n - 1) + 1
    OBVIOUS
  <2> QED
    BY <2>1
<1>3. m * PageSize \in Nat /\ (m + 1) * PageSize = m * PageSize + PageSize
  BY <1>1, <1>2
<1>4. n - 1 = m /\ (n + 1) - 1 = n
  BY <1>2
<1>5. Before(n) = m * PageSize /\ Before(n + 1) = n * PageSize
  BY <1>4 DEF Before
<1>6. Before(1) = 0
  BY <1>1 DEF Before
<1> QED
  BY <1>2, <1>3, <1>5, <1>6

LEMMA PageHolds ==
    ASSUME listing \in Seq(Listed), NEW n \in Nat, n # 0, Before(n) <= Len(listing)
    PROVE  LET page == PageOf(n) IN
           /\ page \in Seq(Listed) /\ Len(page) <= PageSize
           /\ Len(page) < PageSize => Len(listing) = Before(n) + Len(page)
           /\ Before(n) + Len(page) <= Len(listing)
           /\ \A i \in DOMAIN page : page[i] = listing[Before(n) + i]
<1> DEFINE k == Before(n)
           len == Len(listing)
           e == IF k + PageSize < len THEN k + PageSize ELSE len
           page == PageOf(n)
<1>1. PageSize \in Nat /\ PageSize # 0 /\ len \in Nat
  BY PenalizerAssumption, LenProperties
<1>2. k \in Nat /\ n * PageSize = k + PageSize /\ k <= len
  BY PagesFollow
<1>3. page = SubSeq(listing, k + 1, e)
  BY <1>2 DEF PageOf, Before
<1> HIDE DEF k, page, len
<1>4. e \in Nat /\ e <= len /\ k <= e /\ e - k <= PageSize
      /\ (e - k < PageSize => e = len)
  BY <1>1, <1>2
<1> HIDE DEF e
<1>5. k + 1 \in Int /\ e \in Int /\ \A i \in (k + 1)..e : listing[i] \in Listed
  <2>1. \A i \in (k + 1)..e : i \in 1..len
    BY <1>1, <1>2, <1>4
  <2> QED
    BY <1>2, <1>4, <2>1, ElementOfSeq DEF len
<1>6. /\ SubSeq(listing, k + 1, e) \in Seq(Listed)
      /\ Len(SubSeq(listing, k + 1, e)) = IF k + 1 <= e THEN e - (k + 1) + 1 ELSE 0
      /\ \A i \in 1..(e - (k + 1) + 1) : SubSeq(listing, k + 1, e)[i] = listing[(k + 1) + i - 1]
  BY <1>5, SubSeqProperties
<1>7. page \in Seq(Listed) /\ Len(page) = e - k
  <2>1. CASE k + 1 <= e
    BY <1>2, <1>3, <1>4, <1>6, <2>1
  <2>2. CASE ~(k + 1 <= e)
    BY <1>2, <1>3, <1>4, <1>6, <2>2
  <2> QED
    BY <2>1, <2>2
<1>8. ASSUME NEW i \in DOMAIN page PROVE page[i] = listing[k + i]
  <2>1. DOMAIN page = 1..(e - k)
    BY <1>7, LenProperties
  <2>2. i \in 1..(e - (k + 1) + 1) /\ (k + 1) + i - 1 = k + i
    BY <1>2, <1>4, <2>1
  <2> QED
    BY <1>3, <1>6, <2>2
<1> DEFINE size == Len(page)
<1>9. size <= PageSize /\ (size < PageSize => len = k + size) /\ k + size <= len
  <2>1. size = e - k
    BY <1>7
  <2> HIDE DEF size
  <2> QED
    BY <1>1, <1>2, <1>4, <2>1
<1> QED
  BY <1>7, <1>8, <1>9 DEF page, k, len

(* ----- the order of the nonces ----- *)

\* The transactions the worker sent among the first k of a list.
SentOf(list, k) == {i \in 1..k : list[i] # Incoming}

LEMMA SentBefore ==
    ASSUME NEW list \in Seq(Listed), NEW k \in 0..Len(list)
    PROVE  /\ Sent(SubSeq(list, 1, k)) = Cardinality(SentOf(list, k))
           /\ IsFiniteSet(SentOf(list, k))
<1>1. Len(list) \in Nat /\ DOMAIN list = 1..Len(list) /\ k \in Int /\ 1 \in Int
  BY LenProperties
<1> DEFINE s == SubSeq(list, 1, k)
<1>2. s \in Seq(Listed) /\ Len(s) = k /\ \A i \in 1..k : s[i] = list[i]
  <2>1. \A i \in 1..k : list[i] \in Listed
    BY <1>1, ElementOfSeq
  <2>2. /\ s \in Seq(Listed) /\ Len(s) = IF 1 <= k THEN k - 1 + 1 ELSE 0
        /\ \A i \in 1..(k - 1 + 1) : s[i] = list[1 + i - 1]
    BY <1>1, <2>1, SubSeqProperties
  <2> HIDE DEF s
  <2> QED
    BY <1>1, <2>2
<1> HIDE DEF s
<1>3. DOMAIN s = 1..k
  BY <1>2, LenProperties
<1>4. DOMAIN Outgoing(s) = {i \in DOMAIN s : s[i] # Incoming}
  BY <1>2, OutgoingKept
<1>5. DOMAIN Outgoing(s) = SentOf(list, k)
  BY <1>2, <1>3, <1>4 DEF SentOf
<1>6. IsFiniteSet(SentOf(list, k))
  <2>1. IsFiniteSet(1..k)
    BY <1>1, FS_Interval
  <2> QED
    BY <2>1, FS_Subset DEF SentOf
<1> QED
  BY <1>5, <1>6 DEF Sent, s

\* No two transactions of the worker have the same nonce.
LEMMA NoncesDiffer ==
    ASSUME NEW list \in Seq(Listed), Numbered(list),
           NEW i \in 1..Len(list), NEW j \in 1..Len(list),
           list[i] # Incoming, list[j] # Incoming, list[i].nonce = list[j].nonce
    PROVE  i = j
<1>1. Len(list) \in Nat /\ DOMAIN list = 1..Len(list)
  BY LenProperties
<1>2. ASSUME NEW m \in 1..Len(list), list[m] # Incoming
      PROVE  /\ list[m].nonce = Cardinality(SentOf(list, m - 1))
             /\ IsFiniteSet(SentOf(list, m - 1))
  <2>1. m - 1 \in 0..Len(list)
    BY <1>1
  <2>2. list[m].nonce = Sent(SubSeq(list, 1, m - 1))
    BY <1>1, <1>2 DEF Numbered
  <2> QED
    BY <2>1, <2>2, SentBefore
<1>3. ASSUME NEW m \in 1..Len(list), NEW n \in 1..Len(list), m < n,
             list[m] # Incoming, list[n] # Incoming
      PROVE  list[m].nonce # list[n].nonce
  <2> DEFINE A == SentOf(list, m - 1)
             B == SentOf(list, n - 1)
  <2>1. IsFiniteSet(A) /\ IsFiniteSet(B)
        /\ list[m].nonce = Cardinality(A) /\ list[n].nonce = Cardinality(B)
    BY <1>2, <1>3
  <2>2. m \notin A /\ A \cup {m} \subseteq B
    BY <1>1, <1>3 DEF SentOf
  <2> HIDE DEF A, B
  <2>3. Cardinality(A \cup {m}) = Cardinality(A) + 1 /\ IsFiniteSet(A \cup {m})
    BY <2>1, <2>2, FS_AddElement
  <2>4. Cardinality(A \cup {m}) <= Cardinality(B)
    BY <2>1, <2>2, FS_Subset
  <2>5. Cardinality(A) \in Nat /\ Cardinality(B) \in Nat
    BY <2>1, FS_CardinalityType
  <2> QED
    BY <2>1, <2>3, <2>4, <2>5
<1>4. i \in Nat /\ j \in Nat
  BY <1>1
<1> QED
  BY <1>3, <1>4

LEMMA NumberedOn ==
    ASSUME NEW list \in Seq(Listed), Numbered(list),
           NEW t \in Txs, t.nonce = Sent(list)
    PROVE  Numbered(Append(list, t))
<1> DEFINE s == Append(list, t)
<1>1. /\ t \in Listed /\ s \in Seq(Listed) /\ Len(s) = Len(list) + 1 /\ Len(list) \in Nat
      /\ DOMAIN s = 1..(Len(list) + 1) /\ DOMAIN list = 1..Len(list)
      /\ \A i \in 1..Len(list) : s[i] = list[i]
      /\ s[Len(list) + 1] = t
  BY AppendProperties, LenProperties DEF Listed
<1> HIDE DEF s
<1>2. ASSUME NEW k \in 0..Len(list)
      PROVE  Sent(SubSeq(s, 1, k)) = Sent(SubSeq(list, 1, k))
  <2>1. SentOf(s, k) = SentOf(list, k)
    BY <1>1 DEF SentOf
  <2>2. k \in 0..Len(s)
    BY <1>1
  <2> QED
    BY <1>1, <2>1, <2>2, SentBefore
<1>3. ASSUME NEW i \in DOMAIN s, s[i] # Incoming
      PROVE  s[i].nonce = Sent(SubSeq(s, 1, i - 1))
  <2>1. CASE i \in 1..Len(list)
    <3>1. i - 1 \in 0..Len(list)
      BY <1>1, <2>1
    <3>2. list[i].nonce = Sent(SubSeq(list, 1, i - 1))
      BY <1>1, <1>3, <2>1 DEF Numbered
    <3> QED
      BY <1>1, <1>2, <2>1, <3>1, <3>2
  <2>2. CASE i = Len(list) + 1
    <3>1. i - 1 = Len(list) /\ Len(list) \in 0..Len(list)
      BY <1>1, <2>2
    <3>2. Sent(SubSeq(list, 1, Len(list))) = Sent(list)
      BY SubSeqFull
    <3> QED
      BY <1>1, <1>2, <2>2, <3>1, <3>2
  <2> QED
    BY <1>1, <2>1, <2>2
<1> QED
  BY <1>3 DEF Numbered, s

(* ----- what a search does ----- *)

LEMMA Marks ==
    ASSUME TypesAre, SearchesSay, NEW a \in Audits, AuditHandler(a) \/ AuditStep(a)
    PROVE  /\ Says(audit'[a])
           /\ audit[a].searched => audit'[a].searched
<1> USE DEF At, Searching, Early
<1>1. audit \in [Audits -> AuditRecords] /\ audit[a] \in AuditRecords /\ Says(audit[a])
  BY DEF TypesAre, SearchesSay
<1>2. /\ Done(a).pc = "done" /\ Missed(a).pc = "done" /\ NotRepeated(a).pc = "validate"
      /\ NotRepeated(a).missed = audit[a].missed
      /\ Done(a).searched = audit[a].searched
      /\ Missed(a).searched = audit[a].searched
      /\ NotRepeated(a).searched = audit[a].searched
  BY <1>1, AnswersKeep
<1> DEFINE Fits(s) == Says(s) /\ (audit[a].searched => s.searched)
<1>3. Fits(Done(a)) /\ Fits(Missed(a))
  BY <1>2 DEF Says
<1>4. audit[a].pc \in Early => Fits(NotRepeated(a))
  BY <1>1, <1>2 DEF Says
\* Going on from one state to another like it.
<1>5. ASSUME audit[a].pc # "done",
             \/ audit[a].pc \in Early /\ audit'[a].pc \in Early
             \/ audit[a].pc \in Searching /\ audit'[a].pc \in Searching
             \/ audit'[a].pc \in {"node", "view", "commit"},
             audit'[a].searched = audit[a].searched, audit'[a].missed = audit[a].missed
      PROVE  Fits(audit'[a])
  BY <1>1, <1>5 DEF Says
<1>6. CASE AuditHandler(a)
  <2>1. PICK t \in {q[2] : q \in {q \in world.requests : q[1] = a}} :
          audit' = [audit EXCEPT ![a] =
             [@ EXCEPT !.pc = "validate", !.tx = t,
                       !.pass = IF world.explorer THEN audit[a].pass ELSE "illegalTransaction"]]
    BY <1>6 DEF AuditHandler
  <2>2. /\ audit'[a].pc = "validate" /\ audit'[a].searched = audit[a].searched
        /\ audit'[a].missed = audit[a].missed /\ audit[a].pc = "idle"
    BY <1>1, <1>6, <2>1 DEF AuditRecords, AuditHandler
  <2> QED
    BY <1>5, <2>2
<1>7. CASE ValidateTransaction(a)
  <2>1. \/ audit'[a] = Done(a) \/ audit'[a] = NotRepeated(a)
        \/ \E c \in {"mined", "view"} : audit'[a] = [audit[a] EXCEPT !.pc = c]
    BY <1>1, <1>7 DEF ValidateTransaction
  <2>2. audit[a].pc = "validate"
    BY <1>7 DEF ValidateTransaction
  <2>3. ASSUME NEW c \in {"mined", "view"}, audit'[a] = [audit[a] EXCEPT !.pc = c]
        PROVE  Fits(audit'[a])
    <3>1. /\ audit'[a].pc = c /\ audit'[a].searched = audit[a].searched
          /\ audit'[a].missed = audit[a].missed
      BY <1>1, <2>3 DEF AuditRecords
    <3> QED
      BY <1>5, <2>2, <3>1
  <2> QED
    BY <1>3, <1>4, <2>1, <2>2, <2>3
<1>8. CASE IsTransactionMined(a)
  <2>1. \/ audit'[a] = NotRepeated(a)
        \/ audit'[a] = [audit[a] EXCEPT !.pc = "nonce"]
    BY <1>1, <1>8 DEF IsTransactionMined
  <2>2. audit[a].pc = "mined"
    BY <1>8 DEF IsTransactionMined
  <2>3. ASSUME audit'[a] = [audit[a] EXCEPT !.pc = "nonce"] PROVE Fits(audit'[a])
    BY <1>1, <1>5, <2>2, <2>3 DEF AuditRecords
  <2> QED
    BY <1>4, <2>1, <2>2, <2>3
<1>9. CASE GetTransactionCount(a)
  <2>1. \/ audit'[a] = NotRepeated(a)
        \/ audit'[a] = [audit[a] EXCEPT !.pc = "cached"]
    BY <1>1, <1>9 DEF GetTransactionCount
  <2>2. audit[a].pc = "nonce"
    BY <1>9 DEF GetTransactionCount
  <2>3. ASSUME audit'[a] = [audit[a] EXCEPT !.pc = "cached"] PROVE Fits(audit'[a])
    BY <1>1, <1>5, <2>2, <2>3 DEF AuditRecords
  <2> QED
    BY <1>4, <2>1, <2>2, <2>3
<1>10. CASE QueryCachedTransaction(a)
  <2>1. audit[a].pc = "cached"
    BY <1>10 DEF QueryCachedTransaction
  <2>2. ASSUME NEW t, audit' = [audit EXCEPT ![a] = [@ EXCEPT !.pc = "node", !.found = t]]
        PROVE  Fits(audit'[a])
    <3>1. /\ audit'[a].pc = "node" /\ audit'[a].searched = audit[a].searched
          /\ audit'[a].missed = audit[a].missed
      BY <1>1, <2>2 DEF AuditRecords
    <3> QED
      BY <1>5, <2>1, <3>1
  <2>3. ASSUME audit' = [audit EXCEPT ![a] = [@ EXCEPT !.pc = "last", !.searched = TRUE]]
        PROVE  Fits(audit'[a])
    <3>1. audit'[a].pc = "last" /\ audit'[a].searched /\ audit'[a].missed = audit[a].missed
      BY <1>1, <2>3 DEF AuditRecords
    <3> QED
      BY <1>1, <2>1, <3>1 DEF Says
  <2> QED
    BY <1>10, <2>2, <2>3 DEF QueryCachedTransaction
<1>11. CASE GetLastPageQueried(a)
  <2>1. /\ audit'[a].pc = "fetch" /\ audit'[a].searched = audit[a].searched
        /\ audit'[a].missed = audit[a].missed /\ audit[a].pc = "last"
    BY <1>1, <1>11 DEF GetLastPageQueried, AuditRecords
  <2> QED
    BY <1>5, <2>1
<1>12. CASE FetchPage(a)
  <2>1. ASSUME audit' = [audit EXCEPT ![a] =
             [@ EXCEPT !.pc = "put", !.page = PageOf(audit[a].last), !.seen = Len(listing)]]
        PROVE  Fits(audit'[a])
    <3>1. /\ audit'[a].pc = "put" /\ audit'[a].searched = audit[a].searched
          /\ audit'[a].missed = audit[a].missed /\ audit[a].pc = "fetch"
      BY <1>1, <1>12, <2>1 DEF AuditRecords, FetchPage
    <3> QED
      BY <1>5, <3>1
  <2>2. ASSUME audit' = [audit EXCEPT ![a] = Done(a)] PROVE Fits(audit'[a])
    BY <1>1, <1>3, <2>2
  <2> QED
    BY <1>12, <2>1, <2>2 DEF FetchPage
<1>13. ASSUME audit[a].pc \in {"put", "page"},
              audit'[a] = [audit[a] EXCEPT !.pc = "insert", !.left = Outgoing(audit[a].page)]
       PROVE  Fits(audit'[a])
  <2>1. /\ audit'[a].pc = "insert" /\ audit'[a].searched = audit[a].searched
        /\ audit'[a].missed = audit[a].missed
    BY <1>1, <1>13 DEF AuditRecords
  <2> QED
    BY <1>5, <1>13, <2>1
<1>14. CASE FindPage(a)
  <2>1. audit[a].pc = "put"
    BY <1>14 DEF FindPage
  <2>2. \/ audit'[a] = Missed(a) \/ audit'[a] = [audit[a] EXCEPT !.pc = "page"]
        \/ audit'[a] = [audit[a] EXCEPT !.pc = "insert", !.left = Outgoing(audit[a].page)]
    BY <1>1, <1>14 DEF FindPage
  <2>3. ASSUME audit'[a] = [audit[a] EXCEPT !.pc = "page"] PROVE Fits(audit'[a])
    BY <1>1, <1>5, <2>1, <2>3 DEF AuditRecords
  <2> QED
    BY <1>3, <1>13, <2>1, <2>2, <2>3
<1>15. CASE InsertPage(a)
  <2>1. audit[a].pc = "page"
    BY <1>15 DEF InsertPage
  <2>2. \/ audit'[a] = Missed(a)
        \/ audit'[a] = [audit[a] EXCEPT !.pc = "insert", !.left = Outgoing(audit[a].page)]
    BY <1>1, <1>15 DEF InsertPage
  <2> QED
    BY <1>3, <1>13, <2>1, <2>2
<1>16. CASE InsertTransaction(a)
  <2>1. audit[a].pc = "insert"
    BY <1>16 DEF InsertTransaction
  <2>2. audit'[a] = Missed(a) \/ audit'[a] = [audit[a] EXCEPT !.left = RestOf(audit[a].left)]
    BY <1>1, <1>16 DEF InsertTransaction
  <2>3. ASSUME audit'[a] = [audit[a] EXCEPT !.left = RestOf(audit[a].left)]
        PROVE  Fits(audit'[a])
    BY <1>1, <1>5, <2>1, <2>3 DEF AuditRecords
  <2> QED
    BY <1>3, <2>2, <2>3
<1>17. CASE PageStored(a)
  <2>1. audit[a].pc = "insert"
    BY <1>17 DEF PageStored
  <2>2. \/ audit'[a] = Missed(a)
        \/ \E t : audit'[a] = [audit[a] EXCEPT !.pc = "node", !.found = t, !.page = <<>>]
        \/ \E n : audit'[a] = [audit[a] EXCEPT !.pc = "fetch", !.last = n, !.page = <<>>]
    BY <1>1, <1>17 DEF PageStored
  <2>3. ASSUME NEW t, audit'[a] = [audit[a] EXCEPT !.pc = "node", !.found = t, !.page = <<>>]
        PROVE  Fits(audit'[a])
    <3>1. /\ audit'[a].pc = "node" /\ audit'[a].searched = audit[a].searched
          /\ audit'[a].missed = audit[a].missed
      BY <1>1, <2>3 DEF AuditRecords
    <3> QED
      BY <1>5, <2>1, <3>1
  <2>4. ASSUME NEW n, audit'[a] = [audit[a] EXCEPT !.pc = "fetch", !.last = n, !.page = <<>>]
        PROVE  Fits(audit'[a])
    <3>1. /\ audit'[a].pc = "fetch" /\ audit'[a].searched = audit[a].searched
          /\ audit'[a].missed = audit[a].missed
      BY <1>1, <2>4 DEF AuditRecords
    <3> QED
      BY <1>5, <2>1, <3>1
  <2> QED
    BY <1>3, <2>2, <2>3, <2>4
<1>18. CASE GetTransaction(a)
  <2>1. /\ audit'[a].pc = "view" /\ audit'[a].searched = audit[a].searched
        /\ audit'[a].missed = audit[a].missed /\ audit[a].pc = "node"
    BY <1>1, <1>18 DEF GetTransaction, AuditRecords
  <2> QED
    BY <1>5, <2>1
<1>19. CASE ValidatePenalization(a)
  <2>1. audit'[a] = Done(a) \/ audit'[a] = [audit[a] EXCEPT !.pc = "commit"]
    BY <1>1, <1>19 DEF ValidatePenalization
  <2>2. ASSUME audit'[a] = [audit[a] EXCEPT !.pc = "commit"] PROVE Fits(audit'[a])
    <3>1. /\ audit'[a].pc = "commit" /\ audit'[a].searched = audit[a].searched
          /\ audit'[a].missed = audit[a].missed /\ audit[a].pc = "view"
      BY <1>1, <1>19, <2>2 DEF ValidatePenalization, AuditRecords
    <3> QED
      BY <1>5, <3>1
  <2> QED
    BY <1>3, <2>1, <2>2
<1>20. CASE CommitAndScheduleReveal(a)
  BY <1>1, <1>3, <1>20 DEF CommitAndScheduleReveal
<1> QED
  BY <1>6, <1>7, <1>8, <1>9, <1>10, <1>11, <1>12, <1>14, <1>15, <1>16, <1>17, <1>18, <1>19,
     <1>20 DEF AuditStep

\* Only an audit that searches changes what is cached, and none forgets that it
\* has searched.
LEMMA SearchesGoOn ==
    ASSUME TypesAre, SearchesSay, [Next]_vars
    PROVE  /\ SearchesSay'
           /\ \A a \in Audits : audit[a].searched => audit'[a].searched
           /\ UNCHANGED cache \/ \E a \in Audits : AuditStep(a) /\ audit[a].searched
<1>0. audit \in [Audits -> AuditRecords]
  BY DEF TypesAre
<1> DEFINE Kind == \/ \E a \in Audits : AuditHandler(a) \/ AuditStep(a)
                   \/ UNCHANGED <<audit, cache>>
                   \/ Restart
<1>1. Kind
  BY DEF Next, vars, cache, IntervalHandler, HandlerStep, QueryReadyBlocks, HandlerFails,
         ExecuteReadyPenalizations, ExecuteDelayedPenalization, MineBlock, MineTransaction
<1>2. ASSUME NEW a \in Audits, AuditHandler(a) \/ AuditStep(a)
      PROVE  /\ SearchesSay'
             /\ \A b \in Audits : audit[b].searched => audit'[b].searched
             /\ UNCHANGED cache \/ (AuditStep(a) /\ audit[a].searched)
  <2>1. \A b \in Audits \ {a} : audit'[b] = audit[b]
    BY <1>2, LastIsAsked
  <2>2. Says(audit'[a]) /\ (audit[a].searched => audit'[a].searched)
    BY <1>2, Marks
  <2>3. Says(audit[a])
    BY DEF SearchesSay
  <2>4. CASE InsertPage(a) \/ InsertTransaction(a)
    <3>1. audit[a].pc \in Searching
      BY <2>4 DEF InsertPage, InsertTransaction, At, Searching
    <3>2. AuditStep(a) /\ audit[a].searched
      BY <2>3, <2>4, <3>1 DEF Says, AuditStep
    <3> QED
      BY <2>1, <2>2, <3>2 DEF SearchesSay
  <2>5. CASE ~(InsertPage(a) \/ InsertTransaction(a))
    <3>1. UNCHANGED cache
      BY <1>2, <2>5 DEF AuditStep, AuditHandler, ValidateTransaction, IsTransactionMined,
         GetTransactionCount, QueryCachedTransaction, GetLastPageQueried, FetchPage, FindPage,
         PageStored, GetTransaction, ValidatePenalization, CommitAndScheduleReveal
    <3> QED
      BY <2>1, <2>2, <3>1 DEF SearchesSay
  <2> QED
    BY <2>4, <2>5
<1>3. CASE UNCHANGED <<audit, cache>>
  BY <1>3 DEF SearchesSay, Says
<1>4. CASE Restart
  <2>1. ASSUME NEW a \in Audits
        PROVE  /\ Says(audit'[a])
               /\ audit[a].searched => audit'[a].searched
    <3>1. audit'[a] = IF audit[a].pc = "idle" THEN NoAudit ELSE Done(a)
      BY <1>4 DEF Restart, At
    <3>2. Done(a).pc = "done" /\ ~Done(a).missed /\ Done(a).searched = audit[a].searched
      BY <1>0, AnswersKeep
    <3>3. NoAudit.pc = "idle" /\ ~NoAudit.missed /\ ~NoAudit.searched
      BY DEF NoAudit
    <3>4. Says(audit[a])
      BY DEF SearchesSay
    <3> QED
      BY <3>1, <3>2, <3>3, <3>4 DEF Says, Searching, Early
  <2> QED
    BY <1>4, <2>1 DEF Restart, SearchesSay
<1> QED
  BY <1>1, <1>2, <1>3, <1>4

\* Of the steps of an audit that find nothing for want of a search.
LEMMA OutsideSearch ==
    ASSUME TypesAre, SearchesSay, NEW a \in Audits,
           AuditHandler(a) \/ AuditStep(a), audit[a].pc \notin Searching \cup {"cached"}
    PROVE  audit'[a].pc \notin Searching /\ ~audit'[a].missed
<1> USE DEF At, Searching
<1>1. audit \in [Audits -> AuditRecords] /\ audit[a] \in AuditRecords /\ Says(audit[a])
  BY DEF TypesAre, SearchesSay
<1>2. /\ Done(a).pc = "done" /\ ~Done(a).missed
      /\ NotRepeated(a).pc = "validate" /\ NotRepeated(a).missed = audit[a].missed
  BY <1>1, AnswersKeep
<1>3. audit[a].pc # "done"
  BY DEF AuditStep, AuditHandler, ValidateTransaction, IsTransactionMined, GetTransactionCount,
         QueryCachedTransaction, GetLastPageQueried, FetchPage, FindPage, InsertPage,
         InsertTransaction, PageStored, GetTransaction, ValidatePenalization,
         CommitAndScheduleReveal
<1>4. ~audit[a].missed
  BY <1>1, <1>3 DEF Says
<1> DEFINE Fits(s) == s.pc \notin Searching /\ ~s.missed
<1>5. Fits(Done(a)) /\ Fits(NotRepeated(a))
  BY <1>2, <1>4
<1>6. ASSUME NEW c \in {"mined", "view", "nonce", "cached", "commit"},
             audit'[a] = [audit[a] EXCEPT !.pc = c]
      PROVE  Fits(audit'[a])
  <2>1. audit'[a].pc = c /\ audit'[a].missed = audit[a].missed
    BY <1>1, <1>6 DEF AuditRecords
  <2> QED
    BY <1>4, <2>1
<1>7. CASE AuditHandler(a)
  <2>1. PICK t \in {q[2] : q \in {q \in world.requests : q[1] = a}} :
          audit' = [audit EXCEPT ![a] =
             [@ EXCEPT !.pc = "validate", !.tx = t,
                       !.pass = IF world.explorer THEN audit[a].pass ELSE "illegalTransaction"]]
    BY <1>7 DEF AuditHandler
  <2>2. audit'[a].pc = "validate" /\ audit'[a].missed = audit[a].missed
    BY <1>1, <2>1 DEF AuditRecords
  <2> QED
    BY <1>4, <2>2
<1>8. CASE ValidateTransaction(a)
  <2>1. \/ audit'[a] = Done(a) \/ audit'[a] = NotRepeated(a)
        \/ audit'[a] = [audit[a] EXCEPT !.pc = "mined"]
        \/ audit'[a] = [audit[a] EXCEPT !.pc = "view"]
    BY <1>1, <1>8 DEF ValidateTransaction
  <2> QED
    BY <1>5, <1>6, <2>1
<1>9. CASE IsTransactionMined(a)
  <2>1. audit'[a] = NotRepeated(a) \/ audit'[a] = [audit[a] EXCEPT !.pc = "nonce"]
    BY <1>1, <1>9 DEF IsTransactionMined
  <2> QED
    BY <1>5, <1>6, <2>1
<1>10. CASE GetTransactionCount(a)
  <2>1. audit'[a] = NotRepeated(a) \/ audit'[a] = [audit[a] EXCEPT !.pc = "cached"]
    BY <1>1, <1>10 DEF GetTransactionCount
  <2> QED
    BY <1>5, <1>6, <2>1
<1>11. CASE GetTransaction(a)
  <2>1. audit'[a].pc = "view" /\ audit'[a].missed = audit[a].missed
    BY <1>1, <1>11 DEF GetTransaction, AuditRecords
  <2> QED
    BY <1>4, <2>1
<1>12. CASE ValidatePenalization(a)
  <2>1. audit'[a] = Done(a) \/ audit'[a] = [audit[a] EXCEPT !.pc = "commit"]
    BY <1>1, <1>12 DEF ValidatePenalization
  <2> QED
    BY <1>5, <1>6, <2>1
<1>13. CASE CommitAndScheduleReveal(a)
  BY <1>1, <1>5, <1>13 DEF CommitAndScheduleReveal
<1>14. AuditHandler(a) \/ ValidateTransaction(a) \/ IsTransactionMined(a)
       \/ GetTransactionCount(a) \/ GetTransaction(a) \/ ValidatePenalization(a)
       \/ CommitAndScheduleReveal(a)
  BY DEF AuditStep, QueryCachedTransaction, GetLastPageQueried, FetchPage, FindPage, InsertPage,
         InsertTransaction, PageStored
<1> QED
  BY <1>7, <1>8, <1>9, <1>10, <1>11, <1>12, <1>13, <1>14

LEMMA SearchOwn ==
    ASSUME TypesAre, SearchesSay, Untouched, Numbered(listing),
           NEW a \in Audits, Alone(a), Search(a), AuditHandler(a) \/ AuditStep(a)
    PROVE  Search(a)'
<1> USE DEF At
<1> DEFINE s == audit[a]
           k == Before(s.last)
<1>1. /\ audit \in [Audits -> AuditRecords] /\ s \in AuditRecords /\ Says(s)
      /\ listing \in Seq(Listed) /\ pages \in Nat
      /\ s.pc \in {"fetch", "put", "page", "insert"} => s.last # 0
  BY DEF TypesAre, SearchesSay
<1>2. s.page \in Seq(Listed) /\ s.last \in Nat /\ s.seen \in Nat
  BY <1>1 DEF AuditRecords
<1>3. listing' = listing
  BY DEF AuditStep, AuditHandler, ValidateTransaction, IsTransactionMined, chain,
         GetTransactionCount, QueryCachedTransaction, GetLastPageQueried, FetchPage, FindPage,
         InsertPage, InsertTransaction, PageStored, GetTransaction, ValidatePenalization,
         CommitAndScheduleReveal
<1>4. PageSize \in Nat /\ PageSize # 0 /\ Len(listing) \in Nat /\ DOMAIN listing = 1..Len(listing)
  BY <1>1, PenalizerAssumption, LenProperties
<1>5. /\ Done(a).pc = "done" /\ ~Done(a).missed /\ Missed(a).pc = "done" /\ Missed(a).missed
      /\ Missed(a).tx = s.tx /\ Missed(a).seen = s.seen
  BY <1>1, AnswersKeep
<1>6. ASSUME audit'[a].pc \notin Searching, ~audit'[a].missed PROVE Search(a)'
  BY <1>6 DEF Search, Searching
<1>7. ASSUME audit'[a] = Missed(a), s.seen <= Len(listing), NoneIn(a, s.seen) PROVE Search(a)'
  <2>1. NoneIn(a, s.seen)'
    BY <1>3, <1>5, <1>7 DEF NoneIn
  <2> QED
    BY <1>3, <1>5, <1>7, <2>1 DEF Search
<1>8. s.pc \in Searching \cup {"cached"} => ~s.missed
  BY <1>1 DEF Says, Searching
<1>9. CASE s.pc \notin Searching \cup {"cached"}
  BY <1>6, <1>9, OutsideSearch
<1>10. CASE QueryCachedTransaction(a)
  <2>1. s.pc = "cached" /\ UNCHANGED <<pages, txstore>>
    BY <1>10 DEF QueryCachedTransaction, cache
  <2>2. \A b \in Audits : ~audit[b].searched
    BY <1>1, <2>1 DEF Alone, Says, Early
  <2>3. pages' = 0 /\ txstore' = {}
    BY <2>1, <2>2 DEF Untouched
  <2>4. ASSUME NEW t, audit' = [audit EXCEPT ![a] = [@ EXCEPT !.pc = "node", !.found = t]]
        PROVE  Search(a)'
    <3>1. audit'[a].pc = "node" /\ audit'[a].missed = s.missed
      BY <1>1, <2>4 DEF AuditRecords
    <3> QED
      BY <1>6, <1>8, <2>1, <3>1 DEF Searching
  <2>5. ASSUME audit' = [audit EXCEPT ![a] = [@ EXCEPT !.pc = "last", !.searched = TRUE]]
        PROVE  Search(a)'
    <3>1. audit'[a].pc = "last" /\ audit'[a].missed = s.missed
      BY <1>1, <2>5 DEF AuditRecords
    <3> QED
      BY <1>8, <2>1, <2>3, <3>1 DEF Search
  <2> QED
    BY <1>10, <2>4, <2>5 DEF QueryCachedTransaction
<1>11. CASE GetLastPageQueried(a)
  <2>1. s.pc = "last" /\ pages = 0 /\ txstore = {} /\ UNCHANGED <<pages, txstore>>
    BY <1>11 DEF GetLastPageQueried, cache, Search
  <2>2. audit'[a].pc = "fetch" /\ audit'[a].last = pages + 1 /\ audit'[a].missed = s.missed
    BY <1>1, <1>11 DEF GetLastPageQueried, AuditRecords
  <2>3. audit'[a].last = 1 /\ Before(1) = 0
    BY <2>1, <2>2, PagesFollow
  <2>4. PagesRead(a)'
    BY <1>3, <1>4, <2>1, <2>3 DEF PagesRead, NoneIn
  <2> QED
    BY <1>8, <2>1, <2>2, <2>4 DEF Search, Searching
<1>12. CASE FetchPage(a)
  <2>1. /\ s.pc = "fetch" /\ s.last # 0 /\ UNCHANGED <<pages, txstore>>
        /\ PagesRead(a) /\ \A t \in txstore : StoredBefore(a, t)
    BY <1>1, <1>12 DEF FetchPage, cache, Search
  <2>2. ASSUME audit' = [audit EXCEPT ![a] =
             [@ EXCEPT !.pc = "put", !.page = PageOf(audit[a].last), !.seen = Len(listing)]]
        PROVE  Search(a)'
    <3>1. /\ audit'[a].pc = "put" /\ audit'[a].last = s.last /\ audit'[a].tx = s.tx
          /\ audit'[a].page = PageOf(s.last) /\ audit'[a].seen = Len(listing)
          /\ audit'[a].missed = s.missed
      BY <1>1, <2>2 DEF AuditRecords
    <3>2. k \in Nat /\ k <= Len(listing)
      BY <1>2, <2>1, PagesFollow DEF PagesRead
    <3> DEFINE page == PageOf(s.last)
    <3>3. /\ Len(page) <= PageSize
          /\ Len(page) < PageSize => Len(listing) = k + Len(page)
          /\ k + Len(page) <= Len(listing)
          /\ \A i \in DOMAIN page : page[i] = listing[k + i]
      BY <1>1, <1>2, <2>1, <3>2, PageHolds
    <3> HIDE DEF page
    <3>4. PageInHand(a)'
      BY <1>3, <1>4, <3>1, <3>2, <3>3 DEF PageInHand, page
    <3>5. PagesRead(a)'
      BY <1>3, <2>1, <3>1 DEF PagesRead, NoneIn
    <3>6. (\A t \in txstore : StoredBefore(a, t))'
      BY <1>3, <2>1, <3>1 DEF StoredBefore
    <3> QED
      BY <1>8, <2>1, <3>1, <3>4, <3>5, <3>6 DEF Search, Searching
  <2>3. ASSUME audit' = [audit EXCEPT ![a] = Done(a)] PROVE Search(a)'
    BY <1>1, <1>5, <1>6, <2>3 DEF Searching
  <2> QED
    BY <1>12, <2>2, <2>3 DEF FetchPage
\* The page in hand is about to be stored.
<1>13. ASSUME s.pc \in {"put", "page"}, PagesRead(a), PageInHand(a),
              \A t \in txstore : StoredBefore(a, t),
              audit'[a] = [s EXCEPT !.pc = "insert", !.left = Outgoing(s.page)],
              pages' # 0, pages' <= s.last, txstore' = txstore
       PROVE  Search(a)'
  <2>1. /\ audit'[a].pc = "insert" /\ audit'[a].last = s.last /\ audit'[a].tx = s.tx
        /\ audit'[a].page = s.page /\ audit'[a].seen = s.seen
        /\ audit'[a].left = Outgoing(s.page) /\ audit'[a].missed = s.missed
    BY <1>1, <1>13 DEF AuditRecords
  <2>2. /\ DOMAIN Outgoing(s.page) = {i \in DOMAIN s.page : s.page[i] # Incoming}
        /\ \A i \in DOMAIN Outgoing(s.page) : Outgoing(s.page)[i] = s.page[i]
    BY <1>2, OutgoingKept
  <2>3. LeftOfPage(a)'
    BY <1>3, <1>13, <2>1, <2>2 DEF LeftOfPage, StoredBefore
  <2>4. PageInHand(a)' /\ NoneIn(a, Before(s.last))'
    BY <1>3, <1>13, <2>1 DEF PageInHand, NoneIn, PagesRead
  <2>5. NoneIn(a, Before(audit[a].last))'
    BY <2>1, <2>4 DEF NoneIn
  <2> QED
    BY <1>8, <1>13, <2>1, <2>3, <2>4, <2>5 DEF Search, Searching
<1>14. CASE FindPage(a)
  <2>1. /\ s.pc = "put" /\ UNCHANGED <<pages, txstore>>
        /\ PagesRead(a) /\ PageInHand(a) /\ \A t \in txstore : StoredBefore(a, t)
    BY <1>14 DEF FindPage, cache, Search
  <2>2. pages < s.last
    BY <2>1 DEF PagesRead
  <2>3. CASE pages = 0
    <3>1. audit'[a] = [s EXCEPT !.pc = "page"]
      BY <1>1, <1>14, <2>3 DEF FindPage
    <3>2. /\ audit'[a].pc = "page" /\ audit'[a].last = s.last /\ audit'[a].tx = s.tx
          /\ audit'[a].page = s.page /\ audit'[a].seen = s.seen /\ audit'[a].missed = s.missed
      BY <1>1, <3>1 DEF AuditRecords
    <3>3. PagesRead(a)' /\ PageInHand(a)' /\ (\A t \in txstore : StoredBefore(a, t))'
      BY <1>3, <2>1, <3>2 DEF PagesRead, PageInHand, StoredBefore, NoneIn
    <3> QED
      BY <1>8, <2>1, <2>3, <3>2, <3>3 DEF Search, Searching
  <2>4. CASE pages # 0
    <3>1. ~(pages >= s.last) /\ pages <= s.last
      BY <1>1, <1>2, <2>2
    <3>2. audit'[a] = [s EXCEPT !.pc = "insert", !.left = Outgoing(s.page)]
      BY <1>1, <1>14, <2>4, <3>1 DEF FindPage
    <3> QED
      BY <1>13, <2>1, <2>4, <3>1, <3>2
  <2> QED
    BY <2>3, <2>4
<1>15. CASE InsertPage(a)
  <2>1. /\ s.pc = "page" /\ UNCHANGED txstore /\ pages = 0 /\ s.last # 0
        /\ PagesRead(a) /\ PageInHand(a) /\ \A t \in txstore : StoredBefore(a, t)
    BY <1>1, <1>15 DEF InsertPage, Search
  <2>2. /\ pages' = s.last
        /\ audit'[a] = [s EXCEPT !.pc = "insert", !.left = Outgoing(s.page)]
    BY <1>1, <1>15, <2>1 DEF InsertPage
  <2>3. pages' # 0 /\ pages' <= s.last
    BY <1>2, <2>1, <2>2
  <2> QED
    BY <1>13, <2>1, <2>2, <2>3
<1>16. ASSUME s.pc = "insert"
       PROVE  /\ s.last # 0 /\ pages <= s.last /\ pages # 0
              /\ NoneIn(a, k) /\ PageInHand(a) /\ LeftOfPage(a)
              /\ k \in Nat /\ Before(s.last + 1) = k + PageSize
              /\ DOMAIN s.page = 1..Len(s.page) /\ Len(s.page) \in Nat
              /\ \A i \in DOMAIN s.page : s.page[i] = listing[k + i] /\ k + i \in 1..Len(listing)
  <2>1. s.last # 0
    BY <1>1, <1>16
  <2>2. k \in Nat /\ Before(s.last + 1) = k + PageSize
    BY <1>2, <2>1, PagesFollow
  <2>3. DOMAIN s.page = 1..Len(s.page) /\ Len(s.page) \in Nat
    BY <1>2, LenProperties
  <2>4. pages <= s.last /\ pages # 0 /\ NoneIn(a, k) /\ PageInHand(a) /\ LeftOfPage(a)
    BY <1>16 DEF Search
  <2>5. /\ k + Len(s.page) <= s.seen /\ s.seen <= Len(listing)
        /\ \A i \in DOMAIN s.page : s.page[i] = listing[k + i]
    BY <2>4 DEF PageInHand
  <2>6. ASSUME NEW i \in DOMAIN s.page PROVE k + i \in 1..Len(listing)
    <3> DEFINE len == Len(listing)
               size == Len(s.page)
               seen == s.seen
    <3>1. /\ len \in Nat /\ size \in Nat /\ seen \in Nat /\ k \in Nat
          /\ i \in 1..size /\ k + size <= seen /\ seen <= len
      BY <1>2, <1>4, <2>2, <2>3, <2>5
    <3> HIDE DEF len, size, seen, k
    <3>2. k + i \in 1..len
      BY <3>1
    <3> QED
      BY <3>2 DEF len
  <2> QED
    BY <2>1, <2>2, <2>3, <2>4, <2>5, <2>6
<1> HIDE DEF k
<1>17. CASE InsertTransaction(a)
  <2>1. s.pc = "insert" /\ DOMAIN s.left # {} /\ s.left \in Kept(Txs) /\ pages' = pages
    BY <1>1, <1>17 DEF InsertTransaction, AuditRecords
  <2> DEFINE m == FirstPlace(s.left)
             t == FirstOf(s.left)
  <2>2. /\ m \in DOMAIN s.left /\ t = s.left[m] /\ t \in Txs
        /\ DOMAIN RestOf(s.left) = DOMAIN s.left \ {m}
        /\ \A i \in DOMAIN RestOf(s.left) : RestOf(s.left)[i] = s.left[i]
    BY <2>1, FirstAndRest
  <2>3. /\ \A i \in DOMAIN s.left : /\ i \in DOMAIN s.page /\ s.left[i] = s.page[i]
                                    /\ s.left[i] # Incoming
        /\ \A u \in txstore : \/ StoredBefore(a, u)
                              \/ \E i \in DOMAIN s.page \ DOMAIN s.left : s.page[i] = u
    BY <1>16, <2>1 DEF LeftOfPage
  <2>4. IF t \in txstore THEN audit' = [audit EXCEPT ![a] = Missed(a)]
        ELSE /\ audit' = [audit EXCEPT ![a].left = RestOf(@)]
             /\ txstore' = txstore \cup {t}
    BY <1>17 DEF InsertTransaction
  <2> HIDE DEF m, t, s
  <2>5. m \in DOMAIN s.page /\ t = s.page[m] /\ t # Incoming
        /\ t = listing[k + m] /\ k + m \in 1..Len(listing)
    BY <1>16, <2>1, <2>2, <2>3
  <2>6. ASSUME NEW i \in 1..Len(listing), listing[i] = t PROVE i = k + m
    BY <1>1, <2>5, <2>6, NoncesDiffer
  <2>7. t \notin txstore
    <3>1. ASSUME StoredBefore(a, t) PROVE FALSE
      <4>1. PICK i \in 1..k : listing[i] = t
        BY <3>1 DEF StoredBefore, k, s
      <4>2. m \in Nat /\ m # 0 /\ k \in Nat /\ i \in Nat /\ i <= k
        BY <1>16, <2>1, <2>5, <4>1
      <4>3. i \in 1..Len(listing)
        BY <1>4, <2>5, <4>1, <4>2
      <4>4. i = k + m
        BY <2>6, <4>1, <4>3
      <4> QED
        BY <4>2, <4>4
    <3>2. ASSUME NEW i \in DOMAIN s.page \ DOMAIN s.left, s.page[i] = t PROVE FALSE
      <4>1. listing[k + i] = t /\ k + i \in 1..Len(listing)
        BY <1>16, <2>1, <3>2
      <4>2. k + i = k + m
        BY <2>6, <4>1
      <4>3. i \in Nat /\ m \in Nat /\ k \in Nat
        BY <1>16, <2>1, <2>5
      <4>4. i = m
        BY <4>2, <4>3
      <4> QED
        BY <2>2, <4>4
    <3> QED
      BY <2>3, <3>1, <3>2
  <2>8. txstore' = txstore \cup {t} /\ audit'[a] = [s EXCEPT !.left = RestOf(s.left)]
    BY <1>1, <2>4, <2>7 DEF s
  <2>9. /\ audit'[a].pc = s.pc /\ audit'[a].last = s.last /\ audit'[a].tx = s.tx
        /\ audit'[a].page = s.page /\ audit'[a].seen = s.seen
        /\ audit'[a].left = RestOf(s.left) /\ audit'[a].missed = s.missed
    BY <1>1, <2>8 DEF AuditRecords
  <2>10. PageInHand(a)' /\ NoneIn(a, Before(audit[a].last))'
    BY <1>3, <1>16, <2>1, <2>9 DEF PageInHand, NoneIn, k, s
  <2>11. LeftOfPage(a)'
    <3>1. \A i \in DOMAIN RestOf(s.left) :
            i \in DOMAIN s.page /\ RestOf(s.left)[i] = s.page[i] /\ RestOf(s.left)[i] # Incoming
      BY <2>2, <2>3
    <3>2. m \in DOMAIN s.page \ DOMAIN RestOf(s.left) /\ s.page[m] = t
      BY <2>2, <2>5
    <3>3. \A u \in txstore' : \/ StoredBefore(a, u)
                              \/ \E i \in DOMAIN s.page \ DOMAIN RestOf(s.left) : s.page[i] = u
      BY <2>2, <2>3, <2>8, <3>2
    <3>4. \A u : StoredBefore(a, u) => StoredBefore(a, u)'
      BY <1>3, <2>9 DEF StoredBefore, s
    <3> QED
      BY <2>9, <3>1, <3>3, <3>4 DEF LeftOfPage
  <2> QED
    BY <1>8, <1>16, <2>1, <2>9, <2>10, <2>11 DEF Search, Searching
<1>18. CASE PageStored(a)
  <2> DEFINE page == s.page
             hits == {t \in Range(Outgoing(page)) : t.nonce = s.tx.nonce}
             size == Len(page)
  <2>1. s.pc = "insert" /\ DOMAIN s.left = {} /\ UNCHANGED <<pages, txstore>>
    BY <1>18 DEF PageStored, cache
  <2>2. \/ \E t : audit'[a] = [s EXCEPT !.pc = "node", !.found = t, !.page = <<>>]
        \/ /\ hits = {} /\ size >= PageSize
           /\ audit'[a] = [s EXCEPT !.pc = "fetch", !.last = s.last + 1, !.page = <<>>]
        \/ hits = {} /\ ~(size >= PageSize) /\ audit'[a] = Missed(a)
    BY <1>1, <1>18 DEF PageStored
  <2>3. ASSUME hits = {} PROVE NoneIn(a, k + size)
    <3>1. DOMAIN Outgoing(page) = {i \in DOMAIN page : page[i] # Incoming}
          /\ \A i \in DOMAIN Outgoing(page) : Outgoing(page)[i] = page[i]
      BY <1>2, OutgoingKept
    <3>2. \A i \in DOMAIN page : page[i] # Incoming => page[i].nonce # s.tx.nonce
      BY <2>3, <3>1 DEF Range
    <3>3. ASSUME NEW i \in 1..(k + size), listing[i] # Incoming
          PROVE  listing[i].nonce # s.tx.nonce
      <4>0. k \in Nat /\ size \in Nat /\ DOMAIN page = 1..size
        BY <1>16, <2>1
      <4>1. CASE i <= k
        <5>1. i \in 1..k
          BY <4>0, <4>1
        <5> QED
          BY <1>16, <2>1, <3>3, <5>1 DEF NoneIn
      <4>2. CASE ~(i <= k)
        <5> HIDE DEF size
        <5>1. i - k \in 1..size /\ k + (i - k) = i
          BY <4>0, <4>2
        <5>2. page[i - k] = listing[k + (i - k)]
          BY <1>16, <2>1, <4>0, <5>1
        <5> QED
          BY <3>2, <3>3, <4>0, <5>1, <5>2
      <4> QED
        BY <4>1, <4>2
    <3> QED
      BY <3>3 DEF NoneIn
  <2>4. /\ size \in Nat /\ k \in Nat /\ s.seen \in Nat /\ s.last \in Nat
        /\ size <= PageSize /\ (size < PageSize => s.seen = k + size)
        /\ k + size <= s.seen /\ s.seen <= Len(listing)
    BY <1>2, <1>16, <2>1 DEF PageInHand, k
  <2>5. ASSUME NEW t, audit'[a] = [s EXCEPT !.pc = "node", !.found = t, !.page = <<>>]
        PROVE  Search(a)'
    <3>1. audit'[a].pc = "node" /\ audit'[a].missed = s.missed
      BY <1>1, <2>5 DEF AuditRecords
    <3> QED
      BY <1>6, <1>8, <2>1, <3>1 DEF Searching
  <2>6. ASSUME hits = {}, ~(size >= PageSize), audit'[a] = Missed(a) PROVE Search(a)'
    <3>1. s.seen = k + size
      BY <1>4, <2>4, <2>6
    <3> QED
      BY <1>7, <2>3, <2>4, <2>6, <3>1
  <2>7. ASSUME hits = {}, size >= PageSize,
               audit'[a] = [s EXCEPT !.pc = "fetch", !.last = s.last + 1, !.page = <<>>]
        PROVE  Search(a)'
    <3>1. /\ audit'[a].pc = "fetch" /\ audit'[a].last = s.last + 1 /\ audit'[a].tx = s.tx
          /\ audit'[a].missed = s.missed
      BY <1>1, <2>7 DEF AuditRecords
    <3>2. size = PageSize /\ Before(s.last + 1) = k + size
      BY <1>4, <1>16, <2>1, <2>4, <2>7
    <3> DEFINE next == Before(s.last + 1)
    <3>3. next <= Len(listing) /\ NoneIn(a, next)
      BY <1>4, <2>3, <2>4, <2>7, <3>2
    <3>4. s.last + 1 # 1 /\ pages < s.last + 1
      BY <1>1, <1>16, <2>1, <2>4
    <3>5. PagesRead(a)'
      BY <1>3, <2>1, <3>1, <3>3, <3>4 DEF PagesRead, NoneIn
    <3>6. ASSUME NEW u \in txstore PROVE \E i \in 1..next : listing[i] = u
      <4>1. CASE StoredBefore(a, u)
        <5>1. PICK i \in 1..k : listing[i] = u
          BY <4>1 DEF StoredBefore, k
        <5> HIDE DEF size
        <5>2. i \in 1..(k + size)
          BY <2>4, <5>1
        <5> QED
          BY <3>2, <5>1, <5>2
      <4>2. CASE \E i \in DOMAIN page \ DOMAIN s.left : page[i] = u
        <5>1. PICK i \in DOMAIN page : page[i] = u
          BY <4>2
        <5>2. listing[k + i] = u /\ i \in 1..size
          BY <1>16, <2>1, <5>1
        <5> HIDE DEF size
        <5>3. k + i \in 1..(k + size)
          BY <2>4, <5>2
        <5> QED
          BY <3>2, <5>2, <5>3
      <4> QED
        BY <1>16, <2>1, <4>1, <4>2 DEF LeftOfPage
    <3>7. (\A u \in txstore : StoredBefore(a, u))'
      BY <1>3, <2>1, <3>1, <3>6 DEF StoredBefore
    <3> QED
      BY <1>8, <2>1, <3>1, <3>5, <3>7 DEF Search, Searching
  <2> QED
    BY <2>2, <2>5, <2>6, <2>7
<1>19. \/ s.pc \notin Searching \cup {"cached"}
       \/ QueryCachedTransaction(a) \/ GetLastPageQueried(a) \/ FetchPage(a) \/ FindPage(a)
       \/ InsertPage(a) \/ InsertTransaction(a) \/ PageStored(a)
  BY DEF AuditStep, AuditHandler, ValidateTransaction, IsTransactionMined, GetTransactionCount,
         GetTransaction, ValidatePenalization, CommitAndScheduleReveal, Searching
<1> QED
  BY <1>9, <1>10, <1>11, <1>12, <1>14, <1>15, <1>17, <1>18, <1>19

LEMMA SearchesInit == Init => Searches
<1> SUFFICES ASSUME Init PROVE Searches
  OBVIOUS
<1>1. \A a \in Audits : audit[a].pc = "idle" /\ ~audit[a].searched /\ ~audit[a].missed
  BY DEF Init, NoAudit
<1>2. pages = 0 /\ txstore = {}
  BY DEF Init
<1>3. Numbered(listing)
  BY NumberedAssumption DEF Init
<1>4. SearchesSay
  BY <1>1 DEF SearchesSay, Says, Searching
<1>5. Untouched
  BY <1>2 DEF Untouched
<1>6. \A a \in Audits : Search(a)
  BY <1>1 DEF Search
<1> QED
  BY <1>3, <1>4, <1>5, <1>6 DEF Searches

LEMMA SearchesNext == TypesAre /\ Searches /\ [Next]_vars => Searches'
<1> SUFFICES ASSUME TypesAre, Searches, [Next]_vars PROVE Searches'
  OBVIOUS
<1>1. SearchesSay /\ Untouched /\ Numbered(listing) /\ \A a \in Audits : Alone(a) => Search(a)
  BY DEF Searches
<1>2. /\ SearchesSay'
      /\ \A a \in Audits : audit[a].searched => audit'[a].searched
      /\ UNCHANGED cache \/ \E a \in Audits : AuditStep(a) /\ audit[a].searched
  BY <1>1, SearchesGoOn
<1>3. Untouched'
  BY <1>1, <1>2 DEF Untouched, cache
<1>4. \A a \in Audits : Alone(a)' => Alone(a)
  BY <1>2 DEF Alone
<1>5. listing \in Seq(Listed) /\ audit \in [Audits -> AuditRecords]
  BY DEF TypesAre
\* A step that leaves the search and what it has seen alone.
<1>6. ASSUME NEW a \in Audits, Search(a), audit'[a] = audit[a],
             UNCHANGED <<listing, pages, txstore>>
      PROVE  Search(a)'
  BY <1>6 DEF Search, PagesRead, NoneIn, StoredBefore, PageInHand, LeftOfPage
<1>7. ASSUME NEW c \in Audits, AuditHandler(c) \/ AuditStep(c) PROVE Searches'
  <2>1. listing' = listing
    BY <1>7 DEF AuditStep, AuditHandler, ValidateTransaction, IsTransactionMined, chain,
         GetTransactionCount, QueryCachedTransaction, GetLastPageQueried, FetchPage, FindPage,
         InsertPage, InsertTransaction, PageStored, GetTransaction, ValidatePenalization,
         CommitAndScheduleReveal
  <2>2. Numbered(listing)'
    BY <1>1, <2>1
  <2>3. ASSUME NEW a \in Audits, Alone(a)' PROVE Search(a)'
    <3>1. Alone(a) /\ Search(a)
      BY <1>1, <1>4, <2>3
    <3>2. CASE a = c
      BY <1>1, <1>7, <3>1, <3>2, SearchOwn
    <3>3. CASE a # c
      <4>1. audit'[a] = audit[a] /\ ~audit[c].searched
        BY <1>7, <3>1, <3>3, LastIsAsked DEF Alone
      <4>2. UNCHANGED cache
        <5>1. Says(audit[c])
          BY <1>1 DEF SearchesSay
        <5>2. ~InsertPage(c) /\ ~InsertTransaction(c)
          BY <4>1, <5>1 DEF InsertPage, InsertTransaction, At, Says, Searching
        <5> QED
          BY <1>7, <5>2 DEF AuditStep, AuditHandler, ValidateTransaction, IsTransactionMined,
             GetTransactionCount, QueryCachedTransaction, GetLastPageQueried, FetchPage, FindPage,
             PageStored, GetTransaction, ValidatePenalization, CommitAndScheduleReveal
      <4> QED
        BY <1>6, <2>1, <3>1, <4>1, <4>2 DEF cache
    <3> QED
      BY <3>2, <3>3
  <2> QED
    BY <1>2, <1>3, <2>2, <2>3 DEF Searches
<1>8. CASE MineTransaction
  <2>1. PICK t \in world.mempool : t.nonce = Sent(listing) /\ listing' = Append(listing, t)
    BY <1>8 DEF MineTransaction
  <2>2. t \in Txs /\ t \in Listed
    BY <2>1, PenalizerAssumption DEF TypesAre, Listed
  <2>3. Numbered(listing)'
    <3>1. Numbered(Append(listing, t))
      BY <1>1, <1>5, <2>1, <2>2, NumberedOn
    <3>2. Numbered(listing') <=> Numbered(listing)'
      BY DEF Numbered
    <3> QED
      BY <2>1, <3>1, <3>2
  <2>4. /\ UNCHANGED <<audit, pages, txstore>>
        /\ Len(listing) \in Nat /\ Len(listing') = Len(listing) + 1
        /\ \A i \in 1..Len(listing) : listing'[i] = listing[i]
    BY <1>5, <1>8, <2>1, <2>2, AppendProperties, LenProperties DEF MineTransaction, cache
  <2>5. ASSUME NEW a \in Audits, NEW k \in Nat, k <= Len(listing), NoneIn(a, k)
        PROVE  \A i \in 1..k : listing'[i] # Incoming => listing'[i].nonce # audit[a].tx.nonce
    BY <2>4, <2>5 DEF NoneIn
  <2>6. ASSUME NEW a \in Audits, Alone(a)' PROVE Search(a)'
    <3> DEFINE s == audit[a]
               k == Before(s.last)
               len == Len(listing)
    <3>1. Search(a) /\ audit'[a] = s
      BY <1>1, <1>4, <2>4, <2>6
    <3>2. /\ s.last \in Nat /\ s.seen \in Nat /\ s.page \in Seq(Listed)
          /\ s.pc \in {"fetch", "put", "page", "insert"} => s.last # 0
      BY <1>5 DEF TypesAre, AuditRecords
    <3>3. s.last # 0 => k \in Nat
      BY <3>2, PagesFollow
    <3>4. DOMAIN s.page = 1..Len(s.page) /\ Len(s.page) \in Nat
      BY <3>2, LenProperties
    <3> HIDE DEF s, k, len
    <3>5. len \in Nat /\ Len(listing') = len + 1
      BY <2>4 DEF len
    <3>6. ASSUME s.last # 0, k <= len
          PROVE  /\ \A t_1 \in txstore : StoredBefore(a, t_1) => StoredBefore(a, t_1)'
                 /\ NoneIn(a, k) => NoneIn(a, Before(audit[a].last))'
      <4>1. k \in Nat /\ \A i \in 1..k : i \in 1..len
        BY <3>3, <3>5, <3>6
      <4>2. \A i \in 1..k : listing'[i] = listing[i]
        BY <2>4, <4>1 DEF len
      <4> QED
        BY <2>4, <3>1, <4>2 DEF StoredBefore, NoneIn, s, k
    <3>7. ASSUME s.last # 0, PagesRead(a) PROVE PagesRead(a)'
      <4>1. k \in Nat /\ k <= len /\ NoneIn(a, k)
        BY <3>3, <3>7 DEF PagesRead, s, k, len
      <4>2. k <= Len(listing') /\ NoneIn(a, Before(audit[a].last))'
        BY <3>5, <3>6, <3>7, <4>1
      <4> QED
        BY <2>4, <3>1, <3>7, <4>2 DEF PagesRead, s, k
    <3>8. ASSUME s.last # 0, PageInHand(a) PROVE PageInHand(a)'
      <4>1. /\ k \in Nat /\ k <= s.seen /\ s.seen <= len /\ k + Len(s.page) <= s.seen
            /\ \A i \in DOMAIN s.page : s.page[i] = listing[k + i]
        BY <3>3, <3>8 DEF PageInHand, s, k, len
      <4>2. s.seen <= Len(listing')
        BY <3>2, <3>5, <4>1 DEF s
      <4>3. \A i \in DOMAIN s.page : k + i \in 1..len
        BY <3>2, <3>4, <3>5, <4>1 DEF s
      <4>4. \A i \in DOMAIN s.page : s.page[i] = listing'[k + i]
        BY <2>4, <4>1, <4>3 DEF len
      <4> QED
        BY <3>1, <3>8, <4>2, <4>4 DEF PageInHand, s, k
    <3>9. ASSUME s.last # 0, LeftOfPage(a), k <= len PROVE LeftOfPage(a)'
      BY <2>4, <3>1, <3>6, <3>9 DEF LeftOfPage, s
    <3>10. ASSUME s.missed PROVE s.seen <= Len(listing') /\ NoneIn(a, s.seen)'
      <4>1. s.seen <= len /\ NoneIn(a, s.seen)
        BY <3>1, <3>10 DEF Search, s, len
      <4>2. s.seen \in Nat /\ s.seen <= Len(listing')
        BY <3>2, <3>5, <4>1 DEF s
      <4>3. \A i \in 1..s.seen : i \in 1..len
        BY <3>5, <4>1, <4>2
      <4>4. \A i \in 1..s.seen : listing'[i] = listing[i]
        BY <2>4, <4>3 DEF len
      <4> QED
        BY <2>4, <4>1, <4>2, <4>4 DEF NoneIn, s
    <3>11. CASE s.pc \in {"fetch", "put", "page"}
      <4>1. /\ s.last # 0 /\ PagesRead(a) /\ \A u \in txstore : StoredBefore(a, u)
            /\ s.pc \in {"put", "page"} => PageInHand(a)
            /\ s.pc = "page" => pages = 0
        BY <3>1, <3>2, <3>11 DEF Search, s
      <4>2. k <= len
        BY <4>1 DEF PagesRead, s, k, len
      <4>3. PagesRead(a)' /\ (\A u \in txstore : StoredBefore(a, u))'
        BY <2>4, <3>6, <3>7, <4>1, <4>2
      <4>4. s.pc \in {"put", "page"} => PageInHand(a)'
        BY <3>8, <4>1
      <4> QED
        BY <2>4, <3>1, <3>10, <3>11, <4>1, <4>3, <4>4 DEF Search, s
    <3>12. CASE s.pc = "insert"
      <4>1. /\ s.last # 0 /\ pages <= s.last /\ pages # 0 /\ NoneIn(a, k)
            /\ PageInHand(a) /\ LeftOfPage(a)
        BY <3>1, <3>2, <3>12 DEF Search, s, k
      <4>2. k <= len
        BY <3>2, <3>3, <3>5, <4>1 DEF PageInHand, s, k, len
      <4>3. NoneIn(a, Before(audit[a].last))' /\ PageInHand(a)' /\ LeftOfPage(a)'
        BY <3>6, <3>8, <3>9, <4>1, <4>2
      <4> QED
        BY <2>4, <3>1, <3>10, <3>12, <4>1, <4>3 DEF Search, s
    <3>13. CASE s.pc \notin {"fetch", "put", "page", "insert"}
      BY <2>4, <3>1, <3>10, <3>13 DEF Search, s
    <3> QED
      BY <3>11, <3>12, <3>13
  <2> QED
    BY <1>2, <1>3, <2>3, <2>6 DEF Searches
<1>9. CASE Restart
  <2>1. listing' = listing
    BY <1>9 DEF Restart, chain
  <2>2. ASSUME NEW a \in Audits PROVE Search(a)'
    <3>1. audit'[a] = IF audit[a].pc = "idle" THEN NoAudit ELSE Done(a)
      BY <1>9 DEF Restart, At
    <3>2. Done(a).pc = "done" /\ ~Done(a).missed
      BY <1>5, AnswersKeep
    <3>3. audit'[a].pc \in {"idle", "done"} /\ ~audit'[a].missed
      BY <3>1, <3>2 DEF NoAudit
    <3> QED
      BY <3>3 DEF Search
  <2>3. Numbered(listing)'
    BY <1>1, <2>1
  <2> QED
    BY <1>2, <1>3, <2>2, <2>3 DEF Searches
<1>10. CASE UNCHANGED <<listing, pages, txstore, audit>>
  <2>1. \A a \in Audits : Alone(a)' => Search(a)'
    BY <1>1, <1>4, <1>6, <1>10
  <2>2. Numbered(listing)'
    BY <1>1, <1>10
  <2> QED
    BY <1>2, <1>3, <2>1, <2>2 DEF Searches
<1>11. \/ \E c \in Audits : AuditHandler(c) \/ AuditStep(c)
       \/ MineTransaction \/ Restart
       \/ UNCHANGED <<listing, pages, txstore, audit>>
  BY DEF Next, vars, chain, cache, IntervalHandler, HandlerStep, QueryReadyBlocks, HandlerFails,
         ExecuteReadyPenalizations, ExecuteDelayedPenalization, MineBlock
<1> QED
  BY <1>7, <1>8, <1>9, <1>10, <1>11

(* --------------------------------- theorems ------------------------------- *)

Inv == TypesAre /\ Timely /\ Lonely

LEMMA InvInit == Init => Inv
BY TypesInit, TimelyInit, LonelyInit DEF Inv

LEMMA InvNext == Inv /\ [Next]_vars => Inv'
BY TypesNext, TimelyNext, LonelyNext DEF Inv

LEMMA InvHolds == Spec => []Inv
BY InvInit, InvNext, PTL DEF Spec

(* The types of Penalizer, and no penalization is on the schedule twice    *)
(* (PenalizerService.ts:205-293).                                          *)
THEOREM TypesHold == Spec => []TypeOK
<1>1. Inv => TypeOK
  BY DEF Inv, TypesAre, Timely, TypeOK, AuditRecords, HandlerRecords, Listed
<1> QED
  BY <1>1, InvHolds, PTL

(* Nothing is revealed before the block its commitment is due at, however  *)
(* interval handlers overlap, fail or are cut off by a restart             *)
(* (PenalizerService.ts:216-256).                                          *)
THEOREM RevealsWait == Spec => []RevealedOnceDue
<1>1. Inv => RevealedOnceDue
  <2> SUFFICES ASSUME Inv, NEW r \in reveals
               PROVE  commits[r.of] # 0 /\ commits[r.of] < r.at + 1
    BY DEF RevealedOnceDue
  <2>1. commits[r.of] # 0 /\ commits[r.of] <= r.at
    BY DEF Inv, Timely, RevealedDue, IsDue
  <2>2. commits[r.of] \in Nat /\ r.at \in Nat
    BY DEF Inv, TypesAre
  <2> QED
    BY <2>1, <2>2
<1> QED
  BY <1>1, InvHolds, PTL

(* While interval handlers do not overlap, what a splice takes off the     *)
(* schedule is due, and no penalization is sent twice                      *)
(* (PenalizerService.ts:216-233).                                          *)
THEOREM AloneLosesNothing == Spec => []LoneHandlerLosesNothing
<1>1. Inv => LoneHandlerLosesNothing
  BY DEF Inv, Lonely, LoneHandlerLosesNothing
<1> QED
  BY <1>1, InvHolds, PTL

(* The first search of the explorer finds whatever it lists: the server    *)
(* says a mined transaction is missing only if no page has one of that     *)
(* nonce (EtherscanCachedService.ts:24-57).                                *)
THEOREM FirstSearchComplete == Spec => []FirstSearchFinds
<1>1. TypesAre /\ Searches => FirstSearchFinds
  <2> SUFFICES ASSUME TypesAre, Searches, NEW a \in Audits, audit[a].missed,
                      \A b \in Audits \ {a} : ~audit[b].searched,
                      NEW t \in Range(Outgoing(SubSeq(listing, 1, audit[a].seen)))
               PROVE  t.nonce # audit[a].tx.nonce
    BY DEF FirstSearchFinds
  <2> DEFINE n == audit[a].seen
             list == SubSeq(listing, 1, n)
  <2>1. Search(a)
    BY DEF Searches, Alone
  <2>2. n <= Len(listing) /\ NoneIn(a, n)
    BY <2>1 DEF Search
  <2>3. n \in Nat /\ listing \in Seq(Listed) /\ Len(listing) \in Nat
    BY LenProperties DEF TypesAre, AuditRecords
  <2> HIDE DEF n
  <2>4. list \in Seq(Listed) /\ Len(list) = n /\ \A i \in 1..n : list[i] = listing[i]
    <3>1. \A i \in 1..n : i \in 1..Len(listing)
      BY <2>2, <2>3
    <3>2. \A i \in 1..n : listing[i] \in Listed
      BY <2>3, <3>1, ElementOfSeq
    <3>3. /\ list \in Seq(Listed) /\ Len(list) = IF 1 <= n THEN n - 1 + 1 ELSE 0
          /\ \A i \in 1..(n - 1 + 1) : list[i] = listing[1 + i - 1]
      BY <2>3, <3>2, SubSeqProperties
    <3> HIDE DEF list
    <3> QED
      BY <2>3, <3>3
  <2>5. PICK i \in DOMAIN Outgoing(list) : t = Outgoing(list)[i]
    BY DEF Range, n
  <2> HIDE DEF list
  <2>6. i \in DOMAIN list /\ list[i] # Incoming /\ t = list[i]
    BY <2>4, <2>5, OutgoingKept
  <2>7. i \in 1..n
    BY <2>4, <2>6, LenProperties
  <2> QED
    BY <2>2, <2>4, <2>6, <2>7 DEF NoneIn
<1>2. Init => TypesAre /\ Searches
  BY TypesInit, SearchesInit
<1>3. (TypesAre /\ Searches) /\ [Next]_vars => (TypesAre /\ Searches)'
  BY TypesNext, SearchesNext
<1> QED
  BY <1>1, <1>2, <1>3, PTL DEF Spec
=============================================================================
