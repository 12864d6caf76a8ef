--------------------------- MODULE VersionRegistry ---------------------------
(***************************************************************************)
(* The accessor of the on-chain version registry: what version of an id a  *)
(* reader gets, and the check before a version is added or cancelled.  The *)
(* contract only emits events; every rule about versions is in the reader. *)
(***************************************************************************)
EXTENDS LogQueries, FiniteSetsExt

RegistryEvents == {"VersionAdded", "VersionCanceled"}

CONSTANT NoVersion    \* getVersion throws: no version found

NoOptIn == ""         \* optInVersion when the caller has none: no version's name

\* A command that asks for the versions: `now' is 0 while getBlock('latest') has
\* not answered, `last' is the interactor's lastBlockNumber.
Asking == [pc |-> "ask", q |-> NoQuery, now |-> 0, began |-> 0, ended |-> 0,
           answer |-> NoVersion]

(* ------------------------------- the reader ------------------------------- *)

Named(events, name) ==
    LET Is(e) == e.event = name IN SelectSeq(events, Is)

\* Every version with its first value, by its place in the log; cancelled when
\* its name was ever cancelled.
GetAllVersions(events) ==
    LET added == Named(events, "VersionAdded")
        first == {i \in DOMAIN added : \A j \in 1..(i - 1) :
                                            added[j].subject # added[i].subject}
        cancelled == {e.subject : e \in ToSet(Named(events, "VersionCanceled"))}
    IN  [i \in first |-> [version |-> added[i].subject, value |-> added[i].object,
                          time |-> added[i].block,
                          canceled |-> added[i].subject \in cancelled]]

\* The latest version that is not cancelled and is mature or opted in to.
GetVersion(events, now, delayPeriod, optInVersion) ==
    LET versions == GetAllVersions(events)
        fit == {i \in DOMAIN versions :
                   /\ ~versions[i].canceled
                   /\ \/ versions[i].time + delayPeriod <= now
                      \/ versions[i].version = optInVersion}
    IN  IF fit = {} THEN NoVersion ELSE versions[Max(fit)]

\* Both questions are asked at once; with pages, the block number comes first.
AskVersions(p) ==
    /\ cmd[p].pc = "ask"
    /\ \E b \in GetBlockNumber(0) :
          cmd' = [cmd EXCEPT ![p].pc = "query", ![p].began = block,
                             ![p].q = NewQuery(RegistryEvents, cmd[p].maxPageSize, b)]
    /\ UNCHANGED <<block, log>>

\* getBlock('latest') answers.
ReadNow(p) ==
    /\ cmd[p].pc = "query" /\ cmd[p].kind = "start" /\ cmd[p].now = 0
    /\ \E b \in GetBlockNumber(0) : cmd' = [cmd EXCEPT ![p].now = b]
    /\ UNCHANGED <<block, log>>

\* mutant: a version counts from the moment it is added
ResolveVersionAtOnce(p) ==
    /\ cmd[p].pc = "query" /\ cmd[p].kind = "start"
    /\ Finished(cmd[p].q) /\ cmd[p].now # 0
    /\ LET version == GetVersion(cmd[p].q.got, cmd[p].now, 0, NoOptIn) IN
       cmd' = [cmd EXCEPT ![p].pc = IF version = NoVersion THEN "failed" ELSE "resolved",
                          ![p].answer = version, ![p].ended = block, ![p].q = NoQuery]
    /\ UNCHANGED <<block, log>>

\* Both have answered: getVersion returns, or throws when none fits.  Neither of
\* its callers opts in to a version.
ResolveVersion(p) ==
    /\ cmd[p].pc = "query" /\ cmd[p].kind = "start"
    /\ Finished(cmd[p].q) /\ cmd[p].now # 0
    /\ LET version == GetVersion(cmd[p].q.got, cmd[p].now, cmd[p].delayPeriod, NoOptIn) IN
       cmd' = [cmd EXCEPT ![p].pc = IF version = NoVersion THEN "failed" ELSE "resolved",
                          ![p].answer = version, ![p].ended = block, ![p].q = NoQuery]
    /\ UNCHANGED <<block, log>>

\* The events could not be read: getVersion throws.
VersionsUnread(p) ==
    /\ cmd[p].pc = "unread" /\ cmd[p].kind = "start"
    /\ Goto(p, "failed")
    /\ UNCHANGED <<block, log>>

(* ------------------------------- the writers ------------------------------ *)

\* checkVersion: an unreadable registry counts as one without versions.  A `raw'
\* command has an interactor that cannot send either.
Exists(p) ==
    /\ cmd[p].pc = "query"
    /\ \E i \in DOMAIN GetAllVersions(cmd[p].q.got) :
          GetAllVersions(cmd[p].q.got)[i].version = cmd[p].version

Checked(p) == \/ cmd[p].pc = "query" /\ Finished(cmd[p].q)
              \/ cmd[p].pc = "unread"

AddVersion(p) ==
    /\ cmd[p].kind = "add" /\ Checked(p)
    /\ IF Exists(p) \/ cmd[p].raw
       THEN Goto(p, "failed") /\ UNCHANGED <<block, log>>
       ELSE Goto(p, "done") /\ Emit("VersionAdded", cmd[p].version, cmd[p].value)

CancelVersion(p) ==
    /\ cmd[p].kind = "cancel" /\ Checked(p)
    /\ IF ~Exists(p) \/ cmd[p].raw
       THEN Goto(p, "failed") /\ UNCHANGED <<block, log>>
       ELSE Goto(p, "done") /\ Emit("VersionCanceled", cmd[p].version, "reason")

RegistryStep(p) ==
    \/ ReadPage(p) \/ SplitPages(p) \/ AskVersions(p) \/ ReadNow(p)
    \/ ResolveVersion(p) \/ VersionsUnread(p) \/ AddVersion(p) \/ CancelVersion(p)

(* ------------------------------- properties ------------------------------- *)

Answered == {p \in DOMAIN cmd : cmd[p].kind = "start" /\ cmd[p].answer # NoVersion}

UpTo(b) == LET Then(e) == e.event \in RegistryEvents /\ e.block <= b IN SelectSeq(log, Then)

(***************************************************************************)
(* What a reader gets is the newest version that is fit in the registry of *)
(* one block, judged by the time of one block, both from the time it was   *)
(* reading (VersionRegistry.ts:58-70), though versions are added, twice    *)
(* and unchecked by a new deployment, and cancelled meanwhile: no mixture  *)
(* of pages, repeated events or later ones.                                *)
(***************************************************************************)
ReadIsASnapshot ==
    \A p \in Answered :
        \E b, t \in Larger(cmd[p].began - Lag, 1)..cmd[p].ended :
            cmd[p].answer = GetVersion(UpTo(b), t, cmd[p].delayPeriod, NoOptIn)
===============================================================================
