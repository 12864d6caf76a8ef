---------------------------- MODULE MCRelaySetup ----------------------------
(***************************************************************************)
(* Commands to run together: readers and writers of the registry, a        *)
(* deployment made again while servers start, two registrations of one     *)
(* relay, `gsn start', and the statistics over a stake's history.          *)
(***************************************************************************)
EXTENDS RelaySetup

Blank == [q |-> NoQuery, has |-> NoAddresses, wealthy |-> TRUE, raw |-> FALSE]

Start(size, delay, args, env, file) ==
    Asking @@ [kind |-> "start", hub |-> 0, maxPageSize |-> size, delayPeriod |-> delay,
               args |-> args, env |-> env, file |-> file, seed |-> "none"] @@ Blank

Common == [ethereumNodeUrl |-> "node", url |-> "url", workdir |-> "dir", ownerAddress |-> "owner"]
ByRegistry(size, delay) ==
    [Start(size, delay, [versionRegistryAddress |-> 2], [relayHubId |-> "id", HOME |-> "home"],
           Common) EXCEPT !.pc = "main"]
\* The environment names the registry although the file names the hub.
ByBoth == [Start(0, 0, [relayHubId |-> "id"], [versionRegistryAddress |-> 2],
                 Common @@ [relayHubAddress |-> 1]) EXCEPT !.pc = "main"]
ByHub(hub) == [Start(0, 0, [relayHubAddress |-> hub], [url |-> "other"], Common) EXCEPT !.pc = "main"]

Write(kind, version, value) ==
    Asking @@ [kind |-> kind, maxPageSize |-> 0, version |-> version, value |-> value] @@ Blank

DevMode == [ByHub(1) EXCEPT !.args = @ @@ [devMode |-> TRUE]]
NoNode == [ByHub(1) EXCEPT !.file = [url |-> "url"]]
Cli(command) == [command EXCEPT !.pc = "main", !.raw = TRUE] @@ [given |-> [VersionRegistry |-> 2]]

Deploy(kind, given, publish, paymaster) ==
    [kind |-> kind, pc |-> IF kind = "gsn" THEN "deploy" ELSE "main", step |-> 1, given |-> given @@ NoAddresses,
     registryHubId |-> publish, deployPaymaster |-> paymaster, info |-> NoStake, hub |-> 0,
     from |-> "owner", stake |-> 1, delay |-> 1, funds |-> 1] @@ Blank

\* A deployment whose other contracts are given.
Publish == Deploy("deploy", [VersionRegistry |-> 2, StakeManager |-> 1, Penalizer |-> 1,
                             Forwarder |-> 1], TRUE, FALSE)

Register(from, amount, delay) ==
    [kind |-> "register", pc |-> "main", info |-> NoStake, hub |-> 0, from |-> from,
     stake |-> amount, delay |-> delay, funds |-> 1] @@ Blank

Status(size) ==
    [kind |-> "stats", pc |-> "events", last |-> 0, read |-> <<>>, readAt |-> <<>>,
     relays |-> {}, paymasters |-> <<>>, maxPageSize |-> size] @@ Blank

Two(a, b) == [c1 |-> a, c2 |-> b]
Three(a, b, c) == [c1 |-> a, c2 |-> b, c3 |-> c]
Four(a, b, c, d) == [c1 |-> a, c2 |-> b, c3 |-> c, c4 |-> d]

MCScenarios ==
    {Three(ByRegistry(2, 1), Write("add", "1", 1), Write("cancel", "1", 0)),
     Three(ByRegistry(2, 0), Write("add", "1", 1), Write("add", "1", 2)),
     Two(ByRegistry(1, 0), Publish),
     Two(Deploy("deploy", [VersionRegistry |-> 2, StakeManager |-> 1, Penalizer |-> 1], TRUE, TRUE),
         Deploy("deploy", [VersionRegistry |-> 2, RelayHub |-> 1, Forwarder |-> 2], TRUE, TRUE)),
     Three(ByBoth, ByHub(1), DevMode), Four(ByHub(2), ByHub(3), ByHub(9), NoNode),
     Two(Cli(Write("add", "1", 1)), [kind |-> "fund", pc |-> "main"] @@ Blank),
     Two([Deploy("deploy", NoAddresses, FALSE, FALSE) EXCEPT !.wealthy = FALSE],
         [Register("owner", 1, 1) EXCEPT !.wealthy = FALSE]),
     Three(Register("owner", 1, 1), Register("owner", 2, 1), Register("other", 1, 1)),
     Two(Register("owner", 2, 2), Register("owner", 2, 1)),
     Two(Register("owner", 0, 1), Register("owner", 1, 1)),
     Two(Register("owner", 2, 1), Deploy("gsn", NoAddresses, FALSE, TRUE)),
     Two(Deploy("deploy", [VersionRegistry |-> 2, Forwarder |-> 2], FALSE, FALSE),
         Deploy("gsn", NoAddresses, FALSE, TRUE)),
     [c1 |-> Status(2)]}
=============================================================================
