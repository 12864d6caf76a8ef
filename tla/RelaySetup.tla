------------------------------ MODULE RelaySetup ------------------------------
(***************************************************************************)
(* Setting GSN up: `gsn deploy', `gsn relayer-register', the start of a    *)
(* relay server (with the hub it finds in the version registry), `gsn      *)
(* start', which does all of it, and the commands of VersionRegistry and   *)
(* RelayStatistics.  Commands are processes on one chain; every            *)
(* transaction and every answer of the node or of the relay ends a step,   *)
(* and a command may die between any two.  The transactions of a           *)
(* registration are sent in one step and mined in a later one.             *)
(***************************************************************************)
EXTENDS VersionRegistry, RelayStatistics

CONSTANTS
    Commands,    \* names of commands
    Scenarios,   \* what runs: functions from some commands to their first states
    Manager,     \* the relay manager of the server the commands are about
    MinStake,    \* relayHub.getConfiguration().minimumStake and minimumUnstakeDelay
    MinDelay,
    MaxFaults    \* bound on commands that die or are refused

ASSUME SetupAssumption ==
    /\ Manager \in Managers
    /\ MinStake \in Nat /\ MinDelay \in Nat /\ MaxBlock \in Nat /\ MaxFaults \in Nat

VARIABLES
    contracts,   \* external: the deployed contracts; an address is an index
    files,       \* build/gsn/*.json: the address in each, 0 for none
    relay,       \* the relay server: up or not, its hub, owner option, balance, ready,
                 \* and whether its stores of an earlier run are kept
    keystore,    \* workdir/manager/keystore: the seed in it, or "none"
    deposits,    \* external: per paymaster address its deposit in the hub
    pending,     \* external: the transactions of registrations that are sent, not mined
    overlap,     \* history: a registration has read the stake after another had,
                 \* and before that one's stake was mined
    undisturbed, \* history: the command that saves, or saved last, if no other
                 \* save was under way meanwhile
    faults

sending == <<pending, overlap>>
world == <<contracts, files, relay, keystore, deposits, sending, undisturbed>>
vars  == <<block, log, cmd, stake, world, faults>>

ContractNames == {"StakeManager", "Penalizer", "Forwarder", "RelayHub",
                  "VersionRegistry", "Paymaster"}
NoAddresses == [name \in ContractNames |-> 0]
NoCommand == "none"
Contract(type, refs) == [type |-> type, refs |-> refs, version |-> "required"]

Init ==
    /\ cmd \in Scenarios
    /\ block = 1 /\ log = <<>>
    /\ stake = [m \in Managers |->
                   IF \E p \in DOMAIN cmd : cmd[p].kind = "stats"
                   THEN [NoStake EXCEPT !.owner = "owner"] ELSE NoStake]
    /\ contracts = <<Contract("RelayHub", NoAddresses), Contract("VersionRegistry", NoAddresses),
                     [Contract("RelayHub", NoAddresses) EXCEPT !.version = "old"]>>
    /\ files = NoAddresses
    /\ relay = [up |-> \A p \in DOMAIN cmd : cmd[p].kind # "gsn", hub |-> 1, owner |-> "owner", balance |-> 0, ready |-> FALSE,
                stores |-> TRUE]
    /\ keystore = "none"
    /\ deposits = <<0, 0, 0>>
    /\ pending = <<>>
    /\ overlap = FALSE
    /\ undisturbed = NoCommand
    /\ faults = 0

IsContractDeployed(address) == address \in DOMAIN contracts
IsKind(p, kinds) == cmd[p].kind \in kinds

(* ------------------------------ entry points ------------------------------ *)

\* An address comes from an option or from the files of an earlier deployment.
GetAddressFromFile(p, name) == IF cmd[p].given[name] # 0 THEN cmd[p].given[name] ELSE files[name]

\* The sender is an option or the first unlocked account with two ethers.
FindWealthyAccount(p) == cmd[p].wealthy

\* gsn-deploy.ts
GsnDeploy(p) ==
    /\ cmd[p].kind = "deploy" /\ cmd[p].pc = "main"
    /\ Goto(p, IF FindWealthyAccount(p) THEN "deploy" ELSE "failed")
    /\ UNCHANGED <<block, log, stake, world, faults>>

\* gsn-relayer-register.ts
GsnRelayerRegister(p) ==
    /\ cmd[p].kind = "register" /\ cmd[p].pc = "main"
    /\ Goto(p, IF FindWealthyAccount(p) THEN "ping" ELSE "failed")
    /\ UNCHANGED <<block, log, stake, world, faults>>

\* versionRegistry.isValid(): there is code at the address.
IsValid(address) == IsContractDeployed(address)

\* gsn-registry.ts to add or cancel a version.  Its ContractInteractor is never
\* initialized: it has no versionRegistry to ask for events, or to send to.
GsnRegistry(p) ==
    /\ cmd[p].kind \in {"add", "cancel"} /\ cmd[p].pc = "main"
    /\ Goto(p, IF IsValid(GetAddressFromFile(p, "VersionRegistry")) /\ FindWealthyAccount(p)
               THEN "unread" ELSE "failed")
    /\ UNCHANGED <<block, log, stake, world, faults>>

\* gsn-paymaster-fund.ts: CommandsLogic is not initialized either, so asking its
\* hub for the balance throws.
GsnPaymasterFund(p) ==
    /\ cmd[p].kind = "fund" /\ cmd[p].pc = "main"
    /\ Goto(p, "failed")
    /\ UNCHANGED <<block, log, stake, world, faults>>

(* ---------------------------- gsn deploy ---------------------------------- *)

\* What is left to do, in order.
DeploySteps(p) ==
    <<"StakeManager", "Penalizer", "Forwarder", "RelayHub", "VersionRegistry">>
    \o (IF cmd[p].registryHubId THEN <<"publish">> ELSE <<>>)
    \o (IF cmd[p].deployPaymaster THEN <<"Paymaster", "setRelayHub", "setTrustedForwarder">> ELSE <<>>)
    \o <<"registerForwarder">>

DeployStep(p) == IF cmd[p].pc = "deploy" THEN DeploySteps(p)[cmd[p].step] ELSE "none"

Deployed(p, name, address) ==
    cmd' = [cmd EXCEPT ![p].step = @ + 1, ![p].has[name] = address]

\* A contract at a given address is taken as it is, without a look at what it
\* refers to; otherwise one is deployed with the addresses known so far.
GetContractInstance(p, name) ==
    /\ DeployStep(p) = name
    /\ IF cmd[p].given[name] # 0
       THEN Deployed(p, name, cmd[p].given[name]) /\ UNCHANGED <<contracts, deposits>>
       ELSE /\ Deployed(p, name, Len(contracts) + 1)
            /\ contracts' = Append(contracts,
                   Contract(name, IF name = "RelayHub"
                                  THEN [NoAddresses EXCEPT
                                           !["StakeManager"] = cmd[p].has["StakeManager"],
                                           !["Penalizer"] = cmd[p].has["Penalizer"]]
                                  ELSE NoAddresses))
            /\ deposits' = Append(deposits, 0)
    /\ UNCHANGED <<block, log, stake, files, relay, keystore, sending, undisturbed, faults>>

\* The hub is published as version '1' of the id, whatever is there already.
PublishHub(p) ==
    /\ DeployStep(p) = "publish"
    /\ cmd' = [cmd EXCEPT ![p].step = @ + 1]
    /\ Emit("VersionAdded", "1", cmd[p].has["RelayHub"])
    /\ UNCHANGED <<stake, world, faults>>

\* The new paymaster is told its hub and its forwarder, one after the other.
DeployPaymaster(p) ==
    /\ DeployStep(p) \in {"setRelayHub", "setTrustedForwarder"}
    /\ cmd' = [cmd EXCEPT ![p].step = @ + 1]
    /\ LET name == IF DeployStep(p) = "setRelayHub" THEN "RelayHub" ELSE "Forwarder" IN
       contracts' = [contracts EXCEPT ![cmd[p].has["Paymaster"]].refs[name] = cmd[p].has[name]]
    /\ UNCHANGED <<block, log, stake, files, relay, keystore, deposits, sending, undisturbed, faults>>

\* What `gsn start' does next: deploy, fund the paymaster, run a server, register
\* it, wait for it and save the addresses.
StartGsn(done) == CASE done = "deployed"   -> "fundPaymaster"
                    [] done = "funded"     -> "server"
                    [] done = "serving"    -> "ping"
                    [] done = "registered" -> "save"

\* registerForwarderForGsn and the resulting deployment.
DeployGsnContracts(p) ==
    /\ DeployStep(p) = "registerForwarder"
    /\ cmd' = [cmd EXCEPT ![p].pc = IF cmd[p].kind = "gsn" THEN StartGsn("deployed") ELSE "save",
                          ![p].step = 1]
    /\ UNCHANGED <<block, log, stake, world, faults>>

SavedFiles == <<"StakeManager", "Penalizer", "RelayHub", "Paymaster", "Forwarder",
                "VersionRegistry">>

Saving(p) == IsKind(p, {"deploy", "gsn"}) /\ cmd[p].pc = "save"

\* One file is written; others may be saving.
Saved(p) ==
    /\ cmd' = [cmd EXCEPT ![p].step = @ + 1,
                          ![p].pc = IF cmd[p].step = Len(SavedFiles) THEN "done" ELSE @]
    /\ undisturbed' = IF cmd[p].step = 1
                      THEN IF \E q \in DOMAIN cmd \ {p} : Saving(q) /\ cmd[q].step > 1
                           THEN NoCommand ELSE p
                      ELSE IF undisturbed = p THEN p ELSE NoCommand
    /\ UNCHANGED <<block, log, stake, contracts, relay, keystore, deposits, sending, faults>>

\* mutant: a contract that was not deployed is not written
SaveContractIfDeployed(p) ==
    /\ Saving(p)
    /\ LET name == SavedFiles[cmd[p].step] IN
       files' = IF cmd[p].has[name] = 0 THEN files
                ELSE [files EXCEPT ![name] = cmd[p].has[name]]
    /\ Saved(p)

\* saveDeployment writes one file after the other.
SaveContractToFile(p) ==
    /\ Saving(p)
    /\ LET name == SavedFiles[cmd[p].step] IN
       files' = [files EXCEPT ![name] = cmd[p].has[name]]
    /\ Saved(p)

(* ------------------------- the start of a server -------------------------- *)

ConfigParams == {"relayHubAddress", "versionRegistryAddress", "relayHubId", "url",
                 "workdir", "ownerAddress", "ethereumNodeUrl", "devMode"}

\* The command line, then the environment, then the file.  Unknown names are
\* passed over in the environment and refused elsewhere.
ParseServerConfig(p) ==
    cmd[p].args @@ [k \in DOMAIN cmd[p].env \cap ConfigParams |-> cmd[p].env[k]] @@ cmd[p].file

ParseFails(p) == ~((DOMAIN cmd[p].args \cup DOMAIN cmd[p].file) \subseteq ConfigParams)

ConfigFails(conf) ==
    IF "versionRegistryAddress" \in DOMAIN conf
    THEN \/ "relayHubAddress" \in DOMAIN conf \/ "relayHubId" \notin DOMAIN conf
         \/ ~IsContractDeployed(conf["versionRegistryAddress"])
    ELSE "relayHubAddress" \notin DOMAIN conf

\* run() parses; without a node, or with a parameter it does not know, it exits.
Run(p) ==
    /\ cmd[p].kind = "start" /\ cmd[p].pc = "main"
    /\ Goto(p, IF ParseFails(p) \/ "ethereumNodeUrl" \notin DOMAIN ParseServerConfig(p)
               THEN "failed" ELSE "config")
    /\ UNCHANGED <<block, log, stake, world, faults>>

\* resolveServerConfig as far as it needs no registry.
ResolveServerConfig(p) ==
    /\ cmd[p].kind = "start" /\ cmd[p].pc = "config"
    /\ LET conf == ParseServerConfig(p) IN
       cmd' = [cmd EXCEPT
           ![p].pc = IF ConfigFails(conf) THEN "failed"
                     ELSE IF "versionRegistryAddress" \in DOMAIN conf THEN "ask" ELSE "resolved",
           ![p].hub = IF "relayHubAddress" \in DOMAIN conf THEN conf["relayHubAddress"] ELSE 0]
    /\ UNCHANGED <<block, log, stake, world, faults>>

\* The hub, given or found, and the other parameters are checked.
CheckHub(p) ==
    /\ cmd[p].kind = "start" /\ cmd[p].pc = "resolved"
    /\ LET hub == IF cmd[p].hub = 0 THEN cmd[p].answer.value ELSE cmd[p].hub IN
       cmd' = [cmd EXCEPT
           ![p].hub = hub,
           ![p].pc = IF IsContractDeployed(hub)
                        /\ {"url", "workdir", "ownerAddress"} \subseteq DOMAIN ParseServerConfig(p)
                     THEN "stores" ELSE "failed"]
    /\ UNCHANGED <<block, log, stake, world, faults>>

\* A server in devMode starts with empty stores.
DeleteStores(p) ==
    /\ cmd[p].kind = "start" /\ cmd[p].pc = "stores"
    /\ Goto(p, "keys")
    /\ relay' = [relay EXCEPT !.stores = @ /\ "devMode" \notin DOMAIN ParseServerConfig(p)]
    /\ UNCHANGED <<block, log, stake, contracts, files, keystore, deposits, sending, undisturbed, faults>>

\* KeyManager takes the seed of the keystore, or makes one up ...
FromKeystore(p) ==
    /\ cmd[p].kind = "start" /\ cmd[p].pc = "keys"
    /\ cmd' = [cmd EXCEPT ![p].seed = IF keystore = "none" THEN p ELSE keystore,
                          ![p].pc = IF keystore = "none" THEN "write" ELSE "wire"]
    /\ UNCHANGED <<block, log, stake, world, faults>>

\* ... and writes it, over what another process may have written by now.
WriteKeystore(p) ==
    /\ cmd[p].kind = "start" /\ cmd[p].pc = "write"
    /\ Goto(p, "wire")
    /\ keystore' = cmd[p].seed
    /\ UNCHANGED <<block, log, stake, contracts, files, relay, deposits, sending, undisturbed, faults>>

\* The deployment as the hub knows it.
ResolveDeploymentFromRelayHub(hub) == [contracts[hub].refs EXCEPT !["RelayHub"] = hub]

ValidateVersion(hub) == contracts[hub].version = "required"

\* contractInteractor.init: an address that is not a hub's, or a hub of another
\* version, ends the process.
InitInteractor(p) ==
    /\ cmd[p].kind = "start" /\ cmd[p].pc = "wire"
    /\ IF contracts[cmd[p].hub].type = "RelayHub" /\ ValidateVersion(cmd[p].hub)
       THEN cmd' = [cmd EXCEPT ![p].pc = "run",
                               ![p].has = ResolveDeploymentFromRelayHub(cmd[p].hub)]
       ELSE Goto(p, "failed")
    /\ UNCHANGED <<block, log, stake, world, faults>>

\* The rest of run(): the managers and services are created, the server serves.
RunServer(p) ==
    /\ cmd[p].kind = "start" /\ cmd[p].pc = "run"
    /\ Goto(p, "done")
    /\ relay' = [relay EXCEPT !.up = TRUE, !.hub = cmd[p].hub,
                              !.owner = ParseServerConfig(p)["ownerAddress"]]
    /\ UNCHANGED <<block, log, stake, contracts, files, keystore, deposits, sending, undisturbed, faults>>

(* ------------------------- gsn relayer-register --------------------------- *)

Registering == {"register", "gsn"}
Awaiting    == {"funding", "staking", "authorizing"}

\* The relay answers the ping, is not ready and is on our chain.
PingRelay(p) ==
    /\ IsKind(p, Registering) /\ cmd[p].pc = "ping"
    /\ cmd' = [cmd EXCEPT ![p].pc = IF relay.up /\ ~relay.ready THEN "info" ELSE "failed",
                          ![p].hub = relay.hub]
    /\ UNCHANGED <<block, log, stake, world, faults>>

\* web3 hands a transaction to the node and waits for its receipt.
Send(p, pc, type, value) ==
    /\ cmd' = [cmd EXCEPT ![p].pc = pc]
    /\ pending' = Append(pending, [by |-> p, type |-> type, value |-> value])

\* A command has read the stake, and may send or has sent what it adds to it.
StakeUnderWay(p) ==
    \/ IsKind(p, Registering) /\ cmd[p].pc \in {"fund", "funding", "owner", "stake"}
    \/ \E i \in DOMAIN pending : pending[i].by = p /\ pending[i].type = "stake"

\* getStakeInfo, read once and used until the stake is sent.
GetStakeInfo(p) ==
    /\ IsKind(p, Registering) /\ cmd[p].pc = "info"
    /\ cmd' = [cmd EXCEPT ![p].info = stake[Manager],
                          ![p].pc = IF stake[Manager].owner \in {NoOwner, cmd[p].from}
                                    THEN "fund" ELSE "failed"]
    /\ overlap' = (overlap \/ \E q \in DOMAIN cmd \ {p} : StakeUnderWay(q))
    /\ UNCHANGED <<block, log, stake, contracts, files, relay, keystore, deposits, pending,
                   undisturbed, faults>>

AfterFunding(p) == IF cmd[p].info.owner = NoOwner THEN "owner" ELSE "stake"

\* The manager is funded unless it has more than the funds already.
FundRelay(p) ==
    /\ IsKind(p, Registering) /\ cmd[p].pc = "fund"
    /\ IF relay.balance > cmd[p].funds
       THEN Goto(p, AfterFunding(p)) /\ UNCHANGED pending
       ELSE Send(p, "funding", "fund", cmd[p].funds)
    /\ UNCHANGED <<block, log, stake, contracts, files, relay, keystore, deposits, overlap,
                   undisturbed, faults>>

\* The server has named its owner ...
OwnerIsSet(p) ==
    /\ IsKind(p, Registering) /\ cmd[p].pc = "owner" /\ stake[Manager].owner = cmd[p].from
    /\ Goto(p, "stake")
    /\ UNCHANGED <<block, log, stake, world, faults>>

\* ... or has not within sleepCount looks.
OwnerNotSet(p) ==
    /\ IsKind(p, Registering) /\ cmd[p].pc = "owner" /\ stake[Manager].owner # cmd[p].from
    /\ Goto(p, "failed")
    /\ UNCHANGED <<block, log, stake, world, faults>>

\* mutant
StakeRelayInFull(p) ==
    /\ IsKind(p, Registering) /\ cmd[p].pc = "stake"
    /\ IF cmd[p].info.delay >= cmd[p].delay /\ cmd[p].info.amount >= cmd[p].stake
       THEN Goto(p, "authorize") /\ UNCHANGED pending
       ELSE IF MinStake > cmd[p].stake \/ MinDelay > cmd[p].delay
       THEN Goto(p, "failed") /\ UNCHANGED pending
       ELSE Send(p, "staking", "stake", cmd[p].stake)
    /\ UNCHANGED <<block, log, stake, contracts, files, relay, keystore, deposits, overlap,
                   undisturbed, faults>>

\* The difference to the stake read before is sent; a negative one, or one the hub
\* does not take, is refused.
StakeRelay(p) ==
    /\ IsKind(p, Registering) /\ cmd[p].pc = "stake"
    /\ IF cmd[p].info.delay >= cmd[p].delay /\ cmd[p].info.amount >= cmd[p].stake
       THEN Goto(p, "authorize") /\ UNCHANGED pending
       ELSE IF MinStake > cmd[p].stake \/ MinDelay > cmd[p].delay
               \/ cmd[p].stake < cmd[p].info.amount
       THEN Goto(p, "failed") /\ UNCHANGED pending
       ELSE Send(p, "staking", "stake", cmd[p].stake - cmd[p].info.amount)
    /\ UNCHANGED <<block, log, stake, contracts, files, relay, keystore, deposits, overlap,
                   undisturbed, faults>>

AuthorizeRelay(p) ==
    /\ IsKind(p, Registering) /\ cmd[p].pc = "authorize"
    /\ IF IsRelayManagerStaked(Manager, cmd[p].hub, 0, 0)
       THEN Goto(p, "wait") /\ UNCHANGED pending
       ELSE Send(p, "authorizing", "authorize", 0)
    /\ UNCHANGED <<block, log, stake, contracts, files, relay, keystore, deposits, overlap,
                   undisturbed, faults>>

\* External: a transaction is mined, those of one account in the order they were
\* sent, whether its command still waits for the receipt or has died.
Mined(i, type, next) ==
    LET p == pending[i].by IN
    /\ pending[i].type = type
    /\ \A j \in 1..(i - 1) : cmd[pending[j].by].from # cmd[p].from
    /\ pending' = RemoveAt(pending, i)
    /\ cmd' = [cmd EXCEPT ![p].pc = IF @ \in Awaiting THEN next ELSE @]
    /\ UNCHANGED <<contracts, files, keystore, deposits, overlap, undisturbed, faults>>

FundMined(i) ==
    /\ Mined(i, "fund", AfterFunding(pending[i].by))
    /\ relay' = [relay EXCEPT !.balance = @ + pending[i].value]
    /\ UNCHANGED <<block, log, stake>>

StakeMined(i) ==
    LET p == pending[i].by IN
    /\ Mined(i, "stake", "authorize")
    /\ StakeForRelayManager(Manager, cmd[p].from, pending[i].value, cmd[p].delay)
    /\ UNCHANGED relay

\* The unstake delay may only grow.
StakeReverted(i) ==
    /\ Mined(i, "stake", "failed")
    /\ cmd[pending[i].by].delay < stake[Manager].delay
    /\ UNCHANGED <<block, log, stake, relay>>

AuthorizeMined(i) ==
    /\ Mined(i, "authorize", "wait")
    /\ AuthorizeHub(Manager, cmd[pending[i].by].hub)
    /\ UNCHANGED relay

\* web3 gives up waiting for a receipt; the transaction may still be mined.
TransactionNotMined(p) ==
    /\ IsKind(p, Registering) /\ cmd[p].pc \in Awaiting
    /\ Goto(p, "failed")
    /\ UNCHANGED <<block, log, stake, world, faults>>

\* `gsn start' then saves its deployment.
WaitForRelay(p) ==
    /\ IsKind(p, Registering) /\ cmd[p].pc = "wait" /\ relay.ready
    /\ Goto(p, IF cmd[p].kind = "gsn" THEN StartGsn("registered") ELSE "done")
    /\ UNCHANGED <<block, log, stake, world, faults>>

\* mutant
RelayNotReadyYet(p) ==
    /\ IsKind(p, Registering) /\ cmd[p].pc = "wait" /\ ~relay.ready
    /\ Goto(p, "wait")
    /\ UNCHANGED <<block, log, stake, world, faults>>

\* The relay is not ready after sixty seconds.
RelayNotReady(p) ==
    /\ IsKind(p, Registering) /\ cmd[p].pc = "wait" /\ ~relay.ready
    /\ Goto(p, "failed")
    /\ UNCHANGED <<block, log, stake, world, faults>>

(* ------------------------------- gsn start -------------------------------- *)

\* fundPaymaster reads the deposit ...
ReadPaymasterBalance(p) ==
    /\ cmd[p].kind = "gsn" /\ cmd[p].pc = "fundPaymaster"
    /\ cmd' = [cmd EXCEPT ![p].pc = "deposit",
                          ![p].info.amount = deposits[cmd[p].has["Paymaster"]]]
    /\ UNCHANGED <<block, log, stake, world, faults>>

\* ... and fills it up to the amount.
FundPaymaster(p) ==
    /\ cmd[p].kind = "gsn" /\ cmd[p].pc = "deposit"
    /\ deposits' = [deposits EXCEPT ![cmd[p].has["Paymaster"]] =
                       IF cmd[p].info.amount < cmd[p].funds
                       THEN @ + cmd[p].funds - cmd[p].info.amount ELSE @]
    /\ Goto(p, StartGsn("funded"))
    /\ UNCHANGED <<block, log, stake, contracts, files, relay, keystore, sending, undisturbed, faults>>

\* _runServer with the new deployment; the account that deploys is the owner.
StartGsnServer(p) ==
    /\ cmd[p].kind = "gsn" /\ cmd[p].pc = "server"
    /\ relay' = [up |-> TRUE, hub |-> cmd[p].has["RelayHub"], owner |-> cmd[p].from,
                 balance |-> 0, ready |-> FALSE, stores |-> FALSE]
    /\ Goto(p, StartGsn("serving"))
    /\ UNCHANGED <<block, log, stake, contracts, files, keystore, deposits, sending, undisturbed, faults>>

(* -------------------------- the relay, the world -------------------------- *)

\* The server names its owner once it has a balance (see RelayManager).
RelaySetsOwner ==
    /\ relay.up /\ relay.balance > 0 /\ stake[Manager].owner = NoOwner
    /\ stake' = [stake EXCEPT ![Manager].owner = relay.owner]
    /\ UNCHANGED <<block, log, cmd, world, faults>>

\* It registers and becomes ready once it is staked for its hub.
RelayRegisters ==
    /\ relay.up /\ ~relay.ready /\ stake[Manager].owner # NoOwner
    /\ IsRelayManagerStaked(Manager, relay.hub, MinStake, MinDelay)
    /\ relay' = [relay EXCEPT !.ready = TRUE]
    /\ UNCHANGED <<block, log, cmd, stake, contracts, files, keystore, deposits, sending, undisturbed, faults>>

Ended == {"done", "failed"}

\* A command is refused by its user or the node, or its process dies.  The
\* others do nothing before their last step that stopping them would show.
Die(p) ==
    /\ IsKind(p, {"deploy", "register", "gsn"})
    /\ cmd[p].pc \notin Ended /\ faults < MaxFaults
    /\ faults' = faults + 1
    /\ Goto(p, "failed")
    /\ UNCHANGED <<block, log, stake, world>>

\* Time goes on for whoever waits for a version to mature.
NewBlock ==
    /\ block < MaxBlock
    /\ \E p \in DOMAIN cmd : cmd[p].kind = "start" /\ cmd[p].pc \in {"ask", "query"}
    /\ block' = block + 1
    /\ UNCHANGED <<log, cmd, stake, world, faults>>

OthersAct ==
    /\ \E p \in DOMAIN cmd : cmd[p].kind = "stats" /\ cmd[p].pc \notin Ended
    /\ Others
    /\ UNCHANGED <<world, faults>>

Command(p) ==
    \/ GsnDeploy(p) \/ GsnRelayerRegister(p) \/ GsnRegistry(p) \/ GsnPaymasterFund(p)
    \/ RegistryStep(p) /\ UNCHANGED <<stake, world, faults>>
    \/ StatisticsStep(p) /\ UNCHANGED <<world, faults>>
    \/ \E name \in ContractNames : GetContractInstance(p, name)
    \/ PublishHub(p) \/ DeployPaymaster(p) \/ DeployGsnContracts(p) \/ SaveContractToFile(p)
    \/ Run(p) \/ ResolveServerConfig(p) \/ CheckHub(p) \/ DeleteStores(p) \/ FromKeystore(p)
    \/ WriteKeystore(p) \/ InitInteractor(p) \/ RunServer(p)
    \/ PingRelay(p) \/ GetStakeInfo(p) \/ FundRelay(p) \/ OwnerIsSet(p) \/ OwnerNotSet(p)
    \/ StakeRelay(p) \/ AuthorizeRelay(p) \/ TransactionNotMined(p) \/ WaitForRelay(p) \/ RelayNotReady(p)
    \/ ReadPaymasterBalance(p) \/ FundPaymaster(p) \/ StartGsnServer(p)

Next ==
    \/ \E p \in DOMAIN cmd : Command(p) \/ Die(p)
    \/ \E i \in DOMAIN pending :
          FundMined(i) \/ StakeMined(i) \/ StakeReverted(i) \/ AuthorizeMined(i)
    \/ RelaySetsOwner \/ RelayRegisters \/ NewBlock \/ OthersAct

\* Every command goes on as long as it can: an await that has its answer
\* returns, and the waits of a registration are bounded, also those for receipts.
Fairness == \A p \in Commands : WF_vars(p \in DOMAIN cmd /\ Command(p))

Spec == Init /\ [][Next]_vars /\ Fairness

(* ------------------------------- properties -------------------------------- *)

Options == {p \in DOMAIN cmd : IsKind(p, Registering)}

(***************************************************************************)
(* However often `relayer-register' dies or gives up and is run again, the *)
(* relay is staked once and up to the largest stake asked for, as long as  *)
(* no run reads the stake (CommandsLogic.ts:213) after another has and     *)
(* before the stake that one sends is mined - be it that both run, or that *)
(* the first died with its transaction under way (:275-281).  Runs that do *)
(* may stake more, and never more than they all ask for together.  After a *)
(* success the relay has what that command asked for.                      *)
(***************************************************************************)
RerunsStakeOnce ==
    LET Asked(p) == cmd[p].stake IN
    Options # {} =>
        /\ stake[Manager].amount <= IF overlap THEN MapThenSumSet(Asked, Options)
                                   ELSE Max({Asked(p) : p \in Options})
        /\ \A p \in Options : cmd[p].pc = "done" =>
              /\ stake[Manager].owner = cmd[p].from
              /\ stake[Manager].amount >= cmd[p].stake /\ stake[Manager].delay >= cmd[p].delay

(***************************************************************************)
(* After a save that no other save overlapped, the six files hold one      *)
(* deployment, unless its hub was given: the hub in RelayHub.json uses the *)
(* stake manager and the penalizer of their files, and the paymaster in    *)
(* Paymaster.json that hub and the forwarder of Forwarder.json - whatever  *)
(* the files held before, of whole deployments, of commands that died      *)
(* between two files, or mixed by saves that overlapped (utils.ts:105).    *)
(***************************************************************************)
FilesAreOneDeployment ==
    \A p \in DOMAIN cmd :
        p = undisturbed /\ cmd[p].pc = "done" /\ cmd[p].given["RelayHub"] = 0 =>
            /\ \A name \in {"StakeManager", "Penalizer"} :
                  contracts[files["RelayHub"]].refs[name] = files[name]
            /\ files["Paymaster"] # 0 =>
                  \A name \in {"RelayHub", "Forwarder"} :
                      contracts[files["Paymaster"]].refs[name] = files[name]

(***************************************************************************)
(* Every command ends: no wait, retry or split of a query goes on for ever *)
(* whatever dies, is refused or is mined meanwhile.                        *)
(***************************************************************************)
CommandsEnd == \A p \in Commands : <>[](p \in DOMAIN cmd => cmd[p].pc \in Ended)
===============================================================================
