# Spectra governance: verification project

This directory holds TLA+ models of the two halves of this repository, the TLC
runs that check them on small instances, and theorems about them checked by
TLAPS. The halves are the governance contracts under `src/contracts/` and the
off-chain services of the gas station network (GSN) under
`src/lib/gsn/packages/`, which carry users' calls to them through the trusted
forwarder. Paths below are relative to one of these two directories.

## 1. The system

Holders lock APW in the voting escrow and get veAPW, a balance that decays to
zero at the end of the lock. With it they vote, once a week, for pools. A
pool's fees and bribes are paid to reward contracts, one pair per pool, which
share each week's amount between the voters of that week. A distributor shares
a token stream between all veAPW holders. A holder without ether hands a signed
call to a relay server, which sends it through the hub and the forwarder at a
paymaster's cost; relays stake, and are penalized for misbehaving.

### Contracts

| Component | State | Operations | Talks to |
|---|---|---|---|
| **Voter** (`Voter.sol`) | weights per pool, votes per user and pool, the pools a user voted for, used weight and time of the last vote, total weight; per pool its reward contracts and whether it may be voted for; restricted and whitelisted users, operators, ballot limit | `vote`, `poke`, `reset`, `batchVote`, `batchPoke`, `claim*`, `createVotingRewards`, `banVote`, `reauthorizeVote`, `setApprovalForAll`, setters | reads the escrow's `balanceOf` and the registry; deposits and withdraws in both reward contracts on every change of a vote |
| **Voting rewards** (`rewards/*.sol`) | supply, balance per user, checkpoints of both, rewards per token and epoch, time of the last claim per token and user, the DAO's fee | `_deposit`, `_withdraw` (Voter only), `getReward(s)`, `notifyRewardAmount`, `setDaoFee` | called by the Voter, paid by bribers and the fee collector |
| **Epoch clock** (`libraries/VelodromeTimeLibrary.sol`) | none | bounds and windows of a week | Voter, rewards |
| **Governance registry** (`GovernanceRegistry.sol`) | pools by address and chain, factory pointer | `setPoolRegistration`, `setVotingRewardsFactory` | read by the Voter |
| **Voting escrow** (`staking/VotingEscrow.vy`) | a lock per user, histories of (bias, slope, time) per user and in total, scheduled slope changes per week | `create_lock`, `increase_amount`, `increase_unlock_time`, `deposit_for`, `withdraw`, `checkpoint`; views | read by Voter and distributor |
| **Fee distributor** (`staking/FeeDistributor.vy`) | tokens per week, escrow supply per week, cursor per user | `checkpoint_token`, `checkpoint_total_supply`, `claim`, `claim_many`, `burn`, `kill_me` | reads the escrow's histories |

### Services

| Component | State | Operations | Talks to |
|---|---|---|---|
| **Relay client** (`provider/src`) | known relays and their failures, resolved dependencies, per call what was tried | `relayTransaction`: initialise, refresh, race pings, sign, ask a relay, check its answer, broadcast it, audit it | relays over HTTP, the node, the application's callback |
| **Relay server, requests** (`relay/src/RelayServer.ts`, `Reputation*.ts`) | reputation entries of paymasters, alert state, last block scanned | `pingHandler`, `createRelayTransaction`, the worker's counting of hub events | clients, the node, its own transaction manager |
| **Relay server, manager** (`RelayServer.ts`, `RegistrationManager.ts`) | owner, stake, authorisation and registration as last read, delayed events | `_worker`, `handlePastEvents`, `attemptRegistration`, `replenishServer`, withdrawals | the node; the owner acts on chain meanwhile |
| **Transaction manager** (`TransactionManager.ts`, `TxStoreManager.ts`) | nonces, the nonce mutex, stored transactions | `sendTransaction`, `removeConfirmedTransactions`, `boostUnderpricedPendingTransactions` | the node |
| **Penalizer service** (`penalizer/*.ts`) | scheduled penalizations, cached transactions of workers | audit requests, the interval handler that reveals commitments | the node, a block explorer, clients |
| **Contract interactor**, **version registry**, **statistics** (`common/src`) | none beyond a query's progress | paged event queries; versions by id; the status of relays | the node |
| **Command line** (`cli/src`) | six deployment files, a keystore | `deploy`, `relayer-register`, `start`, `registry`, `status`, `paymaster-fund` | the node, a relay server |

### What is hard here

* **One fact kept in many places.** A vote is recorded per user and pool, per
  pool, in total, and in two reward contracts with two checkpoint lists each.
  Subtractions are checked: a divergence locks users out.
* **Lazy accounting.** Rewards and fees are shared by reading, weeks later,
  what a history says of a past week; whoever calls next fills it in.
* **Boundaries.** Weights, shares and fees round down; windows have inclusive
  ends; two checkpoints of an epoch coincide and of different epochs must not;
  a supply recorded at a week's first second is recorded too early.
* **Read, await, write.** The services run in an event loop: every `await`
  lets other handlers in. Reputation entries, the explorer's cache, scheduled
  penalizations and known relays are read before one and written after it.
* **Crash and retry.** Nonces are in memory, transactions in a store, and both
  outlive or do not outlive a restart; late transactions are boosted, commands
  are run again after they died, registrations are asked for again.
* **Unreliable answers.** A relay may keep what it was sent and never answer;
  a failed broadcast may have arrived; a node lags, forgets and reorganises.

The contracts have no concurrency below the transaction, and a reverted one
leaves no trace: one action is one transaction that succeeds. In the services
an action is what runs between two `await`s.

### What makes each part correct

* *Voter*: totals, ballots, votes and reward balances agree; a user can always
  leave; one choice per epoch.
* *Voting rewards*: an epoch's rewards are divided by the stakes the epoch
  closed with, once per user, whenever they claim; the contract can pay.
* *Escrow, distributor*: a balance is the decayed power of a lock, the total
  is the sum, now and looking back; recorded supplies are the true ones; every
  week is paid once and exactly, out of what is there.
* *Client*: every call is called back, no relay is asked twice, a call runs a
  second time only after an answer was lost.
* *Relay server*: one action per nonce, nothing that went out is forgotten,
  everything stored is mined, a ready relay is registered, one registration
  that the store knows of at a time, a throttled or abusive paymaster is shut
  out, a hub event is counted or given up with its batch, withdrawn stakes lead
  to returned balances.
* *Penalizer*: the first search finds the repeated nonce, commitments are
  revealed once and when due.
* *Set-up*: reruns stake once, saved files hold one deployment, a version read is
  one the registry had, a status is one the contracts had, commands end.

## 2. The modules

| Module | Models | Extends / uses |
|---|---|---|
| `EpochTime` | the time library | |
| `UnitSum` | `Total(f)`, the sum of a function's values, as the size of a set of units | |
| `Voter` | `Voter.sol`; of the reward contracts `balanceOf` and `totalSupply` | `EpochTime`, `UnitSum` |
| `Checkpoints` | pure operators: writing a checkpoint, the one in force at a time, what is earned | `EpochTime` |
| `CheckpointSearch` | the loop of `getPriorBalanceIndex` / `getPriorSupplyIndex`, turn by turn | `Checkpoints` |
| `VotingReward` | `VotingReward.sol` with both children | `Checkpoints`, `UnitSum`; refines `RewardLedger` |
| `RewardLedger` | abstract: stakes and one pot per token, divided when the epoch ends | `UnitSum` |
| `VotingEscrow` | `VotingEscrow.vy` | `UnitSum` |
| `FeeDistributor` | `FeeDistributor.vy`, composed with the escrow's own actions and histories | `INSTANCE VotingEscrow` |
| `RelayClient` | `RelayProvider`, `RelayClient`, `RelaySelectionManager`, `KnownRelaysManager`, `RelayedTransactionValidator` | |
| `RelayRequests` | request handling of `RelayServer`, `ReputationManager`, `ReputationStoreManager` | |
| `RelayManager` | the worker of `RelayServer`, `RegistrationManager` | |
| `TransactionManager` | `TransactionManager`, `TxStoreManager` | |
| `Penalizer` | `PenalizerService`, `EtherscanCachedService`, `TransactionDataCache` | |
| `LogQueries` | `ContractInteractor`'s paged event queries, a command's asking step by step | |
| `VersionRegistry` | `VersionRegistry.ts` | `LogQueries` |
| `RelayStatistics` | `StatisticsManager.ts`, and the stake manager it reads of | `LogQueries` |
| `RelaySetup` | `CommandsLogic.ts`, the commands, the start of a server; composes the three above | `VersionRegistry`, `RelayStatistics` |
| `MC*` | constants, scenarios and reduced initial states for TLC | |
| `*Proofs` | the theorems | |

Conventions. Variables, actions and helpers bear the names of the code's state
variables and functions. Code that is not under `src/` or is not modelled for
itself, such as the node, the hub and the explorer, appears as what the code
observes of it and is marked `external` where it is declared. Variables that
only properties read are described as histories. Definitions
marked `mutant` are wrong variants that no specification uses; they are there
to be substituted for the definition below them, to see a property notice.

### The contracts

*Voter.* `Recast(S, pv, new)` is one call of `_reset` and then `_vote` for each
user of `S`: it takes off what `Removed` finds through `poolVote`, adds the new
allocation, and makes the same two changes in both reward contracts. The
handlers differ in who may call them, in the windows they observe, in where the
weights come from and in whether they stamp `lastVoted`. The escrow's balance
is any value of `Powers` at every read. The caller of a restricted function is
taken to have its role.

*Voting rewards.* `WriteCheckpoint` overwrites the last entry when it falls in
the same epoch, `Prior` is the value in force at the end of an epoch, `earned`
sums over the whole epochs since the last claim. The contract's `kind`, bribes
or fees, is chosen in `Init`; `paid` is a history, `held` the contract's
balance. The refinement to `RewardLedger` maps stakes to balances, the pot to
the running epoch's rewards, and what is owed to the shares of closed epochs
that the claim cursor has not passed; the step that ends an epoch is
`NextBlock`.

*Escrow and distributor.* `Walk` is the loop of `_checkpoint`, `Fill` writes it
into the history, `Joined` swaps the old lock for the new in the last point,
`Unscheduled` and `Scheduled` are the slope changes. `CheckpointToken`,
`CheckpointTotalSupply` and `_claim` are the distributor's internal functions;
a claim runs up to `CLAIM_LOOPS` turns of `NextTurn`. The escrow's variables
are the distributor module's own and its actions steps of the composition.

### The services

*Lists that are filtered.* In `RelayClient` and `Penalizer` a list keeps each
item under its place: what a filter leaves is the function restricted to the
places that stay, and the next item is that of the smallest place. The order is
the code's, and an item never changes its name on the way.

*RelayClient.* Per call a record with a program counter that follows
`relayTransaction` from `_resolveDependencies` to the callback. Several calls
share one client: `deps` says which resolution they use, `known` and `failures`
what it knows. `log` is the hub's events, and `past` where the two lookup
windows begin; a refresh asks for recent activity, for the block, for
registrations inside their window and for exits, one `await` after the other,
between which the hub and the other calls go on, and keeps in `query` what it
has so far. Whom the relay filter accepts is the world's. `since` is a history:
the block of the oldest refresh under way when the call's own began. A relay
that got a signed request holds it (`held`) and may send it at any later time,
whatever it answered.

*RelayRequests.* A request goes through `validate`, the nonce, the paymaster's
reputation, the limits and the view call, is accepted and sent; an update of
the store is two steps, find and write the whole entry. The worker fetches
events, sets the last block scanned, and counts them one after the other. In
between it looks at the manager's `standing`: with too small a balance it
returns before the scan, and when it is not registered, or an update fails,
after it, and what is left of the batch is `lost`. `stale` records that some
write undid another.

*RelayManager.* `log` is the manager's events on chain and its length the time.
The worker reads events since its last scan, refreshes owner, stake and
authorisation, handles due ones, and sends `setOwner`, `addWorker`, `register`,
funding and withdrawal transactions through `outbox`. `settling` says whether
the store holds what is mined already, which is confirmed at some later scan;
`RemoveTxsUntilNonce` then takes the first of the outbox with it (Findings 2),
which from there on is `Forgotten`. A batch of events is the set of their
positions, taken smallest first. `Possible` is what the contracts let happen:
stake appears where there was none or it was withdrawn, and only a staked and
authorised manager is registered.

*TransactionManager.* A send takes the mutex, polls the nonce, stores, releases
and broadcasts, each a step. The worker removes what is confirmed, then boosts.
The calls are numbered in the order they take the mutex, which is first in
first out. `early` records the nonces that left the store before they were
confirmed (see Findings).

*Penalizer.* An audit validates, looks for the mined transaction of that nonce
page by page through the cache, and commits; interval handlers, which may
overlap, read the due commitments and the block, and reveal.

*RelaySetup.* Every command is a process. A transaction is sent in one step, is
`pending`, and is mined in a later one; every answer ends a step; and a command
may die between any two, its transaction then still being mined. The histories
`overlap` and `undisturbed` say whether some registration read the stake while
another's was on its way, and which save of the six files no other overlapped.
`GetVersion` has the opt-in version the code has, which no caller passes. A
query is a sequence of pages asked one by one, each of which the node may
refuse and the code then splits.

## 3. The runs

| Run | Question | Properties |
|---|---|---|
| `voter` | do the books agree while users, operators, batches and governance interleave? | `BooksBalance` `RewardsMirrorVotes` `ExitOpen` `OneChoicePerEpoch` |
| `rewards` | do lazy checkpoints pay what a ledger settling every epoch would? | `SharesAddUp` `Solvent` `ReturnsPrior` `ImplementsLedger` |
| `staking` | do balances, totals and fee claims follow the locks? | `BalanceIsLockPower` `HistoryAddsUp` `VeSupplyIsTotal` `PaidExactly` `Solvent` `ClaimedWeeksFinal` |
| `same_block` | a block on a week bound (Findings 1) | `VeSupplyIsTotal` |
| `relay_client` | is every call called back, and not run twice? | `NeverTheSameRelayTwice` `ExtraRunsNeedLostAnswers` `NoRelayersMeansNone` `EveryCallCalledBack` |
| `relay_requests` | do reputation and terms hold with overlapping requests and worker? | `ThrottledApart` `AbuseShutsOut` `LoneRequestKeepsTerms` `EventsAreCounted` |
| `relay_manager` | does a staked relay become ready, a withdrawn one return its funds? | `ReadyMeansRegistered` `OneRegistrationPending` `StakedBecomesReady` `FundsReturned` |
| `relay_txs` | is a nonce one action and nothing forgotten, with restarts and reorganisations? | `OneActionPerNonce` `PendingIsStored` `StoredIsMined` `SendsEnd` |
| `tx_lost` | what leaves the store? (Findings 2) | `RemovesOnlyConfirmed` |
| `audits` | are repeated nonces found and commitments revealed? | `FirstSearchFinds` `LoneHandlerLosesNothing` `RevealedOnceDue` `CommitsAreRevealed` |
| `penalize_mined` | what is penalized? (Findings 3) | `OnlyPenalizable` |
| `setup` | do commands side by side, dying and rerun, leave a whole system? | `EveryEventRead` `ReadIsASnapshot` `RerunsStakeOnce` `FilesAreOneDeployment` `StatusSound` `CommandsEnd` |

Each property is stated, with the code it is about, in the comment above its
definition, and has a mutant in `PROJECT.json` that breaks it under the same
configuration. `TypeOK` of a module is kept beside its properties; the runs
list what is worth their time. Several runs play *scenarios* side by side: the
initial state picks one, a constant of the behaviour, and the next-state
relation offers what that scenario is about. A scenario restricts inputs, never
what an action does.

### Bounds, and why they are enough

* *Voter.* Two users, so that one's transaction falls between two of another
  and in one batch; two pools, to split a ballot, list a pool twice, move
  weight. Balances 0, 3, 5 with weights 1, 2 give exact shares, rounded shares
  and shares of zero. With a week of 7 and an hour of 2, the block times 10,
  13, 16, 17 are an epoch's middle and last hour, the last second of the next
  distribution window, and right after it. The second scenario starts from the
  constructor and lets governance act between one user's votes.
* *Rewards.* With weeks of 4, the blocks 4, 8, 9, 17 start two epochs, give
  the second another block, and leave one epoch without any. A divisor of 2
  makes a fee of 1 a half, and 3 more than the whole. The search runs on every
  increasing list of up to seven times and every timestamp: three levels.
* *Staking.* Weeks of 2, MAXTIME 7, no whole number of weeks, as two years are
  not; amounts of 7 give slope 1, and two deposits 2. Locks end one or two
  bounds away. Blocks leave weeks without a call. `LOOPS`, `TOKEN_LOOPS` and
  `SUPPLY_LOOPS` exceed the longest gap, as 255 and 20 weeks are meant to;
  `CLAIM_LOOPS` is 3, so claims run out of turns and resume. Positive amounts
  only, and no block on a bound, except in `same_block`.
* *Client.* One call among two relays, at the same or different addresses,
  with a preferred relay or one listed twice; one call among two relays of which
  the filter refuses the first; two calls of one client at one relay that left
  and came back. Slices of two, one auditor. The hub logs one more event or
  moves a window on by one (three times in the world with the filter): enough
  for a race, for a second slice, for a relay that leaves, registers or falls
  out of a window while it is looked up or selected.
* *Requests.* Two requests: for a paymaster without an entry; for one whose
  balance pays one call; for one that loses reputation and is judged while a
  ping comes in; for one whose first event is counted meanwhile; and one request of a
  manager that loses its registration or its balance between two events. Reputation
  starts at 2 of 4 and throttles below 3, an abuse is a loss within one block's
  window, and one worker may fail.
* *Manager.* New, registered, and withdrawn while the server was down; two
  owner actions, and one trouble anywhere: a forced registration, a failed call
  or a restart (`MaxTrouble`).
* *Transactions.* Three sends, two prices, two faults of any kind: enough for
  a boost between a crash and a reorganisation, and for a nonce to be taken
  anew. `tx_lost` needs no fault.
* *Audits.* Pages of two transactions, listings of one and three (so that a
  search turns a page and meets a full one), two audits and two handlers,
  commitments due one block later, one failure, one restart.
* *Set-up.* Fourteen scenarios of one to four commands: readers and writers of
  the registry in pages of one or two, two deployments with different contracts
  given, servers that find their hub in options, environment or file, three
  registrations of one relay, `gsn start`, and the statistics over a stake's
  whole life. A node answers with one event at most and lags one block, so
  every query is split; one command dies, possibly with a stake on
  its way, or is refused.

Configurations say `CHECK_DEADLOCK FALSE` where clocks, blocks, sends and
commands are bounded, so that a behaviour ends when all is done.

### Fairness

Contracts have no scheduler: nothing has to happen, and their models assume no
fairness; what must not fail is stated as what is possible in every state
(`ExitOpen`). The services have timers and an event loop:

* *Client*: a call whose `await` has an answer goes on, and an HTTP request
  ends, by an answer or its timeout. Relays and miners owe nothing.
* *Requests, manager*: the interval handler keeps starting the worker and its
  calls end, well or not. `relay_manager` adds that transactions are mined and
  a removal block passes.
* *Transactions*: some call of `sendTransaction` goes on while one can; the
  worker runs; what pays the going price is mined and gets its confirmations.
  Boosting needs strong fairness, as a transaction is late only while the
  worker looks at the right moment, again and again.
* *Audits*: the timer fires, handlers go on, blocks come.
* *Set-up*: a command goes on as long as it can. Writers and stakers are other
  commands, which may die.

Where a liveness property has an exception (a call to the zero address keeps
the mutex, an address listed twice stalls the race, a restart loses the
schedule, a lost owner address), the exception is what the code does, is in
the property's comment, and is listed under Findings or hazards.

## 4. What is proved

`UnitSumProofs` has the lemmas on `Total` that others cite: it is a natural
number, zero for the zero function, at least each term, monotone, linear, and
changes by the change of its terms; and shares that are each rounded down add
up to no more than what is shared (`PartsBelowWhole`). `Total` is a cardinality,
so they follow from the library's facts on finite sets; where a fact is about
every number (`TotalTimes`), the smallest number it fails for is refuted.

**`VoterProofs!BooksAgree`, `ExitAlwaysOpen`**: for any finite sets of users
and pools, any balances, weights, block times and limits that satisfy
`VoterAssumption`, `BooksBalance` and `ExitOpen` hold. Neither is inductive: the totals
are right because `_reset` removes exactly a user's votes, it does because
`poolVote` lists exactly the pools with votes (`PoolVoteExact`), and the
withdrawals succeed because the reward contracts mirror the votes
(`RewardsMirrorVotes`). The conjunction is. The argument has three layers:
`Recast` with sound ballots keeps the books, the allocation a successful
`_vote` computes is sound, and each handler passes such an allocation or none.

**`TransactionManagerProofs!NonceMeansOneAction`, `SentIsStored`**: for any
number of sends, prices and faults that satisfy `TransactionAssumption`. What
was sent says too little: a transaction may wait to be broadcast, be in the
store since before a crash, or be in the hands of the worker that sends it
again. Each such transaction is a *claim* on its nonce; `Inv` says that a nonce
outside `early` has one claimed action, that what is claimed and not confirmed
is stored, and that a transaction about to be stored has a nonce that is not
confirmed. Almost every action makes no new claim (`FewerClaims`,
`NoNewClaim`); boosting and the worker's update store an old one again
(`ClaimStoredAgain`); a new one needs a nonce that is not stored, so nobody can
have claimed it (`PutTxKeepsInv`); and what leaves the store is confirmed or
early (`ScanConfirmedKeepsInv`). The theorems rest on the model's one timing
assumption (`Confirm`): confirmationsNeeded blocks do not pass between
`pollNonce` and the write of the transaction.

**`VoterProofs!RewardsAlwaysMirror`, `OneChoiceOnly`**: two more consequences of
that invariant. The first is one of its conjuncts. The second is an action
property and needs the types alone: refreshes keep the ballots, and the
handlers that replace one ask for `NewEpoch`, which the time of a vote in the
running epoch denies (`VotedIsNotNew`).

**`VotingRewardProofs!SearchCorrect`**: for every strictly increasing list
and every timestamp the search is well typed and returns the index
`IsPriorIndex` describes. The invariant adds `Bracketed`: the entry at the
lower bound is not after the timestamp, the one above the upper bound is.
**`ListsInOrder`** supplies what it assumes: every list the contract ever writes
is strictly increasing.

**`VotingRewardProofs!SharesAlwaysAddUp`**: for any users, amounts and moments
within `RewardAssumption`, the shares of every epoch add up to its
supply. The claim looks back at lists that are searched, and rewritten in place
while an epoch runs. The invariant says, of each list, that no entry is later
than now, that for every epoch the search has one last entry to find, or none,
and that the answer for any epoch not yet over is the running balance. A write answers for the running epoch and those to come
and leaves every closed answer alone (`WriteKeepsClosed`), so closed epochs keep
the sum they had when time passed over them.

**`VotingRewardProofs!AlwaysSolvent`**: what the contract holds covers every claim
still open. `Solvent` counts closed epochs only; the invariant `Covered` also
counts what the running epoch has gathered, and so survives the passing of
time. When an epoch ends, its shares add up to its supply, so the parts, each
rounded down, fit into its rewards (`PartsBelowWhole`); a claim takes exactly
what it leaves open (`EarnedIsDue`).

**`VotingRewardProofs!LedgerImplemented`**: under the mapping of section 2 every
step of the contract is a step of `RewardLedger` or leaves it as it is. Stakes
map to balances, and the end of an epoch, which the contract does not notice,
to the ledger's settlement; the lists' answers for that epoch are by then final,
which is `SharesAlwaysAddUp`'s invariant again.

**`RelayManagerProofs!RegistersOnce`**: for any initial log and any number of
owner actions, forced registrations, failed calls and restarts, at most one
registration that the store knows of is under way. The worker decides from its
store, several remote calls after it asked. So the invariant says that the store
knows whatever is not mined, except the first of the outbox where
`removeTxsUntilNonce` took it; that of the others at most one is a registration;
and that a worker that has decided to force one still knows of none when it
sends it. A second registration is possible only after the first was forgotten,
which is then the next to be mined: two are under way at most. An earlier version
knew nothing of that removal and claimed one.

**`RelayManagerProofs!ReadyIsRegistered`**: for any logs that are `Possible`, any
owner actions, failures and restarts, a ready server was registered, staked and
authorised at a position since its last scan, unless the stake was withdrawn
since or the accounts are empty. The server's beliefs come from reads at
different times: the hub's authorisation from events of a batch, the stake from
the chain as it is when an event is handled. The invariant `Trusted` says of
each belief that it is true of the log up to a position h the worker has dealt
with, or came true later, or that an event which corrects it is still to come,
or that the stake was withdrawn. Handling an event moves h forward
(`HandleEventTrusted`); a failure moves it back to the last scan
(`BackToScan`); at the end of a batch the beliefs meet in one position
(`ConfirmedSound`): authorised at its end with a stake that came later is only
possible if the stake had been withdrawn before, as `Possible` has it. An earlier
version of `ReadyMeansRegistered` excepted only a stake that was not there at
the moment; the proof did not go through, and TLC with more owner actions than
two found why: stake withdrawn and added again between a read of the events and
the refresh. The property was restated.

**`RelayClientProofs!EachRelayOnce`**: for any lists with repeated addresses and
any races, a call asks no relay twice. The invariant `Fresh` says that whatever
may still be tried, in either list, in a running race or as its winner, is
disjoint from what was tried. It holds because the winner of a race is taken
off both lists, by address, before it is used.

**`PenalizerProofs!RevealsWait`, `AloneLosesNothing`, `FirstSearchComplete`**: for
any listings in which the worker's transactions are numbered in the order they
were mined (`NumberedAssumption`), any page size, audits, handlers, failures and
restarts. `Timely`: what a handler has in hand is due at the block it read,
however handlers overlap. `Lonely`: while they do not, what is in hand is on the
schedule, in its order, and each splice removes the item it is about; it is
sent once, as nothing is scheduled twice. `Searches` follows a first search page
by page: the pages behind it hold no transaction of that nonce, and the
cache has only what those pages had.

**`RelayClientProofs!ExtraRunsCost`**: for any calls, relays, registrations and
addresses, a call runs at most once more than the client lost an answer.
Executions alone do not carry the argument, as a relay may send a request long
after the client gave up on it. `Budget` counts the requests still held and the
receipts together against the lost answers, and grants one more to the attempt
whose answer was taken.

**`RelayClientProofs!NobodyMissed`**: for any finite sets of calls and managers,
any events of the hub, any filter and windows. When a call on an initialized
client fails with "no registered relayers", every standing registration is of a
manager the filter refuses, lies before a window, or is later than the oldest
refresh that was under way. The invariant is about every refresh, not only the
call's own, as the last to end replaces the list the others wait for. `Sound`
says what a refresh has read so far: nobody is missing who was active in the
window up to the block it asked at, whatever is logged while it waits. `Timely`
says that no refresh under way is older than a call still waiting for its list,
and `Informed` that at the selection whoever is `Owed` a place and registered by
then is `Listed`. The windows only move on, so fewer are owed as time passes.
The dependencies are not replaced meanwhile (`Quiet`), and that they exist for
every call is counting: whoever has not initialized may do so once. What a
refresh keeps of the log is each manager's last event (`AnswerFinds`). Two
earlier versions of the property were false. One excepted only calls that
initialize the client themselves; the attempt to prove it found three calls,
one more than the run has, of which two initialize at once and the second
replaces the dependencies before the third selects. The other had neither filter
nor windows, and read the hub in one step.

**`FeeDistributorProofs!BalancesFollowLocks`**: for any users, amounts, moments and
silences a balance is the power of the user's lock. `UserLines` says more: the
user's last point lies on the line along which that power falls.

**`FeeDistributorProofs!HistoryHolds`**: for any past moment the balances that the
users' histories give add up to what the total's history gives. That the total is right
today says nothing of a past read from points written since, so `SumInv` says
of every past moment that it is *explained*: there is one assignment of locks to
users such that the total's history gives the sum of their powers at that
moment and each user's history gives its term. It need not be the locks there
were then: where several changed in one block, it is those the histories kept.
Beside it `SumInv` has what makes the next moments explained: the last point is
on the sum of the locks there are, and the slope changes after it are those of
their ends (`Foreseen`). The escrow's loops are functions of the turn;
`StepByStep` and `StopsInOrder` read them turn by turn (`WalkPoints`), and
`SwapSums` says what replacing one lock does to each sum. A new point
takes away no explanation, as it is not before the moments explained.

Two hypotheses are the code's own limits, and both are among the hazards. No
silence outlasts the loops (`Attended`; the comment at VotingEscrow.vy:294 hopes
that none does in five years, and none does in the run). And no lock is made
of nothing (`a > 0` for the amounts): `create_lock` has its check commented out
(VotingEscrow.vy:437), and such a lock may be replaced while it runs.

**`FeeDistributorProofs!WeeksAreFinal`**: no call changes what is recorded for a
week that both checkpoints have passed. It needs the types (`DistInv`): cursors
are week bounds and no cursor is past the history it walks, through every turn
of `_claim`'s loop (`TurnOfClaim`), which decides where the checkpoints start.

**`FeeDistributorProofs!SuppliesAreTotals`**: a supply recorded for a week is the
sum of the users' balances at its start. The checkpoint reads the line from the
last point before the week, without the slope changes, so the line must not
bend on the way (`Straight`), which points at every bound ensure. A recorded supply is explained, by
an assignment of locks, as a past moment is; once that moment is past, no user's history
changes there (`UserStays`). The hypothesis that no block has the timestamp of a week
bound is needed: finding 1 is what happens in such a block.

**`FeeDistributorProofs!ClaimsPayExactly`**: a user has been paid its share of every
week before its cursor, once, with no hypothesis beyond the constants' types: not
on silences, week bounds or amounts. `GoodClaims` are the states of `_claim`'s loop in
which what is added up are the shares of the weeks passed and the point reached
is not later than the week; every turn leads from one to one (`TurnKeepsGood`),
so it does not matter where the loop runs out. Between claims, `CursorsInv` has what keeps
the sum right: a cursor is not past the tokens' checkpoint, so tokens and power
of a passed week are final (`PassedStay`), and a week passed before its
supply was recorded is one in which the user had no power.

**`FeeDistributorProofs!DistributorSolvent`**: what all users may still claim is
covered by what is accounted for, and this by the balance, until `kill_me`. Not
inductive as it stands: a week's tokens are shared out when it closes. The
invariant is about the other side of the book (`CoveredInv`): the tokens
recorded for all weeks are no more than what is accounted for plus what was
paid, as a checkpoint gives the spans of an amount to weeks that lie apart
(`SpreadBelow`, from `UnitSumProofs!SpansBelow`). Then what users were paid, by
`PaidInv`, and what they may still claim are shares of weeks with a supply
(`UserCovered`), those of a week are parts of one whole (`WeekCovered`, from
`VeSupplyIsTotal`), and the sum by users is the sum by weeks (`RowsBelow`).
So it holds under the hypotheses of `SuppliesAreTotals`.

Only model-checked: the request cache, the registries and the set-up. Liveness
under fairness is out of the prover's reach (every call called back, events
counted, commitments revealed, funds returned), and so is what rests on
`SelectSeq`, which the prover has no definition of
(`RelayRequests!ChangeInAbuseWindow`), or on recursion over a query's pages
(`LogQueries`).

## 5. Findings

1. `FeeDistributor.vy:213` records a week's supply at the first call on or
   after its first second. A lock made later in that block has power at the
   bound and is missing in the total; with no other lock its owner's claims
   divide by zero (`same_block`).
2. `TransactionManager.ts:258` removes the first transaction that is not
   confirmed together with the confirmed ones: `removeTxsUntilNonce` includes
   its argument (`tx_lost`). What left the store early is never boosted, and
   the properties of `relay_txs` except it by name. In `RelayManager` this has a
   consequence: once `addWorker` is confirmed, a `register` not yet mined leaves
   the store, `isActionPending` no longer sees it, and a second one is sent.
3. `PenalizerService.ts:184` asks `validationResult.valid` where the comment at
   lines 157 and 158 wants to know whether the pair is penalizable: a relay
   that mined the same transaction at another price is scheduled to be
   penalized (`penalize_mined`).

Known disagreements without a run of their own, found while modelling:

* `Voter.sol:256`: a refresh reverts when a share rounds to zero, so the vote
  of an expired lock keeps its weight until its owner resets; compare
  `test/Voter.t.sol:102`.
* `VotingEscrow.vy:438` lets `create_lock` replace a running lock that holds no
  tokens. With an earlier end no branch of `_checkpoint` schedules the slope's
  end, and the total falls below the sum of the balances.
* `VotingReward.sol:329` emits `DaoFeeChange` with the new fee first, where
  `IVotingReward.sol:14` declares the old one first.
* `RelaySelectionManager.ts:142` counts failed pings by address: two entries of
  one address never end the race, and the call is never called back (the
  exception `NoTwins` of `EveryCallCalledBack`).
* `RelayClient.ts:183` lets two calls initialize the client at once, and the second
  replaces the dependencies under calls that begin in between: they fail with
  "no registered relayers" (line 201) though there are some (the exception `raced`
  in `NoRelayersMeansNone`).
* `RelayClient.ts:200-201` says "no registered relayers" also when relays are
  registered but refused by the filter (`KnownRelaysManager.ts:115`) or outside
  the lookup windows (lines 83 and 119).
* `RelayServer.ts:628-634`: `lastScannedBlock` has passed a batch when the
  server finds that it is not registered and returns; the batch's events never
  reach the reputations (`lost` in `EventsAreCounted`).
* `CommandsLogic.ts:275-281`: a registration that dies with its stake broadcast
  and is run again before that is mined reads the old stake at line 213 and
  stakes a second time (`overlap` in `RerunsStakeOnce`).
* `TransactionManager.ts:124` throws for a zero destination with the mutex
  held (the exception in `SendsEnd`).
* `RegistrationManager.ts:446`: after a withdrawal and a restart the owner's
  address is not known, and the balances stay (the exception in
  `FundsReturned`).
* `PenalizerService.ts:226`: an overlapping handler's `indexOf` may be -1, and
  `splice` then removes the last penalization of another.
* `ReputationManager.ts:18` says an abusive paymaster is blocked for
  `abuseBlacklistDurationBlocks`, which no code reads; line 73 keeps the flag
  for `abuseTimeWindowBlocks`.
* `StatisticsManager.ts:351` works out the hubs a manager authorized from events
  that `eventsComparator` (`Utils.ts:218`) puts latest first, so a hub that was
  authorized and then unauthorized is shown as authorized, in a column
  `GSNStatistics.ts:99` calls `authorizedHubs`.
* The commands `gsn registry` and `gsn paymaster-fund` use a `CommandsLogic`
  that was not initialised with `init()`. `saveDeployment` writes six files
  one after the other; a reader may meet a mixture, and saves that overlap
  leave one (`undisturbed` in `FilesAreOneDeployment`).

## 6. What is not modelled

* Gas, token arithmetic near 2^256 and 2^127, tokens that misbehave.
* Block numbers and the views by block of the escrow, `changeController`;
  `recover_balance` of the distributor moves other tokens only.
* The Voter's bribe token list, DAO-fee settings and claim entry points, which
  forward to the reward contracts; pool identifiers; the roles of the access
  manager; the forwarder and what `msg.sender` is behind it.
* Of the provider: accounts, estimates, ephemeral keys and asynchronous
  approval data. Of the interactor: encodings and gas arithmetic. Of the
  command line: `send-request`, the presentation of statistics, options.
* The GSN's own contracts, paymaster utilities, HTTP wiring, gas price
  fetchers, configuration parsing, declarations and hashes: no state of their
  own, or only what the services' modules keep of it as `external`.
* Tests, deployment scripts, front-end and vendored libraries.

The silences longer than 255 weeks (escrow) and 20 weeks (distributor), after
which the loops stop short, are listed as hazards without a property: the
source's own comments acknowledge them.
