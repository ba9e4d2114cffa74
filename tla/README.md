# A TLA+ model of klingnet

This directory holds a formal model of the klingnet node (`src/`): TLA+
modules translated from its Go code, TLC configurations that check them on
small instances, and proofs checked by TLAPS. `PROJECT.json` maps every
definition to the lines it models, lists the runs, the mutants, the hazards,
the findings and the theorems.

## 1. The system

A klingnet node keeps one root chain (proof of authority) and any number of
sub-chains (proof of authority or of work) that are registered by burning coins
on the root chain. One process holds all of it over one BadgerDB.

| Part | State | Operations | Hard part |
|---|---|---|---|
| `internal/chain` | blocks, height and transaction indexes, undo records, tip, reorg checkpoint; in memory: tip, height, supply, cumulative difficulty, registration count | `ProcessBlock`, `Reorg`, `rebuildReorg`, `RebuildUTXOs`, `RebuildIndexes`, `New`, `InitFromGenesis` | a reorg is many writes; the process may die between any two; undo data may be missing; a replay may fail half-way |
| `internal/utxo` | outputs, address and stake indexes | `Put`, `Delete`, `Get`, `ClearAll`, `GetAllStakedValidators` | indexes must follow the outputs |
| `internal/consensus` | validator set, signer, suspension bookkeeping; heartbeat tracker; PoW difficulty | `VerifyHeader`, `Prepare`, `Seal`, `AddValidator`, `RemoveValidator`, `RecordBlockProduction`, `IsSuspended`, `ResetSuspensions` | called by the chain's handlers, the gossip handler, the sync loop and the miner at once |
| `internal/mempool` | transactions, spend index | `Add`, `Remove`, `RemoveConfirmed`, `SelectForBlock`, `Evict` | validated against a UTXO set that moves on |
| `internal/miner` | - | `produceBlock` | reads the chain several times without its mutex |
| `internal/node` | sync flag, sub-chain miners and heartbeats | start-up, gossip handlers, `runStartupSync`, `resolveFork`, `runMiner`, sub-chain spawn and stop | goroutines over shared engines, chains and pools |
| `internal/subchain` | registry (memory and DB), running instances | `HandleRegistration`, `HandleDeregistration`, `RestoreChains`, `Spawn` | driven by a reorg in the middle of its loops |
| `internal/p2p` | connections, bans, scores, peer records | gossip, handshake, sync and height streams, `RecordOffense` | callbacks of libp2p, expiry, persistence |
| `internal/storage` | key-value pairs | `Put`, `Delete`, batches, prefixes | only a batch is atomic |
| `internal/token`, `pkg/tx`, `pkg/block` | - | validation of transactions and blocks | arithmetic, boundary cases |
| `internal/wallet`, `internal/rpc` | keystore files, wallet transaction index | building transactions from UTXOs, JSON-RPC | concurrent requests over one UTXO set |
| `cmd/*` | - | daemon, command line, desktop program | pure I/O |

Calls go one way: gossip, sync, miner and RPC call `ProcessBlock` and
`pool.Add`; `ProcessBlock` holds the chain's mutex and calls the UTXO store, the
block store and the engine, and, still under the mutex, the handlers the node
installed: registration and deregistration (sub-chain manager), stake and
unstake (validator set), reverted transactions (mempool), reorg (suspensions).
Readers (`Height`, `TipHash`, `Supply`, `State`) do not take the mutex.

## 2. The modules

| Module | What it is |
|---|---|
| `BlockTree` | data of the chain: blocks as a tree, transactions as sets of outpoints, and the reference ledger of each block; the assumptions about them |
| `PoW` | the difficulty rule of the proof-of-work engine |
| `Chain` | the chain of one node: every phase of `ProcessBlock`, `Reorg`, `rebuildReorg`, crash, `New`, `RebuildUTXOs`, start-up |
| `Ledger` | the abstract promise: a tip and its UTXO set change together and the tip only gains work |
| `ChainProperties` | the properties of `Chain`, the refinement to `Ledger`, the statements of the repository the code does not meet |
| `MCChain` | the block trees TLC works on |
| `ChainProofs` | the proofs about `Chain`: types, the ledger, the database, the undo records; registry, validator set, transaction index, recovery, fork choice, completion of reorgs, the refinement of `Ledger`; the bounds of `PoW` |
| `PoA` | the rules of the PoA engine: slots, difficulty, signing limit, suspension, backup delay |
| `Production` | the network of miners that follow these rules |
| `ProductionProofs` | the proofs about `Production` |
| `Sync` | the nodes of the root chain: production and gossip, `Start`, the sync loop, `runStartupSync`, `resolveFork` |
| `MCSync`, `SyncProofs` | the trees TLC works on, and the proofs about `Sync` |
| `SubChains` | the sub-chains of one node: registry, spawn, stop, restore, and the goroutines of each instance |
| `SubChainsProofs` | the proofs about `SubChains` |
| `Pool` | one node's mempool, the assembly of its blocks, and the chain as both see it |
| `MCPool`, `PoolProofs` | the transactions TLC works on, and the proofs about `Pool` |
| `TxRules` | what makes a transaction valid: values, fees, tokens |
| `Wallet` | the keystore file and the wallet's RPC handlers, from the choice of coins to the rewriting of the file |
| `MCWallet`, `WalletProofs` | the coins and requests TLC works on, and the proofs about `Wallet` |
| `History` | the index of a wallet's transactions, under growth, reorg and crash |
| `MCHistory`, `HistoryProofs` | the transactions and branches TLC works on, and the proofs about `History` |
| `Peers` | connections, bans, scores and remembered peers of one node |
| `MCPeers`, `PeersProofs` | the instance TLC works on, and the proofs about `Peers` |

### BlockTree and Chain

A block is addressed by the hash of its bytes, so everything it says is a
constant function of it (`Parent`, `Height`, `Difficulty`, `Timestamp`,
`Signer`, `TxsOf`, `Minted`). An output is an outpoint with a kind (payment,
stake, registration) and an owner; the UTXO set is a set of entries (outpoint,
height, coinbase flag, lock). Signatures, scripts, token rules, fees and
structural checks are one set `RuleOK`: the blocks that break none of them. They
depend on the block and on the outputs it spends only, so one set says all that
the chain can observe. What depends on the state of the node (membership and
stake of the signer, slot difficulty, signing limit, retargeting, maturity,
locks, mint bound, registration bound, timestamps) is modelled.

`UtxoAt`, `SupplyAt`, `WorkAt` are the reference: what the ledger has to be when
a block is the tip, computed from the block's own path. Two assumptions say what
the rest of the code gives: `IdAssumption`, that different transactions create
different outputs and a coinbase belongs to one height (`BuildCoinbase` hashes
it, `miner.go:171`; genesis has a builder of its own), and `RuleAssumption`, that
no valid transaction spends a registration (`utxo_validate.go:60`), that genesis
spends nothing and makes plain payments (`genesis.go`), and that the database the
node is opened on was written by such a node. That an outpoint is created at most
once on a path follows from them (`OneLife`, section 5).

`pc` is the point the call under the mutex has reached; the loops of a reorg take
one step per block, and `Crash` may come before every step. `CommitBlock` is one
batch, but most other steps are several writes, each a key of its own, and the
process may die among them. Three of these deaths leave something that a later
start reads, and the model has them:

- among the UTXO writes of the fast path: `Crash` keeps any prefix of the block's
  transactions;
- among the index writes of `rebuildReorg` (`reorg.go:465`): `CrashWhileIndexing`
  keeps the old branch's handlers and any prefix of the new branch's blocks;
- among `SetTip`'s three keys, `SetCumulativeDifficulty` and the deletion of the
  checkpoint at the end of `rebuildReorg` (`reorg.go:578-588`, `store.go:113-127`):
  `CrashWhileFinishing` keeps any non-empty prefix, with the checkpoint.

The others leave nothing that is read before it is written again, or only what no
property speaks of: a block half reverted, replayed, rebuilt or recovered lies under the
checkpoint, so `RebuildUTXOs` clears the UTXO set before it reads any of it and writes
the undo records again. `FinishRecovery` writes the tip and the height it read and
deletes the checkpoint last, so a partial one is recovered again, from the same
tip. `--rebuild-indexes` writes what an intact index already says; on a damaged one
a partial run repairs a part of it. The transactions of a block half
indexed or half reverted, and handlers half told, concern the transaction index and the
registry, whose properties exclude a crash at those points; the validators in memory
are read from the UTXO set by the next start.

| Code | Actions |
|---|---|
| `ProcessBlock`, fast path | `Accept`, `Apply`, `Commit`, `Notify` |
| `ProcessBlock`, fork path; `collectBranch` | `StoreFork`, `KeepCurrent`, `StartReorg` |
| `Reorg` | `RevertBlock`, `ReplayBlock`, `ReplayFails`, `FinishReorg` |
| `rebuildReorg` | `StartRebuild`, `RebuildBlock`, `RebuildFails`, `FinishRebuild`; its torn writes: `CrashWhileIndexing`, `CrashWhileFinishing` |
| process death, `New`, `RebuildUTXOs`, node start-up, `--rebuild-indexes` | `Crash`, `Restart`, `RecoverBlock`, `FinishRecovery`, `Boot` |

`StartTip` is the tip of the database the node is opened on. Its blocks have no
undo record, as in a database written before undo records existed; with
`StartTip = Genesis` it is what `InitFromGenesis` leaves. A start above genesis
is how `rebuildReorg` is reached (`MCChainWork`).

`broken` is a history variable: it collects the accidents the code does not
survive (a crash between the UTXO writes and `CommitBlock`, a failed
replay, ...). No guard reads it. A property says which accidents it excludes; a
run or an observation of section 6 shows what an accident does.

### PoA and Production

`PoA` holds the rules of `poa.go` as operators over a validator set, the
recorded heights `last` and the engine's height `cur`. A validator is the number
its key is, so that its index in the sorted list is the number of smaller ones;
unsigned subtraction is modulo `Word`.

`Production` is the network of miners. A state is the time in half block times,
the set of processes that run, each validator's age (blocks on top of its last
one, which gives both the suspension state and the signing limit), what is left
of its backup delay, and whether the height moved on meanwhile. `Instant` lets
half a block time pass and takes every loop of `runMiner` that is due through one
round: the idle ones at a slot boundary (`Woken`, `Backups`), those whose delay
is over (`Tries`), the chain's refusal of those at the signing limit and the
fork choice (`Heaviest`). `Stop` and `Start` are a process that ends and one that
starts; `Settle` is the moment all trackers agree about a validator's
heartbeats, before which each evaluation of `IsOnline` may go either way.

Assumed of the network: a block made at one instant reaches all nodes within half
a block time (`poa.go:382` counts on 1-2 s of 1.5), and of the blocks of one instant
all nodes keep the same heaviest one. What a slower network does is fork choice,
which `Chain` models. The chain is older than the suspension window, and every
node's suspension state is that of the chain.

### Sync

`Sync` is the root chain's network: what every node has stored, its tip, whether
it is off, inside `Start` or running, and where its run of `runStartupSync` is
(`sync`: the candidates, the tips they named, the one asked next, the height asked
next, the height aimed at). The chain of a node is reduced to what `Chain`
shows it to be: a store and a tip that `ProcessBlock` changes in one step, with
the fork choice of the PoA chain (`Adopts`).

| Code | Actions |
|---|---|
| `runMiner`; block handler | `Produce`, `Receive` |
| `Start`, `Stop`, `runSyncLoop` | `Start`, `Stop`, `SyncTick` |
| `runStartupSync` | `Query`, `Compare`, `FetchBlock`, `FetchFails` |
| `resolveFork` | `SearchBlock`, `SearchFails`, `DownloadBlock`, `DownloadFails` |

A batch of up to 500 blocks is requested block by block here. A node that answers
a batch reads its height index once per block without a lock (`node.go:351`), and
the receiver processes the batch block by block while gossip and its miner go
on, so each block is a step anyway; asking anew for each only adds behaviours. A
request that times out is one to a peer that stops and starts again. Not in the
module: the bound of eight peers asked, batches with gaps (which only a faulty
peer sends), blocks that fail validation, suspensions.

### Pool: mempool and block assembly

`Pool.tla` models one node's `mempool.Pool` together with the goroutines that
use it. `pool` and `spends` are the two maps of the pool. `Submit` and
`FinishAdd` are the two halves of `Add`: it reads the height for the maturity
check and the UTXO set for the validation, both while a block may be half
applied. `Remove` is `RemoveConfirmed` (and the eviction of `runMiner`),
`GiveBack` the reverted-transaction handler. `Process`, `Revert`, `Replay`,
`SetHash`, `SetHeight` and `Return` are `ProcessBlock` and `Reorg` as the pool
and the producer can see them: the database (`view`) first, then the fields of
`Chain.state` one by one, all without a lock for readers. `Select` to
`ReadHeight` are the reads of `produceBlock` in their order, `Produce` hands the
block over. A block hash is the path it commits to, so a block that was
assembled from two different tips is what it is in the code: a block on the
tip it names, with transactions of another.

`Engine` tells the PoA loops, which evict after `ErrCoinbaseNotMature`, from
the PoW loop of a sub-chain (`runSubChainMiner`) and external PoW miners, which
do not. What a failed replay leaves behind is the subject of `Chain`; here the
chain takes no more blocks.

### Wallet: the keystore and the wallet handlers

`Wallet.tla` models the wallet RPC of a node (`wallet_handlers.go`), coin
selection, fee estimation and the keystore file. `file` is the file: readable
with its list of accounts and its two index counters, torn, or absent. `coins`
are the wallet's unspent outputs on every chain the node follows, `history` the
addresses that occur in blocks, `txs` what was broadcast and `pool` what this
node still holds. `req[r]` is the local state of the handler that runs in slot
`r`. `Open` lists the accounts and collects the coins, `Build` reads the change
index and builds the transaction, `Add` is `pool.Add` with the broadcast, `Track`
and `IncrementIndex` the two rewrites of the keystore. One definition per
handler (`WalletSend` ... `SubChainUnstake`) names its guards; what the handlers
differ in are `Outputs`, `Due`, `Base`, `TokenInputs`, `Merged` and `Exact`.
`NewAddress`, `Import` and `Rescan` with `Scan`, `Register` and `SetIndex` are
the handlers that derive addresses.

`TxRules.tla` has the rules of `pkg/tx` and `internal/token` that `pool.Add`
applies: the structure of a transaction, its inputs against the UTXO set, the
conservation of each token, the identity of a token that is minted. The limits on
the numbers of inputs and outputs and the burning of tokens, which no handler
does, are left out, and a signature is good if the key is the wallet's.

Values are `uint64`: sums in the handlers are taken modulo `Word`, sums in
`ValidateWithUTXOs` are checked. Sizes count 2 for an input and a plain output
and more for outputs with longer data, which keeps the relations the handlers
depend on (a stake output is longer than the estimate, but by less than the
change output the estimate includes; a token or registration output by more).
Key derivation, passwords and encryption are left out, and so are coins that
are immature or locked, which the handlers skip.

### SubChains

`SubChains` is the life of sub-chains on one node. `registry`, `chains` and
`scMiners` are the maps of the manager and the node, `stored` the keys under
`r/`, `disk` the prefix of each sub-chain as the heights of its blocks and the
height under `s/`. `inst` holds every `SpawnResult` that something still refers
to: the manager's map or a goroutine. An instance that left the map lives on in
its goroutines and writes to the same prefix as its successor; that is what the
module is about. `task` is the point the root chain's handler has reached: it
runs under the root chain's mutex, so there is one, and the goroutines run
between its steps.

| Code | Actions |
|---|---|
| `HandleRegistration`, `Spawn`, `handleSubChainSpawn` | `HandleRegistration` up to `SaveTo`, `SpawnChain`, `SpawnFails` |
| `HandleDeregistration`, `handleSubChainStop`, `DeleteAll` | `HandleDeregistration` (the stop handler), `CollectKeys`, `DeleteBlocks`, `DeleteTip`, `ForgetChain` |
| `Start` up to `close(initialSyncDone)` | `RootSynced` |
| the starter of `handleSubChainSpawn`, `runSubChainSync`, `resolveSubChainFork` | `StarterSyncs`, `StarterApplies`, `StarterEnds`, `StarterStrays` |
| `runSubChainMiner`, `runSubChainPoAMiner` | `MinerWorks`, `MinerApplies`, `MinerFails`, `MinerExits` |
| gossip handler, `GetChain` by RPC | `Serve`, `ServeApplies`, `ServeEnds` |
| process death, `Stop`, `RestoreChains` | `Crash`, `Start` |

`spoiled` is a history variable that no guard reads: the sub-chains that ended
while one of their goroutines was alive, or with data that no instance would
delete, or between the two deletions of a crash. `TipsAgree`, `NothingLeft`,
`RegistryAgrees` and `MinerComesUp` say nothing of them: section 6
says what becomes of such a sub-chain. `OneMiner` holds of
them, too.

Steps that are one here and several in the code: `Spawn`, which writes a genesis
state in one batch after its outputs; a start with all its spawns, before
anything else runs; the application of a block, which is the subject of `Chain`.
Of the keys of a prefix the blocks (`b/`) come before the tip (`s/`), so
`DeleteAll` ends with the tip. Bounds: `MaxInstances` (a registration waits for a
free identity), `MaxHeight`, `Growing` (for which sub-chains there are blocks at
all). Not in the module: forks of a sub-chain, its heartbeats (the map `scHBs`
follows the same protocol as `scMiners` and writes nothing), its pool.

### Peers: connections and bans

`Peers.tla` models `internal/p2p` apart from the topics: `bans`, `scores` and
`banStore` are the ban manager's two maps and its records on disk, `peers` is the
table that `PeerCount` counts, `saved` the remembered peers. `conns`, `attempt`
and `events` stand for libp2p: the connections of a peer, the one being set up
(the gater is asked at `Dial` and at `Secure`, the connection exists from `Open`
on) and the `Disconnected` callbacks under way. Every goroutine has its own
place: `deleting` for a caller of `IsBanned` or `Unban` between its decision and
its deletions, `closing` for `DisconnectPeer`, `handshakes` for `doHandshake`,
`inbox` for the two read loops, `seedTodo` with `dialing` for the seed loop.

`RunPruneLoop` is in the source but nothing starts it, so it is not in the model:
an expired ban goes when somebody asks about the peer, or at the next start.
Per peer there is one attempt at a time, and two `Disconnected` callbacks that
overlap count as one. Penalties keep their relation to the threshold: two
invalid blocks, or one failed handshake. `Source` of a peer, its addresses and
the identity key are left out.

### History: the index behind wallet_getHistory

`History.tla` models `WalletTxIndex` and `getHistoryIndexed`. `index` are the
entries, keyed by height and position, `meta` the record of the last indexed
height and the count; `q[c]` is the local state of a client's query: `ReadTip`,
`ReadMeta`, then `DeleteAbove` (`Collect`, `DeleteEntry`, `RolledBack`) when the
height is below the record's, then `IndexBlocks` (`Open`, `ReadBlock`,
`PutEntry`, `Indexed`), then `List`. Every `Get`, `Put` and `Delete` is a step of
its own. `Classify` is `classifyTx` over transactions as sets of inputs and
sequences of outputs; `Cases` lists the arms of its switch in order. The chain
is what a query sees of it: the height index, the height in memory and the
transaction index, which a reorg (`Reorg`, `Replay`) changes at different times
and which it leaves untouched above a lower tip. Names of tokens and senders,
paging and the fallback without an index (the node always installs one with the
keystore, `node.go:481`) are left out. The wallet's addresses are fixed: each is
listed before a block pays it.

## 3. Properties and runs

| Run | Configuration | Expect | What it shows | Properties |
|---|---|---|---|---|
| `forks` | `MCChainForks.cfg` | pass | Every order in which a node can be offered the nine blocks of a three-branch PoA tree with a stake, an unstake, two registrations of one sub-chain slot and transactions shared between branches: ledger, indexes, undo log, validator set and registry follow the tip, every call returns, the node settles on a heaviest chain, and the chain implements Ledger. | `TypeOK`, `LedgerMatchesTip`, `ActiveBlocksCanBeUndone`, `TxIndexMatchesChain`, `ValidatorsMatchStakes`, `RegistryMatchesChain`, `NothingBreaks`, `ImplementsLedger`, `SettlesOnHeaviest` |
| `crash` | `MCChainCrash.cfg` | pass | The process dies at any point of the fast path, a reorg, recovery or start-up, any number of times: what a restart finds and rebuilds. | `DatabaseMatchesMemory`, `ValidatorsMatchStakes`, `StepsOfLedger` |
| `work` | `MCChainWork.cfg` | pass | Proof of work on a database with a block written without an undo record, a difficulty that is adjusted at two heights, a heavier and lower branch, blocks that only a replay finds invalid, and crashes anywhere, among the index writes and the tip writes of rebuildReorg too: switches by the undo log and by rebuildReorg, failed ones included, and the recovery after each; the fork choice leaves no more work behind and never flips on equal work. | `HeaviestConsidered`, `TipGainsWork`, `RecoveryRestoresLedger` |
| `torn_apply` | `V_TornApply.cfg` | violation | Without any fork: a crash between the UTXO writes and CommitBlock leaves a UTXO set that is not the one of the tip the node resumes on. | `RestartResumesTip` |
| `production_three` | `MCProd3.cfg` | pass | Three validators, any of which may stop and start at any time: production goes on under a majority, the rotation resumes, and the rules of suspension and signing limit fit together. | `SomeoneMaySign`, `ActiveRemain`, `ChainGrows`, `RotationResumes` |
| `two_validators_stall` | `V_Stall.cfg` | violation | Two validators, one of them down: the other signs one block and is refused from then on. | `NeverStalls` |
| `sync` | `MCSync.cfg` | pass | Three nodes on a tree with a tie and a reorg, one of which stops and starts at any time, with no gossip guaranteed: every interleaving of production, gossip and the single requests of runStartupSync and resolveFork. | `ServesItsChain`, `Converges`, `OnlyTiesHoldSync` |
| `pool` | `MCPool.cfg` | pass | Four transactions (a conflict, a dependent one, an early spend of a coinbase) in a pool of two beside blocks from other nodes, reorgs and the producer's unlocked reads: the index stays right, confirmed payments leave, nothing else is lost without forks, and production goes on. | `SpendsAgree`, `ConfirmedLeaves`, `GrowsUnlessStale`, `UnforkedSurvive` |
| `wallet` | `MCWallet.cfg` | pass | Every payment handler of the RPC server on two chains, two requests at a time, with new addresses, deposits, rescans, a crash in the middle of a step or of a rewrite of the keystore, deletion and import: accepted payments burn exactly their fee under 64-bit sums, change stays listed, index gaps stay small, and a rescan finds what a crash left unlisted. | `PaysExactly`, `ChangeTracked`, `GapsBounded`, `RescanRecovers` |
| `subchains` | `MCSubChains.cfg` | pass | Two sub-chains, one of them mined here, with and without P2P and with a sync filter that may change at a restart: registrations and reorgs that take them back, spawn, stop and deletion, starters, miners and handlers that outlive their sub-chain, and the end of the process at any point. | `OneMiner`, `TipsAgree`, `NothingLeft`, `RegistryAgrees`, `MinerComesUp` |
| `peers` | `MCPeers.cfg` | pass | A seed and another peer, either of which may relay something invalid or speak for another chain, with dials from both sides, drops, a day passing and a restart: a ban that is lifted leaves no record behind but one about to be deleted, a banned peer that is not connected stays out while the ban holds, and seeds are dialled again and again while peers are missing. | `ForgottenIsDeleted`, `BannedStayOut`, `SeedsRetried` |
| `history` | `MCHistory.cfg` | pass | The wallet's history index under growth, a reorg to any branch and a crash at any point of a query: what it lists of blocks that stay is complete, without duplicates, and adds up to the balance. | `StableHistory`, `HistoryExplainsBalance` |

For `Production`: `SuspensionWindow` is 200 in the code and 4 or 5 here; it
matters only that it is at least the number of validators, or a rotation would
suspend its own members. `Cycle` is the least common multiple of the sizes a slot
is reduced by. Fairness is that of the clock: `Instant` is always
enabled and `WF_t(Tick)` makes time pass. Of heartbeats nothing is assumed beyond
what a property's premise says. Deadlock is checked: time can always pass.

For `Sync`: the fork of `MidRows` has a tie at height one and two different works
at height two, so that a node meets every branch of `Compare`, a fork found by a
missing parent, a fork found by equal heights, and a tie that a new block ends.
Fairness: `WF(Start(n))`, a process that ended is started again; `WF(SyncTick(n))`,
the ticker of `runSyncLoop`; `WF(SyncStep(n))`, a sync is a goroutine whose
requests time out. Production and gossip are under no fairness: convergence does
not depend on them. The properties' premise `AllStay` says that restarts end
some day. Deadlock is checked: the ticker always fires again.

**pool.** `b` conflicts with `a` and pays more, `c` spends an output of `a`, `d`
spends the coinbase of another node's block before it is mature. Height 2, one
foreign block and any number of own ones, a pool and a block of two
transactions are enough for a lost race, a reorg with returned transactions,
an eviction by fee and one by maturity, and a torn read of the tip. `Word = 16`
keeps the subtraction of heights modular. The model ends at `MaxHeight`, hence
no deadlock check. Waiting for a mutex is strongly fair, as Go's mutexes are;
the rest is weakly fair, and arrivals are not fair at all.

**wallet.** Coins of 40 and 17 and a token on the root chain, 30 on a sub-chain,
and a request of every handler, with amounts that fit one coin, leave no room
for the exact fee, or add up to more than `Word = 256`. Two requests at a time,
one of which may be a rescan or an import, two payments or one payment and a crash or a
deletion. Recipients are not followed.

For `SubChains`: one sub-chain is mined and grows, the other only takes a place in
the registry and can be left out by the filter, so that a failed restore leaves
out a sub-chain other than the one that failed. Two instances are enough for an
old one beside its successor; one block beyond genesis is enough for a writer to
be seen. Fairness: `WF(StarterMoves(i))`, the goroutine of `handleSubChainSpawn`:
every request of a sync has a timeout. That the root chain's first sync ends is
not assumed (section 6 says when it may not): `MinerComesUp` speaks of the
time after it. Deadlock is checked: a process that ended can start.

**peers.** The seed and one other peer, both `Faulty` and both `Strangers`. What
the rest of the world does (a message, a dial, a drop, a day, a stop) is bounded
by `MaxMoves = 2`; the node's own steps and failing attempts are not.

**history.** Eleven transactions of every kind the wallet makes or receives, in
eight blocks of up to three; height 3, one reorg from any height to any branch,
higher or lower, one crash. One client at a time: with two, a rollback that
read its height before the other indexed can delete what the other's record
then counts. A transaction is read and classified in one step. The model ends
at `MaxHeight`, hence no deadlock check.

Deadlock is not checked in the runs of `Chain`, `Pool` and `History`: the supply of
blocks is finite there, and a node that has processed all of them waits.

### Bounds

The PoA tree has three branches of different work and height over nine blocks:
a branch that is left and returned to (M, N), one that forks at genesis (P), a
stake withdrawn on one branch and standing on another, a transaction mined on
three branches, a registration on two branches for one slot
(`MaxSubChains = 1`), a coinbase spent exactly at maturity, supply exactly at
the cap. Every order of arrival is explored, with duplicates refused by the code
itself. Two and three validators differ in slot and signing limit. The crash
runs use the left part of the tree, where every phase of a reorg with two
reverts and two replays occurs, with any number of crashes. The proof-of-work
tree has a branch point above and one below the block without an undo record, so
both kinds of reorg occur in every order, each with a branch whose last block
fails its replay. Its difficulty is adjusted at heights 2 and 4: one branch is
lower and heavier because its first block came fast, and one claims at height 4
twice what is due, which a fork block may until a replay verifies it
(`reorg.go` calls `verifyDifficulty`, the fork path of `ProcessBlock` does not). `MaxReorgDepth` is the height of the tree. A larger tree repeats these cases: the proofs of
section 5 cover every tree.

### Fairness

In `Chain`, `FairSpecAlive` lets a called `ProcessBlock` run to its end (the phases are
straight-line code under a mutex: `WF(Running)`) and keeps offering every block
(`WF(Process(b))`: gossip re-offers and the sync loop asks for blocks every
ten seconds, `node.go:646`). The process does not die in it, as liveness under
endless crashes is not promised. What the other modules assume is said with their
runs above: time that passes (`Production`), goroutines whose requests time out
(`Sync`, `SubChains`, `Peers`), a mutex that everyone who waits for it gets
(`Pool`). `Wallet` and `History` have safety properties only. No specification but
that of `Chain` assumes that a message, a block or a request arrives.

## 4. Mutants

A definition `Op_Something` above `Op` is `Op` with a plausible programming
error. For each property of each passing run `PROJECT.json` names one such pair;
with the error in place TLC finds the property violated, so no property of these
runs holds by accident of the model.

## 5. Proofs

A theorem about behaviours is of the form `Spec => ...`; all theorems hold for all
values of the constants that meet the named assumptions of the modules, and the
runs evaluate these assumptions on their instances.

**ChainProofs.** The type invariant comes first. It needs more than the
types: which phase allows which relation of `fork`, `pos`, `height` and the
height index (`PhaseOK`), since those bound the recursion over the index.
Existence of the maximum that `ForkHeight` takes is proved from well-foundedness
of strict inclusion on finite sets.

Then the central safety property, for every tree, every order of blocks, any
number of crashes: up to the accidents named in `broken`, the ledger is that of
the tip (`LedgerCorrect`), the database describes the chain in memory
(`DatabaseCorrect`) and every active block can be undone (`UndoCorrect`). None of
the three is inductive: a revert restores the parent's ledger only if the undo
record is exact, an undo record is exact only if it was taken from the parent's
ledger, and the height index tells which blocks these are. `LedgerInv` states for
every phase what the UTXO set, the counters, the index and the undo records are:
`UndoExact` for the active chain throughout, and one conjunct per phase
(`RevertOK`: the ledger is that of the block at `pos`, the index still that of
the old tip; `ReplayOK`: the ledger is that of the new branch at `pos`, the index
is the new one up to `pos` and the old above; `RebuildPhaseOK`, `RecoverOK`: the
same for the two rebuilding loops; `DownOK`: what the database says when no
process runs).

`RevertUndoes` is the lemma that a revert is the inverse of the block. It rests
on `OneLife`: a block creates nothing that is unspent already. That holds because
everything in the ledger of a path was created on it (`CreatedOnce`), a
transaction that spends something cannot be valid twice on a path, since what it
spends is gone the second time, and one that spends nothing belongs to one
height. `Sound`, that every block of the active path passed `Checked`, is part of
the invariant for that reason. Induction over heights cannot cite the library's
theorem; `BoundedInduction` gets it from a least counterexample.

Each further result has an invariant beside `LedgerInv`, with one
equation per phase.
`RegistryInv`: registry and count are those of the UTXO set, except for the
handlers still to be told: `Told` says what a block in phase `notify` spent, and
`CutOff` that a checkpoint found at a restart means handlers were cut off.
`StakesInv`: the same for validators, where a withdrawal on the branch being left
is taken back one block at a time, and a stake made and withdrawn in one block has
to cancel.
`TxIndexInv`: without any accident the index is exactly that of the block each
phase has reached, so a revert may delete and a replay may overwrite the entries
of transactions that branches share.
`RecoverInv`: what the loop of `RebuildUTXOs` has established below height `pos`.
It starts from a cleared UTXO set, so no accident to the UTXO set or the totals matters;
what it needs is that tip, height and height index belong together (`Recoverable`).
`LedgerInv` gives that when no accident happened; after one it is a premise, since a
crash among the writes of `rebuildReorg`, blocks accepted after a failed replay and a fork
off a stale index entry may leave them apart. The registration count needs blocks that
keep the rules.
`WorkInv` and `WorkTelescopes`: a sum of difficulties over a branch is the
difference of the total work at its ends, hence `BranchWork` against `OldWork`
compares the work of the two tips, wherever they meet. `WorkGained` and
`ForkChoiceCorrect` follow.
`EveryStepShown` and `RefinesLedger`: `ShownOK` says what the refinement mapping
shows in each phase, and `ShownStep` that each action changes it as a step of
`Ledger` or not at all. The refinement is stated for runs without an accident,
since after one the code does leave `Ledger` (section 6).
`ReorgsComplete` is about `SpecAlive`, proof of authority and a database made from
genesis: while every stored block is valid on its own branch (`ValidOnBranch`: the rules a
replay applies, judged by the ledger of the parent; it holds in every state of `forks`),
nothing breaks. Its invariant says that the
state a replay judges a block by is the parent's, that each block of the path has its undo
record, and that the index has no entry above the tip. The last is why proof of work is
excluded: a switch to a lower, heavier branch leaves such entries (section 6).

`RetargetBounded` bounds one adjustment of the difficulty for every difficulty,
interval and time measured: a product is cancelled against the quotient it bounds.

`ProductionProofs` proves the four safety properties of `Production` for every
number of validators, every window at least as large and every word size. The
inductive invariant is `TypeOK`, `Waiting` (only running processes wait) and
`SignersRotate`, which says that ages are distinct below the cap and that the
youngest `SigningLimit` ages are taken; `SomeoneMaySign` follows by counting
(`FS_Injection`), `ActiveRemain` by computing the word subtraction
(`WindowIsAge`). `RankBounds` and `RankInjective` make the positions of the sorted
keys a bijection, from which every slot has a validator. The liveness properties
are model-checked only.

`SyncProofs` proves the two safety properties of `Sync` for every block tree and
every finite set of nodes. The inductive invariant adds to the types that every
phase has a candidate to ask and a height above genesis to search below
(`PhaseOK`), and that what a node has stored is closed under ancestors (`Closed`),
which `ServesItsChain` is the part of that a peer can see. One lemma says that
storing a block whose parent is stored keeps this (`ProcessKeepsClosed`), one that
a step that leaves a good state of the sync keeps the rest (`SyncChange`); each
action follows from the two.

**PoolProofs.** `SpendsAgree` is not inductive: between the halves of `Add` the
screened transaction is in neither map. `AddHolds` adds that it still conflicts
with nothing, because `Add` keeps the pool's lock. `UnlinkAgrees` is the lemma
about `removeLocked`, used for eviction and for removal.

The other two results are about the pool and the chain together, so their
invariant follows the blocks. `TypeInv` makes hashes a tree: a block is the
sequence of what it commits to, every stored block's beginning is stored
(`Closed`), and how far a running call has come says which of database, tip and
height already agree (`Applied`). `LeavingInv` adds that the caller whose block is
being processed has nothing left to remove (`Turns`), and that without a stored fork
everything stored is a beginning of `view`, a confirmed transaction in the pool is
about to leave it, and what a handler has still to remove was confirmed or belongs
to a refused own block (`Unforked`).

The proof of `UnforkedSurvive` failed at first, and rightly: the property asked
for an immature spend at the moment of the eviction, but a foreign block may
arrive between the refusal of an own block and the eviction of its transactions
(`node.go:1195-1199`), after which the output is mature. One foreign block
was too few for TLC to show it; with two it does. The property now asks for an
immature spend in the refused block.

**WalletProofs.** `TrackInv`, for `ChangeTracked`: an output in a transaction that a
handler has built goes to somebody else, to account 0, or to the change address
of the very index the handler will list (`Prepared`), and everything broadcast or
confirmed is listed or about to be (`AllListed`); `GenesisAssumption` is that a
wallet starts with one account. `RescanInv`, for `RescanRecovers`: `Scans` says that
until the rescan ends each address on which it saw money is in the file or still to
be registered; `Unbroken`, that this is so as long as no mishap has befallen the
file since the rescan read it. Neither depends on the number of slots or requests.

`PayInv`, for `PaysExactly`: coins carry money that adds up (`Money`), and a
transaction that a handler has built is one that `pool.Add` refuses or that burns what
it should (`Sound`): a sum that wrapped round gives outputs that exceed the inputs or
a fee that is too low. The sums over sets of coins are taken apart one coin at a time by
well-foundedness of strict inclusion. Two hypotheses: `PlainTokens`, as a token
coin that also carries native value loses it as fee in `handleWalletSendToken`
(`wallet_handlers.go:1695-1706`), and `FeesFit`, that the fee of a transaction over all
coins fits a word; both hold in every state of the run.

`GapInv`, for `GapsBounded`, counts: the indexes of a bare stretch below the counter and
the slots that will still raise the counter without listing an index in the stretch are
together fewer than the slots (`Short`), and no index in use has as many bare ones
below it (`Bridged`). It needs `TrackInv`, and `PayInv` for the handler that finds its
change exactly zero at first: it never reads the change index and would list index 0 when
it selects again (`wallet_handlers.go:1184-1223`), but its fee, computed without
that output, makes the pool refuse the transaction.

`SubChainsProofs` proves the five safety properties of `SubChains` for any number
of sub-chains and instances and any height. They follow from one inductive
invariant: `TypeOK`; a process that is down has no instance and no handler under
way (`DownIsEmpty`); an entry in the map of miners is an instance whose miner was
not told to stop, and every such miner is entered (`MapHasMiners`, from which
`OneMiner` follows); and, for every sub-chain that is not spoiled, what registry,
map, prefix and instances are at each step of the handler (`CleanOnesSound`).
Neither of the properties is inductive: what a restart finds in a prefix depends
on which deletion the handler had reached. `GoroutineSteps` reduces the eleven
actions of goroutines to one shape, a step of one instance, so that each part of
the invariant is shown for it once.

**Peers (`PeersProofs`).** `PeersTypes` is inductive by itself; its steps are
three lemmas, one per kind of state. `ForgottenBans` follows from the types
because every step either leaves the ban maps alone and only adds deletions
(`BanFrame`), or is one of six (`BanActions`), each of which keeps it.
`BannedAreShutOut` rests on the order of the gater's question and the new
connection: only `Open` adds one, only `Secure` leads there, and `Secure` asks.
No assumption beyond the penalties and the threshold being positive.

**HistoryProofs.** `HistoryInv`, for `StableHistory`. `stable` is the lowest height a
reorg has forked from. `Current` says of a height a query has read that it is not
below the record, nor below an entry, unless a reorg has forked off below it: so
`DeleteAbove` deletes nothing that stays. `Recorded` says that a record with a count
is of an index that has everything up to its height that stays (`Full`), and
`Asks` what each step of a query has established of that, so a crash between any
two writes loses nothing but work. The theorems are about one client: of two
queries at once one can delete what the other's record counts, as
`getHistoryIndexed` holds no lock (section 6).

`ExplainsBalanceAlways` adds `Ledger`, that the blocks a query can meet spend what
was created and nothing twice, also while a reorg replays, and `AllTold`, that an
entry of a block that stays says what `classifyTx` says with every input at hand.
`EffectOf` goes through the arms of the switch: an entry's amount and fee are what
the transaction gives to the wallet (`Gain`) less what it takes (`Loss`). A sum of
these over the transactions of an answer is the sum over the coins that are left
(`LedgerSum`, `BalanceIs`). The folds of the community modules are `CHOOSE`n
functions; `SumsExist` and `SumsAdd` show that they exist and that the order
makes no difference, by `SubsetInduction`. `Ordinary` is the hypothesis about the
transactions: the inputs name the coins they spend, tokens carry no value, and a
transaction of the wallet spends coins of the wallet only and pays others, or
stakes, or registers, or makes or moves a token. `MCHistory` evaluates it on the
transactions of the run; a transaction of another program, which mixes these or
spends coins of two wallets, is classified by its first matching arm and need not
add up.

**Only model-checked.** Liveness under fairness is out of the prover's reach:
`SettlesOnHeaviest`, `GrowsUnlessStale`, `ChainGrows`, `RotationResumes`,
`Converges`, `OnlyTiesHoldSync`, `MinerComesUp` and `SeedsRetried`. Every invariant
and every other action property of the runs is stated by a theorem, and what a
theorem assumes beyond the specification is said in its statement.

## 6. Where code and documentation disagree

- `torn_apply` / `RestartResumesTip` (`src/internal/chain/processor.go:161`): applyBlockWithUndo writes the UTXO set one transaction at a time before CommitBlock writes the tip in one batch, and no checkpoint is set on the fast path; a process that dies in between restarts on the old tip with the new block's UTXO writes in place. README.md:180 says "If the DB has existing blocks, it resumes from the last tip (no re-init)" and processor.go:172-173 says the batch "Prevents index corruption on crash".
- `two_validators_stall` / `NeverStalls` (`src/internal/chain/processor.go:602`): README.md:428 says "if the in-turn validator is offline, backups produce after a staggered delay proportional to their distance from the in-turn slot ... Chain never stalls". With two validators the signing limit is 2 (poa.go:343), so when one is offline the other signs one block and checkSigningLimit refuses every further one: the run shows the chain stopped while a validator is up. The same holds whenever at most half of the validators are up.

More observations, made while modelling, that no run states:

- `reorg.go:465`, `578`: `reorg.go:158` says "Write reorg checkpoint so we can recover if
  the node crashes mid-reorg". After a death among the index writes of `rebuildReorg` the
  persisted tip is the old one and the index holds blocks of the new branch; after one
  between the first two keys of `SetTip` the tip is new and the height old. Either
  way `RebuildUTXOs` replays the index up to that height and, when those blocks apply,
  deletes the checkpoint and reports success with a UTXO set that is not the tip's (`CrashWhileIndexing`,
  `CrashWhileFinishing` and then `Restart` ... `FinishRecovery`). This is why
  `RecoveryRestoresLedger` has the premise `Recoverable`; the other properties exclude
  the accident `"rebuild"`.
- `processor.go:189`: the registration handler runs after `CommitBlock`. If the
  process dies in between, the block is never processed again and the registry
  never learns of the sub-chain, where `README.md:484` says that all registered
  sub-chains are re-spawned on a restart. In `Chain` this is the accident
  `"handlers"`, which `RegistryMatchesChain` excludes.
- `processor.go:112`, `README.md:426`: a PoA block lower than the tip never reaches
  `Reorg`, so a lower branch of in-turn blocks with more cumulative difficulty
  stays stored and unused until a block raises it.
- `reorg.go:408`: `collectBranch` asks the height index for the parent's height
  without bounding it by the tip, and `CommitBlock` does not delete the entries
  that a switch to a shorter proof-of-work branch leaves above the tip. A block of
  the left branch can then be taken to fork off above the tip, where
  `reorg.go:381-382` speaks of the common ancestor with the main chain. In `Chain`
  this is the accident `"stale"`.
- `node.go:1806-1816`: when a request fails and another peer is left, the loop of
  `resolveSubChainFork` goes on with `continue`, which lowers the height, too. At
  height zero the unsigned height wraps, no request succeeds any more and the loop
  does not end. In `SubChains` this is `StarterStrays`.
- `reorg.go:498`: `rebuildReorg` bounds the mint of a replayed block by
  `Chain.state.Supply`, which still holds the supply of the branch being left, so a
  block that mints past the cap on its own branch is accepted and only the counter
  is capped.
- `pow.go:290`: "The result is clamped to [oldDiff/4, oldDiff*4]". The least span is
  the expected one divided by four and rounded down, so where that does not divide the
  result can exceed four times the old difficulty (expected 11, old 10, measured 1:
  55). `RetargetBounded` proves a factor of seven for every expected time.
- `processor.go:90`: `ProcessBlock` rejects only a timestamp below the parent's,
  where `README.md:430` asks for a strictly larger one.
- `reorg.go:453`: `rebuildReorg` fires the unstake handlers while the old stakes are
  still in the UTXO set, and no handler at all for a stake that the rebuilding
  restores, so until the next restart the validator set is not that of the new chain,
  where `reorg.go:426` says "slower than undo-based reorg but always correct".
- `node.go:539`, `530`, `728-740`: nodes that all start on a fork of equal work and
  height see different tips at one height, resolve in favour of their own, and ask again
  for ever inside `Start`; `node_test.go:224` expects the initial sync to be over
  after it, for a node without peers.
- `node.go:1552`, `1595`, `1924`, `1960`, `manager.go:219-220`: the goroutine that
  starts a sub-chain's miner does not notice that the sub-chain was deregistered
  meanwhile. It mines the old instance, and a sub-chain registered again under the
  same identity gets no miner.

Mempool and block assembly:

- `node.go:283`, `processor.go:37`, `122`: the handlers drop the transactions of
  every block that `ProcessBlock` accepts, one that is only stored as a fork
  included: a payment in it leaves the pool and is in no block of the chain.
  A reorg gives back what the old branch had (`reorg.go:353`), but if it comes
  between the end of `ProcessBlock` and the handler's `RemoveConfirmed`, the handler
  drops what was just given back.
- `node.go:2091-2172`: the proof-of-work loop of a sub-chain does not evict after
  `ErrCoinbaseNotMature`, as the PoA loops do; a transaction that is not mature is
  selected again in every round, and no block is made until it is. Where a loop
  evicts, it evicts all transactions of the refused block.
- `miner.go:89`: tip and height are two reads. During a reorg an own block can
  carry the height of another tip; `miner.go:171` says that the height makes the
  coinbase unique, which two such blocks do not meet. A stale own block can start
  a reorg whose replay fails.
- `rpc/handlers.go:857`: the block template takes the configured reward, without the
  halving that `miner.go:165` and the chain apply.

Wallet and history:

- `wallet_handlers.go:331`: the gap limit of an import looks at unspent outputs
  only, so an account behind a run of spent addresses is not found, where 315
  promises "their full balance".
- `wallet_handlers.go:429`: the index of the next address starts at 0 and
  `handleWalletNewAddress` takes 1 instead, then advances the index to 1, so its
  second call returns the address of the first, where `README.md:235` says "Derive next external address"
  and `wallet_service.go:244` "a new unused receiving address".
- `wallet_handlers.go:1134`, `1140`: two concurrent stake requests both find no stake
  and both lock one.
- A payment is refused with "fee too low" when choosing coins again adds a change
  output. A rescan of a sub-chain lowers the indexes that the root chain's outputs
  need. `klingnet-cli/main.go:1530` rewrites the keystore a running node uses.
- `wallet_handlers.go:2462`: a reorg is said to roll back the entries above the
  tip. A reorg to the same or a greater height rolls back nothing, so entries of
  replaced blocks stay and the new blocks' transactions are never listed; the same
  holds of a query that overlaps a reorg. `DeleteAbove` leaves the record of the
  last height when there is no entry to delete. Two queries at once can lose
  entries. An address that is listed after a block was indexed never gets that
  block's entries. `ClearWallet` has no caller, so a wallet created again under
  an old name inherits its entries. `wallet_index.go:38` shares the prefix `x/` with
  the block store's transaction index (`store.go:17`), which its comment says
  it avoids.

Peers:

- `p2p/node.go:503`, `377`, `515`: a peer whose connection ended before the loop adds it
  to the table stays in it; `PeerCount` is then positive on an isolated node, and the
  loops that dial only when it is low stay idle.
- `handshake.go:75-84`: an honest peer whose connection drops before the handshake
  stream opens is banned for a day as one that speaks no handshake.
- `banmanager.go:68`, `130`: a ban made while a connection is between
  `InterceptSecured` and the table disconnects nobody; `IsBanned` and
  `PruneExpired` decide under the lock and delete after it, which can delete a fresh
  ban. `RunPruneLoop` has no caller.
- `p2p/node.go:103`, `556`: "Seed peers are exempt from banning" holds of the
  handshake only: blocks and transactions ban a seed, and the table of seeds is filled
  after the loops start. Every error of `pool.Add`, a full pool included, costs the relaying
  peer twenty points.

## 7. Not modelled, and the plan

Not modelled, and why:

- one node's suspension records (`poa.go:502`, `node.go:1046`, `poa.go:264`), written
  by gossip, the sync loop, the reorg handler and the miner at once:
  `reconstructSuspensions` resets them, reads the height and scans block by block
  while `RecordBlockProduction` goes on, the subtraction of a height above the
  current one wraps, and a new validator's grace record is lost by a
  reconstruction. `Production` has the records the chain defines;
- `resolveSubChainFork`, of which `SubChains` has only that it may stray;
- the address and stake indexes of the UTXO store, which are written key by key
  beside the outputs, and the UTXO commitment;
- the arithmetic of the subsidy: a constant of a block in `BlockTree`;
- anchors, and the parsing of registrations;
- scripts, signatures, encodings, key derivation, encryption: pure functions
  without a state, abstracted to `RuleOK` or to the identity of a value;
- formatting, flags, logging, the HTTP client and the programs under `cmd/`: pure
  I/O around the handlers.

Planned, in order:

1. `Suspensions` - the records above, against those the chain defines.
2. `resolveSubChainFork`, beside `Sync`; then the reference of `StarterStrays`.
3. `UtxoStore` - the outputs with their indexes, under crash.
4. `Subsidy` - the halving with machine-width arithmetic, against a reference.

Further proofs: `NothingBreaks` with proof of work, up to the accident `"stale"`; the
answers of two clients at once, for the index that a lock around
`getHistoryIndexed` would give.
