# Verification of the Hacash full node and its mining pool

TLA+ models of the parts of this repository where several threads, processes
or machines meet and where a mistake costs a chain or money: the chain engine,
the memory transaction pool, diamond bidding, the synchronisation of a node with
its peers, and the mining pool from a share to its payout. TLC checks
them on small instances; TLAPS proves the theorems listed below for every value
of the constants. Paths are relative to `src/`.

## 1. Inventory

| Component | State | Operations | Meets | What makes it correct |
|---|---|---|---|---|
| Chain engine (`chain/src`) | fork tree of unstable blocks (`Roller`, `Chunk`), one state overlay per block, state db, block store (status, height index, block data), one insertion job | `open`, `discover`, `synchronize`, `insert_by`, `roll_by`, `exit` | called by the node's handlers and by the bid replay thread; calls the minter's gates and execution | the tree is well formed, every state is the replay of its chain, the store is one chain, what is final stays final, a restart finds what was there, a job always ends |
| Memory transaction pool (`node/src/memtxpool`) | one sorted sequence of packages per group | `insert`, `find`, `drain`, `delete`, `retain`, `first_at` | shared by submit handlers, the block handler and the block builder under one mutex per group | bounded, no duplicates, ordered, evicts the worst |
| Admission and upkeep (`node/src/core/protocol.rs`, `mint/src/check/tx.rs`, `block_build.rs`) | none of its own: it reads the head state and writes the pool | `handle_new_tx`, `tx_submit`, `tx_pool_refresh`, the two cleaners, the builder's drain | pool, engine, minter | what is confirmed leaves the pool, what is not stays |
| Pool settlement (`hbit-pool/src/server.rs`, `lib.rs`) | payout records with signed bytes, owed and paid ledgers, wallet balance at the node | `settle_once`: poll, credit, plan, sign, record, post, verify | the node over HTTP, the state file, crashes | never signs money twice, never reports unburied money as paid, never forgets a debt, never stalls |
| Pool state file (`hbit-pool/src/server.rs`, `lib.rs`) | the ledgers, numbered snapshots, the file and what survives a power cut | `state_shot`, `flush_state`, `atomic_write`, `load_state` | all threads of the pool | what a durable flush promised survives (after a power cut only if the file is whole, section 8) |
| Pool shares and income (`hbit-pool/src/server.rs`) | template, `seen`, `submitted`, `immature`, window | `handle_submission` in four phases, `template_cycle`, `count_immature_fees` | worker connections, node, settlement, state file | no solution credited twice, unburied income not distributed and not held for ever, no block shed |
| Pool accounting (`pool_core.rs`, `lib.rs`) | PPLNS window, banked credit, owed ledger | `record`, `credit`, `restore`, `split_payout`, `take_owed`, `deduct_owed`, `owe_rows` | shares, settlement, restarts, the clock | credit is neither lost nor made, every recorded unit is paid or owed once; that withholding does not pay is claimed by the code and does not hold (section 8) |
| Node protocol (`node/src/core`, `node/src/peer`) | knows tables, `SyncTracker`, peers | announcements, hash walk, block batches, retry | peers, engine | a node behind catches up |
| P2P (`node/src/p2p`) | two peer tables, dial state | accept, dial, ping, eviction | sockets | bounded tables |
| Bidding (`mint/src/check/bidding.rs`) | bid books, arrival times, held branches, replay permissions | `record`, `highest`, `blk_found`, `blk_insert`, replay loop | submit and block handlers, batches, engine | a low bid waits, and does not wait for ever |
| Minter (`mint/src/check`) | difficulty windows | gates of a block | engine | the target follows the chain |
| Stratum front end (`miner-pool/src`) | job table, upstream job | refresh, submit | workers, node | a found block is not discarded |
| Protocol, VM, field, basis, sys, db, server, app, x16rs, panel, sdk, testkit | | | | sequential code, I/O, kernels and user interfaces: see section 9 |

Hard behaviours, each listed with its line under `hazards` in `PROJECT.json`:
the three pipelined threads of a synchronisation with bounded channels; the two
durable writes of `roll_by`; restarts in the middle of anything; reorganisations;
transactions checked against one head and inserted under another; answers of the
node that are lost or late; snapshots that reach the disk out of order; messages
of one connection handled by tasks that overtake each other; a replay thread that
shares the engine with handlers and batches.

## 2. Modules

| Module | Models | Uses |
|---|---|---|
| `ChainEngine` | the chain engine | |
| `Finality` | what the store of the engine promises: a final block and a tip, a chain that only grows below the final block | |
| `MCChainEngine` | the small instance: two contents, two keys | `ChainEngine` |
| `ChainEngineProofs` | every safety property of the engine and the refinement of `Finality`, proved; what of them survives a stop between the writes of `roll_by` | `ChainEngine` |
| `TxOrder` | the operations of one pool group as functions | |
| `TxGroup` | one group under arbitrary operations | `TxOrder` |
| `TxPool` | the path of a transaction: handlers, blocks, refresh, builder | `TxOrder` |
| `MCTxPool` | one normal transaction, one of type 3 and one diamond mint | `TxPool` |
| `TxPoolProofs` | every safety property of a group and of the pool, proved | `TxGroup`, `TxPool` |
| `Settlement` | `settle_once`, its ledgers, the node and the network around it | |
| `MCSettlement` | two miners | `Settlement` |
| `StateFile` | snapshots on their way to the state file | |
| `SettlementProofs` | solvency up to written-off payouts and what it rests on, and the promise of `flush_state`, proved | `Settlement`, `StateFile` |
| `PoolServer`, `MCPoolServer` | submissions, template and confirmation cycle, valuation of the wallet, restarts | |
| `PoolServerProofs` | the five safety properties of the server, proved | `PoolServer` |
| `Pplns`, `MCPplns` | accounting window, its snapshots, split, owed ledger | |
| `PplnsProofs` | all properties of `Pplns`, proved | `Pplns` |
| `NodeSync`, `MCNodeSync` | the handlers by which a node that is behind gets blocks | |
| `NodeSyncProofs` | its two safety properties, proved | `NodeSync` |
| `Bidding`, `MCBidding` | bid book, held branches and their replay | |
| `BiddingProofs` | the fence of bids, proved | `Bidding` |
| `Filter` | `retain` and `filter` of the standard library as a recursive function | used by `ChainEngine`, `TxOrder`, `PoolServer`, `Pplns` |
| `DataLemmas` | induction as sets, `Filter`, sums over sets and sequences, largest remainders | used by the proof modules |

`PROJECT.json` maps each definition to the lines it translates.

### ChainEngine

A block hash commits to its parent, so a block *is* the sequence of contents
from genesis; height is length, ancestor is prefix. Executing a content appends
it to the value of every key it touches, so a value that was applied twice, not
at all, or on another branch is different from `Replay`.

| Code | Model |
|---|---|
| `Roller.root`, `head`, live `Chunk`s with their `MemKV` | `root`, `head`, `mem` |
| `Weak` parents and `old_root_hold` | `Owned`: a chunk lives while the root, or the old root held by an `InsertResult` in the channel, owns it |
| state db, rebuild marker | `disk`, `marker` (also true when there is no state directory) |
| store status, height index, block data | `status`, `index`, `datas` (only what tree or index can name) |
| parse, insert and roll thread with their channels | `feed`, `blkq`, `exec`/`got`, `rids`, `cur` |
| `insert_by` | `ExecBegin`, `ExecRead` (one key at a time, so the roll thread can step in between), `Insert`, `Refuse`, `Reject` |
| `roll_by` | `RollState` (state write), `RollStore` (store batch) |
| `open` and the rebuilds | `Open`, then the same pipeline, then `Finish` |

The verdicts of the minter and of execution are a free choice (`Reject`).
`Crash` stops the process at any step except between the two writes of
`roll_by`; `CrashSpec` adds that window, and is the subject of a finding. A rebuild
on a spoiled state may also fail to execute a stored block and panic
(`init.rs:62-64`): for the two databases that is a stop in the middle of a rebuild,
which `Crash` allows at every step. `Open` loads the root block and panics without it,
whether it rebuilds or not; it is one step, so a stop between the creation of the state
directory and its marker (`engine.rs:52`) is left out.

### TxOrder, TxGroup, TxPool

A package is a hash and the key its group compares; the hash does not cover the
fee, so one transaction comes with several keys. `Scan` and `InsertRng` are
the bisection and the insertion of the code with the threshold `LinearScan`.
`TxGroup` is one group on its own under any operations, `TxPool` all groups under
the threads of the node.
`TxPool` splits a submission where the code lets other threads in: `Receive`
(execution against the head), `TxSubmit` (no bids for a minting block),
`InsertBy`. The steps of `tx_pool_refresh` are `CleanBids`, `Drain` per group
and `CleanNormal`. Only diamonds
and confirmation decide `Executable`; any other failure is a free choice of the
step that executes.

`chain` is what the head confirms, and `stored` what each stored block off the head
confirms on its own branch, with its distance below the head. A block goes on the
head or on a stored block of the head's height and is the next head (`Adopt`: the
second is a reorganisation, and the old head becomes a stored block), or it goes on a
stored block further down and is only stored (`Store`). `HeadBlock` and `SideBlock`
are the two in `handle_new_block`; the refresh they start knows the transactions of
the new block only. `SyncBlock`, a block of a batch, and `ReplayBlock`, the `discover`
of the bid replay thread (`bidding.rs:538`, at any time, as it takes no inserting
lock), do the same with no refresh.

### Settlement, StateFile

`Settlement` follows one cycle statement by statement through `pc`; each HTTP
request is one step with every answer the node can give, including none. The
node is the one of this repository: it inserts and relays a posted transaction before
it answers (`PostAccepted`), or after the pool has given up waiting (`NodeInsert`),
evicts or drains it (`NodeDrop`) and forgets it with a restart (`NodeRestart`). The
comment at `lib.rs:478-487`, that the insert is a background task, is of an older node.
The rest of the network (`PeersForget`, `Mine`, `Reorg`, `Bury`, `Income`) is modelled
from how the pool uses it. A transaction pays one miner: the ledger moves of a chunk are those
of its rows. Fees come out of the reserve and are left out with it; income is
mature when it arrives. `VerifyMissing` writes an accepted payout off whenever the
node does not know it; `written` remembers those, and the properties say what may
go wrong through them and nothing else. `DiskFails` lets snapshots fail; the
passing runs exclude it (section 8 says what happens without).

`StateFile` abstracts the ledgers to the number of money changes they have
seen. A snapshot is taken under the pool lock and written after it, in any
order; a write can fail before the rename or after it; a process death finds
`file`, a power cut any member of `platter`. A durable write leaves its own snapshot
there, a write without fsync adds its own and `Torn`: its name may reach the disk
before its bytes. `load_state` puts a torn file aside and starts empty (`Loaded`), and
`promised` starts over then, as nothing is left to compare with.

### PoolServer, Pplns

A block, and a header that was hashed, is the sequence of what was mined from
genesis on, so two templates on one parent differ in their body only. A
submission reads the template (`Snapshot`), is hashed without the lock, is
refused or committed under it (`Refuse`, `Commit`) and a block goes to the node
afterwards (`SubmitBlock`); every connection has a thread, and identical ones are
interchangeable. `template_cycle` is one step per query (`TplLatest`, `TplIntro`,
`TplHash`) and one for what it does under the lock (`TplApply`). A cycle whose
first queries fail changes nothing and is left out. The valuation is the balance,
the fees of blocks that have none yet, and the hold-back: three steps, in this
order. `Restart` reads back what `Save` wrote; how a snapshot gets to the disk is
`StateFile`'s subject; that the flush before a found block is sent has its result
ignored (`server.rs:3971`) is therefore not in this model. `Snapshot` is a submission of
a worker that can be paid: others are refused before anything is hashed
(`server.rs:3829-3835`), block or not. The node's chain moves as `insert_by` and
`roll_by` move it, except that a node that dies and loses the head it had not stored
does not go back in height here. The rate of a worker is a free refusal; the reserve,
display counters and log summaries are left out.

`Pplns` has the window, the buckets of banked credit, `restore` for the horizon of
the new process, the split and the owed ledger as operators on a ledger record,
and the actions that use them. `saved` is the ledger in the state file: it is taken
every `SaveEvery` shares, may fail to get there, and is what `Restart` reads, with no
more than `BankWorkersMax` rows of a bucket (`FirstRows`). The clock may start anywhere
in a bucket. A chunk of a payout is the row of one worker; those that could not be
signed, and all that follow a record that could not be flushed, are not among the
`recorded` of `Settle`.

### NodeSync

The peers are on one chain and a block of it is its height; the node may start on
a branch. Messages are a bag (each is handled by a task of its own) and are lost
with their connection; a task that has read its message goes on with a peer it
can no longer send to. The tracker is a peer and whether its ten seconds are
over. The engine is kept as far as heights tell, and the check and insertion of
`handle_new_block` are one step, which may be refused for a reason that passes
(`DiscoverFails`: `blk_found`, `blk_arrive`, `discover`) while the hash stays known; a
fault of the budget each time. The head that a failed batch asks from is read
at the insertion. `Reconnect` waits for the tasks of the old connection, since
the tickers dial every few minutes. The `doing_sync` flag decides nothing and is
left out, as is relaying to further peers.

### Bidding

The bidding height is every `Cycle`-th block. A tick of time is longer than
`DELAY_SECS`, a bid is ripe a tick after it was recorded, and each record carries
the arrivals that came when it was ripe: `highest` asks nothing else of time. The
handler of a new block is `ArriveCached` or `Arrive` (its first half, up to the
blocking task) and `Discover`; a batch is `SyncBegin`, `SyncBlock`, `SyncEnd`. The
replay thread is one step per lock it takes: `ReplayTake`, `ReplayNext`,
`ReplayCheck` (the store), `ReplayDiscover` (the engine). The engine is the set
of stored blocks with root and head. `fork_from_parent` is not reachable, because
only branches whose tip matches are looked at, and has no counterpart.

## 3. Runs

| Run | Checks | Bounds and why they suffice |
|---|---|---|
| `chain_engine` | `TypeOK`, `TreeShape`, `TreeViews`, `StoreLinked`, `IdleDurable`, `NeverPanics`, `FinalForever`, `ImplementsFinality`, `JobEnds` | `Level` 2, height 4, 2 contents, channels of 2, fast_sync: the root moves twice within a batch, branches of both depths compete, a reorganisation happens while results are queued, every sender blocks, restarts with and without rebuild |
| `chain_crash_window` (violation) | `CrashReconciles` | `Level` 1, height 3: one root move is enough |
| `tx_group` | `GroupSound`, `Ordered`, `DisplacesTheLowest`, `KeyNeverDrops` | 3 keys, size 3, 6 arrivals, 3 removals: full groups, ties, resubmission at every position |
| `tx_group_bisected` (violation) | `Ordered` | the code's own threshold 10, 12 arrivals |
| `tx_pool` | `TypeOK`, `StalePurged`, `StaleOnlyByRace` | 3 transactions of the three kinds, one handler, the builder, spans 2 and 2, `Depth` 1, 2 stored blocks: rivals of the head, their children, reorganisations there and back, blocks with and without refresh. Blocks hold nothing, the normal transaction, or it and the mint: the one of type 3 waits in the pool, ahead of the normal one or behind it |
| `settlement` | `TypeOK`, `SolventUpToMissing`, `PaidIsBuried`, `ClaimsKept`, `PayoutsResolve` | 2 miners, 2 units, 2 signed transactions, 1 crash: two payouts in flight, or one signed again after the first was owed back or written off, a crash at every step |
| `state_file` | `PromiseOutlives`, `FileCatchesUp` | 5 snapshots, 5 changes: every order of durable and non-durable snapshots in flight |
| `pool_server` | `TypeOK`, `CreditedOncePerRun`, `SentIsHeld`, `HeldUntilBuried`, `BlockNeverShed`, `HoldsReleased` | 2 handlers, heights up to 3, maturity 2, finality 1: reorganisations around a found block, a template swapped between the phases, burial, an orphan that returns, a full `seen` set, a halted height, a restart at every step |
| `node_sync` | `TypeOK`, `NeverAhead`, `CatchesUp` | 2 peers, batches of 2, `Level` 1, heights up to 5; six starts, on each side of every threshold of the handlers, with failing batches and lost connections |
| `node_sync_fork` (violation) | `CatchesUp` | a branch of one block, peers three blocks ahead |
| `pplns` | `LedgerShape`, `BurstErasesNothing`, `RestartKeepsCredit`, `EveryUnitOnce`, `PlanSound` | window 2, 2 workers, horizons of several buckets, clock from 1, inside a bucket of the longer horizon, to 5: evictions, a clock set back, expiry, folding of buckets, a snapshot that lags a share, a partly paid debt, chunks skipped and failed; a bucket has room for both workers, so that the cut of `restore` is in the proof only |
| `bidding` | `LowBidWaits`, `HoldEnds` | 5 blocks on two branches, two minting heights, `Level` 1, two bids, one batch: two roots in a group, a cached child, a child below a fence of its own, a batch that locks the replay out |

`MaxHeight`, `MaxTx`, `MaxLeave`, `MaxIncome`, `MaxCrash`, `MaxSeq` and
`MaxMoney`, `MaxTime`, `MaxTasks`, `Depth`, `MaxStored`, `Bodies` and the members of
`Budgets` and `Starts` are bounds of the models, not of the code. The budgets of a behaviour are chosen
together, so that each mix of faults is explored without their product. Runs
whose inputs are used up may stop and do not check deadlock; their cfg says so.

Every property of a passing run has a mutant in `PROJECT.json`: a plausible
wrong version of one mapped definition under which TLC finds it violated.

## 4. Fairness

* Chain: weak fairness of `Work`, the union of what the three threads and the
  opening do. They are operating system threads without priorities that only
  wait on each other's channels. Nothing is assumed of arrivals or crashes.
* Transaction pool: weak fairness of each handler and of the refresh. Of the
  environment it is assumed that blocks which `handle_new_block` makes the head
  come at the heights that clean, again and again: a node that has caught up is told
  of blocks by its peers for as long as it runs. It is an assumption about the network
  and the miners, not about scheduling: a node that only synchronises, or whose every
  cleaning height comes from the bid replay, does not clean.
* Settlement: weak fairness of the settlement timer; strong fairness of a poll
  that is answered, a post that is taken, of the node's insert, of mining and
  of burial: each may fail any number of times, not for ever.
* Node: weak fairness of every kind of message about a height, of a retry's pause,
  of the task after a disconnect and of the redial ticker. Tokio runs every task
  that is ready. Growth of the peers' chain is not fair, and faults and lost
  connections are finite: with endless ones nothing could be claimed.
* Pool server: weak fairness of the template thread and of each handler, strong
  fairness of an answer to a query that is asked again and again, and a chain that
  grows. Valuations and restarts owe nothing.
* Bidding: weak fairness of time and of the replay thread. The network owes
  nothing, so no property relies on a block arriving again.

## 5. What is proved

Each theorem holds for every value of the constants that satisfies the named
`ASSUME`s of its module and the hypotheses it states. The bounds of section 3 are
constants too, so nothing below depends on them.

| Theorem | Property | Hypothesis |
|---|---|---|
| `ChainEngineProofs!TypeCorrect`, `TreeWellFormed` | `TypeOK`, `TreeShape` | |
| `ChainEngineProofs!ViewsAreReplays` | `TreeViews` | |
| `ChainEngineProofs!StoreStaysLinked`, `IdleStoresAgree` | `StoreLinked`, `IdleDurable` | |
| `ChainEngineProofs!OpensAlways` | `NeverPanics` | |
| `ChainEngineProofs!FinalityHolds`, `RefinesFinality` | `FinalForever`, `ImplementsFinality` | |
| `ChainEngineProofs!CrashKeepsChain`, `CrashKeepsFinality`, `CrashRefinesFinality` | `TreeShape` and `StoreLinked`, `FinalForever`, `ImplementsFinality` when a stop may also fall between the two writes of `roll_by` | of `CrashSpec` |
| `TxPoolProofs!GroupIsSound`, `KeysNeverDrop` | `GroupSound`, `KeyNeverDrops` of `TxGroup` | |
| `TxPoolProofs!StaysOrdered`, `LowestIsDisplaced` | `Ordered`, `DisplacesTheLowest` of `TxGroup` | `GroupMax <= LinearScan` |
| `TxPoolProofs!PoolIsTyped`, `StaleNeedsARace` | `TypeOK`, `StaleOnlyByRace` of `TxPool` | |
| `TxPoolProofs!PoolStaysOrdered`, `PoolKeysNeverDrop` | the order and the keys of every group, under the threads of `TxPool` | order: of the groups with `MaxSize[g] <= LinearScan` |
| `SettlementProofs!TypeCorrect`, `CreditIsBuried` | `TypeOK`, `PaidIsBuried` | |
| `SettlementProofs!ClaimsAreKept` | `ClaimsKept` | `~DiskFails` |
| `SettlementProofs!SolventAlways` | `SolventUpToMissing` | `~DiskFails` |
| `SettlementProofs!PromisesOutlive`, `FileUpToDate` | `PromiseOutlives`, `FileCatchesUp` | |
| `PoolServerProofs!TypeCorrect`, `CreditsAreSingle` | `TypeOK`, `CreditedOncePerRun` | |
| `PoolServerProofs!BlocksAreHeld`, `IncomeIsHeld` | `SentIsHeld`, `HeldUntilBuried` | |
| `PoolServerProofs!BlocksAreNotShed` | `BlockNeverShed` | |
| `PplnsProofs!LedgerStaysInShape`, `UnitsCountOnce`, `PlansAreSound` | `LedgerShape`, `EveryUnitOnce`, `PlanSound` | |
| `PplnsProofs!BurstsEraseNothing` | `BurstErasesNothing` | `Cardinality(Workers) <= BankWorkersMax` |
| `PplnsProofs!RestartsKeepCredit` | `RestartKeepsCredit` | |
| `BiddingProofs!FenceHolds` | `LowBidWaits` | |
| `NodeSyncProofs!NodeSyncIsTyped`, `NothingIsAhead` | `TypeOK`, `NeverAhead` | |

The hypotheses are those under which the runs check the property too, and each is
needed. `GroupMax <= LinearScan`: a bisected group gets out of order (section 7).
`~DiskFails`: section 8 has the counterexample. `Cardinality(Workers)
<= BankWorkersMax`: a full bucket takes no row for a new worker, whose credit is then
dropped (`bank`). `RestartsKeepCredit` has no such hypothesis: that no stored bucket is
too large is part of the property (`Fitting`), as a fold can outgrow the limit.

### Chain engine

`IInv` carries `TypeOK` and `TreeShape`, with three facts that make them inductive.
`ExecFits`: the block being executed still hangs below the tree and its result fits
the channel, since execution and root moves are both steps of the insert thread.
`RollReady`: the new root of every queued result is still a live chunk; this is what
`old_root_hold` is for, and `RollState` reads that chunk. `DeadIsEmpty`: nothing is
queued without a process.

`SInv` ties the tree to what is stored. The queued results are a path (`Leads`) from
the point the store is at to the point the tree is at, a point being a root and a
head: every insertion puts a step at its end, the roll thread takes one from its
front. `DiskHolds` says that the state db holds the replay of the first point's
root, that each released chunk on the path can still be read, that the block of a
queued result finds its ancestors stored (`Written`), and which point that is in
each job (`Follows`). `Overlaid` and `ReadRight` say the same of the overlays and of
what an execution has read. `Refeeds` is the restart: what is left to execute is the
indexed chain above the head, in order and complete, which is why opening never
meets a block it cannot load. From these follow the views, by induction along the
chain of overlays; both databases when nothing is queued; and the refinement, in
which only `RollStore` adopts a block.

`Crash` between the two writes of `roll_by` is not a step of `Spec`. After such a stop
no value can be trusted (section 7), so the conjuncts of `SInv` about values are under
`v = "exact"`. `SInv("exact")` is an invariant of `Spec`; with the values left out
(`SInv("any")`) it is one of `CrashSpec`, because no guard, no queue and no write of the
store reads a value. The stop in the window therefore spoils states only: the three
theorems about `CrashSpec` say that the tree keeps its shape, the height index stays one
chain of stored blocks and finality is implemented wherever a stop falls. Whether a
rebuild on the spoiled state goes through is not claimed: `OpensAlways` is about `Spec`.

### Transaction pool

`Sound` is the size, one package per transaction, and order when the group never
reaches the bisection. The lemmas are about the operators of `TxOrder`: where
`InsertRng` puts a package in a sorted sequence, and what removing, replacing and
popping leave of each part.

`PoolInv` is `Sound` for every group of the pool, with the kind of its packages, and
what the handlers, the refresh and the builder carry. `PoolStep` says what any action
may do to a group: take one package that is not refused, or keep those that satisfy
some predicate; order and keys follow for all actions at once. `StaleNeedsARace` goes
through the actions: only an insertion brings a package into a group (`Shrinks`),
only a block makes one confirmed, its own transactions go into the refresh if it was
discovered by a handler, what else it confirms was on a stored branch it extends, and
`Drain` leaves none of the refreshed in the group it has passed.

### Settlement and state file

`Credits`: what a ledger has credited is buried and no longer in flight, in memory
and in the file. `Synced`: the file differs from memory only between a change and its
flush. For solvency three more parts are needed. `Recorded`: a transaction that can
still be mined, or that a reorganisation can return, is on record in memory and in
the file, or was written off. `Polled`: a cycle plans only after the poll found every
earlier payout buried. `Covered`: what is at stake plus what is planned is within the
wallet, to which what was taken by a written-off payout is added. The verdict of
`verify_admitted` needs no hypothesis: its transaction moves from the recorded to the
written-off.

In `StateFile`, snapshots are numbered in the order they are taken and money only
grows (`ShotsOrdered`); whatever is numbered above the last fsynced one carries at
least what is promised and the rest adds nothing (`PromiseBySeq`), so a skipped flush
may answer true; whatever whole snapshot the platter has carries every promise
(`PromiseOutlives`); and without a failed write the newest ledgers are in a durable
snapshot, promised, or unchanged since the start (`NewestTravels`).

### Pool server

`IInv` has, next to the types: `Tips`, the height of the template never drops,
although the thread that prepares it looked at the node earlier. `Once`, a header
that was credited in this run is of a height that is over or its key is in `seen`;
pruning takes only keys of such heights. `Honest`, the chain has no block of this
pool that was not given to it. `Held`, every such block has an entry in memory and in
the file, is deep enough, or has had a rival; a block on its way to the node is
entered and saved before it is sent. `Valued`, the three steps of a valuation speak
of one set of blocks: those whose income the balance contained, each of them still on
the chain or rivalled, with its fees known or about to be. `NonceAssumption` and
`OtherAssumption` name what is a block and keep the blocks of others apart from those
of this pool; `MaturityAssumption` is that the node's depth of finality is below
the maturity, as the configured values are.

### Accounting

`Ledgers` is the shape of both ledgers: the window within its size and counted by
worker, the buckets in order and none stamped after the latest clock reading. It is
kept by `record` at any clock reading, and by `restore` at any interval, where the
recursion of `Refill` is unfolded bucket by bucket.

`Accounts` has one row of debt per worker, and split minus kept equal to the debt of
each. It rests on what the operators compute. `SplitSpends`: the floors leave less than
one unit per worker with credit, and the largest remainders are exactly as many
workers as units left, ties included (`RankCount`), so `split_payout` spends the pot.
`TakesWhatThereIs`: `take_owed` takes the smaller of pot and debt. `DeductIs`, `OweIs`:
what is deducted and owed back, per worker, and that a worker keeps one row.

For the credit, both sums of `credit` are written as totals along the window and the
bank (`BankVals`, `OrderVals`). A share that arrives adds nothing, the one it evicts
moves what it has earned into the newest bucket, which is fresh by `PresentIsFresh`,
and what expires was no longer counted. Reading the bank back at the same interval
gives it unchanged while its buckets fit (`FirstRowsAll`, `RefillSame`); at another, a bucket may be folded into a newer
one, but never into an older one, so a bucket well inside the horizon stays inside
(`YoungIsFresh`).

### Bidding

The permissions to pass the fence name blocks of the branch under replay, and none
outside a replay: `allow_replay_chain` and `clear_replay_chain` pair up on every way
through `replay_low_bid_group`.

### Synchronisation

`SyncInv` says of every message and of every pause which heights it can carry
(`MsgSet`, `RetrySet`) and that it is on time (`OnTime`): what the node asked for is
at its head + 1 at most, what a peer tells of is at most that peer's height, and a
batch ends at the peer's latest block of the time. It is inductive because heights
and head only go up (`GoodGrows`, `HeadGrows`), whichever handler runs next. The steps
to look at are the batch that goes in half, whose retry asks from the new head
(`RetryingKeeps`), the walk, whose last common height is below the head
(`HashsKept`), and the batch that attaches: it starts at `mainH + 1`, so its end is a
height the node may take (`BatchIs`). Bags enter only by their members (`BagPlus`,
`BagMinus`, `BagOfSet`).

### Lemmas on data

The induction theorems of the library take an operator as a parameter, which the
provers at hand cannot instantiate. `DataLemmas` states induction over numbers, finite
sets and sequences with a *set* in place of the operator, and solves recursive
function definitions (`Recursion`). From that come `Filter`, sums over finite sets and
along sequences, and the rank argument of the largest remainder method. The
definitions that are proved about are therefore recursive functions or sums of the
community modules.

## 6. What is only model-checked

* Liveness (`JobEnds`, `StalePurged`, `PayoutsResolve`, `CatchesUp`, `HoldsReleased`,
  `HoldEnds`): out of the prover's reach.
* The runs with a finding, which are counterexamples. `MCSettlementMissing.cfg` and
  `MCStateFileTorn.cfg` are two more (section 8), which no run of `PROJECT.json` repeats.

## 7. Findings

* `chain_crash_window` (`chain/src/insert.rs:161`): the comment says that a
  restart from the old root can replay and reconcile. The restarted node executes
  the next block on a state db that already has its effects.
* `tx_group_bisected` (`node/src/memtxpool/add.rs:47`): in a group of more than
  ten packages a newcomer whose key equals the last of the bisected range is
  appended behind every lower one.
* `node_sync_fork` (`node/src/core/protocol.rs:174`): over a gap deeper than
  `unstable_block` the node asks for a batch that starts at its head + 1. When its
  head lost its height, no such batch attaches, and every retry asks the same.

## 8. Known limits

What the models show of the code besides, where a property had to be stated with
an assumption or could not be stated at all:

* "It was never inserted, so it was never relayed either", says the code of a payout of
  which the node answers Missing (`hbit-pool/src/lib.rs:490`). The node of this
  repository answers a post after it has inserted and relayed it, so Missing after an
  accepted post means that it was relayed and lost since. The payout is owed back
  (`server.rs:3785`) and signed again, and both can be mined. `Solvent` is the claim and
  `MCSettlementMissing.cfg` shows TLC's counterexample; `SolventUpToMissing` says how far
  it goes wrong.
* `atomic_write` "can never leave a truncated or corrupt file behind" (`lib.rs:554`). A
  write without fsync is renamed over the promised one (`lib.rs:577`); after a power cut
  the name may point at bytes that are not there, `load_state` puts the file aside
  (`server.rs:1081-1093`) and the accounting starts empty. `PromiseKept` is the claim,
  `MCStateFileTorn.cfg` has the counterexample, `PromiseOutlives` says what is left.
* "Submitting late is then strictly worse than submitting promptly" (`pool_core.rs:142`,
  and the test at 632). Past the first horizon, where every settlement but the first ones
  is, it need not be: prompt shares evict one's own earlier ones sooner, and what these
  had earned is banked in a bucket that expires sooner (244). With a window of two and a
  horizon of four ticks, shares of one miner can be worth 6 parts of 9 held back and 5 of
  8 sent as found. No property is stated about withholding.
* A payout record whose flush fails (`hbit-pool/src/server.rs:3706`) stays in
  memory, and the next poll posts it. With `DiskFails = TRUE`, a crash then loses
  the record and `SolventUpToMissing` fails. The flush before a found block is sent has
  its result ignored too (`server.rs:3971`), which `Save` of `PoolServer` leaves out.
* After a payout was written off on a Missing and mined all the same, one on record may
  find no money: `PayoutsResolve` promises nothing any more.
* The refresh after a block stored on a losing branch drains its transactions from
  the pool although the head chain does not have them (`mint/src/check/tx.rs:126`).
  Transactions of a stored branch that a child makes the chain, of a batch and of the
  bid replay stay in the pool until a sweep.
* A restart loses the shares since the last snapshot, up to 15 and those of a snapshot
  that did not get to the disk (`server.rs:794`). It also reads no more than
  `BANK_WORKERS_MAX` rows of a bucket (`pool_core.rs:420`), while folding buckets at an
  earlier restart is not held to that limit: the rows beyond it are lost.
  `RestartKeepsCredit` is about the credit of the file, and of buckets that fit.
* `EveryUnitOnce` counts a unit as split once its chunk is recorded. What was planned for
  a chunk that is skipped or not reached is neither owed nor deducted: old debts stay as
  they were, fresh money goes back to the pot and is split anew, by the credit of then.
* `PlanSound` compares a plan and `/earnings` over one pot; the pot behind `/earnings` may
  run a few units ahead of the one that is settled (`server.rs:2664`).
* A restart forgets `seen` (`server.rs:504`), so `CreditedOncePerRun` is about one
  process. Income of an orphaned block is released; if the chain returns to that
  block, its income is held by nothing (`server.rs:2637`): `HeldUntilBuried` leaves
  such blocks out (`rivalled`).
* Synchronisation: an announcement that is turned down because the tracker belongs
  to another peer stays in the knows table, and the node waits for the next block. A
  short branch whose batch fails retries from head + 1 until the next announcement.
  A branch from the first block on is never resolved by the hash walk. A full writer
  queue drops a request (`node/src/peer/send.rs:30`) and nothing repeats it. An empty
  batch makes the node ask again every ten seconds.
* Bidding: replay has one attempt. If a batch holds the engine at that moment
  (`chain/src/lock.rs:26`), the branch is given up and the next sight of it starts
  another forty minutes; `HoldEnds` excludes batches for that reason. A bidder who
  raises late replaces the earlier bid, which then no longer counts for the fence.
  A parent that came in a batch has no arrival time, so there is no fence on top of
  it. The descendants of a held root pass with it, whatever their own bid.
  A child of a branch that is being replayed is neither cached nor insertable. When the
  list of the highest bids is cut, the code drops the older one of a tie; the instance has
  no more bidders than the list has places.

## 9. Not modelled, and why

The virtual machine, the execution context and the actions are sequential
functions whose result is a free choice here. Field codecs, configuration, HTTP
rendering, the GPU kernels, the panel, the SDK and the scripts have no protocol of their own.
LevelDB is third-party; a batch is taken to be atomic and durable once written.
Block logs (`vmlog`) follow the state write. Older payout records without signed
bytes, the manual payout tool, and the settle lock file are left out of
`Settlement`. `Level` is constant over restarts and `Open` is one step, so a stop between
creating the state directory and its marker is not covered. A node that dies and comes
back below its head is not in `PoolServer`. Difficulty windows are 256-bit
arithmetic, a single function of the chain. The stratum front end translates
between miners and the HTTP interface. The peer tables and their eviction are
not modelled: `NodeSync` takes the connected peers as given.

## 10. Plan

Every safety property that a passing run checks is proved. Models worth having: the
composition of `PoolServer`'s valuation with `Settlement` in place of `Income`; the
stratum job table; `Level` changing at `Open`, and `Open` split at the marker; a node in
`PoolServer` that loses its head.
