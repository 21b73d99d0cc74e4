# A formal model of cardano-utxo-monitor

The repository is a workspace around one program, the UTXO monitor (`src/`): it
follows a Cardano node, keeps an index of transaction outputs in RocksDB that
includes what the node's mempool would do to them, and answers HTTP queries on
it. The packages under `packages/` are the libraries the monitor is built from,
together with the libraries of a DEX agent: an event sink, an execution engine
with a liquidity book, an order executor, and the pools and orders of the DEX.
The repository's own binary runs the monitor only; the agent's parts are library
code for programs that are not in it.

This directory holds TLA+ modules of the monitor, of the libraries it runs and of
the agent's libraries, TLC configurations for them, and TLAPS proofs.
`PROJECT.json` ties every definition to the lines it models.

## The system

### The monitor

| component | state | operations | talks to |
|---|---|---|---|
| UTXO index (`src/index.rs`) | six RocksDB column families: `txo`, two event tables, two unspent tables, the unit table | `apply`, `unapply`, `get_utxos` (and inside it `ensure_unit_index`, which writes) | called by both handlers and by every HTTP request |
| handlers (`src/handler.rs`, `event_sink`, `event_handler`) | none | `TxHandler::try_handle` for ledger and mempool events, `ForwardWithRef`, `process_events` | take events from the two streams, call the index, feed the tracker |
| wiring (`src/main.rs`) | channels, the `state_synced` and `rollback_in_progress` beacons | start-up, task spawning | everything |
| chain-sync client and stream (`packages/cardano-chain-sync`: `client.rs`, `lib.rs`) | the protocol's read pointer (held by the node) | `init`, `try_pull_next`, `chain_sync_stream` | node; event source |
| ledger event source (`event_source.rs`) | none between blocks | replay, caching, rollback | cache, client, ledger task |
| ledger cache (`cache.rs`) | the tip, linked blocks | `set_tip`, `put_block`, `delete`, `get_block`, `replay` | event source, atomic flow |
| atomic block flow (`atomic_flow.rs`) | none between blocks | `run`, `TransactionHandle::commit` | cache, client, an outside consumer |
| mempool monitor (`packages/cardano-mempool-sync`) | `TxFilter` of yielded hashes | `stream_updates`, `mempool_stream` | node, tracker, mempool task |
| transaction tracker (`spectrum-offchain-cardano/src/tx_tracker`) | pending table (index and queue), filter of recent hashes | `process_incoming_txs`, `process_confirmed_txs` | ledger task, mempool task |
| HTTP API (`src/server.rs`) | none | requests, batches, paging, health | index, `state_synced` |

The monitor runs three tokio tasks. The ledger task pulls blocks, forwards each
transaction to the tracker's confirmed channel and then writes it to the index.
The mempool task, which starts when `state_synced` goes up, takes transactions
the node's mempool gained, sends each to the tracker's incoming channel and
writes it to the index without a settlement slot; it also takes the transactions
the tracker gave up and unapplies them. The tracker's agent sits between the two.

### The agent's libraries

| component | state | operations | talks to |
|---|---|---|---|
| event sink (`bloom-offchain-cardano/src/event_sink`) | an index of outputs per handler, with delayed eviction | funding, pair-update and special-order handlers, for applied, unapplied, accepted and dropped transactions | ledger and mempool streams; the executor's channels |
| execution engine (`bloom-offchain/src/execution_engine`: `mod.rs`, `storage`, `resolver.rs`, `multi_pair.rs`, `focus_set.rs`) | state index, book and backlog per pair, funding pool, skip filter, pending effects | events, attempts, the answer to a submission | sink, book, backlog, node |
| liquidity book (`execution_engine/liquidity_book`) | the settled book, its preview, stash | `attempt`, feedback, `update_taker`, `remove_maker`, … | engine, interpreter |
| recipe interpreter and limit orders (`bloom-offchain-cardano/src/execution_engine`, `orders/limit.rs`) | none | `execute_recipe`, `balance_fee`, `exec`, reading an order from its output | book, pools |
| pools and AMM orders (`spectrum-offchain-cardano/src/data`, `pool_math`) | none (values) | read from and write to an output, swap, deposit, redeem, withdraw, DAO requests, available liquidity | book, order executor |
| box resolver and entity repository (`spectrum-offchain/src/box_resolver`) | predicted, confirmed and unconfirmed versions, links, states | `put_*`, `invalidate`, `eliminate`, `resolve_entity_state`, the tracking stream | order executor |
| order executor (`spectrum-offchain/src/executor.rs`) | none between two orders | `try_execute_next` | backlog, repository, node |

### What is hard

* **two writers and a hidden third**: both tasks of the monitor write the index in
  blocking threads, reads inside `apply` take no lock, and an unscoped unit query
  writes too;
* **ordering**: confirmation before or after the mempool saw a transaction, chained
  and conflicting transactions, a transaction given up and then mined, rollbacks;
* **crashes**: cache, tip and index are separate writes, submission and prediction
  are too;
* **timeouts**: block-count deadlines kept in two structures, advanced by
  the first transaction of a block;
* **bounded channels in a cycle**: ledger task → tracker → mempool task → tracker;
* **four opinions of one entity**: confirmed, unconfirmed, predicted and fallback
  states, written by events that may come late, twice or never, while one's own
  transactions are under way;
* **speculation**: the book is matched on a preview that takes one of two shapes and
  must be undone or committed whatever was done to it;
* **rounding**: prices, fees, shares and treasuries are all rounded, some in the
  wrong direction or on the wrong side, over long sequences of trades.

Correctness per component:

* *index*: the secondary tables say what the `txo` table says, after any order of
  `apply` and `unapply`; a spend is never forgotten; a unit query answers exactly;
  no call waits for ever;
* *chain sync*: the index stands on one chain at every moment; a crash or fork is
  recovered; the cache mirrors the chain that was read; the health flag is true;
* *atomic flow*: the consumer is never behind the restart point, but for a block it was undoing;
* *tracker*: index and queue agree; nothing is lost, overdue, or given up early;
* *monitor*: what the chain settled stays in the index, what is given up is given back, what is in the mempool is
  shown, and the tasks never wait for each other in a circle;
* *pools*: the output written reads back as the pool in memory, claims are covered,
  shares keep their value, a signature is used once;
* *book*: an attempt can always be undone and comes to an end, its transaction
  balances and honours every limit;
* *engine and executors*: what they know stays consistent, what they have spent
  is not offered again, and they do not go on for ever against states that are gone.

`PROJECT.json` lists the hazards at their lines, and the properties that would
catch them; a few lesser ones are named under "Further hazards" below.

## Modules

| module | models | depends on |
|---|---|---|
| `UtxoIndex` | the index; `apply` and `unapply` atomic | — |
| `IndexWriters` | the same calls row by row, several writers at once | `UtxoIndex` (abstract specification) |
| `TxTracker` | the tracker's agent, pending table, recent filter, failed channel | — |
| `MempoolTracking` | tracker between mempool monitor and ledger, with `TxFilter` | `TxTracker` |
| `ChainNode` | the node as chain sync sees it: a tree of blocks, forks, the read pointer | — |
| `LedgerCache` | tip and linked blocks, each operation one write | `ChainNode` |
| `ChainSync` | `ledger_transactions`: replay, caching, rollback, events, crashes | `LedgerCache` |
| `AtomicFlow` | `AtomicFlow::run` with the commit handle, crashes | `LedgerCache` |
| `Monitor` | the three tasks, the channels, the index and the tracker together | `IndexWriters`, `TxTracker` |
| `PoolMath` | constant-product formulas, amounts per side | — |
| `CfmmPools`, `BalancePools`, `StablePools`, `QuadraticPools` | the pool kinds: read, written, swapped, deposited to, redeemed from, priced | `PoolMath` |
| `AnyPool` | the dispatch over the kinds, trades and their outputs | the four above |
| `AmmOrders` | deposits, redeems, royalty withdrawals, DAO requests | `AnyPool` |
| `PoolTrading` | a pool in the operator's hands: swaps and orders | `AmmOrders` |
| `BookState` | the states of a liquidity book and the moves between them | — |
| `Settlement` | limit orders as outputs, execution of a recipe, budgets and fee | — |
| `LiquidityBook` | matching attempts, feedback, outside events | `BookState`, `Settlement`, `CfmmPools` |
| `StateIndex` | the state index of the executor, one record per entity | — |
| `EventSink` | the sink's three handlers, the node behind them | — |
| `Engine` | the executor of one pair behind the sink | `EventSink`, `StateIndex` |
| `PoolRepo` | the entity repository, in memory and in RocksDB | — |
| `OrderExecutor` | order executor and tracking stream on one repository | `PoolRepo` |
| `SoundPools` | what is invariant of a pool in `PoolTrading`, definitions only | `PoolTrading` |
| `Orders_proofs` | the theorems of `OrderExecutor` and `PoolTrading` | `OrderExecutor`, `SoundPools` |
| other `*_proofs` | the theorems (see Proofs) | the module of the name |
| `MC*`, `MCTree` | instances for TLC | the module of the name |

Definitions marked *Faulty variant* or *Mutant* are plausible bugs of the
definition that follows. No specification uses them; with one put in place of the
right definition, the property it is meant to break must fail.

### UtxoIndex

A reference contains the hash of the transaction that made the output, so what an
output is (its credentials, its asset units) is a constant function of the
reference. `txo` keeps what changes: `settled_at` and `spent`. The
payment and stake variants of a table are one set of rows since `Scope` is the pair
of kind and credential. The unit table is two variables: rows, and the *sentinels*
`ensure_unit_index` leaves for units that have none. A unit may be a policy
id, which is a key prefix of its assets: `Under`.

`Apply` and `Unapply` are one RocksDB transaction and one action. An input the
index does not know is skipped; a known one is marked spent, keeps its
settlement slot, and gets an event row at the *spender's* slot. An output that is
known already keeps its `spent` flag. `Unapply` restores its inputs, no matter
who else spends them, and deletes its outputs with the event row of the
*stored* slot only, so that stale event rows stay behind. `EnsureCheck`, `EnsureScan`,
`EnsureCommit`, `Answer` are the four moments of an unscoped unit query between
which writers may run. `offset` and `limit` are left out.

### IndexWriters

A call is a job: the references it will read and put, in the code's order. `Read` is
`get_cf`, which sees the committed row and takes no lock; `Put` takes the row's
lock until commit (the pessimistic locks of `TransactionDB`, an external part);
`LockTimeout` is the wait that ends, whose error is unwrapped and ends the
process through the panic hook (`src/main.rs:146`); `Commit` writes all rows at once. Rows of one
reference are locked together. That is sound because every put for a
reference starts with its `txo` row. The module's refinement property
`AtomicSpec` is the specification of `UtxoIndex`.

### TxTracker and MempoolTracking

`Track` and `ConfirmTx` are an iteration of each loop of the agent. `queue` is the
nested `BTreeMap<block, HashMap<tx, Instant>>` as a set of entries. `outbox` is what
`batch_send` still has to put in the channel: `ConfirmTx` waits for it, `Track`
does not. A batch is one of the orders in which its entries can be sent (`Batches`):
there is one, as the instants of two entries differ. `MempoolTracking` adds the filter of the mempool monitor, which holds
up to one hash more than its cap, and a ledger that stands at `StartBlock` when the process
starts and delivers each transaction once, block after block, and again after a rollback.
`heard`, `filed` and `retracked` are histories: whether the tracker has been told of a block yet,
at which height each entry was made, and which transactions were last tracked while they
were queued or confirmed already. The last happens when both filters have forgotten them.

### ChainNode, LedgerCache, ChainSync, AtomicFlow

The node is a tree of blocks of which it follows one path; `Adopt` moves to any
longer chain that keeps the starting point. After an intersection the node first
answers with a rollback to the intersection, as chain sync does. `AnswerNone` is
both "nothing yet" and an error of the protocol, as `try_pull_next` makes them.
The client does not reconnect: a broken link lasts until the process restarts.
A chain holds a transaction once (`OnceAssumption`: it spends an output), and slots
grow along a chain. The transactions of a chain are the set `TxsUpTo`, in the order
of `TxsOf` within a block. What `replay` reads is the set of cached blocks from a slot
on; `ReplayNext` takes the one with the lowest key, and any of those that share a slot,
as the keys go on with the hash.

`ChainSync.step` is where the generator is: replaying, pulling, between `set_tip`
and `put_block`, in a rollback, or between `delete` and `set_tip`. Events of a
block are yielded one at a time (`out`) and persisted as they are taken. A crash may
come at each stage named in `CrashAt`: the run names replay, pull, the loop of a
rollback and the events of a block that is applied. A crash between the two
cache writes of a block, or in the middle of undoing one, is outside it: neither cache
nor replay repairs it.

`AtomicFlow` has eight stages: pulling, sent, consumed, acknowledged, the loop of a rollback, `"undone"`
(the consumer has taken or committed the undoing of a block, which is still cached), and the gap
between the two cache writes of a block (`"put"`) or of its deletion (`"relink"`). The run crashes at all but
the last two. At `"undone"` the code does lose something: the process restarts from a point
whose last block the consumer no longer holds (`atomic_flow.rs:174-177`). The history `lost` holds the
transactions of such a block until they are sent again, and the properties allow for these and no
others.

### Monitor

Both tasks write the index through `IndexWriters`: `LedgerForward`, `Accept` and `Drop` start a
call, `RowStep` reads a row without a lock, puts it under one, skips it, or ends the process on a
lock timeout, and `CommitOver` makes the rows visible. The other task runs between any two of
these steps, so the lost update of `lost_spend` happens in this model, too: `overtaken` records,
per task, the rows it is about to write from a read that a commit of the other has made outdated.

`ledgerQ` holds the events of chain sync not taken yet (the real stream is pulled, which the model
allows by not taking; `MaxLag` bounds what a further block may leave behind). `LedgerForward` and
`LedgerCommit` are the two handlers of the ledger task in their order. `Acquire`,
`Accept`, `Drop` and `MempoolIndex` are the mempool task; `Agent` is an instance of
`TxTracker`. A snapshot is the node's mempool as it was at `Acquire`; `Accept` asks the
filter about each of its transactions when its turn comes, and `Register` may make the
filter forget its oldest hash. Outputs of different transactions are different, as a
reference holds a hash (`MonitorAssumption`). The mempool of the node is valid on top of its chain: `Mine` evicts
what a block makes invalid, `RollBack` returns a block's transactions. `undone`,
`dropped` and `returned` are auxiliary: the transactions a rollback took back, those the tracker
gave up, and those of the latter that were accepted again when the filter had forgotten them.

`SettledKept` has two halves. No output of the chain is missing from the index, but of transactions
given up. And a settled spend is lost in three ways only, which the code has: a transaction
given up spends the same output, and `unapply` restores it whoever else spends it; the mempool task
wrote the row back from a read from before the ledger's commit; or the output's maker was given up and accepted again.
`GivenBack` is about the other direction, what giving up a transaction must restore. The full
forms of `SettledKept`, without the exceptions, are among the properties the code does not have, below.

### Pools and AMM orders

A pool in memory is one record for every kind of a family, an output is its value,
its version and a datum that maps field numbers to contents; `AnyParse` reads one. The
two ways the operator changes a pool write it differently: a swap edits the output it
has consumed (`Produced`, from `execution_engine/instances.rs`), an order writes the
pool from memory (`into_ledger`). `PoolTrading` lets them
alternate. Its constants are what is on the ledger: `IsPoolOutput` says which outputs
are read as pools, `IsOrderTerms` and `IsRequest` what wallets and key holders make
(`PoolTradingAssumption`). An amount is a whole number, side by side in a function of `"x"` and
`"y"`; products do not wrap (u128 in the code), unchecked subtractions of ADA wrap
at `Word`. Roots and powers of decimals are the whole numbers they are cut
off to. Newton loops are followed for `Steps` rounds and are `Unsettled` after.

### BookState, Settlement, LiquidityBook

A book is one record in one of the code's three modes. What the code keeps in
separate fields per mode is one set of fields here: what is in view, what was
consumed, what was stashed, and, in mode `"preview"`, the intact originals. An
attempt is one call without a pause; its steps are actions so that TLC sees every
book in between. `Match` picks a taker, trades it and commits the step to the batch;
`RetryWithoutUnsatisfied`, `Downgrade`, `NoMatchFound` and `Propose` are the ends of a
round. `Interpreting` is a round of `execute_recipe`; the fee of a transaction is a
function of its shape. Takers are limit orders and makers constant-product pools.

### EventSink, Engine

A version is an output: its entity and the number of the transaction that made it.
The node (`Foreign`, `Confirm`, `RollBack`, `Drop`, `Accept`) is the environment; one
transaction makes a block. The ledger task and the mempool task deliver to the
handlers, which tell the executor through `upstream` and `funding`. A call of a
handler is one step. Evictions from a handler's index happen after a delay that the
repository gives no value; `Patient` says whether it outlasts rollbacks.

`Engine` has one pair. Of the book it keeps the versions it was given, and what is
matched is a free choice of them: `LiquidityBook` says how it is made. Four slots
per entity are `StateIndex`; `skip` is the filter of our own versions, and the backlog has a filter of evicted
orders of the same kind (both `CircularFilter` of 256, here of `FilterSize`); `pending` is
`pending_effects`; while it is set nothing else is handled, as the stream of
transactions is polled again only when the answer to the last one is in. `Accepted`, `Rejected` (an answer that names missing
inputs) and `Refused` (any other error) are the outcomes of a submission.

### PoolRepo, OrderExecutor

`PoolRepo` has both implementations, chosen by `kind`, where they differ: RocksDB
drops no state and forgets a prediction by dropping its link. `OrderExecutor` splits
`try_execute_next` where the repository's lock is given up: `Pop`, `ReadStates`,
`WalkLinks`, `Submit`, `Answer`. `Track` is the tracking stream. A crash loses a repository
that is in memory; the backlog is filled again with the orders that are unspent, by an agent that is
outside the repository, so that the executor meets them with what the repository then knows.

## Runs

| run | bound | shows |
|---|---|---|
| `utxo_index` | 3 transactions (create two outputs, a chained spend, a conflicting spend of two), 2 slots and none, 2 credentials, a policy and an asset of it, 1 reader | the tables agree, no spend is forgotten, unit queries are exact |
| `index_writers` | a ledger and a mempool writer, 2 calls each | the tables agree after each commit; every call ends |
| `one_writer` | one writer, 4 calls, 1 reader | row by row implements atomic (refinement); a spend survives confirmation |
| `lost_spend` | as `index_writers` | **violated**: with two writers a spend can be overwritten |
| `mempool_tracking` | 3 transactions tracked up to 4 times, entered at block 1 of 4, delay 2, filters of 2 each, failed channel of 1 | pending table consistent, nothing lost or overdue, failures just |
| `chain_sync` | 9 blocks with a fork of equal length, one transaction on both branches, 2 crashes, broken links | one chain, cache, replay, beacon, health, catching up |
| `atomic_flow` | the same tree, crashes at six of eight stages | nothing skipped, restart point held but for a block being undone, all committed in the end |
| `monitor` | 3 transactions written row by row by two tasks, 2 blocks of up to 2, channels of 1, delay 1, one rollback | settled outputs and spends kept, what is given up given back, mempool shown, quiet in the end |
| `pools` | 14 pools of every kind with reserves of a few dozen, 8 plain and 9 signed orders, 2 offers, 4 prices, 2 operations in a row | mirrors, solvency, shares, fees, signatures, stable swaps, availability |
| `book` | every set of up to four of 7 orders, 3 sets of one or two pools, 2 attempts, 1 outside event | restorable, balanced, limits honoured, book follows recipe, attempts end |
| `engine` | one pool, order, special order and funding box, one own transaction, one foreign one, one fault of the node | index sound, own spends stick, quiet in the end |
| `order_executor` | 3 orders, both repositories, 2 mishaps, a stream up to 2 events behind | own chain unbroken, the executor rests |

*Why the bounds are enough.* The index treats references alike: one transaction
each of the kinds create, spend, spend in conflict and two slots plus none give
every combination of stored, spent and filed-under. A race needs two writers
and two calls. The tracker's structures interact through one
transaction with two deadlines and a second that shares one of them; with filters of two places,
three transactions make them forget, so that one is tracked again while queued and after its
confirmation. Rollback,
replay and cache depend on forks of depth two, one with a transaction both
branches have. In `Monitor` channels of one place are the tightest, and every
interleaving of confirm, track, drop and the rows of two calls occurs with three transactions
(`MaxJobs` is never reached, or `EventuallyQuiet` would fail).
A pool's two ways of being written alternate within two operations, and reserves of
a few dozen units round more, relative to their size, than the real ones. In the
book three takers are the least for a stash, a retry and a merge to meet,
two pools the least for a merge and a downgrade; a second attempt starts from what
the first one left. In the engine every slot of the index is written with one
transaction of ours and one of another trader, before and after a fault. (That
one fallback takes the place of another, which `OwnSpendsStick` allows for, takes three of
ours and two of others: `Special = {}`, `Genesis = {p, f}`, `MaxOwn = 3`, `MaxForeign = 2`,
`MaxFaults = 0`, `FilterSize = 20`, `BoxUses = {"unused"}`; the theorem covers it.) Two
predictions in a row and one rival are what separates the links of `PoolRepo` from its
slots; three versions give both.

*Deadlock* checking is off where the system, or its bounded
environment, may stop: clocks, blocks, jobs and transactions run out.

*Fairness.* tokio runs tasks that can run: weak fairness of each task's
actions. In `ChainSync` only the client is fair; the node may stop growing.
In `AtomicFlow` the consumer is fair because the handle's contract is to commit.
In `IndexWriters` each writer's steps within a call are fair, its starting one is not.
In `Monitor` the two loops of the agent and the two sources of the
mempool stream are merged by `select`, which polls them in turn, so each is fair
by itself; the rows of a call belong to the task that started it. The book's attempt is a loop without a pause. In `Engine` and
`OrderExecutor` the tasks are fair and the node confirms what it holds; crashes,
rollbacks, drops, refusals, new blocks and broken links are never fair.
`EventuallySynced` has two exits the code really has: the process
cannot start since the only point it offers left the node's chain (`Stranded`), or
its connection is gone (`CutOff`).

*The finding.* `lost_spend` shows what the test
`confirmation_preserves_pending_spend_state` (`src/index.rs:864`) rules out for one
writer: `get_utxo_by_ref` reads with `get_cf` and takes no lock, so a confirmation
that read an output before the mempool task's spend committed writes it back
unspent.

### Properties the code does not have

Defined in the modules, in no configuration. Each is stated by a document or a
comment, or is the full form of a property that a run checks with an exception; TLC
finds a behaviour against it when it is put in the place of the run's properties
and the constants are changed as said.

| run, changed constants | property | what happens |
|---|---|---|
| `utxo_index` | `AllNullComplete` | `{"All": null}` starts its range at `u64::MAX` and returns pending outputs only; README: all since service start |
| with `LegacyRefs = {a, b}` | `UnitAnswerExact` | on a database older than the unit table, the first new row of a unit keeps the scan from ever happening |
| `mempool_tracking` | `LastBlockOver` | a deadline is applied at the first transaction of a block, before the rest of the block is confirmed |
| `chain_sync` with `Spec`, `NoRollbackUntil = 0`, `ReplayFrom = NoReplay`, no crash, three blocks `z1`, `z2`, `z3` more | `RollbackReaches` | the first cached block is linked to `Origin`: a rollback to the start passes it |
| the same | `SyncedNeverFalse` | an error of the protocol raises the health flag |
| with `NoRollbackUntil = 3` | `CaughtUp` | a rollback to the limit below which rollbacks are ignored is ignored itself |
| `atomic_flow` with `CrashAt = {"put"}` | `RollbackReaches`, `Resumable` | crash between tip and block: the next rollback stops short and leaves transactions skipped |
| with `CrashAt = {"relink"}` | `Resumable` | crash between delete and tip: the same |
| `monitor` | `SettledSpent` | the mempool task writes a row back from a read that the ledger task's commit has made outdated |
| | `ForeignSpendsKept` | giving up a transaction restores an input spent on the chain by a conflicting one |
| | `SettledInFull` | a late drop deletes confirmed outputs |
| | `NotSpentByMempool` | the spend of an output not indexed yet is skipped for good |
| | `ReturnedShown` | a rolled-back transaction is unapplied and, known to the filter, not shown again |
| `engine` with `Spec`, `Special = {}`, `FeeTakers = {}`, `BoxUses = {"unused"}`, `Patient = TRUE` | `LatestResolved` | the fallback, written for our own unconfirmed version, is preferred to a newer confirmed state |
| the same with `MaxEvictions = 1` | `IndexHoldsUnspent` | the state a drop or rollback restores is evicted by the timer set when it was spent |
| `order_executor` | `LatestResolved` | an unconfirmed or invalidated version hides the newest confirmed one |

### Further hazards

Real, but outside the listed ones: a database older than the unit table (above);
`{"All": null}` (above); equal `Instant`s in the tracker's batch
(`pending_txs.rs:73`); deadlines that count from block 0 until the first confirmation is
heard (`pending_txs.rs:20`); chained transactions given up at once leave in reverse order, but only
within one block (`pending_txs.rs:82`; `GivenBack` shows that the index does not depend on it); a consumer of the atomic flow that drops its handle
(`atomic_flow.rs:175`); pages and batches of the HTTP API read from different
snapshots (`server.rs:451`); `state_synced` never lowered (`server.rs:511`); bids
tested against the price bound of asks, which only decides who is tried first
(`price_range.rs:29`); a bid order whose budget reads back differently from an output
that holds its proceeds (`limit.rs:416`); a special order's success that the book
hears nothing of (engine `mod.rs:547`, and the todo CORE-407 at `mod.rs:542`); special
orders dropped when popped before their pool is known (`mod.rs:905`), seen before it
(`handler.rs:566`), or revived while in the skip filter (`mod.rs:313`); orders that fail
non-fatally or whose refusal names neither input are dropped (`executor.rs:216`, `:153`); a
bonding-curve sale paid the whole reserve (`quadratic_pool.rs:420`); the treasury
of a stable pool booked by side (`stable_pool_t2t.rs:466`).

## Proofs

Every theorem holds for every value of the constants that satisfies the named
assumptions of its module, and the hypotheses it states. A hypothesis about a
configuration is a definition named `Configured` (in the proofs about chain sync and the atomic flow; `TwoTasks` for
the monitor); the run of the module satisfies it, so TLC has seen the invariant of each proof hold on an instance.

### The index

`Index_proofs` has three parts. About `UtxoIndex` (any sets of transactions, outputs, credentials, units, slots and
readers; `TxIn[t]` and `TxOut[t]` disjoint, slots below `u64::MAX`):

* `Typed`: `Spec => []TypeOK`.
* `CredentialTablesCorrect`: `Spec => []CredentialTables`, which is `UnspentExact`,
  `EventAtSettlement` and `EventReachable`. The three are inductive together with
  `TypeOK`. An update deletes a reference's rows before it files new ones, so each
  table is followed reference by reference: untouched, marked, filed, deleted
  (`ApplyUnspent`, `UnapplyUnspent`). An event row outlives the removal of others
  because only the row of the *stored* slot is deleted, and that only when the
  output is deleted or gets a new one.
* `UnitCovered`: `LegacyRefs = {} => (Spec => []UnitCover)`. Rows are only removed with
  the spend or deletion of their output, and a late `EnsureCommit` only adds.
* `UnitAnswered`: `LegacyRefs = {} => (Spec => []UnitAnswerExact)`. `UnitCover` says that
  nothing is missing from an answer; that nothing is too much needs `UnitRowsTrue`, that
  a row is one of an output that holds the unit, as the query reads each output again.
* `SpendsStick`: the action property, with `TypeOK` as the invariant it needs.

`LegacyRefs = {}` is a database that was created by this version of the code or a later
one; for an older one the property is false (see above).

About `IndexWriters` (any number of writers, any calls; the inputs of a transaction
and its outputs are without repetitions):

* `WritersAgree`: `LegacyRefs = {} => (WritersSpec => []TablesAgree)`. `TablesAgree`
  alone is not inductive: what a commit does depends on the batch. `WritersInv` adds
  that each batch has one entry per reference and none for what is still to be handled
  (`Once`), and that every entry is well filed (`Filing`): a row that stays has an
  event slot, an unspent one that of its settlement, and only a row that was read is
  deleted or marked spent. `CommitUnspent` is the change of `Unspent` by a commit. The
  proof uses no lock: what two writers overwrite of each other is `txo` content
  (`lost_spend`), never the agreement of the tables.
* `LoneWriterIsAtomic`: for one writer `WritersSpec => AtomicSpec`, the refinement.
  `LoneInv` adds that what was read is still in the table (`Current`) and that
  every reference of the call is still to be handled, in the batch, or to be skipped
  (`Covered`). Then a commit is `Apply` or `Unapply`; every other step of the
  writer is a stutter, and a query's steps are the query's.
* `LoneSpendSurvives`: for one writer `WritersSpec => []SpendSurvives`. The proof
  strengthens it by what the open call is about to write (`SpendsMarked`). One writer
  is needed, as the run `lost_spend` shows.

About `Monitor` (any transactions that spend and create any outputs, any chain, rollbacks,
delay, sizes of channels and filters, and every interleaving of the reads, writes and commits of the
two tasks). The one hypothesis, `TwoTasks`, says that the writers of the index are the ledger task and
the mempool task, and with which slots they apply.

* `MempoolShownHolds`: `TwoTasks => (MonitorSpec => []MempoolShown)`. The invariant `YieldedShown` says
  that what the filter knows is in the index, about to be written, or was taken back. It
  holds whatever the filter forgets.
* `SettledKeptHolds`: `TwoTasks => (MonitorSpec => []SettledKept)`. `SettledKept`
  speaks of a moment when all events of the ledger are handled, so the invariant has
  to speak of the others: `Follows` says that there is a set of transactions whose outputs and
  spends the index holds (`Handled`) and from which the call of the ledger task and the events ahead lead, one by one
  and through sets that are each `Sound`, to the transactions of the chain. A block and
  its undoing are such walks, and the first event of a walk is what the
  ledger task is writing. What a task has read but not written is part of the
  argument: `HeldBy` is what it may yet write as unspent from what it has read, and `Handled` counts what the mempool
  task holds as if it were in the index already. A commit of the ledger task that marks such a row
  makes the read outdated, and the row is in `overtaken` from then on. `Settling` follows each
  input of a transaction the ledger task applies: it is in the batch, still to be read, or has
  no row for a reason the property names; `OnceReturned` follows a hash that the filter has forgotten.
  `Rows` has the part the row locks play: two open batches have no row in common.

### The tracker

`TxTracker_proofs` (any transactions, blocks, delay, capacities):

* `IndexConsistent`: `IndexedIsQueued`. It is inductive with the types of the table:
  `confirm_tx` and `try_advance` clear the index of everything they take out.
* `NothingOverdue`: `NoneOverdue`. Needs `Delay > 0`; a block advance drains
  every entry up to the new block.
* `NothingLostHolds`: the action property `NothingLost`, from the finiteness of the
  queue: a batch of as many places as there are due entries, no two alike, has them all.
* `FailuresJustHolds`: `Spec => []FailuresJust` for the tracker between
  mempool and ledger: any filters, any height the ledger is entered at, rollbacks included. The property names what
  the code cannot promise: a transaction tracked again while queued or confirmed (`retracked`), and one tracked before the
  tracker has heard of any block. The invariant says that the tracker
  is in step with the ledger once it has heard of it (`InStep`), that an entry was filed at the height its
  history says (`EntriesFiled`), and that an entry of a transaction not in `retracked`
  is the one its index names, and unconfirmed (`EntriesPending`).
* `NeverTrackedAgain`: `Remembered => (Spec => [](retracked = {}))`. The first exception is one of the filters
  alone: while there are no more transactions than they hold (256 and 4096 in the
  code), none is tracked again.

### Chain sync and the atomic flow

`ChainNode_proofs` has the lemmas on trees of blocks both rest on: paths are ordered by
`OnPath`, a path grows by its last block, a block that follows another brings new
transactions, and what is cached from a slot on has a first block. Nothing after its first part
depends on paths being sequences.

`ChainSync_proofs` (any tree of blocks, forks, crashes; `Configured`):

* `FollowsOneChainHolds`: `FollowsOneChain`; `CaughtUpHolds`: `CaughtUp`;
  `BeaconCoversRollbackHolds`: `BeaconCoversRollback`; `SyncedMeansCaughtUpHolds`: the action
  property `SyncedMeansCaughtUp`.
* None of these is inductive. What the index holds follows from three things: the stage
  of the stream, the events still to be yielded, and the cache. `IInv` states, stage by
  stage, that the cache is the path from the starting point to the tip (`CacheWhole`, or
  all but the block a rollback deletes), how the read pointer stands to the tip, and that the
  index holds the chain to the tip less what is still in `out`: the rest of a block
  that is applied (`Yielding`), the first part of one that is undone (`Undoing`), or
  transactions it has already (`Repeating`). After a crash the index may hold part of the block
  at the tip (`Interrupted`), and replay must be shown to bring the rest.
* `Configured` has four parts. Crashes come where the run has them; a crash
  elsewhere is the partial failure listed under the hazards. Every block after the starting point
  has a slot above `NoRollbackUntil`: a rollback to a lower one is ignored by the code
  (`event_source.rs:131`). One block follows the starting point: the first cached
  block is linked to `Origin`, so a rollback to the start passes it. If the
  process may end in the middle of a block, replay covers what was cached since the starting point.
  The second and third are how the configuration is meant (a point deep enough to be final).

`AtomicFlow_proofs` (any tree of blocks; any number of crashes at the six stages of `Configured`, which are all but
the gaps between two cache writes):

* `ResumableHolds`: `Resumable`. The invariant says, stage by stage, that the cache is
  the path of its tip from the starting point, or from the origin once the first block was undone
  (`Whole`), that the read pointer follows the tip or is where a rollback leads
  (`Follows`, `LeadsTo`), and that the consumer holds the chain up to the tip but for what is `lost` (`Held`); a
  block is given up only when it is about to leave the cache, and counts as lost if the process ends before it has.

### The agent's libraries

`LiquidityBook_proofs` (any orders, pools, prices, fees; an order is what is read from
its output):

* `RollbackIsSound`: `Spec => []Restorable`. The invariant says what each mode of the
  preview keeps of the settled book (`Sound`), that every taker in view is one of the
  settled book or the successor of one that was matched (`ViewKnown`), and that the
  targets of the batch, before and after it was made final, come from the settled
  book (`TakesOk`, `FinalTakesOk`), so that what a retry stashes was in it. Each move of
  `BookState` has a lemma; the arithmetic of trades plays no part but that a trade keeps
  the identity of a taker.
* `BookFollowsRecipeHolds`: `Spec => BookFollowsRecipe`. `FInv` adds to that invariant what
  the shapes of the preview are to each other: the settled book has one taker of an id; what
  is stashed is neither in view nor consumed nor intact (`Apart`); a taker in view is one
  in play, under its own id, or compares as equal to the target of the take with its id; what is in
  play and named by no take is in view (`TakersFollow`); and the pools in view are the
  settled ones but for those of the batch (`MakersFollow`). A match disturbs one taker or two
  (`OneMatched`, `TwoMatched`), a recipe names the targets and pools of the batch it is made of
  (`RecipeIsOfBatch`), and no round of the interpreter changes whom it names (`TargetsStay`).
  `CommitFollows` then reads the book that is committed off either shape, with the stash that a
  partial preview loses. TLC has seen `FInv` hold in all states of the run `book`.

`Engine_proofs` (any pools, orders, special orders, funding boxes and bounds):

* `IndexStaysSound`: `Spec => []IndexSound`. `IndexInv` adds that a record of the index
  belongs to its entity (`RecordOf`), and that book, backlog and batch hold what they
  are meant for (`BookOf`, `BacklogOf`, `PendingOf`). It shows that the panic at
  engine `mod.rs:600` is out of reach whatever the sink and the node tell.
* `OwnSpendsStickHolds`: `FiniteIds => (Spec /\ []Roomy => OwnSpendsStick)`, where `Roomy`
  says that the skip filter (256 places, shared by all pairs) has not been filled and
  `FiniteIds` that pools and orders are finitely many. `OwnInv` says that what our accepted
  transactions spent is in the filter (`FilterInv`), is never a prediction, and is taken
  for unconfirmed only behind one (`Hidden`), has left the backlog (`BacklogInv`) and
  does not return to it from a batch that fails (`BatchInv`). Two more invariants are
  about the surroundings: the node's versions bear numbers already given (`NodeInv`), so
  that a successor is new to the filter, and the sink tells of orders, pools and special
  orders only (`FeedInv`). Where the filter forgets, the
  property fails: TLC finds it violated with `FilterSize = 1` and two own transactions.
  That a batch is added to it as a whole (`AddAllAdds`) is an induction by hand: that the
  function which adds one version after the other exists, and what it has added so far,
  by the least number for which it would not be so (`UpTo`, `LeastOf`).

`Orders_proofs`, about `OrderExecutor` (any orders and versions, either repository, a stream however far
behind):

* `OwnChainUnbrokenHolds`: `Spec => []OwnChainUnbroken`. The property is about an order that is
  about to run. The invariant (`Undisturbed`) says what the repository must know at every
  stage of the one before: each state the executor has made is linked to its predecessor
  and stored, and the last one is the prediction (`Known`), whatever the stream has reported,
  late, twice or in the other order. That the walk along the links then reaches the
  anchor (`LinksReach`) needs no induction: of the versions met past the anchor, the least
  one has the anchor as its predecessor. `IsLinking` of `PoolRepo` is stated with sets for it.

### Pools and orders

`Orders_proofs`, about `PoolTrading` (any set of pools, orders, requests and offers, any
number of swaps and orders in any alternation, any size of the word). The pools are those of
constant product (classic, fee switch, royalty), the weighted ones and the bonding
curves. A stable pool is left out (`pool.ver # "Stable"`): its trades are the fixed point of
a search.

* `SignedOnceRunOnceHolds`: `DaoThreshold > 0 => (TradingSpec => []SignedOnceRunOnce)`, for
  every kind of pool. The invariant `NonceInv` says that whatever is signed, on the ledger or kept by its
  holder, names a version of the pool and a nonce, that what has run names a nonce the pool has left
  behind, and that all signatures of a DAO request are over the same data. With a threshold of
  zero a request would run unsigned, over and over.
* `SolventHolds`: `TradingSpec /\ pool.ver # "Stable" /\ Solvent /\ []FeesFit =>
  []Solvent`, and under the same hypotheses
* `PoolMirrorsLedgerHolds`: `[]PoolMirrorsLedger`, if `StakeNamed`;
* `OperatorTakesOnlyFeeHolds`: `[]OperatorTakesOnlyFee`;
* `SharesKeepValueHolds`: the action property `SharesKeepValue`, for pools of constant product;
* `AvailableAtPriceHolds`: `[]AvailableAtPrice`, for pools of constant product.

None of `Solvent`, `PoolMirrorsLedger`, `OperatorTakesOnlyFee` and `SharesKeepValue` is inductive: what can be paid after a swap depends on the output
that was read, what was read on what was written before, and what the operator keeps
of an order on both. `TradingInv` of `SoundPools` is. It says that

* the pool is sound (`PoolOk`): its numbers are natural ones, and what is owed lies in the
  reserves (`Covered`); of a bonding curve, that the reserves are worth the cost of all it
  has sold (`Backed`), which is a difference of values of one growing function
  (`CostTo`), so that sales and purchases telescope;
* the value of its output says what its reserves and shares are (`ValueHolds`), whichever way it
  was written, and the datum the same of fees, treasury, royalties, keys and nonce
  (`DatumHolds`), for the versions that write the fields they read;
* the orders on the ledger and what is signed are as wallets and key holders make
  them (`OrderOk`, `SignedOk`).

A swap of any constant-product version is one change of four fields (`SwapFields`), whose parts are
zero where the version has none; what rounding leaves in the pool is enough that the
product does not fall. Deposit, redeem, withdrawal and DAO request each have a lemma that
says what they leave of the pool and what their owner gets (`DepositAnswered`, …,
`OrderAnswered`), from which these four theorems follow.

`AvailableAtPrice` is a consequence of `TradingInv` and `FeesFit` and needs no induction of its own.
The closed form answers with two quotients, each rounded to the nearest, so the answer is at
the price asked but for half a unit of either amount (`NearestFacts`). An input one unit larger than the
rounded one lies beyond the point the closed form finds, so the curve gives at least the
output, less one (`CurveReaches`, `QuotientReaches`); and if the swap is held back to leave ADA
in the pool, so was the answer (`AvailableFacts`). A swap of exactly the rounded input may give less by the whole
price of half a unit, which is why the property allows a unit more.

The hypotheses, and where they come from. `PoolTradingAssumption`: outputs read as pools have
natural numbers in their datums, ADA as the first asset, and no more shares than there are;
wallets put into an order what it is for; the prices asked are
quotients of positive amounts. `Solvent` at the start: an output on
the ledger that is read as a pool need not cover its treasury, as only some versions check it when read.
`FeesFit`: the fee leaves more than is set aside of it (`fee > tfee + royalties`, at most
the whole). The DAO may set fees that do not fit, and the code does not refuse them; it
is a hypothesis on the behaviour, not on the constants. `StakeNamed`: a DAO request that takes the stake
credential away changes the pool in memory, while the output keeps the address's
(`royalty_pool.rs:746`, `:1462`). `MCPools` satisfies all of them, and TLC has seen `TradingInv`
and `FeesFit` hold of every pool of it that is not a stable one.

### Model-checked only

* Out of the prover's reach: the liveness properties (`CallsEnd`, `EventuallySynced`,
  `EventuallyCommitted`, `EventuallyQuiet`, `AttemptEnds`, `ExecutorRests`) and everything
  with ENABLED.
* `TransactionBalanced`, a sum over a batch of takes and makes: an induction over data. `LimitHonoured`
  speaks of one take at a time, but rests on an excess and a mismatch of fees added up over the batch;
  no proof of it is written.
* What a search finds: `StableSwapProvable` and the other properties of a stable pool
  (Newton's method), and `AvailableAtPrice` of a weighted pool (a search for the largest trade).
* `SharesKeepValue` of a weighted pool: the provers know no powers.

## Not modelled

* Encodings of keys and values, CBOR, logging, configuration, response formatting;
  request resolution, batches and paging of the HTTP API, which keep no state.
* `ledger_blocks`, the tracked transaction store (`tx_store.rs`), the channel group,
  `PersistentPriorityBacklog` and its store: nothing in the repository uses them. The
  beacon is a flag; its wakers are left out.
* Instant, ad-hoc and grid orders, and orders with time bounds: more kinds of taker.
  The book is modelled with limit orders and constant-product pools; balance, stable
  and bonding-curve pools are checked in `PoolTrading` by themselves.
* The interleaving of two handlers of the event sink on shared indexes, each behind
  its own lock: a handler call is one step. The order in which `handler.rs:474`
  takes two of them differs from the other branches (`:426`, `:562`, `:594`).
* Several pairs in one executor: a pair is chosen by the focus set, and the pairs
  share the funding pool and the skip filter only.
* Transaction building, signing, collateral, validator scripts and their costs;
  deployment, explorer and submit clients (I/O); stream adapters and derive macros
  (no state of their own).

## Plan

1. A proof of `LimitHonoured`, on top of `FInv`.
2. The handlers of the event sink with their locks, which would show the opposite
   lock order as a deadlock, and their lookups and updates as separate steps.
3. Two pairs in `Engine`, sharing the funding pool.
4. Instant and grid orders in `Settlement`, balance and stable pools as makers of
   `LiquidityBook`.
5. Request batches and pages over several snapshots of the index.
