# TLA+ models of the Polkadot profit transformer

The streamer in `src/main` copies a Substrate chain into PostgreSQL. It is one
program started in several modes, one process each, that share a database and a
RabbitMQ broker. This directory holds TLA+ models of its parts, the TLC
configurations that check them, and TLAPS proofs about them. Source paths below
are relative to `src/main/src/` unless they begin with `src/`.

## 1. The system

| Part | State | Operations | Correct when |
|---|---|---|---|
| **BlockListener** (`modules/BlockListener`) | in memory: `lastBlockId`, `messagesBeingProcessed`, `isPaused`, `gracefulShutdownFlag`; in the database: the `block` row of `processing_state`, the rows of `processing_tasks` | `preload` (start, `GET /preload`), `newBlock` (finalized heads), pause, resume, shutdown; REST restarts of unprocessed tasks | every finalized block gets a task row, once, and each row a message |
| **Task framework** (`libs/tasks.repository.ts`, `loaders/rabbitmq.ts`) | `processing_tasks`, one queue per entity, a handler per channel (`prefetch(1)`), its transaction and row locks | receive, count the attempt, lock the rows, compare uid and status, run a processor, mark, commit, callback, ack | a task is worked on by one handler, its data and its mark are one transaction, an unprocessed task can be run again |
| **BlockProcessor** (`modules/BlockProcessor`) | `blocks`, `events`, `extrinsics`, `total_issuance`; callbacks in flight | `processTaskMessage`, the callback that creates follow-up tasks | a block is stored once, its follow-up tasks are created once |
| **PolkadotStakingProcessor** | `stake_*`, `rewards_*`, `eras`, `validators`, `nominators` | `processStakeEra`, `processRewardsEra` | an era's stake and rewards are stored once; none is skipped |
| **IdentityProcessor** | `accounts`, `identity`, a cursor per source in `processing_state` | two polling loops over `events` and `extrinsics` | every event and extrinsic is seen; what is stored of an account is the last the chain says |
| **BalancesProcessor** | `balances` | `processBlock` | the last balance of each account in a block |
| **MoonbeamStakingProcessor** | rounds, collators, delegators and their payouts | `processTaskMessage`, payout arithmetic | what is stored adds up to what the chain paid |
| **GearSmartcontractsProcessor** | programs and messages, a cursor | a polling loop | every extrinsic is seen (not deployed: its service is commented out in `docker-compose.yml`) |
| **Monitoring** | none of its own | cron: look for gaps, duplicates, old tasks; restart unprocessed tasks | gaps are reported, tasks restarted |
| **Loaders** | connections | start-up | a lost node connection ends the process (`loaders/polkadotapi.ts:36`) |
| MoonbeamStakingProcessorRecalc, BlockMetadataProcessor | | | never loaded (`modules/index.ts`) |

**How they interact.** The listener inserts task rows and sends a message for
each. A processor's consumer receives it, locks the task's rows and runs
`processTaskMessage` in the same transaction. The BlockProcessor's callback
inserts tasks for the staking and balances processors and sends their messages.
The identity and Gear listeners poll what the BlockProcessor has written.
Monitoring calls the listener's REST API over HTTP.

**What is hard.** Several consumers, and redelivery while the first handler
still runs; several task rows of one block; a crash at any await, in particular
between a commit and what should follow it (the callback, the timer, the ack);
calls of the listener that interleave at their awaits over shared fields; a
chunk that fails while the loop goes on; tasks that run in another order than
the chain's; writes outside the transaction of the task; rows read side by side
and written from what was read; data that says what it means only together with
a runtime's version, a length or an order of events. `PROJECT.json` lists every hazard at its line.

## 2. The modules

### TaskConsumer: the framework

Variables, actions and two properties, without a next-state relation of its
own: a processor's module EXTENDS it, as each processor is called from the same
`preProcessTaskMessage`. One instance is one entity and its queue.

| In the model | In the code |
|---|---|
| `rows`, indexed by `row_id` | `processing_tasks` of one entity and network |
| `outbox` | what the listener is about to send: timers of `ingestTasksChunk`, the loop of `restartUnprocessedTasks` |
| `queue`, a bag of messages | the RabbitMQ queue |
| `pc`, `msg` of a consumer | where its handler stands, and on which message |
| `delivery` | whether the broker still waits for this delivery's ack |
| `snap`, `held` | the rows its `SELECT .. FOR UPDATE` found, and those it has locked |

`IncreaseAttempts`, `SelectRows`, `LockRow`, `StartTask`, `SkipTask`,
`CommitTask`, `FailTask` and `Ack` follow a handler from one await to the next.
`LockRow` takes one row lock at a time, newest first, as PostgreSQL does for
`ORDER BY row_id DESC FOR UPDATE`: rows inserted after the statement's snapshot
are not among them. `ConsumerCrash` rolls back and requeues; `LoseChannel`
requeues while the handler goes on.

A row's `collect_uid` is fresh for each insert, so it is identified with the
row's index; uid 0 is one no row carries (`addProcessingTask` returns true for
a task that exists, and `preloadOneBlock` then sends the uid it made up).

### BlockProcessor and BlockExtraction

`BlockProcessor` adds the blocks table, what a handler's transaction knows of
its block (`trx`), and the callbacks. `FindBlock` and `MissBlock` are the read
of `getBlockById`, which is outside the transaction; `ProcessBlock` the inserts;
`CanStoreBlock` the unique index of `total_issuance`; `Commit` makes the rows
visible and starts the callback; `InsertFollowUps` and `SendFollowUps` are the
callback, un-awaited, beside the next message of the same consumer.

`BlockExtraction` is the promise, with no queue, rows, locks or processes: a
requested block is extracted once, its follow-up tasks are created at most once,
and after it. `BlockProcessor` implements it (`ImplementsExtraction`):
`requested` is the set of blocks with a task row, `extracted` the blocks table,
`followed` the batches of follow-up tasks.

### BlockListener

Each call of `preload` and `newBlock` is a slot of `call` whose `pc` says at
which await it stands; everything between two awaits is one action.
`read`/`assign`: around `findLastEntityId`. `head`/`start`: around
`getFinBlockNumber`. `paused`: in the pause loop. `begin`/`trx`: in the
transaction of `ingestTasksChunk`. `loop`: the sleep after a chunk. A header is
any finalized height, at any time and any number of times, since every preload
adds a subscription and headers arrive late; one that `newBlock` drops is no
step. An error outside `ingestTasksChunk` is a rejection nobody handles and ends
the process.

### EraStaking

EXTENDS TaskConsumer, as BlockProcessor does, for the queue of eras. Task `e` has
two parts in one transaction: the stake of era `e + 1`, always, and the rewards
of era `e`, which need the block that era started at. That block is in the
`stake_eras` row the task of era `e - 1` has written and committed, unless the
code knows it (`KnownStarts`: era 0, and era 760 of Kusama).

| In the model | In the code |
|---|---|
| `stakes[e]`, `rewards[e]` | how many times era `e`'s rows are in `stake_*`, and in `eras`, `validators`, `nominators`, `rewards_*` |
| `trx` | how far the transaction is: `staked` after `processStakeEra`, `started` once the start block is found, `rewarded` at the end |
| `AddEraTask` | the task of an `EraPayout` event, which the BlockProcessor's callback creates (at most once per block, as BlockProcessor shows) |
| `FindEraStart`, `SkipRewards` | `findEraStartBlockId`, a read outside the transaction, and its two outcomes |

### EraPayout

EXTENDS EraStaking and adds what its two steps `ProcessStakeEra` and
`ProcessRewardsEra` read and insert. `work[c]` is the promise a handler waits for:
`AskStakers` and `AskPayees` fill a better-queue, `ProcessStake` and
`ProcessPayout` are one answer of one of its workers, the last of which drains it.
The arrays are sequences, in the order of the answers; the tables are bags.
A task of the second queue is a validator with those of its nominators who are still to
be asked for: the code filters them when the worker begins, from an array that no longer
changes by then, and takes them chunk by chunk; the validator's own answer ends the task.
`FindStart`, `SaveStakeEra`, `SaveRewardsEra`, `CommitRows`, `FailRows` and
`CrashRows` conjoin the action of EraStaking they add rows to: all that is proved of
EraStaking holds here by construction, and is no property of this module.

What is promised of the tables is `EraRecords`, which has no handlers, messages, locks or
workers: `Record(e)` adds the stake of era `e + 1` and the rewards of era `e` in one step,
once, with the rows the chain has of them; without rewards if `GiveUp(e)` found no start
before. `ImplementsEraRecords` maps `stake` and `rewards` to the committed rows, `requested`
to the eras with a task, and `tooEarly` to those whose handler has skipped the rewards and
has not committed; where messages, handlers and workers stand is hidden.
A block is named for the era that starts at it. Of the chain it is assumed that a
session lists a validator once, that the validators of an era's first block have an
exposure in it, and that an exposure lists a nominator once.

### IdentityListener

The loop of `IdentityListnerService` over the events of other processes, with as
much of those as it can see. The same cursor runs over extrinsics.

| In the model | In the code |
|---|---|
| `events`, with a `status` | the rows of `events` the loop selects, in `row_id` order; a `row_id` is taken when a row is inserted, and the row is seen when its block commits |
| `writing`, `stored` | the transaction each block processor has open, and the blocks committed |
| `accounts` | `created_at_block_id` and `killed_at_block_id`, which two processes write |
| `processing_state`, `lastRowId`, `batch`, `pc` | the `identity_event` row, and the locals of `restartUnprocessedEvents` |
| `FailToSave` | `saveAccount` catches and logs its error |

### Identities

The other loop, over the extrinsics of the pallet identity, and the table of
identities it keeps, in which a sub-account repeats the fields of its parent.

| In the model | In the code |
|---|---|
| `identities[a]` | the row of account `a`: its parent, and its fields as one, `info` |
| `batch`, `begun` | the extrinsics since the place in `processing_state`, and how far the loop is with them |
| `jobs[a]` | a call of `saveIdentity` and those it makes for children, depth first: the look-up (`Find`, a query a level), the insert (`Write`), the children (`ReadChildren`) |
| `Begin` | `processExtrinsic`: one save, or for `setSubs` one for each sub-account, side by side |
| `said` | history: what was last said of an account itself |

The accounts are a finite set: the code takes what a query returns as an array, here a
sequence of the children in any order.

### Balances and BalancesRest

`Balances` EXTENDS TaskConsumer for the tasks of balances. `TraceBlock` reads the
block and decodes the trace, `SaveBalance` is one `saveBalances`, which is not part
of the transaction. A value of the trace is its length, by which
`decodeAccountBalanceValue` chooses a layout: a layout whose header has another size
than the value's reads the amounts from the wrong place (`Decode`). `todo` holds the
accounts a handler still has to save; `IsNextKey` takes them in the order in which the
keys of the code's map were made, by the first write of each.

`BalancesRest` composes it with those who create its tasks and with the listener's calls
that send them again, each a slot of `call`:

| In the model | In the code |
|---|---|
| `StoreBlock` | the commit of a block's transaction (`loaders/rabbitmq.ts:157`); its callback is in `creating` from then on |
| `InsertBalancesTask`, `SendNew` | the callback nobody awaits (`modules/BlockProcessor/service.ts:60`): the row of the task in a transaction of its own, and then its message |
| `LoseNew` | the block processor exits, or a callback throws: callbacks and messages in memory are gone, and no later attempt has another callback (`service.ts:42`) |
| `RestartByRest`, `RestartByMonitoring`, `ReadPage`, `SendRecord`, `EndRestart` | `restartUnprocessedTasks`, asked for by REST or by the cron job: pages of `getUnprocessedTasks` after `lastEntityId`, a message for each row |
| `RestartOne`, `SendOne` | `restartUnprocessedTask` |
| `RestartRange`, `CheckTask`, `InsertMissing`, `SendOne` | `restartUnprocessedBalances` over `addProcessingTask`: look for a row of the block, insert one, send |

In TaskConsumer `ReadUnprocessed` and `SendFreshUid` are these calls in one step each.

### RoundPayout

The task of a Moonbeam round, which reads from a chain that goes on. A chain is a
value of the constant `Chains`: its rounds with their length and runtime, what is
staked and delegated, and the events of the blocks from the payout on. Each event
carries the collator whose payout it belongs to (`payout`), which the properties compare
with and the code cannot read.

| In the model | In the code |
|---|---|
| `ProcessStakeRound` | `processStakeRound`: what is staked in the round that begins |
| `ReadHead`, `FindOriginalRound`, `FirstRounds` | `getRewardsRound`: the head, and the search for the first block of the round before the last |
| `NotReadable`, `Collect` | `getCollatorsAndDelegators` at that block, delegations at the block before |
| `Wait`, `EndSleep` | how many blocks to look at, and the sleep for those to come |
| `CheckBlock`, `FailBlock` | `getRewardedFromEventsAtBlock`: `Rewards` are a block's rewards in the order of the keys of `rewards` (`NamesOf`), each key with its own (`RewardsOf`), `PayCollator` and `PayDelegator` who was paid for whom, by runtime |
| `SaveRewards`, `Commit`, `Throw` | the inserts, and the transaction's end |

## 3. The runs

| Run | Checks | Bounds |
|---|---|---|
| `bp_safety` | `TypeOK`, `OneExtractionAtATime`, `NoLockDeadlock`, `ProcessedTaskHasBlock`, `FollowUpsLostOnlyByCrash`, `ImplementsExtraction` | 2 consumers, 1 block, 2 task rows, 1 copy of a message, 1 message with a fresh uid, 1 crash, 1 lost channel |
| `bp_live` | `EveryTaskExtracted` | 1 consumer, 2 rows, one fault of each kind |
| `bl_safety` | `TypeOK`, `NoGapWithoutFailure`, `OneTaskPerBlock`, `MessagesFollowRows`, `StateNeverGoesBack` | blocks 0..3, chunks of 2, 2 calls at once, a crash; and either a failing chunk, a pause and a stop, or one `GET /preload` (`AloneOrOverlapping`) |
| `bl_live` | `EveryBlockGetsTask` | the same with a crash, a pause and a stop |
| `bl_gap` | `PreloadsAllBlocks`: **violated** | one failing chunk |
| `era_safety` | `TypeOK`, `PayoutTypeOK`, `EraStoredWithItsTask`, `SkippedOnlyTooEarly`, `StakeIsTheExposure`, `RewardsRepeatStake`, `ImplementsEraRecords` | 2 consumers, eras 1 and 2, 2 validators, 2 nominators, 2 workers, chunks of 1; one fault of any kind |
| `era_rewards` | `ProcessedEraHasRewards`: **violated** | 2 consumers, eras 0 and 1, no fault |
| `id_safety` | `TypeOK`, `OnlyLateRowsPassed`, `AccountsFollowEvents`, `EveryEventHandled` | 2 block processors, 3 blocks with an event each, of one account; batches of 2; one fault of each kind, hence at most 4 rows |
| `id_late` | `NoEventPassed`: **violated** | the same without faults |
| `ident` | `TypeOK`, `ParentAsSaid`, `ChildrenFollow`, `SavingEnds` | 3 accounts, 2 identities, 4 of 11 extrinsics in any order, batches of 2, 2 levels (10 in the code), 1 crash |
| `bal_rest` | `TypeOK`, `BalancesOfTheChain`, `ProcessedBlockHasBalances`, `RestartSendsAll`, `RestartEnds`, `StoredBlockGetsBalances` | blocks 0 and 1, 3 task rows, of which one is kept for each callback (`RoomLeft`), 1 consumer, 1 call at a time, pages of 1; one fault of any kind or one request by REST (of a range: both blocks, `Ranges`), beside the cron job |
| `round_safety` | `TypeOK`, `StakeIsOfTheRoundsStart`, `StoredRoundIsComplete`, `RewardsUnderTheirCollator`, `RowsAddUp`, `FailuresHaveACause` | 12 chains of 2 to 4 rounds, 2 collators, 2 delegators, an orbiter; one failure, one chain that stands still; 68 and 72 are 2 and 3 |

**Why these bounds are enough to be interesting.** Blocks do not interact in
BlockProcessor except through consumers, so one block with two rows has all the
contention: two handlers on two rows, a row inserted between two SELECTs, a
redelivery beside the first handler, a crash in any state. In BlockListener,
two calls are what a pause holds up and a header adds; four blocks and chunks of
two give a first, a full and a last, partial chunk and a restart after each.
In BlockProcessor the worst cases take two faults (a crash and a redelivery). In
EraStaking an era looks only at the one before it, so two consecutive eras, of
which the first has no known start, show both outcomes in either order. In
IdentityListener accounts do not interact, so one of them is enough; three events
make a full batch and another, a late row needs two block processors.
In EraPayout, era 2 has what can be told apart: a nominator of two validators, one who
is clipped, a validator without points, and one who is no validator of the next era.
In Identities, three accounts make a chain of depth 2, a circle and a family, and four
extrinsics make them and then change them; two levels are what such chains need, and a
circle goes beyond any. In BalancesRest, pages of one row put a page boundary between
any two rows, two blocks of which one is block 0 show both ways `lastEntityId` is read, three
rows let one block have two (the callback's and that of a range) without keeping the
callback of the other from its row, which would be a loss the code does not have,
and block 1 writes an account twice and has three of the layouts; a trace that cannot be
decoded is not among its values, so the exceptions for it are not exercised. In
RoundPayout there is a chain for every branch on the runtime, the first rounds, an
upgrade between the two rounds, and rounds that change their length such that the search
ends in the round, before it, and at block 0. Both collators have a delegator in common,
and a block names a delegator before its collator, so keys and events differ in order.

The runs set `CHECK_DEADLOCK FALSE`: with all blocks, extrinsics or rounds processed
and the bounds used up the system has nothing to do, which is no fault.

**Fairness.** Handlers, callbacks and calls in progress go on (the event loop
runs what is ready: weak fairness). A handler waiting for a row lock gets its
turn (PostgreSQL queues waiters) and a message is not passed over for ever
(RabbitMQ's queue is ordered): strong fairness. `ReadUnprocessed` is weakly
fair: the README's and Monitoring's restart of unprocessed tasks. `HeadArrives`
is strongly fair: a head every few seconds, while ingesting a chunk takes less,
finds the listener free again and again. `Resume` and `Exit` are weakly fair: a
paused listener is resumed, a stopped one restarted. The identity listener's loop
is weakly fair: a process that ends is started again, and each loop calls itself
by a timer (the loop over extrinsics comes first, and is taken to catch up).
The same holds for the loop over extrinsics in Identities, whose extrinsics need not
come. In BalancesRest the listener's calls, the consumer, the block processor's
callbacks and messages, and the cron job, which asks for a restart as long as a task waits, are weakly
fair; a block's messages are strongly fair, as the queue is first in, first out. Faults,
requests by REST and new tasks are not fair.

## 4. What the runs show

Holds:

- Two handlers never extract one block at once, whatever rows, copies and
  redeliveries there are: `FOR UPDATE` locks *all* rows of a block
  (`OneExtractionAtATime`). Locking the newest only would not do.
- The locks cannot deadlock, as they are taken newest first (`NoLockDeadlock`).
- A block is stored at most once and its follow-up tasks are created at most
  once, after it (`ImplementsExtraction`).
- Without a crash no follow-up task is lost (`FollowUpsLostOnlyByCrash`), and
  with faults of every kind a block with a task is extracted in the end
  (`EveryTaskExtracted`). This needs *every* unprocessed row to be sent again.
- Without a failing chunk there is no gap below `processing_state`
  (`NoGapWithoutFailure`), without `GET /preload` a block has one task
  (`OneTaskPerBlock`), and no message is sent for a row that is not there
  (`MessagesFollowRows`).
- An era's stake is stored exactly when its task is processed, and once; its
  rewards at most once (`EraStoredWithItsTask`). No constraint of the schema says
  so: it rests on the status read under the row locks. Rewards are skipped only
  while the task of the era before is not processed (`SkippedOnlyTooEarly`): to
  find no start block later would need a task processed without its stake.
- The identity listener's loop passes no event but those committed after a row
  with a greater `row_id`, and those whose account it could not save, across
  crashes (`OnlyLateRowsPassed`); all others are handled in the end
  (`EveryEventHandled`). What is handled again after a crash takes an account
  back, but not for longer than the loop needs to be where it was
  (`AccountsFollowEvents`).
- What is stored of an era is the exposure the chain has of it, in whatever order the
  workers were answered (`StakeIsTheExposure`), and the rows of its rewards, which
  another task reads later, are the same with their payees (`RewardsRepeatStake`).
- An account has the parent that was last said of it, though rows are copied from
  above and written again after a crash (`ParentAsSaid`). All that is below an account
  follows what it says of itself, and saving ends, also where parents form a circle
  (`ChildrenFollow`, `SavingEnds`).
- Whatever is in the balances table is what the chain wrote last (`BalancesOfTheChain`),
  a processed block has all of it, though an attempt may stop between two saves
  (`ProcessedBlockHasBalances`). A restart sends all that waits while tasks come and go
  (`RestartSendsAll`), ends (`RestartEnds`), and with the cron job a stored block whose
  callback has inserted its task gets its balances (`StoredBlockGetsBalances`), though
  the message is lost or the task fails. The property names what the code does not give: a
  block whose callback is lost (below), one with several rows, one whose trace cannot be
  decoded, and any block while unprocessed tasks of block 0 fill a page.
- An era is recorded as a whole, once, and with the rows the chain had of it
  (`ImplementsEraRecords`).
- What is stored of a round is what was staked when it began and all that the chain paid
  for it (`StakeIsOfTheRoundsStart`, `StoredRoundIsComplete`), each reward under the
  collator it was paid for (`RewardsUnderTheirCollator`) but in the two cases below; none
  is stored over another, the rows adding up to the total (`RowsAddUp`). An attempt that
  fails of itself has one of four causes (`FailuresHaveACause`).

Does not hold:

- **Follow-up tasks are lost by a crash between commit and callback**: the one
  exception of `FollowUpsLostOnlyByCrash`. The callback is not awaited (`loaders/rabbitmq.ts:159`), and
  the next attempt finds the block and has no callback
  (`modules/BlockProcessor/service.ts:49`): its era or round is never processed, and it
  never gets balances (`CallbackLost` in BalancesRest), for the cron job only sends rows
  that are there.
- **A failing chunk leaves a gap** (`bl_gap`). The error is logged
  (`modules/BlockListener/service.ts:250`), `lastBlockId` has moved (`:224`), and
  the next chunk moves `processing_state` on. Monitoring reports such a gap, and
  `process-block` fills it by hand.
- **An era's rewards are skipped for good** (`era_rewards`) when its task runs
  before that of the era before. The code says the task is recreated
  (`modules/PolkadotStakingProcessor/service.ts:104`), but only logs it and
  returns; the task is then marked as processed, so no restart runs it again.
- **Events are passed over for good** (`id_late`) when two block processors
  commit in another order than they inserted: the row that becomes visible last
  has a `row_id` the loop is past (`modules/IdentityProcessor/helpers/database.ts:52`).

Exceptions the properties name, found while modelling:

- Listener: `GET /preload` beside another call may start after a chunk that is still
  uncommitted, and a crash then leaves a gap without any failure; height 0 in memory
  counts as no height (`!this.lastBlockId`), so after a first chunk that failed two
  headers may both ask the database, and the second assignment takes `lastBlockId` back
  (the same on a chain that has no block but genesis, hence `FirstHead > 0`); the exit
  after SIGTERM waits ten seconds and for nothing else; the pause loop does not look at
  the shutdown flag again.
- Restarts: `lastEntityId` 0 is no condition, so an unprocessed task of block 0 brings
  the whole table round for ever; a second row of a block at the end of a page is passed
  over (`modules/BlockListener/service.ts:74`, `libs/tasks.repository.ts:124`); of a
  block with two rows the older one stays unprocessed for ever; the range restart sends
  a uid no row has for a block whose task was there, which no consumer takes up.
- Balances: of the layouts for values with an Option's flag, that of 140 digits leaves
  the flag out (`modules/BalancesProcessor/helpers/crypt.ts:38`), so its amounts are
  read one byte too early; it is `Misread` in the model.
- Identities: `setIdentity` of a sub-account drops its parent; `setSubs` of several may
  put back an old parent of one of them, and leaves the parent of those it no longer
  names; extrinsics that failed are applied too, which is how circles come about;
  `clearIdentity` and `killIdentity` change nothing.
- Rounds: the search goes back by the length of the round it is in, and misses the
  original round when the length has changed; from runtime 2600 on the entries of the
  round before the upgrade cannot be decoded; 68 awarded collators are taken for 72
  blocks after the sleep was reckoned; to runtime 900 a delegator of two collators may
  have its rewards under the other one, though each once, and to 1002 `rewardTotal` is
  that of the whole block. Of runtimes 901 to 1000 the code looks at one
  block (`modules/MoonbeamStakingProcessor/round-payout.ts:164`), for all collators, but
  the search for a delegator's collator is only made to 900 (`:426`): after that all
  delegators are looked for under the collator that came last, so the task fails again
  and again, or stores a reward under another collator. `CollatorsTold` leaves them out;
  proving the property, for any runtime, is what brought this up.

## 5. What is proved

TLC checked every invariant named here on a small instance before it was proved; the
theorems hold for every value of the constants, under the modules' assumptions.

| Module | Theorems |
|---|---|
| `TaskConsumerProofs` | lemmas about the framework, for all its processors |
| `BlockProcessorProofs` | `TypeCorrect`, `ExtractionsExclusive`, `BlocksAreUnique`, `NoDeadlockOnRows`, `ProcessedMeansStored`, `OnlyCrashesLoseFollowUps`, `ExtractionImplemented` |
| `BlockListenerProofs` | `ListenerTypeCorrect`, `MessagesOnlyForRows`, `TasksAreUnique`, `StateOnlyGrows`, `NoGaps` |
| `EraPayoutProofs` | of EraStaking: `EraTypeCorrect`, `ErasStoredOnce`, `RewardsSkippedTooEarly`; of EraPayout: `PayoutsStoredOnce`, `PayoutInvariant`, `PayoutTypeCorrect`, `StakeStoredAsExposed`, `RewardsStoredAsStaked`, `PayoutImplementsRecords` |
| `IdentityListenerProofs` | `IdentityTypeCorrect`, `NoOtherRowPassed`, `LastEventsShown` |
| `IdentitiesProofs` | `IdentitiesTypeCorrect`, `ParentsAreAsSaid`, `AllBelowFollow` |
| `BalancesRestProofs` | `RestTypeCorrect`, `BalancesAreTheChains`, `ProcessedIsComplete`, `RestartLeavesNoneOut` |
| `RoundPayoutProofs` | `RoundInvariant`, `RoundTypeCorrect`, `StakeStoredAsOfTheStart`, `StoredTotalIsWhole`, `RewardsStoredUnderTheirCollator`, `FailuresExplained` |

**TaskConsumer and BlockProcessor.** For every number of consumers, blocks, rows, copies
and faults, if a block has no more rows than the `LIMIT 100` of `readTaskAndLockRow`:

1. `TypeCorrect`: from the type lemmas of the framework, action by action.
2. `LockInv` (framework) is inductive: what a handler found of a block contains
   every older row of it (rows are only appended); it holds only what it found,
   newest first; no row is held twice; a running handler holds all it found and
   its own row. Two running handlers of one block would then both hold the older
   of their two rows: `OneRunPerEntity`. And of a set of handlers that all wait,
   take one that waits for the least row: whoever of the set held it would wait
   for an older one still: `NoCircleOfWaiters`.
3. `BlockInv` is inductive on top of it: a transaction that found no block is
   right until it commits, because no other handler of the block can be running
   (this is where `LockInv` is needed); a block has a callback exactly for the
   commit that wrote it. `BlocksAreUnique`, `ProcessedMeansStored`,
   `OnlyCrashesLoseFollowUps` and `ExtractionsExclusive` follow.
4. `ExtractionImplemented`: each step maps to a step of `BlockExtraction` or to
   a stutter, under the invariant.

**BlockListener**, for any number of blocks, calls, chunk size and events:

1. `ListenerTypeCorrect` needs one strengthening: a call that waits in the pause
   loop has a block left to ingest, and an open chunk lies within the blocks its
   call was asked for, ending at a multiple of the chunk size, at the last of
   them, or for a shutdown (`ChunkEnds`, from the least number of a set).
2. `MessagesOnlyForRows`: the property is inductive together with "a raised
   flag tells of a stop", which `Exit` needs.
3. `TasksAreUnique` and `StateOnlyGrows` rest on `ApartInv`: while calls are kept
   apart (no `GET /preload`, no failed chunk, a head above 0), the rows are
   exactly the blocks up to `processing_state`, and one of two things is so.
   *Solo*: at most one call is in progress, and it and `lastBlockId` agree with
   `processing_state`; it is preload until heads are subscribed to, and newBlock
   with `messagesBeingProcessed` raised afterwards. *Quiet*: the flag of the
   shutdown is raised while the height in memory is 0, so several headers may ask
   the database, but none of them starts a chunk.
4. `NoGaps` needs no calls kept apart, only that no chunk failed. A block is *covered*
   by a row or by the open chunk of a call. `Gapless`: all blocks up to
   `processing_state` are covered, those up to `lastBlockId` too unless it is still to
   be read, and for each call what it has read or has ingested. A step may cover a
   block otherwise, but never uncovers one. The proof found the case of a chain with
   no block but genesis (`FirstHead > 0`).

**EraStaking**: `EraTypeCorrect`, and `ErasStoredOnce` from `EraInv`: an era
has one task row (`OneTaskPerEra`: the block that pays it out creates its tasks at
most once); a handler between `run` and `done` works on a row that is still
unprocessed (`RunsUnprocessed`, from `LockInv`: no other handler of the era is
running), so its commit is the first that adds the stake; and the rewards are
only written after the stake (`PartsInOrder`). `RewardsSkippedTooEarly` follows:
an era that is processed has stored the stake of the next one, which would have
found it.

**EraPayout**. A step of a queue leaves all that EraStaking has as it is
(`ReadingIsSilent`), and every other step is one of EraStaking by construction
(`DetailedIsEraStaking`), so its theorems hold with the rows, as `PayoutsStoredOnce` says
of one. `StakeStoredAsExposed` is about the rows: in
`PayoutInv` what the workers have pushed lists, each once, exactly the rows of the
validators that are no longer in `todo` (`Lists`), whatever order they were answered in;
the start block a handler looked up is the era's own; and what a transaction inserted,
and then committed, is the whole exposure. The assumptions on the chain are what makes
a row appear once.
`RewardsStoredAsStaked`: while the payees are asked for (`Pays`), the results have the
rows of exactly those validators whose task has ended and of exactly those nominators
whom no task has left (`NotPaid`). A chunk moves rows from one side to the other
(`ChunkPaid`), the end of a task its validator (`TaskPaid`); two tasks have no nominator's
row in common, for a row names its validator (`TasksApart`). That the filter of an array
lists the rows of its validator is an induction over its length (`OfValidatorLists`),
in the form of a least counterexample.
`PayoutImplementsRecords` takes both invariants. What a running handler is about to commit
is not in the tables yet (`RunsUnrecorded`: its task is unprocessed, and the tables go
with the status); what it commits is the whole of both parts (`HandlerInv`); a start it
has found stays known; and no other handler has given up the same era (`GivenUpByOne`,
from the locks), so a commit or a rollback takes just this era out of `tooEarly`.

**IdentityListener**, for any events, block processors and batch size. `PlacesInv`
orders the three places: `processing_state`, `lastRowId` and the rows of the batch.
`BatchInv`: a batch is *all* that is committed and not late between `lastRowId` and the
batch's last row: a row that commits later is greater than all others or late.
`NoOtherRowPassed` follows. `ColumnsInv`: of the events handled of an account and a
method, if the last is before the loop's place or the one it will start from again, the
column shows it (or a block whose extrinsic the account signed). This needs no word on
rows that are still to be handled again, and `LastEventsShown` follows.

**Identities**, for any finite set of accounts, extrinsics and depth. `SaveInv`: what a
save has still to write is what is there: a call for the account itself has the data of
its extrinsic and is alone in its job, one for a child has the parent the child's row
has, unless calls side by side had the account in common. `ParentsAreAsSaid` follows,
though rows are copied from above and written again after a crash.
For `AllBelowFollow`, `TreeInv`: whoever is below the
account of a `setIdentity`, to the depth of `MaxDeep`, says the same already or is below
a call that is still to come (`Covers`). What is below to which depth is a recursive
function; that it exists is shown by an induction over sets of numbers (`Induction`,
from a least counterexample).

**Balances and BalancesRest**, for any blocks, traces, rows, calls and pages. On top of
`LockInv`, `WorkInv`: what a handler has saved of its block is there, and the rest is in
`todo`, and nobody else handles the block; `KnownWrites`: whatever is in the table is
the decoded last write. `ProcessedIsComplete` follows, and `BalancesAreTheChains`.
A callback is due only for a stored block (`creating`). For `RestartLeavesNoneOut`, `PlaceInv`: a task that has waited since a restart began and
is not sent yet is in the page, or comes after the place the call reads on from and
before no record of the page; but for blocks with several rows, of which a page's end
may pass one over.

**RoundPayout**, for any chains and events as `RoundAssumption` has them, and any faults. `RoundInv` has, beside the
types:

- `SearchInv`: while rounds keep their length, the search is always at the first block of
  a round that is not before the original one (a step back by the length of a round is a
  step to the first block of the round before), so it ends there, or at block 0 of the
  first rounds.
- `ReadInv`, `RowsInv`: what was read there is the snapshot, with the delegations of the
  block before, and so is whatever is inserted and committed. The payments of a block
  change rewards only: `BlockPayments` says so of the two loops over all rewards, however
  many there are and whoever they are for.
- `BlocksInv`: without a standstill the blocks of all awarded collators are there after
  the sleep.
- `PaymentInv`: after the blocks looked at so far, the total is what *these* blocks paid
  (`PaidBy`), and each row of a collator or delegator has what they paid to it for it
  (`PaidUntil`). The property itself is no invariant of a task in progress: it speaks of all
  blocks. That the blocks after the last one looked at pay nothing (`NothingAfter`) makes it
  so when the rows are inserted (`RowsPaid`).

What a block adds is the longest part, in four steps:

1. *Each reward once.* The code groups a block's rewards by account and then walks the keys,
   in the order in which any event named them first. `RewardsOfBlock` and its lemmas give
   each reward event one place in the walk, and each place one event; so the sum over the
   walk is the sum over the events, whatever the order.
2. *Collators.* The first loop leaves each paid collator with its own reward and the block's
   total (`CollatorsPaid`), and `current` with one of the block: from runtime 1003, where
   a block pays for one collator, with that one.
3. *Delegators.* From 1001 on, the collator is the one in the event or `current`. To 900 it is
   the first that has the delegator unpaid. `Matched` is what the loop preserves: the
   rewards still to come of a delegator can be matched with collators that have it
   unpaid, each with its own. So there always is one, which is why no reward is lost and
   none replaces another; and a delegator of one collator is found under that one.
4. *Nobody left out.* `PaysOnce` says that a payout lies in one block, so a row that
   a block writes had nothing before.

The loops over a block's events and rewards are recursive functions. That each of them
exists is one lemma (`RecursionExists`, about the `Turn` of any of them), and what holds
from one turn to the next is carried on by `InductionTo`, an induction over sets of
numbers. The sums are treated the same way (`SumOver`).

`RoundAssumption` says what is taken of the chain; TLC evaluates it for every chain of the
run.

- `RoundsInOrder`: rounds are numbered from 1, which begins at block 0, and begin one after
  the other.
- `SnapshotsOfDelegations`: a runtime that has `topDelegations` has `delegatorState`; and
  where it has either, an entry of `atStake` for a round has the delegations of the block
  before the round, and without `topDelegations` no others. The code relies on it when it
  takes the entry for one block and the delegations for the block before
  (`modules/MoonbeamStakingProcessor/round-payout.ts:126`).
- `PaymentsOfARound`: rewards are paid in the blocks the code looks at, to the staked
  collators and their delegators (`PaysTheStaked`), and the rewards for a collator are paid
  together and once (`PaysOnce`): in one block with its own, which is positive; from
  runtime 1003 on no two collators in one block; nobody twice for one collator. A collator
  delegates to nobody, a rule of the chain's. The rest is what the code goes by: how many
  blocks it looks at in which runtime (`:164`-`:173`), that a collator is paid before its
  delegators (`:400`), and that one reward is kept of each delegator (`:455`).

**Only model-checked.**

- The liveness properties (`EveryTaskExtracted`, `EveryBlockGetsTask`,
  `EveryEventHandled`, `SavingEnds`, `RestartEnds`, `StoredBlockGetsBalances`): the
  prover has no rule for liveness under fairness here.
- `RowsAddUp`: the sum over the rows is a fold over the keys of two levels of tables. To
  reason about such a fold is an induction over a finite set with an operator as
  parameter, which the provers cannot instantiate. What is proved comes close: where the
  runtime tells the collator, each row has exactly what was paid to it.
- `PreloadsAllBlocks`, `ProcessedEraHasRewards` and `NoEventPassed` do not hold.

## 6. Abstractions and what is not modelled

- The rows one block stands for (extrinsics, events, issuance, block) are one
  unit, written by one transaction; the accounts row `saveAccount` writes outside
  of it is in IdentityListener. The decoding of nested extrinsics and the metrics are
  left out.
- After a reconnect, `channelWrapper.ack` of an old delivery is taken to have no
  effect on the new channel.
- Outside BalancesRest, `restartUnprocessedTasks` reads all unprocessed rows at once.
  Messages of a row beyond `MaxCopies` are not added to the queue.
- The column `account_id` of balances, which is filled in if the account is known by
  then, is left out, with its look-up.
- An identity's six fields are one. Methods and extrinsics that change nothing are one.
- The points of collators, the totals of an era and all times are left out; of
  `total`, `own` and `prefs` of a validator one value is kept.
- A round's task is run by TaskConsumer's framework, which RoundPayout takes to be: it
  runs again after a failure until it commits. The better-queues of RoundPayout are one
  step, since each of their tasks writes a row of its own.
- A `SELECT .. FOR UPDATE` re-reads a row it waited for: `TaskIsCurrent` uses the
  status at the time all locks are held.
- Of the events only NewAccount and KilledAccount are kept, which are those the
  identity listener selects; its handlers of judgements are never called.
- Times, sleeps and timers are left out: they end at any later step.

Not modelled: the decoding of nested extrinsics (`modules/BlockProcessor/service.ts`,
`processExtrinsics` and what it calls), a walk over the library's data that keeps no
state; `process-metadata`, whose tasks no deployed process takes; the Gear processor,
which is not deployed and ends its process after a first batch without storing its
place; MoonbeamStakingProcessorRecalc and BlockMetadataProcessor, whose imports are
commented out; Monitoring's checks that only send a message; the connections, the REST
authentication and decryption, metrics, logging.

## 7. Plan

Done: all modules; the proofs of TaskConsumer, BlockProcessor (with BlockExtraction),
BlockListener, EraStaking, EraPayout (with EraRecords), IdentityListener, Identities,
Balances, BalancesRest and RoundPayout. Every safety invariant and action property of the passing
runs is a theorem but for `RowsAddUp`. Next, in this order:

1. The extrinsic decoder as an operator, checked against a reference definition.
2. The decoding of a trace that is too short, with the exceptions it throws (Balances).
