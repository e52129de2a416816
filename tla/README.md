# A TLA+ model of tx-test-tool

`ttxt` sends batches of transactions to a Substrate node and follows what
becomes of them. This directory models the part of it that decides what is sent
and when, what is recorded, how a run ends and what it leaves behind. Sources
are under `src/src/` of the repository; `runner.rs:405` below means line 405 of
`src/src/runner.rs`, `main.rs:196` line 196 of `src/bin/main.rs`.

## The system

| Part | State | Operations | Talks to |
|---|---|---|---|
| **Binary** (`main.rs`, `cli.rs`) | none | the commands: run a scenario, check a nonce, write endowed accounts, load a journal | all below |
| **Scenario builder** (`scenario.rs`) | parameters, the built transactions | `build` (check, connect, derive), `build_transactions` (split into chunks, build concurrently, join, sort), ctrl-c hook | sink's constructor and nonce allocator; `Runner::new`; the stop channel |
| **Connector** (`subxt_api_connector.rs`) | attempts | `connect` | node |
| **Runner** (`runner.rs`) | queue of transactions, `FuturesUnordered` of tasks, `done`, `errors`, timeout, stop channel | `new`, `run` (fill, `select!` over timeout / 3 s tick / stop / next task, then journal and statistics), `consume_pending`, `pop` | sink (calls), logs (shared), tasks (polled) |
| **Task** (`DefaultTxTask`) | position in its `async fn` | `send_watched_tx`, `send_tx` | sink, log, block monitor |
| **Execution log** (`execution_log.rs`) | stamped events per transaction, shared atomic counters | `push_event`, `count_event`, `buffered`, `make_stats`, CSV rows, `save_logs`, `load_logs` | runner, tasks, the disk |
| **Block monitor** (`block_monitor.rs`) | callbacks, mortal accounting, channel of registrations, two subscriptions | connect, register, take a registration, handle a finalized or best block | tasks (channel, oneshots), node (subscriptions) |
| **Subxt sink** (`subxt_transaction.rs`) | cached pool count, nonces, accounts | `submit`, `submit_and_watch`, `pending_extrinsics`, `check_account_nonce`, `derive_accounts`, transaction creation | node (RPC) |
| **Fake sink** (`fake_transaction*.rs`) | event streams for the tests | the same interface | runner |
| **Helpers, errors, example** | none | wiring | all |

What is hard in it: everything in a run is one tokio task that multiplexes many
futures, so tasks, ticks, laps and the end of the run interleave; the threshold
is computed from five counters and a cached remote count; the block monitor runs
beside the runner and hears of transactions and of blocks over different
channels, one of which may fall silent; the build allocates nonces from several
tasks at once; account ranges are cut up with unsigned arithmetic that panics in
one build and wraps in the other; a node may come up or go down between any two
requests; and the report is computed from a wall clock. `PROJECT.json` lists
each hazard at its line.

What makes each part correct: a sound command is built for the accounts it
names or ends with a reason; the build gives every account a contiguous range of
nonces in the order the runner pops; the runner loses and repeats nothing, keeps
the threshold, files truthful outcomes and ends; the log's counters say what its
events say, and so do the statistics, before and after the journal was saved and
loaded; the monitor answers whoever waits, and truthfully; the sink's count
keeps the pool within the threshold.

## Modules

| Module | Models | Stands on |
|---|---|---|
| `ExecutionLog` | `push_event`, the counters, `buffered`, statuses | |
| `TxBatch` | abstract: what a run promises for a batch | |
| `Runner` | `Runner::run`, `consume_pending` and the tasks, against any sink | `ExecutionLog`, refines `TxBatch` |
| `BlockMonitor` | the monitor's task, the channel, the chain | |
| `MonitoredRun` | the tasks of a run with the monitor's task, subscriptions that fail | `Runner`, `BlockMonitor` |
| `SubxtRun` | the runner with the subxt sink's cached count and a node's pool | refines `Runner` |
| `FakeRun` | the runner with the sink of the crate's tests, a closed system | `Runner` |
| `RunReport` | the end of `run()`: stamps, journal, statistics; loading a journal | `Runner` |
| `Startup` | the commands, `build`, account derivation, the connector, a node that comes and goes | |
| `ScenarioBuild` | concurrent build, nonce allocator, mortality, order of the batch | |
| `MC...` | constants for TLC | |
| `RunnerProofs` | theorems about a run and its log | `Runner` |
| `SubxtProofs` | the refinement and two theorems about the pool | `SubxtRun`, `RunnerProofs` |
| `FakeRunProofs` | the refinement and theorems about the fake sink | `FakeRun`, `RunnerProofs` |
| `MonitoredRunProofs` | the composition keeps what the runner promises | `MonitoredRun`, `RunnerProofs` |
| `BlockMonitorProofs` | theorems about the monitor | `BlockMonitor` |
| `RunReportProofs` | theorems about journal and statistics | `RunReport`, `RunnerProofs` |
| `ScenarioBuildProofs`, `StartupProofs` | theorems about the build and the start | `ScenarioBuild`, `Startup` |

### Runner and ExecutionLog

A transaction is identified by its hash; payload, block hashes and error texts
are left out. `pc` says where `run()` is: `"fill"` (initial popping
loop), `"select"`, `"query"` (inside `consume_pending`, waiting for
`pending_extrinsics`), `"pop"` (its loop), or how it ended. A task is a value of
`workers`; because all tasks are polled by `workers.next()` in the `select!`,
they step only when `pc = "select"`. `result` is the local of runner.rs:389 that
lives across the await of `consume_pending` until runner.rs:393. `Finish` is a
task's return together with the beginning of the lap it opens.

The sink is the most general one its trait allows: any answer to a submission,
any sequence of statuses, any count. What goes beyond that is switched on by the
constant `Environment`: `ctrl_c`, `sender_dropped`, `rpc_fails` (the unwraps of
the subxt sink), `monitor_dies`, `debug_build` (overflow panics).

The counters are shared by all logs and updated with the log in one step: a log
has one writer, its task, and between counting and appending there is no await.
`Unanswered` is the difference before it is a `usize`; `buffered` wraps it.

The timeout is counted in whole 3 s ticks. A lap opened by a tick takes at least
one off; any lap may take more. With less than a tick left only the timeout can
fire.

### BlockMonitor

The chain is external: a growing sequence of sets of transactions. `listener`
holds the state of each waiting task and its oneshot, `listener_request` the
bounded channel, `callbacks` and `mortal_accounting` the maps of the code.
`HandleFinalized` is the whole of `handle_block`. Blocks beyond the first panic
or failed fetch are nobody's: `Die` drops the maps and the channel, which closes
every oneshot. `since` is a history variable: how many blocks were handled when
the registration was taken. Best blocks are handled for display only.

### MonitoredRun

Two tokio tasks that meet in three places, each a conjunction of an action of
`Runner` and one of `BlockMonitor`: a submission that is accepted, a task that
registers, an answer that arrives. `Watched` is empty: watched transactions are
followed by their stream and never register. `BlockMonitor`'s tasks become the
runner's; a task whose run has ended has dropped its oneshot (`TasksDropped`).
Here the subscription may fail as the `select!` of block_monitor.rs:160-178 sees
it: an item that is an error, and the end of the stream, do not match
`Some(Ok(block))`, so the branch is disabled, for this `select!` or for good, and
the monitor goes on without. `missed` remembers which blocks an error stood for.

### SubxtRun

The composition keeps every action of `Runner` and adds what the general sink
leaves open: the node's pool per transaction, other senders' transactions, and
`current_pending_extrinsics` as a count with an age. The answer to
`author_pendingExtrinsics` travels: the pool may change between counting and
arrival. `Consistent` ties what a task logs to where its transaction is. A
transaction that left the pool does not come back; a node that resubmits after a
fork could only make the pool larger than any count the tool could have.

### FakeRun

Each transaction brings the statuses to be played for it (`StreamDefs`, of which
only the first stream is ever used: nothing advances `current_stream_def`), and
`txs` is the sink's set of hashes. `submit_and_watch` awaits nothing, so between
`FakeSend` and `Subscribe` of the same poll no other step of the run is taken
(`Subscribing`); a delay in a stream is any time. A stream whose last status is
not terminal is allowed for watched transactions; for the others `submit_result`
is `todo!()`, which the assumption excludes.

### RunReport

`RunStep` is any step of `Runner`, and what it logs is stamped by a clock that
moves on or, once, is set back. When the loop is left the journal is created
(under a name made of directory, prefix or executor's id, and the second),
written, and the statistics are computed. `file` is what is on the disk, not its
text: another executor's `File::create` of the same name truncates it, and two
open files of one name write over each other. `make_stats`, `CsvEntry` and
`LoadLog` are functions of the logs: times from `Sent` to the first event of a
kind, counts, reasons, the timeline of statuses. Means and quantiles are left
out. What `load_logs` reads is what `save_logs` wrote, a file that serde cannot
parse, or another run's.

### Startup

One action per await of a command. `Configure` is everything `main` or the
builder expects before it does anything; `ConnectMonitor` comes before the
connection that is retried, because `BlockMonitor::new` is evaluated as an
argument; `Derive` is `derive_accounts`; `Connect` and `FromBackend` are one
attempt, `ConnectClient` the sink's second connection. The endowing command
writes the chain spec the node is started with next (`chain_spec`, `endowed`).
`machine` chooses the build (a debug build panics on overflow, a release build
wraps: `Length`, `ChunkStart` and `RangeEnd` keep their widths) and the number of
threads. `met` and `last_met` remember what the command's contacts with the node
met. Names are abstract but for `Parse` and `to_string`, which tell `"05"` from
`"5"`. `session` is a sequence of commands, the second of which may share the
process of the first.

### ScenarioBuild

One action per step of a build task between two awaits or locks: take the
parameters and look into the allocator, ask the node, allocate under the write
lock, create the transaction. A mortal one is created in two requests, each of
which asks for the last finalized block: the library's, from which it makes the
transaction's era (`born`, `EraPeriod`: a power of two of blocks, at least four),
and the tool's own, to which it adds the mortality as it was given to tell the
block monitor when to give up (`valid_until`). `EraPeriods`, `EraPeriod` and
`EraBegin` are the library's rounding, external and modelled from `mortal(n)`.
The node's nonces and blocks may move during the build. `Join` awaits the handles in order and `Finish` sorts and reverses.

## Runs

| Run | Question | Result |
|---|---|---|
| `RunnerFaults` | all interleavings of a mixed batch under a threshold, with RPC panics, a dying monitor, timeout, stop, dropped sender: is anything lost, repeated or misfiled, and do timeout and stop request end the run? | no; yes |
| `RunnerRpcFails` | does the timeout guarantee logs? | **no** |
| `BlockMonitorSafe` | are answers truthful, and whoever waits released? | yes |
| `BlockMonitorLost` | is every finalized transaction reported so? | **no** |
| `MonitoredRunSafe` | monitor and run together: are recorded outcomes true of the chain, does only a dead monitor unwind the run, and does the run end if the monitor hears everything in time? | yes |
| `SubxtSafe` | are the counters of unanswered submissions exact, do laps and fresh counts keep the threshold, and does only a full pool leave anything behind? | yes |
| `SubxtUnwatched` | does a run that completes send its batch? | **no** |
| `FakeCompletes` | against the tests' sink: is its count exact, the threshold kept, the batch drained, every outcome the right one, and does the run end by itself? | yes |
| `ReportConsistent` | do statistics, counters, CSV rows and a journal loaded later tell the same, and does the journal survive a clock set back, a full disk, a kill and a second executor? | yes |
| `StartupSafe` | is every id of a range derived once, every sound command built (numbers such as `05` excepted), nothing else built, and does every command end with a reason? | yes |
| `BuildAllocated` | nonces, order of the batch, lifetimes up to the rounding of eras, termination of the build | hold |
| `BuildGivenUpEarly` | is a transaction reported dropped only when no block may contain it any more? | **no** |

The runs that fail, and one exception that a passing run has to make, are the
findings of `PROJECT.json`, each with the sentence of the repository it
contradicts:

- A failing RPC unwinds `run()` before the journal is written, with or without a
  timeout.
- A block handled before the registration of a transaction in it leaves the task
  waiting for ever.
- The run ends when no task is in flight even if the threshold holds
  transactions back. Unwatched transactions without a monitor finish on
  acceptance, so a batch larger than the threshold typically ends early. (With
  watched ones it takes a cached count that still includes the last one:
  `DrainsBatch` also fails with `Watched` set to the whole batch.)
  `FakeDrainsBatch` shows why no test of the crate meets this: the fake sink's
  count never holds what has finished.
- A mortality is rounded up to an era, but the monitor is told the finalized block
  plus the mortality itself: a transaction of mortality 2 made at block N may get
  into block N + 3, and "Mortal transaction lifetime surpassed" is reported at
  N + 2. `EarlyOnlyByRounding`, checked and proved, says that rounding is the only
  reason: with a mortality that is a power of two, and at least 4, nothing is
  given up early.
- An account id such as `05` is a number (`"05".parse::<u32>()` succeeds), but does
  not behave the same as `with_start_id(5)`: the account is derived as `5`, looked
  up as `05`, and the build panics with "to account exists". `SoundIsBuilt` takes
  the documentation's side in `Sound` and names this panic as an exception
  (`NamedAsDerived`); with the exception deleted `StartupSafe` fails on the
  command whose account is `05`.

Some properties are as strong as the code allows, and say so in their
conditions:

- `PanicMeansMonitorDead` and the proved threshold assume nothing more than a
  living monitor, and need it: registering with a monitor whose task has ended
  panics in the runner's task, and the journal is lost; a listener it closes
  makes the task log a second result, after which `buffered` is wrong.
- `OutcomeTrue` speaks of the blocks handled *since the registration*: a mortal
  transaction in an earlier block is reported dropped although it is finalized.
  The lifetimes of `BlockMonitor` and `MonitoredRun` are what the monitor is told,
  not the eras of `ScenarioBuild`.
- `SummaryAgrees` compares Validated and Broadcasted one way only: a stream may
  repeat them, the counters count every repetition, and the statistics a
  transaction's first. Of these two there is never a transaction in the statistics
  that the line does not count.
- `TimeoutEndsRun` and `StopEndsRun` say that the run ends, not that it ends with
  its logs: a failing RPC, or a monitor that is gone, unwinds it first.
- Only a count the node has just answered keeps the threshold
  (`FreshCountKeepsThreshold`): laps within a second of each other use the
  cached one, which does not hold what was accepted in between.
- `JournalSurvives` speaks of executors that are told apart (`Distinguished`):
  with a prefix and a directory the executor's id is not part of the name, and of
  two runs that end in the same second the later one truncates the journal of
  the other.
- `UnwindsOnlySetBack`: a clock set back between a submission and its outcome
  panics the statistics; the journal is on disk by then, but loading it panics
  the same way.
- `GivesUpForAReason`: a node that is still starting is waited for
  `MAX_ATTEMPTS` times, one that refuses the connection is not, and a monitored
  scenario does not wait at all.
- `EndowedSuffices` holds for one chain spec: funds for a second range are
  written over those for the first if the same output file is given.

### Bounds

Three transactions are enough for one in each stage and one to be popped; of the
three one is watched and two are not, so both task bodies interleave. Threshold 2
makes laps top up while another submission is open. `PendingCounts` covers zero,
below and at the threshold; two ticks of `Timeout` let laps
take part of it; in `SubxtRun`, all a node with `MaxForeign`
other transactions could count. `MaxStatuses` lets an `InBlock` be repeated and
retracted before the terminal status. `UsizeMax = 20` is larger than any count
and smaller than what an underflow would give. `FakeCompletes` has five
transactions under a threshold of two, one of which a leaked hash takes for good.

The monitor's blocks reach one past the longest lifetime (`MaxBlocks`); its
channel (`Capacity`) is shorter than the number of transactions, so tasks wait for
room. `MonitoredRun` has transactions of one and of two blocks' lifetime, three
blocks, a channel of one and one error in a block's place (`MaxMissed`): the
error may hide either the transaction or the end of its lifetime.

`RunReport` needs two transactions to tell a maximum from a minimum and a count
from a Boolean, one watched and one not, at most two statuses each (an `InBlock` and
what follows, or a repetition), and a clock of two readings (`MaxClock = 1`): equal,
later and earlier stamps all occur. The clock is set back at most once. Two
executors share a directory, with and without a prefix. Validated and Broadcasted
occur in no stream of that run; what `SummaryAgrees` says of them is proved.

`Startup` keeps the code's `MAX_ATTEMPTS` of 10. A `u32` of three bits and a
`usize` of six (`U32Max = 7`, `UsizeSpan = 64`) leave the widths in their order: a
reversed range wraps to far more than `MaxAccounts` ids, no product of a thread's
number and a range's length within memory wraps. Commands name ranges of every
length from reversed to full, with one to three threads, and every way to name a
single account; pairs of commands share funds or a process. The node goes down once
(`MaxLosses`).

In the build four transactions of two accounts over three tasks make uneven chunks,
the larger of which may share an account with another task; one block is finalized
between any two requests (`MaxFinalized`), and others get one transaction of an
account into a block (`MaxAdvance`). A mortality of 2 is one that is rounded, by two
blocks; the others are the theorem's.

### Fairness

`Runner!Fairness`: the runner's own steps and its timers happen, the count is
answered, a task in `workers` is polled once it is pushed (`FuturesUnordered`
polls every woken future), and receiving a stop request is strongly fair because
`select!` polls its branches in random order and a request stays ready. A sender
that is gone may stop the run at any `select!` but is not assumed to, so that it
cannot stand in for the timeout. Nothing is assumed of
submissions, streams or the monitor. If the node never answers
`author_pendingExtrinsics`, the run hangs: neither timeout nor stop is looked at
inside `consume_pending`.

`FakeRun` lets every delay pass: a task's polls and the
end of the run are strongly fair, because laps keep leaving the `select!` and its
branches are polled in random order; ticks may go on for ever, and neither the
timeout nor a stop request is needed.

`MonitoredRun` runs both tokio tasks, answers submissions and finalizes blocks.
The tasks and the end of the run are strongly fair for the same reason as in
`FakeRun`. The subscription is not assumed to last: `HeardRunEnds` has that as its
condition, together with registrations that come in time.

`BlockMonitor!FairSpec` and `ScenarioBuild!FairSpec` only let spawned tasks run and
requests be answered, if with an error; `Startup!FairSpec` only lets the program
run, whatever the node does, as the RPC client gives up on a request after a while.
`RunReport` and `SubxtRun` are only asked for safety.

## Proofs

All theorems hold for every value of the constants that satisfies the module's
assumption. `RunnerAssumption` says that the batch lists each transaction of a
finite `Tx` once (the logs are keyed by hash) and fits a `usize`.

The run and its log:

- `TypeCorrect`: the types are inductive by themselves. Popping needs
  `LastOfQueue`, what is at the end of a sequence and what remains.
- `NoneLostNoneTwice`: `ExactlyOnce` (five places cover the batch, their sizes
  add up) is not inductive, since equal sizes do not exclude overlaps.
  `PlaceInv` adds that the places are pairwise disjoint and that a result is
  pending only while a lap consumes; each action moves one element.
- `BufferedIsExact`, `ThresholdIsKept`: `BufferInv` says that the counters'
  difference is the number of unanswered submissions *and* that in a popping
  loop what may still be popped fits under the threshold; the second part is
  what carries the bound over the loop. Both assume that the monitor's task
  lives (`"monitor_dies" \notin Environment`).
- `OutcomesAreTrue`: a log shows a success exactly if its transaction is filed
  under done, or about to be; needs `PlaceInv`, so that a task in flight is in no
  outcome list.
- `StatisticsLineIsTrue`: `CountInv` says that each counter is the number of
  `Places`, pairs of a transaction and a position in its log, that hold its
  event, and for `InBlock` the number of transactions that have one. A push adds
  one place to one kind (`PushPlaces`); a step that pushes none changes none.
- `UnlimitedRunDrainsBatch`: without a threshold `run()` never finds its tasks done
  with transactions left; `UnlimitedInv` says that a popping loop has room for all
  that is queued. All runs under TLC have a threshold.
- `RunnerImplementsTxBatch`: a pop is `Launch`, recording is `Conclude`, any end
  or panic is `End`, all else stutters.

The subxt sink:

- `SubxtRunImplementsRunner`: every step of `SubxtRun` is one of `Runner` or a
  stutter, so that all of the above holds of it. It needs `CountsInv`: a count in
  the cache, or on its way, is one the general sink may give.
- `OnlyAFullPoolLeavesBehind`: `LeftInv` follows a lap from the count it uses to
  the end of its popping loop: unless the count fills the threshold, the loop
  ends with a task in flight or an empty queue. It assumes a living monitor,
  through `BufferInv`.
- `FreshCountsKeepTheThreshold`: `TravelInv` says that what has left the pool
  since the node counted can only make the travelling count too large, and what
  has entered it is among the unanswered.

The fake sink:

- `FakeRunImplementsRunner`: every step of `FakeRun` is one of `Runner` or a
  stutter, given that what a script plays is among what the general sink may report.
  `ScriptInv` says that the log of a watched transaction is what its script has
  played so far.
- `SinkCountIsExact`: `TxsExact` is inductive with the places of `PlaceInv`, the log
  of a leaked transaction (`OutcomeMatchesLog`) and `ScriptInv`: a stream's first
  terminal event is the one that removes the hash.
- `FlightIsBounded`: the threshold is kept for tasks, not just for unanswered
  submissions, because this sink's count covers what the popping loop will meet.
  `FlightInv` carries that count over the loop.
- `OnlyLeaksLeaveBehind`: `DrainInv` says that a loop which ends with nobody in flight
  has used a count made of leaked hashes alone.
- `ScriptsDecide`: `VerdictInv` says it of everything that has left the workers. Its
  hypothesis `OneVerdict` is one of the fixtures: for a script that is not watched
  `submit_result` looks at the last status, so that a script saying Finalized and
  then Dropped would be filed by its end. None of the crate's has two verdicts.

The run beside the monitor:

- `MonitoredRunImplementsRunner`: the same refinement. Theorems of an instantiated
  module are out of the prover's reach, and `MonitoredRun` is not `BlockMonitor`: its
  subscription may skip blocks. So the invariants below are stated here again.
- `RecordsAreTrue`: `TellsInv` says that what a listener was told is true of the blocks
  handled, and stays so; `ListenerInv` that a registration is in one place; `LogsInv`
  carries the answer from the listener to the log, and says that a second result
  comes from a channel that was closed.
- `OnlyADeadMonitorUnwinds`: `AliveInv` is `BufferInv` and no panic as long as the
  monitor's task runs: the counters become inexact, or an unwrap fails, only in a
  step that finds the channel closed. It assumes that the node's count is
  always answered, as a failing one unwinds with or without a monitor.

The monitor:

- `MonitorTypeCorrect`, `WaitersAreKnown`: `ListenerInv` ties a waiting task to
  exactly one place, channel or callbacks, and a dead monitor to nobody waiting.
- `NoBlockIsMissed`, `MonitorTellsTheTruth`: `AccountingInv` says that the mortal
  accounting lists every callback whose lifetime is yet to end at the block that ends
  it; `AnswerInv` that what was answered was true when it was said, and
  stays so, as handled blocks do not change.

The journal and the statistics:

- `ReportTypeCorrect`: a step of the run writes at most one event (`RecordsOneEvent`),
  and `RunStamps` one stamp with it.
- `OnlySetBackUnwinds`: `SentInv` says that nothing but Popped and Sent comes before
  Sent in a log, so that the first of any other event has a stamp at least as
  late (`StampInv`) unless the clock was set back.
- `SavedJournalStays`, `LoadedJournalTellsTheSame`: `EndInv` says what is in the file
  and in the journal at each stage of the run's end. `PathsDiffer` keeps another
  executor out of the file, and a run that has ended records nothing any more
  (`EndedIsOver`), so that what was saved is what the statistics are made of.
- `PrintedStatisticsAgree`: the statistics read the logs in three ways, and each is
  reduced to the sizes that the counters have. `ProgressInv` says that a log shows how
  far its transaction has come (queued, popped, sent, answered) and that what ends a
  transaction is logged once: the first event of a kind is then as good as every
  event (`SinglePlaces`), what may repeat has at least a place for each transaction
  (`RepeatsCounted`), and what has no result is `Unsubmitted`. Folds over a set are
  recognised by how they grow with one element (`SumsAreTotal`, by a least subset on
  which two sums would differ): the failure reasons are the `Places` of their event,
  the timeline counts each submitted transaction once. `ProgressInv` holds also when
  the monitor dies; only `buffered` needs it alive, because a dead one answers an
  accepted submission again. `StatisticsAgreeIfBufferedExact` says so.

The start and the build:

- `RangesAreSplitOnce`: the chunks of `k * n / threads` begin where their
  predecessors end (`Split...`: monotonicity and bounds of integer division),
  and no product wraps as long as the range fits the assumption on `UsizeSpan`.
- `BuiltIsWhatWasAsked`: `BuiltInv` says what each phase has already found true of
  the command, what was derived by then and what was found among it (`FoundIsSound`:
  a number is looked up as it was typed and derived as it is written).
- `GivingUpHasAReason`: `AttemptInv` says that attempts reach `MAX_ATTEMPTS` only with the panic
  that ends them, and that the monitor connects before any account is derived.
- `StartupTypeCorrect`: needs that a range which wraps derives nothing or too much
  (`WrappedRange`), so that every id that is derived has a name.
- `FundsReachTheirScenarios`: `FundsInv` says that a chain spec with accounts has those of
  an endowment of the session, as ids from start to last and not as threads split
  them; a scenario that got as far as asking for nonces has derived its accounts
  under the names it looks them up.
- `SoundCommandsSucceed`: at a node that serves, `SteadyFacts` rules out one
  expect after the other; the range's ids are derived under the names its
  transactions use, on any number of threads, and fit into memory. A number that is
  not written as the program writes it is the one case that `SoundIsConfigured`
  leaves open.
- `NoncesAreContiguous`: chunks are disjoint intervals of the parameters
  (`ChunkBounds`, `ChunksDisjoint`, from facts about integer division);
  `AllocatorInv` adds that a task has given no nonce to what it has not come to
  and that a task that finds the allocator empty has fetched one.
- `GivenUpEarlyOnlyByRounding`: `LifetimeInv` adds that eras begin in the past
  (`EraBeginsInThePast`), and that a transaction a task has not finished has not been
  told of; `EraPeriodExists` says that there is a power of two to round up to.
- `BatchComesInOrder`: `JoinInv` says that the tasks before the next to join are
  done, that what they built is a prefix of the parameters, each with the nonce
  given or allocated, and that chunks meet (`ChunksMeet`), so that at the end it
  is all of them. An account's parameters are an interval of `txs_count`
  (`OwnInterval`) and their nonces have no gap (`OwnContiguous`, from
  `NoncesContiguous`, or from the remainders of the division). Ranks by nonce are
  a permutation (`Ranks`, `Sorting`: an injection of a finite set into itself is
  onto), so sorting loses nothing and orders the rest.

Only model-checked: liveness (`TimeoutEndsRun`, `StopEndsRun`, `FakeRunEnds`,
`TakenIsNotified`, `HeardRunEnds`, `BuildEnds`, `StartupEnds`), as the prover does not
reason about fairness and `ENABLED`, and the findings, which are counterexamples. All
invariants, the refinement and the action property of the runs that pass are proved.

## Not modelled

- Argument parsing, logging, progress display, key derivation, payloads and RPC
  encoding, because no property is about them. A scenario's `--log-file` and
  `--show-errors` are parsed and not used.
- A mortality so large that the finalized block plus the mortality overflows a `u64`.
- A `send_threshold` of 0: nothing is popped and the run completes at once.
- A u128 nonce cut to u64 for the signed transaction: no nonce comes near it.
- Means and quantiles, which are floating-point arithmetic on measured times.
- The commands that only watch blocks or print metadata.
- A node that forks: finalized blocks are final, and best blocks are only shown.
- What hangs outside the tool: an `author_pendingExtrinsics` that is never
  answered holds the run, which no property here would show.
- That a run whose monitor has lost its subscription does not end by itself:
  `HeardRunEnds` has hearing every block as its premise. `TimeoutEndsRun` and
  `StopEndsRun` show that it ends with a timeout or a stop request.
