# Verification of BTCSpiker

TLA+ models of BTCSpiker, the TLC runs that check them on small instances, and
proofs, checked by TLAPS, of what matters most for every instance. The models
are translated from the source; where a name in a module is a name of the code,
it means the same thing. `PROJECT.json` maps every definition to its lines.

## The system

```
ws_ingest.py / replay_to_kafka.py
        | ticks.raw
        v
features/featurizer.py  --> ticks.outcomes (labels, 60 s later) ---+
        | ticks.features                                           |
        v                                                          |
feature_to_predict_bridge.py --POST /predict--> api/main.py        |
        | ticks.predictions                                        |
        v                                                          v
materializer/materializer.py: two consumer threads --> SQLite --> HTTP --> UI
```

Every topic has one partition and every long-running process restarts on
failure. Beside the pipeline there are offline tools: the search and
qualification of models, their publication, and the download and replay of
order-book history.

### Inventory

| Component | State it keeps | Operations | What is hard | What makes it correct |
|---|---|---|---|---|
| Read-model consumers (`materializer.py`) | SQLite file (two tables, WAL); committed offsets of two groups; per thread: connection, replay flag, position, pending batch, recovered partitions, prune counter | open/recover the DB, check the outcomes table, subscribe and rewind, poll, insert + prune, commit, restart | two threads on one file; crash between insert and commit; reassignment inside a batch; commits that fail for some partitions; the file lost or corrupt | no committed message without a row; a lost projection is rebuilt completely; retention is bounded; everything is projected in the end |
| Bridge (`feature_to_predict_bridge.py`) | position, message in hand, producer queue, delivery flag, asynchronous commits | poll, POST with retry, produce + flush with retry, commit, stop | lost and overtaking commits, late delivery callbacks, 5xx that block, eviction during an outage, a stop in a retry | no message passed without its prediction; predictions in order; no message blocked for good |
| Read-model HTTP API (`materializer.py`, `evaluation.py`, `timeline.py`) | performance cache, table of computations in flight; otherwise what the two tables hold | recent, timeline, performance | waiters of a computation that fails; pruning two tables by different clocks; which stream is the active one | one computation at a time and no waiter left behind; both pages grade the same rows alike; a complete window lacks no row |
| Materializer health (`materializer.py`, `api/system.py`) | last event, last write, broker flag, liveness of the threads | probe, report, read by the status API | a replay, a failed batch, a dead thread beside a live one | ok means the table is up to date |
| Featurizer (`featurizer.py`, `btcspiker_ml/features.py`; offline twin `scripts/replay.py`) | per product: last timestamp, redelivery window, epoch, pending labels, tick buffer | ingest, drain, flush at the end | redelivery that is not adjacent, auto-commit, ticks that raise half way, labels of the future | a tick counts once; a label uses exactly its following minute; ids are unique; serving and training agree |
| Parquet sink | temporary file, rows since the last finalisation | write, finalise, close | crash before the rename, a rename that fails | a clean stop leaves every labelled row in the file |
| Live ingestion (`ws_ingest.py`) | failures in a row, mirror file, last message time | connect, receive, back off, heartbeat, rotate | a task that dies alone, a disk that fails in the error handler, stop beside failure | a tripped breaker ends the process; exit code 0 means nothing was left in the queue |
| Replay ingestion (`replay_to_kafka.py`) | none shared | produce in order, loop | none of its own; it makes the featurizer see time jump back | not modelled; its ticks are inputs of the featurizer |
| Prediction API (`api/main.py`) | pipeline, contract, run id, loaded at the start; request, error and latency counters | load or fall back, predict | a stage that moves between the two requests of the load; a load that fails half way; an answer that makes the bridge repeat or drop a row | pipeline, contract and reported run belong together; only a row of another contract is refused for good, and only a misfit model or an undated row is repeated |
| System status (`api/system.py`) | cached status, pool of five workers, lock | status | a hung probe keeps its worker into the next rounds | a hung service does not hide the others |
| Search and holdout (`search.py`, `qualification.py`) | search state file, holdout seal, trials | stages, candidates, qualification | two processes on one file; crash after the seal | the final holdout is evaluated once |
| Run store and its page (`tracking.py`, `materializer/tournament.py`) | one directory of files per run | start, log, end; list, show | read file by file while it is written; stages killed or interrupted | a finished run is shown whole; page and search state agree on the winner |
| Splits (`splits.py`, `run_experiments.py`, `datasets.py`) | a dataset file | folds, calibration cut, refit, holdout cut, alerts | equal times, gaps, a file out of order, cuts made in two places | no row is scored by a model that saw its minute; the holdout stays sealed |
| Registry (`publish_candidate_to_registry.py`, `log_model_to_mlflow.py`) | registered versions, their stages and tags | look up, register, transition, tag, request by request | a script that dies between two requests; people who move stages | a half-published version is not taken for a finished one; no script promotes a candidate |
| History pipeline (`btcspiker_data/`) | shard cache, database tables, uploaded partitions, manifest | download, restore, export, upload, verify, remove | kills between the steps, garbled or foreign uploads, a transaction that outlives its step, trades of one second over two pages | what is deleted is stored; the manifest pins what it lists; a complete day lacks no trade |
| Book replay (`book_replay.py`, `materialize.py`, `quality.py`) | book, segment, gaps | anchor, deltas, sample, join, audit | gaps of the feed, overlapping gap windows | no segment spans a gap; each qualified second counts once |
| UI (`usePolling.js`) | generation, abort controller, timer | poll, change, hide, show, unmount | answers that arrive out of order; a tab hidden and shown in a request | a page shows what its parameter asked for; one chain of polls |

Offline numerics (training, scores), operator scripts and deployment
files are listed in `PROJECT.json` with the reason why they are not modelled.

## Modules

| Module | What it is |
|---|---|
| `Projection` | abstract: messages become rows and stay so; only a prefix of rows is acknowledged |
| `ReadModel` | the two consumer threads, the file and the groups |
| `MCReadModel` + 6 `.cfg` | its instances |
| `ReadModelProofs` | type, inductive invariant, at-least-once, complete replay, bounded retention, refinement of `Projection` |
| `Bridge` | the bridge, its producer and its commits |
| `MCBridge` + 1 `.cfg` | its instance |
| `BridgeProofs` | type, inductive invariant, refinement of `Projection`, order of events |
| `Holdout` | abstract: required stages complete, then the seal is broken once, then one look |
| `Tournament` | stages, the state file, qualification, verdict and registration |
| `MCTournament` + 2 `.cfg` | its instances with an overlapping stage and with failing stages |
| `Leaderboard` | the run store, written by a stage and read by the tournament page |
| `SearchProofs` | proofs about `Tournament` (with the refinement of `Holdout`), `Leaderboard` and `Splits` |
| `Splits` | folds, calibration, refit, holdout and alerts of a dataset |
| `MCSearch` + 1 `.cfg` | instances of `Tournament`, `Leaderboard`, `Splits` |
| `Masks` | what a filter keeps of an array, numbers in order, totals |
| `MaskProofs` | lemmas about least numbers, ranks, masks, totals, stretches and loops |
| `FeatureEngine`, `Replay` | the feature engine, and the offline builder around it (pure) |
| `Featurizer` | the live featurizer with its Parquet sink |
| `Evaluation`, `Timeline` | what the two pages compute from joined rows (pure) |
| `Grading` | scoring, labels, the two tables and their queries |
| `Charts` | samples of joined rows: the computations against reference definitions |
| `TradePages` | the pagination of a day's trades |
| `Book` | book replay, trade join and audit of a day with gaps |
| `History` | the download pipeline |
| `FeaturizerProofs` | proofs about `Featurizer` and `Replay` |
| `RecordsProofs` | proofs about `History`, `TradePages`, `Book` and `Grading` |
| `MCRecords` + 1 `.cfg` | instances of `Featurizer`, `Grading`, `Charts`, `TradePages`, `Book`, `History` |
| `WsIngest` | the two feed tasks, the breaker, the mirror, the exit |
| `PerfCache` | the performance cache and its handler threads |
| `SystemStatus` | the probe rounds of `/system/status` |
| `Health` | the health of the materializer and who reads it |
| `Serving` | the model registry, its two scripts, the API's start |
| `Predict` | POST /predict, its counters, and the bridge and clients that call it |
| `Polling` | `usePolling` on a page of the UI |
| `ApiProofs` | proofs about `Serving`, `Predict` and `SystemStatus` |
| `LiveProofs` | proofs about `WsIngest`, `PerfCache`, `Health` and `Polling` |
| `MCServices` + 1 `.cfg` | instances of `WsIngest`, `PerfCache`, `SystemStatus`, `Health`, `Serving`, `Predict`, `Polling` |

Definitions whose comment starts with "Slip:" are no part of the system: each is
a plausible mistake in the definition that follows it, used to show that a
property would notice.

### ReadModel and the code

| Variable | Code |
|---|---|
| `path`, `created`, `tables`, `rows`, `health`, `conn` | the file at `PREDICTIONS_DB_PATH`. A file is an inode: `_delete_db_files` unlinks the path and leaves the connections of the other thread open on the old one |
| `committed` | the offsets of the groups `KAFKA_GROUP_ID` and `KAFKA_OUTCOMES_GROUP_ID`; no offset is 0, for `auto.offset.reset` is `earliest` |
| `pc`, `booted` | where a thread is; that `lifespan` saw the predictions consumer ready |
| `replay`, `recovered` | `replay_from_beginning`, `committed_recovery_partitions` |
| `joined`, `pos` | membership of the group and position of the consumer |
| `batch` | `pending_batch`: offsets, whose events are looked up in the topic |
| `sincePrune` | `inserted_since_prune` |

| Action | Code |
|---|---|
| `Start`, `Stop`, `AllOff` | `lifespan`; a crash and a shutdown differ in nothing the models tell apart, since `consumer.close` commits nothing |
| `CheckOutcomesTable` | `_outcomes_table_missing` |
| `OpenDb`, `OpenAttemptFails` | `_init_db_with_recovery_status` under `_db_init_lock`, `_init_db_with_retry` |
| `Attach`, `Assign`, `StartsAt` | `_subscribe_for_projection` and its `_on_assign` |
| `Poll`, `CloseBatch` | the polling loop and its window |
| `Persist`, `PersistThenError` | insert, then prune; an error after the insert has committed |
| `Commit`, `CommitFailsPartly` | the commit, its per-partition errors, and a commit the broker took although the call raised |
| `Rejoin`, `Rebalance`, `Evict` | the group: assignments are served inside `poll` only |
| `ThreadFails`, `RestartThread` | an exception of the loop, `supervise_consumer` |
| `DeleteFile`, `DamageFile` | the volume removed while the service is down (docs/runbook.md), a corrupt file |

Abstractions. A topic is its whole content, `Log`; a message not yet produced is
one not yet polled, so producers need no action. A row is its primary key, and
`Rank` its place in the order that prunes; equal ranks leave the choice open, as
`ORDER BY feature_ts DESC LIMIT` does. An insert that fails rolls back and is a
stutter. The rows of a damaged file are left as they were, and no property
speaks of them. Left out: health counters and timestamps, the broker probe, the
contents of rows, and a database error that never goes away.

### Bridge and the code

`ticks.features` has one partition, so a message is its offset and `InHand` is the
one before `pos`. `Feature` says what `_build_row` makes of each: a row, an error
main catches and skips, or an AttributeError it does not catch (JSON that is no
object). `queue` is the producer's queue, `ok` the `delivered` flag of the current
`_publish_prediction`: the callback of an earlier, timed-out call sets a flag
nobody reads any more, and only the last event of the queue is the current
one. `commits` holds asynchronous commits on their way, which may be lost or
arrive in any order. `topic` keeps the first copy of each event, which is the
one the read model keeps. A stopped bridge is started again by the operator.

### Tournament and the code

| Variable | Code |
|---|---|
| `saved`, `file` | `.experiment-state/<search-id>.json`, a `SearchState`: `completed_stages`, `stage_parent_run_ids`, `completed_trial_ids`, `failure_counts`, `best_run_ids`, `final_holdout_opened` |
| `lock` | the flock of `_locked_state` |
| `pc`, `job`, `mem` | an invocation of `run_experiments.py` or `qualify_candidate.py`: where it is, its stage or candidate, the `state` object it loaded |
| `parents` | runs tagged in MLflow as parent of a stage |
| `looks` | calls of `_derive_evidence` |
| `verdict`, `registered`, `staged` | the `qualification.json` of a run, registered versions, versions in Staging |

| Action | Code |
|---|---|
| `BeginStage` | `run_stage` down to the early return: load or create, contract, recovered parent |
| `StartParent`, `SaveParent` | `tracker.start_run`, then the id is saved |
| `SkipStage` | the neural stage with a reason |
| `RunTrial` | one trial of the loop, in plan order, saved; the threshold |
| `CompleteStage`, `StageRaises` | the end of the loop and an exception, both with the save of `finally` |
| `BeginQualification`, `Seal`, `Evaluate` | `qualify_recorded_candidate`: lock and load; authorities, seal and save; evaluation and release |
| `WriteVerdict`, `Register`, `Transition` | `main` of `qualify_candidate.py` |
| `Die` | a kill, a refusal, an exception where nothing is left to save |

A trial is its number; `Score` and `Eligible` are what `aggregate_pr_auc` and
`_selection_eligible` say of it, and whether it finishes, fails or is pruned is
open. Evaluations of a batch run in threads but touch no shared state, and their
results are logged in plan order, so they need no action. `Save` is atomic, as
the rename makes it (two overlapping savers also share one temporary name, which
is left out). Of the reasons to skip the neural stage only the missing stages are
in the state file; rows, events and the plateau are open. A parent run whose
process dies before `set_tags` is found by no search, so `parents` counts tagged
runs. `Overlap` says whether the operator runs a stage beside a process that
holds a copy of the state file; qualifiers may always race.

### Featurizer, its engine and its offline twin

| Variable | Code |
|---|---|
| `raw`, `committed`, `pos` | `ticks.raw`; the offset the background commit stored; the consumer's position |
| `boot`, `mode` | `boot_id`; whether the process runs, closes, has stopped or is down |
| `stream`, `engine` | a `ProductStream` (epoch, seq, last timestamp, recent keys) and its `FeatureEngine` (buffered ticks, pending rows) |
| `sink`, `target` | `AtomicParquetSink`: row buffer and temporary file; the file readers see |
| `handed`, `labelled` | ghosts: rows passed to `produce()`; labelled rows of this boot |

`Poll` is one turn of the loop of `main`, with `ProductStream.ingest`, the engine,
both produces and the sink; `Shutdown` the `finally` clause that drains and closes
the consumer, `Close` the sink's rename, `Crash` and `Start` what compose does.
The tick in hand is one step, since the process has one thread and a crash
inside it loses only memory. A volatility is the set of ticks it is computed
from: which ticks these are is what can be wrong. A tick names where it makes the
engine raise (validation, conversion of the price); one product stands for
each, since products share nothing. `Replay!OfflineRows` is `scripts/replay.py`,
merge, deduplication and drain, on the same engine.

### WsIngest

`task`, `fails`, `stopEvent`, `circuitBroken` are the locals of the tasks and the
shared events; `buffered` and `mirrored` the lines of `MirrorWriter`; `queued` the
producer's queue. `Tick` is a message of the feed with the backlog check every
`PollInterval`; `ClosedOk`, `ConnectionClosed`, `OtherError` the three ways a
connection ends, with the mirror flushed where the code flushes it (in the
handler itself, whose exception kills the task: `Dies`); `Wake` the end of a
back-off; `StopTasks`, `Cancelled`, `Exit` the shutdown. An action is what one
task does between two awaits.

### PerfCache

A step is what a handler thread does between two points where it does not hold
`_perf_cache_lock`. `BecomeOwner` and `BecomeWaiter` are the two outcomes of the first
critical section, `Compute` the rows read, `Release` the `finally` that frees the
slot and sets the event, `StorePayload` the second critical section, which comes
after it; `WaiterReturns` and `WaitTimesOut` the two ends of the wait. A payload is
the moment its rows were read.

### SystemStatus and Health

`StartRound`, `WaitOver`, `ListService`, `EndRound` are one call of `_compute_status` under the
lock: probes are submitted to a pool with one worker for each service,
`futures.wait` returns, each service is listed or its probe cancelled, and the
list is cached. `ProbeDone` happens at any time in between; a probe is
`<<round, service>>`, so that one left over from an earlier round is told apart.
There is no clock in a round. Its limit counts from the submission, so what
`LimitStretched` asks when the wait ends is that a probe that was taken at once
(`prompt`) is back unless its service hung; a probe that had to wait for a worker
may by then be queued, running or back. `Hang` lets a service hang or come back.
`Health` has the timestamps of `ConsumerState`, which
`InsertBatch` sets from the rows just inserted, the deaths and restarts of both
consumers, the broker and the thread that probes it, and the two readers:
`HealthOk` is `health_snapshot`, `Degraded` the verdict of `_check_materializer`.

### Grading, Evaluation, Timeline, Charts

`Grading` has one action for each event a grade depends on: the bridge scores a
row (again, after a crash), the featurizer publishes a label, either consumer
stores the next message and prunes, the tables are rebuilt. The queries are
operators on its state: `Segment` is `_current_stream_segment`, `WindowRows` the join
of the performance window, `TimelinePoints` the chart of the same stretch.
`Evaluation` and `Timeline` translate the Python functions they are named after;
scores, volatilities and prices are small numbers, `None` is -1, and the average
precision is an integer numerator over a common denominator, so nothing is
rounded. `Charts` lets a sample of rows grow and compares them with definitions
of what they are for.

### Serving

A version stands for its run, its pipeline and its contract. `script` is where
each invocation of the two scripts is; each request to the registry is a step,
and `ScriptFails` ends the script before any of them. `ApiStart`,
`ApiLoadPipeline`, `ApiReadContract` are the top of `api/main.py`, whose first two
requests name the stage independently; `FallBack` is the pickle, or the end of the
process where the selection is not the legacy one. `PersonMoves` is somebody in
the MLflow UI.

### Predict

`call` is the request and who sent it, `answer` its latest answer: the bridge asks
again after a 5xx, any other client takes what it gets. `RefuseMalformed` is
pydantic's validation, before `predict` is entered; `RefuseContract` the contract
loop, `FailFreshness` the parsing of `ts`, both before the `try` block; `RefuseMissing`,
`FailScoring` and `ScoreRows` its three ends. `requests`, `errors` and `timed` are the
Prometheus counters. A model is what the answer depends on: variant, contract,
whether it takes columns beyond the seven, whether its pipeline fits them, and
what statistics its scaler has. `Bridge` leaves the answers open; here it is
what they depend on that matters.

### Leaderboard and Splits

`runs` is the run directory of MLflow, a run the set of the groups of files it has,
in the order `LogItem` writes them; `writer` is one stage with its copy of the
record, `record` the state file, `reader` a request of the page, which reads
one group of one run at a time (`ReadPart`), status first. A trial is pruned
nowhere in the repository (no evaluator returns that outcome), so a run ends as
finished, failed or skipped. `Tournament` has the same stages with the record
whole; `Leaderboard` looks at one stage call by call.

`Splits` lets a file grow row by row and has, as operators, what the code computes
from it: `MakeTemporalSplits` is the function of that name, `FitRows` and
`CalibrationRows` the cut of `_TemporalCalibrationSplit`, `Refitted` the rows of the
final fit, `Holdout` the cut that qualification makes by itself, `Alerts` the loop of
`event_metrics`. A row is its time and its target.

### Polling

`page` is the mounted component: parameter, generation, timer, what it shows.
`flights` are the requests on their way with the mount and generation they belong
to; an aborted one may still deliver, which `Dropped` ignores. `Select` is the remount
that `key={windowMinutes}` causes.

### TradePages, Book, History

`TradePages` counts in half-seconds, so that trades share a second; `covers` is
open, since nothing in the code fixes whether the exchange takes an integer `end`
for the second's first instant or for all of it. In `Book` a second either lies in
a gap (`GapSecond`), or has an anchor or not (`BookSecond`), or contradicts the book
(`BookRaises`); the join and the interval arithmetic of `audit_dataset` are
operators over the states yielded. `History` is `run_history_download` phase by
phase: `histPc` says what comes next, `Stops` ends the process at any phase, and
only cache, local partitions, staging tables and Hub survive it. A revision of
the Hub is the set of files it has, each intact or not; `txOpen` is the
transaction the connection holds, which matters because the staging tables are
truncated by another session. Partitions are content-addressed, so only the
trades of two runs may differ.

## What the runs show

| Run | Properties | What it asks |
|---|---|---|
| `read_model_intact` | `IInv`, `ImplementsProjection`, `EventuallyProjected` | both consumers, one partition each, three faults out of stop, thread exception, failing initialisation, failing prune, failing commit, reassignment |
| `read_model_two_partitions` | `CommittedIsKept`, `RetentionHolds` | one consumer on two partitions, batches that span both, commits that fail for one, evictions, restarts; five rows against a cap of two |
| `read_model_rebuild` | `ReplayIsComplete` | the file deleted or damaged up to three times, up to three inodes, reassignments during the replay |
| `read_model_restart_in_rebuild` | `PredictionsReplayed` (violated) | a rebuild interrupted before its first commit |
| `read_model_outcomes_race` | `OutcomesReplayed` (violated) | the file removed, both threads start |
| `read_model_outage` | `KeepsPolling` (violated) | the group drops a consumer once |
| `bridge` | `IInv`, `FirstsInOrder`, `ImplementsProjection`, `EventuallySettled` | every fault, three of them, a topic with a malformed and a crashing message |
| `tournament_resume` | `IInv`, `OneParent`, `StagedIsSound`, `StateGrows`, `ImplementsHoldout`, `BoardInv`, `SplitsInv` | two processes; stages that fail, die and resume, racing qualifiers that die; the run store read while it is written; the splits of every small dataset |
| `tournament_overlap` | `HoldoutSpentOnce` (violated) | a stage beside a qualification |
| `tournament_failures` | `FailedStageStops` (violated) | a stage resumed after too many failures |
| `services` | `IngestInv`, `SingleFlight`, `RefusalExplained`, `StatusInv`, `HealthInv`, `RegistryInv`, `ServesOneModel`, `PredictInv`, `PollingInv`, `BreakerExits`, `WaitersAnswered` | the seven processes that answer, ask or supervise |
| `records` | `StreamInv`, `RowsInv`, `OfflineParity`, `GradingInv`, `MatchedStay`, `SegmentMovesOn`, `OneStory`, `ChartsInv`, `HistoryInv`, `ManifestPinsAll`, `PagesInv`, `BookInv` | the six parts that make or judge records |

The last two, and `tournament_resume`, instantiate several components that share no
state. A behaviour is
one of a single component, chosen at the start, while the others stay as they
are: their state spaces are added, not multiplied. Deadlock is checked
in `tournament_resume`, where the two parts beside the tournament may rest, and not
in the other two: a service may be left alone once its bounds are reached, and the pipeline,
a finished download and a stopped process end.

What the properties of these three runs say, beyond their names:

* `LabelWhole` (of `RowsInv`): a label uses every tick of its own horizon that the topic carried,
  but for ticks within the slack at its start and ticks after the last one used.
  The exemption at the start is what a reset of the engine leaves.
* `OfflineParity`: a clean first session labels exactly the rows `replay.py` builds
  from the same ticks, if they came in order and no repeat lies further back
  than the window of 256 keys.
* `CompleteMeansWhole` (of `GradingInv`): a payload that calls itself complete lacks no
  row of its window that was ever stored.
* `OneStory`: performance page and timeline give the same calls.
  Both treat the instant of the outcome as too late; the slip that lets one of
  them differ is found.
* `QualifiedExact` (of `BookInv`): the audit's interval arithmetic counts each second
  with a state once, however gap windows overlap.
* `ChartsInv`: average precision and adaptive threshold agree with their definitions
  whatever the ties, the activity view calls at most the top percentiles spikes,
  the thinned chart keeps what it must, the timeline counts each row once.
* `MatchedStay`: predictions are pruned by the time they were scored and outcomes
  by feature time, so a graded row can turn unmatched; the property says when it
  cannot.
* `SegmentMovesOn`: neither pruning nor redelivery brings an earlier stream back.
* `ManifestPinsAll`: each partition of a manifest is intact at the one revision it
  pins, although each was verified at a revision of its own.
* `NeverWaitsForItself` (of `HistoryInv`): the staging tables are never truncated
  while the pipeline's own connection holds their locks.
* `HeldForCause` (of `PredictInv`): the only rows the bridge repeats for good are those
  no pipeline of the loaded model can score and those whose time has no offset
  or is no date, which needs a message without a Kafka timestamp.
* `FinishedIsWhole` (of `BoardInv`): because `meta.yaml` is read first and written
  last, a run shown as finished is shown with all it logged.
* `RecordHasRuns`, `RunsHaveRecord` (of `BoardInv`): what the state file calls done and
  best has its run, and the best finished run is the record's, unless a trial
  was run again after a break.
* `NoLeak` (of `SplitsInv`): no label of a training row reaches past the oldest price
  a validation row was made of; `HoldoutSealed`: qualification's holdout is the
  search's, and nothing was fitted on it.
* `ShownIsSelected`, `OneChain` (of `PollingInv`): what a page shows was asked for with its
  parameter, and a visible page has exactly one request or one timer.
* `HealthyReported` (of `StatusInv`) and `OnlyCutsLost` (of `PagesInv`): see below.

### What the violated properties say

* `PredictionsReplayed` and `OutcomesReplayed` state the sentence of the
  materializer's docstring (lines 22-24): a missing or rebuilt projection is
  replayed even if the group has committed offsets. The decision is taken from
  what exists when the thread opens the file and is kept nowhere, so (1) a
  restart before the replay's first commit forgets it; (2) of two threads that
  start on a missing file, the second sees the tables the first created, in
  either order, for `_outcomes_table_missing` reads outside the lock and
  `_init_db_with_recovery_status` creates both tables; (3) an outcomes consumer
  alone that finds a damaged file recreates it and discards the flag that says
  so. The runs show (1) for predictions and (2) for outcomes; the rebuild
  procedure of the runbook meets (2). `ReplayIsComplete` says what does hold: a
  replay, once decided, is complete.
* `KeepsPolling` states the runbook's "recovers automatically". A consumer whose
  group drops it while its batch awaits the commit retries a commit that can
  never succeed and does not poll, which alone rejoins. The comment above
  `STALE_SECONDS` describes the state; nothing leaves it.
* `HoldoutSpentOnce` states what `qualify_recorded_candidate` and the runbook say:
  the holdout is evaluated once. The lock keeps qualifiers apart, but `run_stage`
  takes none: a stage that loaded the file before the seal saves
  `final_holdout_opened = false` back over it, and the next qualification looks
  again. Where no stage runs beside a qualification, `ImplementsHoldout` holds.
* `FailedStageStops` states that a stage stops once its failures exceed 20% of its
  budget. Each resume runs one more trial before it raises again, and when none
  is left the stage is completed, which also lets the holdout be opened.
* `IdentityHolds` (in `StreamInv`) states that a `feature_id` names one tick, as the docstring of
  `ProductStream` says. The engine makes a tick pending before it labels the rows
  that are due, and a label that meets a price of zero raises; the tick stays
  pending with its id, `seq` is not incremented, and the next tick gets that id.
  Where no price was zero (`NoZeroPrice`) it holds, and is proved (`StreamHolds`);
  whatever the prices no two feature rows share an id (`FeatureIdsOwn`).

### What the exemptions in the passing properties say

Some properties hold only with an exemption that a comment of the code does not
make. Each exemption is exactly what the code allows:

* `RefusalExplained`: a request that waits for somebody else's computation may get a
  503 although that computation succeeds, or an expired payload: the slot is
  freed and the waiters are woken before the payload is stored.
* `StatusInv` (`HealthyReported`): a healthy service may be reported as timed out if a
  worker was still busy with a probe of an earlier round when the round began:
  the last services of the list wait for a worker while the limit of the round
  runs. One hung probe is enough for one service, and since a probe taken late
  may itself outlast its round, it may happen after nothing hangs any more. As
  many services as workers were busy, no more, and none before the first hang.
* `PagesInv`: if an integer `end` does not cover its second, a day that is recorded
  as complete may lack trades of the second a page was cut in.
* `PredictInv` (`CountersAgree`): requests refused for their contract, or whose `ts`
  cannot be subtracted from an aware time, are in `predict_requests_total` but
  in neither the error counter nor the latency histogram.
* `SplitsInv` (`CalibratedLater`): the final refit takes the file's order, so on a
  file that is not in order of time it is calibrated on older rows; the search
  does not ask for the inspection that would refuse such a file.
* `ServesOneModel`: a stage that moves between the API's two requests pairs the
  contract and run id of one version with the pipeline of another.

Further facts the models have, none of which a text of the repository denies:
`written_at` is the moment of the insert, so after a lag or a rebuild rows that
were scored after their outcome was known count as graded; the verdict
`degraded` is never given (`NeverDegraded`); a publication that dies before its
last tag is published again as a second version; an older timestamp on
`ticks.raw` starts an epoch, whatever delivered it; the first error in the
ticker's own error handler ends that task and leaves the process waiting; the
backlog check can cut the tick it comes with off the mirror; a feed that accepts
every connection and drops it at once never trips the breaker, for `Connected`
resets the count; a stage interrupted from the keyboard leaves its half-written
run as finished, for MLflow ends it so at exit; the holdout has no embargo
before it, as the folds have; a trade in the
second in which a gap begins fails its day.

### Bounds

* Three rows per topic, the newest not last, so that a prune may remove a row
  that arrives later; a malformed message; batches of at most two, so that a
  topic takes two batches and a reassignment can fall inside one.
* `KeepRows = 2` of three rows (two of five in the two-partition run), so that a
  message that was never inserted is not taken for one that was retired;
  `PruneEvery = 2`, so that a prune falls between two batches and inside one.
* Up to three faults: enough for a commit that fails, a reassignment and a crash
  in one behaviour, or for two losses of the file with a crash in between. The
  proofs need no bound on faults, files, partitions or topics.
* The bridge's topic: a row, a malformed message, two rows and a message that
  crashes it.
* Three stages stand for the six of `VALID_STAGES`: the baseline, the neural one,
  and one of five trials, of which one failure is within the threshold and two
  are beyond it; two processes, enough for every race of two copies. Nothing is
  bounded by a counter: every behaviour of the tournament is finite but for
  repeated invocations. The proofs need no such bounds.
* `services`: two failures trip the breaker, flushes and the backlog check come at
  the second tick, and the disk may fail twice, once in the handler and once in
  the cancellation. Three handler threads (an owner, a waiter, one that comes
  when the owner is done) on one window, since windows share nothing but the
  lock. Three services of which two may hang, over three rounds: what is left of
  one holds workers of the next, whose late probes hold those of the third.
  Three events against batches of up to two and a
  staleness of one tick. Two bootstraps that race, one publisher, three
  versions, one move, one start: enough for every pair of steps to interleave.
* `predict`, in the same run: four servers (the baseline, the legacy model, a
  registered one whose scaler is of other columns, one whose pipeline does not
  fit), each row there is, alone or in a batch of two, one replacement of the
  API while a row is repeated. `Polling`: two parameters, five requests, two changes and
  two times hidden, so that answers of three generations are on their way.
* `tournament_resume` beside the tournament: a stage of two trials, one of which
  scores zero, one kill or interrupt and one failure, each at every call; up to
  seven rows with steps of -1, 0 and 2 against a lookback and a horizon of one, with
  one fold and two folds.
* `records`: four ticks against a horizon, a lookback and a window of two, so that a
  label becomes due, a key is forgotten and a tick leaves the buffer, in either
  of two boots; steps of -2, 0, 1 and 4 make time regress, repeat, pass, and pass
  everything. A price of zero makes a return, or a label in the
  middle of a drain, raise. Six feature rows of two
  streams, the second a little behind the first and longer than the tables of
  two, so that a prune falls inside it, against a window of two seconds.
  Samples
  of five rows against charts of three points and timelines of two. Days of
  three seconds, pages of two trades, four trades; days of six seconds with two
  gap windows, overlapping, empty or apart. Two days, two runs of the pipeline,
  two contents of the trades and one upset (a garbled upload or a foreign one).
  The proofs need none of these bounds.

### Fairness

`ReadModel!FairSpec` is weakly fair to each step of the threads: the process is
restarted by compose (`Start`), supervisors restart loops (`RestartThread`), the
operating system runs the threads, and the broker answers a member's poll and
commit. Faults are never fair and are bounded in number, which is "eventually
no more faults". Weak fairness is enough, for each step stays enabled until it
is taken unless a fault intervenes. `Bridge!FairSpec` is the same: the process
is restarted, the API scores a row in the end, the producer's queue drains.
Commits of the bridge are not fair: nothing in the code makes one arrive.
`Tournament` has none: its scripts run when an operator starts them, and no
property of it speaks of what must happen.

`WsIngest` is weakly fair to what the event loop runs without anybody's help: the
main coroutine once the stop event is set, each task once it is cancelled, the
exit once all are gathered. Nothing is assumed of the feed, the broker or the
back-offs, so `BreakerExits` holds whatever the other task is doing. `PerfCache` is
weakly fair to a thread that computes, releases, stores or has been woken;
that a wait times out is not assumed, so `WaitersAnswered` says that every owner
wakes its waiters (a computation ends because the database has a read deadline).
The other components have no fairness and no property that needs one.

## What is proved

All theorems hold for every value of the constants that satisfies the named
ASSUMEs (key sets, logs, batch sizes, limits, fault sets and bounds).

* `ReadModelProofs!TypeCorrect`: `Spec => []TypeOK`.
* `ReadModelProofs!InductiveInvariant`: `Spec => []IInv`. `CommittedIsKept` alone is
  not inductive: a commit is right only because everything below the consumer's
  position, and below each message of its batch (a reassignment can move the
  position back below them), is pending or kept: `Covered`. That in turn holds
  only for a consumer that started at a kept prefix or at the beginning, on the
  file the readers see: `OneFile`. The heart of the proof is that a kept message
  stays kept through a prune: either its row stays, or `KeepRows` rows at least
  as new as it do.
* `CommittedAlwaysKept`, `ReplayAlwaysComplete`: the two safety properties, from `IInv`.
* `RetentionBounded`, `RetentionAlways`: how far a table may outgrow its cap. The
  counter `sincePrune` dies with the loop, so the invariant (`RetentionOf`) measures
  every file against it: a table exceeds the cap by what the counter says and by
  one interval for each fault so far (`Bounded`), and the counter is below the
  interval unless a prune is about to be retried (`Counted`). Proving it showed
  that the bound of `RetentionHolds` needs an insert that raised to have inserted
  nothing: `PersistThenError` followed by a restart adds a batch nobody counted.
  `RetentionAlways` states it under that assumption, which is the instance the
  run has, and `RetentionBounded` states the bound with the batch for all faults.
* `ReadModelProofs!Refinement`: without delete and damage, `Spec` implements
  `Projection`: every step projects, acknowledges or stutters.
* `BridgeProofs!TypeCorrect`, `InductiveInvariant`, `CommittedAlwaysSettled`,
  `Refinement`: the bridge never commits past an unsettled message, and implements
  `Projection`. The invariant adds that commits on their way and the position
  have only settled messages below them, and that the last event of the queue is
  the one in hand while it is flushed.
* `BridgeProofs!EventsInOrder`: `FirstsInOrder`. The invariant (`OrderInv`) adds that
  whatever is in the queue or on the topic had nothing unsettled below it when it
  was queued; so an event that comes after a higher one was settled before it
  came, and as it was neither on the topic nor malformed, it had been rejected.
* `SearchProofs`, for all stages, plans, scores and processes: `TypeCorrect`, and
  where no stage runs beside a process with a copy (`~Overlap`) `InductiveInvariant`,
  `OnlySoundStaged`, `OneParentEach`, `RecordGrows` and `Refinement` of `Holdout`. The
  invariant says why: the copy of whoever may write is the file itself (`Alone`),
  the only look comes after a saved seal (`Sealed`), and whoever holds a verdict,
  or is about to write one, is the one process that looked (`OneJudged`).
* `FeaturizerProofs!StreamHolds`, `RowsHold`: `StreamInv` and `RowsInv`, for any
  prices. That ids are not shared needs a feed without a price of zero
  (`NoZeroPrice`; see the findings), so what is true of the rows is in two parts:
  what holds on any feed (`Judged`, with ids of feature rows) and what a price of zero breaks (`Named`:
  `Owned`, and ids of outcomes). One invariant
  (`FeatIInv`) serves both. Of the engine it says that buffered prices are ticks
  of the topic in order (`PricesTrue`), that every good tick polled since a pending
  row is still in the buffer or older than all of it (`PendingHeld`), and so is every
  one whose key is remembered (`RecentHeld`). Of the rows handed over it says that ids
  were given in order of boot, epoch and seq (`IdsTaken`), that each pending row has
  the feature row of its own id and nobody else's (`Owned`), that every label is
  whole (`WholeAll`), and that the key of a feature row of this epoch
  is remembered until `Window` messages have come (`Remembered`). The sink's content is what was labelled. The work is in what
  pruning, draining and remembering do to these (`StoreOf`, `DrainOf`, `LabelOf`,
  `RememberOf`), and in the two loops, whose values exist by `LoopRuns`.
* `FeaturizerProofs!ParityHolds`: `OfflineParity`, that serving and training agree. The
  invariant beside `FeatIInv` (`ParityIInv`) follows the two programs side by side: while the
  first session has seen no tick go back and no repeat too late, its stream remembers
  exactly the keys among the last `Window` ticks (`Sightings`), and its engine and rows are those of
  an engine fed the first ticks of their keys (`Fed`), but for the ids it tags them with
  (`Tracks`). One tick moves both alike, refused or not (`IngestBare`). Offline, merging and
  deduplicating the two files gives the same ticks in the same order (`IterTicksOf`, by
  ranks: `MaskedAppend`), and the loop's value is that engine's by least counterexample
  (`BuiltOf`). `RemainingSettled` is the clean stop: `drain_remaining` is the same on both sides.
* `LiveProofs!HealthReportsRight`: `HealthInv`. The invariant says that the table has
  no holes (`Contiguous`), that the topic is in the order of scoring
  (`InOrderOfScoring`), and that every event scored before `lastEvent` is stored
  (`Witnessed`).
* `LiveProofs!OneComputation`, `RefusalsAlwaysExplained`: `SingleFlight` and
  `RefusalExplained`. The invariant ties each slot to the event of the thread that
  computes, distinct threads to distinct events, and says that a payload once
  cached stays.
* `RecordsProofs!WhatIsDeletedIsStored`, `ManifestsAreSound`: `HistoryInv` and
  `ManifestPinsAll`. The Hub only grows from revision to revision (`HubGrows`), so a
  receipt, true at its revision, is true at every later one; the receipts of a
  day and the results of the days have revisions that do not decrease
  (`RevisionsGrow`), so the last one has all that was verified before; and what
  the process holds fits its phase (`Phases`), so nothing is deleted before the
  receipts cover the day's records.
* `ApiProofs!OneModelIsServed`: `ServesOneModel`. Until a stage of the served
  model moves, what the API has read is what it would read now (`Loading`),
  because a new version is in no stage.
* `ApiProofs!RegistryHolds`: `RegistryInv`. The invariant (`RegIInv`) says of each
  script at each of its requests what the version it registered has by then;
  since the tag that the lookup uses is the last thing a publication sets,
  a version with that tag has all the rest, and since a promotion archives what
  was there, `Production` holds one version.
* `ApiProofs!PredictHolds`: `PredictInv`. The property is nearly inductive as it stands:
  `PredIInv` adds that the bridge posts one row, whose time has its offset if Kafka
  dated the message. The proof is a case for each way `predict` can end.
* `ApiProofs!StatusHolds`: `StatusInv`. The invariant (`StatIInv`) says that a probe is in
  the queue, at a worker or done and is queued only while every worker is taken
  (`PoolSound`), that what is listed has left the queue (`RoundEnds`), that a probe
  taken at once is back when the wait is over (`PromptAnswers`), and that without a
  hang none outlasts its round (`CalmPool`). The bound is a count: the probes that
  were taken have places before one that was not, and with those that already
  ran they fill the pool (`LeftBehind`).
* `LiveProofs!IngestAccounts`: `IngestInv`. The invariant (`IngIInv`) keeps the account of
  the mirror: what is written, buffered or cut off is what was produced
  (`TicksKept`), and a ticker that backs off or is gone leaves an empty buffer,
  unless the disk failed or it returned on a message (`MirrorEmptied`).
* `LiveProofs!PollingHolds`: `PollingInv`. The invariant (`PollIInv`) says that requests
  are numbered in the order they are sent and that only the one of the current
  mount and generation can be the page's own.
* `SearchProofs!BoardHolds`: `BoardInv`. `StoreInv` says which groups of files a run has
  at each call of the stage and how record and runs agree between them;
  `ReaderInv` that what the page has read of a run is a part of what the run had
  when its status was read. That the listing is sorted is proved from the place
  of a row, one more than the rows ahead of it.
* `SearchProofs!SplitsHold`: `SplitsInv`, of every file. The plan is a function of the
  rows, so the invariant (`SplitIInv`) only types them; the work is in what the
  operators compute. Ranks in a finite set under a strict order are all taken
  (`RanksTaken`), so the rows by rank are a sorted permutation (`OrderSorts`) and a
  mask picks in order (`MaskedPlaces`); the blocks follow one another
  (`BlocksFollow`, division and all); a file in order stays as it lies
  (`StaysInOrder`), which is why qualification's cut is the search's; and the loop
  over the alerts has a value after every row (`LoopRuns`, by least counterexample).
* `RecordsProofs!CompleteDaysLackOnlyCuts`: `PagesInv`. The invariant (`PagesIInv`) says
  where a trade that was not seen can be: before the last page, or cut off at
  the second of an earlier one.
* `RecordsProofs!GapsAreRespected`: `BookInv`. The invariant (`BookIInv`) says that states
  are behind the second replayed, and that while the last segment goes on no gap
  has come since its first state. The audit's count (`AuditExact`) follows the
  code's loops: after each interval `_union` has sorted intervals that do not touch,
  with the seconds of those read so far (`UnionGrows`); each cut of `_subtract` takes
  its seconds and leaves intervals apart; a run of states has just their
  seconds (`RunsCover`); and the lengths of intervals apart add up to the size of
  their union (`TotalOfParts`), so no second counts twice however windows overlap.
* `RecordsProofs!CompletePayloads`, `OutcomesOfPredictionsStay`, `SegmentOnlyMovesOn`:
  `GradingInv`, `MatchedStay` and the action property `SegmentMovesOn`. One invariant
  (`GradeIInv`) serves all three: features are scored in the order of the topic
  and later ones no earlier (`TopicInOrder`); what a table has was polled; and
  a feature missing from the predictions comes before every one that is there
  (`NewestStay`), from the outcomes has `KeepRows` later ones (`OutcomesStay`). The
  first theorem assumes `StreamsInOrder`: within one stream feature times do not go
  back. `ProductStream` starts a new stream when they do.
* `RecordsProofs!PagesTellOneStory`: `OneStory`. It is about what two programs count over
  the same rows. Each timeline point counts the rows of its class, whether there is
  one point for a row (`RawCalls`) or one for a bucket (`BucketedCalls`: buckets are
  masks, disjoint, and every row has one, so their counts add up to the size of
  the class); a class is decided by the conditions that put a row in a cell of the
  confusion matrix or leave it ungraded (`ClassesAre`); all rows have one model
  and its tau (`OneTau`), so the matrix is of all of them (`ConfusionOf`). The theorem assumes
  that each feature got a score and a label of 0 or 1 (`ScoredAndLabelled`): the
  bridge publishes no prediction without a score. What it needs of the state
  beyond `GradeIInv` is that outcomes are stamped (`OutcomesStamped`).

Only model-checked:

* Liveness (`EventuallyProjected`, `EventuallySettled`, `BreakerExits`, `WaitersAnswered`)
  is out of the prover's reach, as is ENABLED.
* `ChartsInv` compares folds and sorts of the library (`FoldLeft`, `SortSeq`,
  `SetToSortSeq`), which no prover here can open, and quotients of factorials.

No module with a theorem reaches a RECURSIVE operator. Where a model sorted or
filtered by an operator of the library only to say who comes first, it says so
by places and ranks instead (`Listing`, `Before`, `PruneRows`, `Masked`), which can be reasoned
about. A leaf whose facts come from a recursive function in a LET uses `LoopRuns`
and a least counterexample instead of an induction theorem.

## Plan

1. Read model and bridge, the core of the pipeline: modelled, checked, proved.
2. Search and final holdout (`Tournament`): modelled, checked, proved.
3. The featurizer and its sink, with the offline builder: modelled, checked,
   proved.
4. `PerfCache`, `Health`, `Grading` and the two pages' computations: modelled,
   checked, proved but for `ChartsInv` and liveness.
5. `Serving`: modelled, checked, proved.
6. `History`, `TradePages`, `Book`: modelled, checked, proved.
7. `WsIngest`, `SystemStatus`: modelled, checked, proved but for liveness.
8. `Predict`, `Leaderboard`, `Splits`, `Polling`: modelled, checked, proved.

Left: a composition of bridge and read model over `ticks.predictions` (both are
checked against the same abstract `Projection`, whose rows of the one are the
messages of the other, so it would show little that is new), and a proof of
`ChartsInv`, for which its folds have to be written and reasoned about as
recursive functions, as the offline builder's loop is.

### Not modelled

* Training, scores over data frames, notebooks: floating-point
  computation and third-party estimators.
* `replay_to_kafka.py` and the operator scripts: sequential programs without shared
  state. What the former puts on its topic is an input of `Featurizer`.
* The UI but for `usePolling`: it renders answers.
* A topic that is deleted and made anew: its event ids are those of old rows, and
  INSERT OR IGNORE would drop the new events (materializer.py:219). The models
  keep one incarnation of each topic.
* Compose files and monitoring: configuration. Restart policies are `Start`
  actions of the models.
* Inside modelled parts: the read-only handlers of the materializer but for the
  three pages, row conversion
  and partition writers of the history pipeline, its preflight checks, the
  prices and sequence checks of the book, and the checks before a publication.
