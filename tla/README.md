# TLA+ models of the market data pipeline

The repository collects market bars, publishes them as immutable Parquet
objects under versioned dataset manifests, and keeps them up to date from a
queue of commands and a stream of realtime events. This directory holds
TLA+ models of the parts of it that are hard to test, the TLC runs that
check them on small instances, and TLAPS proofs of the main safety properties
for every value of the constants. Paths below are relative to the repository.

## 1. The system

### Components

| Component | Code | State | Operations | Here |
|---|---|---|---|---|
| Publication engine | `market_pipeline_lib/engine.py` `publish_dataset` | memory of one publication | choose revision, put objects, carry forward, commit, advance watermark | `DatasetPublication` |
| Pipeline runs | `engine.py` | `pipeline_runs`, staged fragments | migrate, backfill, derive, incremental, resume | `PipelineRuns` |
| Compaction | `engine.py` `compact` | none of its own | DAY objects of a period into one | `PipelineRuns` |
| Catalog | `market_pipeline_lib/catalog.py`, `db/tables.py` | `storage.objects`, `dataset_objects`, `dataset_manifests`, run, lineage and incident tables | upserts, unit of work, queries | `DatasetPublication`, `LocalCatalog` |
| Object stores | `market_pipeline_lib/storage.py` | immutable keys, versions | create-only put, verify, delete | `ImmutableStore`, `DatasetPublication` |
| Manifest watermarks | `market_pipeline_lib/manifest_watermarks.py` | none of its own | scheduled projection of manifests on watermarks | `DatasetPublication` (`Reconcile`) |
| Worker loop, idempotency, health | `apps/pipeline_worker/worker.py`, `main.py`, `health.py`, `apps/common/idempotency.py` | batch, heartbeats, stop flag, claims, status | poll, handle, park, drain | `PipelineWorker` |
| Queue adapters | `apps/pipeline_worker/messaging.py`, `SqsEventSource` | leases, receipts, dead letters | poll, acknowledge, retry, extend, dead-letter | `PipelineWorker`, `RealtimeIngest` |
| Realtime ingestor, watermarks | `market_pipeline_lib/realtime_ingest.py`, `watermarks.py` | buffer, de-duplication state, shard heads | run_once, submit_batch, flush, checkpoint | `RealtimeIngest` |
| Redis event source | `market_pipeline_lib/redis_ingest.py` | stream, consumer group, pending list | poll, claim, acknowledge, retry, dead-letter | `RedisStream` |
| Realtime command port | `apps/pipeline_worker/realtime.py` | one ingestor per process | submit event by event, flush | `RealtimePort` |
| Market-history sync | `apps/pipeline_worker/sync_market_history.py` | Redis projection, metadata | publish session batches, project, write metadata | `HistorySync` |
| Corporate actions | `market_pipeline_lib/corporate_actions/`, `corporate_action_research.py`, `_discovery.py` | candidates and their history, slot runs | research, decide, regenerate | `CorporateActions` |
| Features | `market_pipeline_lib/features/`, `apps/pipeline_worker/feature_output.py` | commands, materializations, snapshot batches | plan, materialize, register, seal; calculate | `FeatureMaterialization`, `FeatureCalculators` |
| Warm-up | `warmup_gate.py`, `realtime_warmup.py`, `runtime_warmup_export.py` | verdicts, incidents, bundle directory | evaluate, record, export, replay | `WarmupGate`, `WarmupBundle` |
| Runtime export | `runtime_export.py` | mapping and evidence files | select, intersect, write | `RuntimeExport` |
| Quality detectors | `quality.py`, `processing.py` | none | detect, scope, derive, split | `QualityRules` |
| Reference catalog | `reference/*.py` | instruments, symbol periods, sessions | register, assign, rename, load | `ReferenceRegistry` |
| Provider client | `alpaca/*.py`, `rate_limit.py` | token bucket | request, retry, paginate | `ProviderClient` |
| Catalog operations | `operations.py` | none of its own | validate, apply, upload | `CatalogApply` |
| Legacy bootstrap | `legacy_bootstrap.py` | none of its own | translate, insert, confirm | `LegacyBootstrap` |
| Legacy collection | `data_collection/`, `daily_pipeline.py`, `pipeline_state.py` | files, checkpoint, inactive cache | collect a symbol | `LegacyHistory` |
| Legacy derivation | `data_filtering/`, `data_validation/` | derived files | filter, resample, repair | `LegacyDerivation` |
| Everything else | command executor, worker configuration, database layer, lambdas, CLI, reports, loader package | | | not modelled, see 7 |

`PROJECT.json` lists every component with its files and status.

### How they interact

A scheduler or a lambda puts a command on the queue. A **worker** takes
it under a lease, renews the lease from a heartbeat thread, claims the command
id in memory, and runs the command, which ends in one or more calls of
**publish_dataset**. A publication talks to the **object store**
(outside any transaction) and to the **catalog** (one transaction), then moves
the feed's **watermark**. A scheduled job projects manifests to watermarks
again, in case a process died between the two. The **realtime consumer** takes
events from a queue or a Redis stream of its own, buffers bars in memory, acknowledges
them, and publishes the buffer through the same `publish_dataset`; its ledger
checkpoints the same watermark rows. The **sync** job publishes closed sessions through the
engine and projects them into Redis. **Corporate-action** decisions and **feature** commands
reach ports of the worker and publish adjusted datasets and feature series of their own. The
**warm-up gate** reads what the catalog holds and hands a verdict, with the events, to trading.
The legacy scripts keep files of their own, and **bootstrap** and **apply** bring
retired or local catalogs into the database.

The models follow these seams. `PipelineRuns`, `CorporateActions`, `RealtimeIngest`, `RealtimePort`,
`HistorySync` and `WarmupGate` take a publication as one step (with its outcomes);
`DatasetPublication` is what happens inside that step. `PipelineWorker` takes the execution
of a command as one step; the ports are the modules above.

### What is hard about it

* Two steps that are not one transaction: objects then rows, rows then
  watermark, effect of a command then its acknowledgement, dead-letter send
  then delete, acknowledgement then flush, Redis keys then metadata, mapping then evidence.
* Identities computed from the revision number or the period: two attempts at one revision
  write the same keys and rows.
* State read before the advisory lock and used under it, or read by a gate
  or an exporter and used after the catalog has moved.
* At-least-once delivery with leases: a message may come back while its
  first delivery is still being handled, to the same or another process.
* Memory-only de-duplication with a bound: claims, seen events, slots.
* Resuming: staged fragments, checkpoints and batches of an earlier attempt.
* Stop requests and failures in the middle of a batch.

`PROJECT.json` lists each hazard at its line with the properties that watch it.

### What makes each component correct

* Publication: at most one AVAILABLE manifest per dataset year; keys are
  immutable; nothing is listed that is not stored; the hash covers what is
  listed; nothing outside the replaced periods is dropped; what was released never
  changes; the watermark is backed by listed objects and catches up while the feed is active.
* Runs: SUCCEEDED means every instrument and day asked for was published, but for those the
  provider's answer lacked, whatever an earlier attempt staged; compaction changes no bar.
* Worker: nothing leaves the queue unexecuted and unparked; reports are true;
  a process does not repeat a finished command; only the lease's holder
  deletes after execution; a stop ends it; every message settles.
* Realtime: every acknowledged bar was published once or its loss is named; a published session stays listed; versions only
  grow; the watermark never passes what is in memory or a shard that lags;
  every message settles; a stop flushes.
* Stream, port, sync: no entry is dropped or parked early, each is settled; an answered
  command is published; no hole in the native history, no metadata without its keys.
* Corporate actions: one approved action per subject; a decision leaves its year rebuilt from
  exactly the approved actions; no decision is reopened; a finished slot recorded all it found.
* Features: a SUCCEEDED series is listed and stored, one manifest per key, a sealed batch
  has all its members; a published number never moves.
* Warm-up and export: a READY verdict fits what the catalog holds and is fresh when it is accepted; a bundle is whole or absent;
  the evidence is that of its mapping.
* Stores and catalogs: a write that fails leaves nothing, one that is confirmed stays, a
  replay is whole, one symbol has one instrument at any instant.
* Collection: files are what the provider serves, whichever request, file or process was cut short;
  an incremental derivation equals the full one.

## 2. The modules

| Module | What it is | Checked by |
|---|---|---|
| `DatasetPublication` | `publish_dataset`, its catalog and object store, reconciliation | `MCDatasetPublication`, proofs |
| `VersionedDataset` | abstract: a chain of frozen snapshots, one of them current | refinement in `DatasetReleases`, runs of `MCDatasetPublication`, proofs |
| `DatasetReleases` | the refinement mapping, and what the theorems about one publisher take of its callers | the same |
| `PipelineRuns` | the engine's commands around publication | `MCPipelineRuns`, proofs |
| `PipelineWorker` | consumer loop, heartbeats, claims, parking, SQS | `MCPipelineWorker`, proofs |
| `RealtimeIngest` | consumer, ingestor, ledger, SQS | `MCRealtimeIngest`, proofs |
| `CorporateActions` | research slots, decisions, regeneration | `MCCorporateActions`, proofs |
| `RedisStream`, `HistorySync`, `RealtimePort`, `ProviderClient`, `LegacyHistory`, `LegacyDerivation` | the ways by which data enters beside the queue | `MCDataEntrances`, proofs |
| `FeatureMaterialization`, `FeatureCalculators`, `WarmupGate`, `WarmupBundle`, `RuntimeExport`, `ImmutableStore`, `LocalCatalog`, `LegacyBootstrap`, `QualityRules`, `ReferenceRegistry`, `CatalogApply` | components beside the worker | `MCBatchTools`, proofs |
| `DatasetPublicationProofs` | storage for any number of publishers; releases and refinement for one | TLAPS |
| `PipelineRunsProofs` | types of runs, what a succeeded run has published, compaction | TLAPS |
| `PipelineWorkerProofs` | nothing lost, leases, honest reports, no repetition | TLAPS |
| `RealtimeIngestProofs` | accounting, order and watermark of the consumer | TLAPS |
| `CorporateActionsProofs` | decisions, slots and rebuilds | TLAPS |
| `EntranceProofs` | the provider client, the derivations, the legacy history, the stream, the sync, the port, and all six in `MCDataEntrances` | TLAPS |
| `ComputationProofs` | the numbers of the calculators and the reports of the quality rules | TLAPS |
| `BatchToolsProofs` | features, gate, bundle, export, store, registry, catalog commands, local catalog, bootstrap, and all eleven components in `MCBatchTools` | TLAPS |

`MCDataEntrances` and `MCBatchTools` extend several components that share no state and check
them in one run: the variable `subject` says which of them a behaviour is about, and the others stay as they began.
The state space is the sum of the components', not their product.

Where one property of a run is a conjunction of parts, the module defines and comments each part:
`StorageSound` (`OneContentPerKey`, `ListedObjectsStored`, `HashCoversListed`, `WatermarkBacked`), `AvailableSound`, `ReleasesStand`,
`LeasesKept`, `NothingSkipped`, `DecisionsHold`, `EntrancesSound`, `CollectedSound`, `ComputedSound`,
`HandedOverSound`, `ApplySound` and the `...Sound` properties of the single components.

Definitions marked `Mutant:` in a comment are not part of a specification. Each
is a plausible bug in the definition it stands beside; putting it in that
definition's place makes TLC violate the property `PROJECT.json` pairs it with,
which shows that the property can fail. A conjunction has one mutant for each of its
parts that can fail alone.

### DatasetPublication

One dataset year: the unit of the revision chain, of the advisory lock
and of the single-AVAILABLE check. Days are numbers, partitions are a
granularity with its first day, an object is `[rev, slot, content]`.

| Code | Model |
|---|---|
| `_next_revision`, building record | `StartPublish`; the previous row is kept as it was read, in `prevRow` |
| loop of `_write_new_objects`, one table at a time in any order | `WriteObject` = `SkipBroken`, `PutObject`, `RefusePut`, `FailPut` |
| carry-forward loop | `ReadPrevious` |
| `with self.catalog.transaction()` | `Commit` or `RollBack`; atomic under the advisory lock; conflicts are the immutable storage row and the two unique indexes |
| `watermark_repository.advance` | `AdvanceWatermark` |
| `advance_available_manifest_watermarks` | `Reconcile`, for a feed that is `active` |
| `_ensure_provider_metadata`, a review of the provider's rights or the feed | `OpenEngine`, `ReviewRights` |
| process death between any two | `Crash` |

`dataset_hash` is the set of canonical objects it covers (no collisions). The
catalog is `PostgresCatalog` or `LocalCatalog` by the constant `Postgres`.
The store is the one with a conditional put; the local store checks and then
renames, so two local processes could both pass the check, but the local
catalog is documented for one process only. One part per slot.
The unique index on `dataset_hash` is the one of the schema of
`db/migration-contributions`, which covers only manifests with objects.
Lineage, incident and output rows are in the same transaction and are left out.

### PipelineRuns

One engine process of one price type. A bar is a day with the vintage of its
prices; `ProviderRevises` makes a new vintage of adjusted prices.

| Code | Model |
|---|---|
| a command of the engine | `Start`, for a correction `Detect` first |
| `_run_record`, idempotency key | `BeginRun`, `ReuseRun` |
| `collect_staging` | `Collect`, `WriteFragment`; `OnDisk` is what a resumed run takes over, `Gaps` what an answer may lack |
| native, derived, adjusted publications | `Publication`, `RefuseRevision`, `DeriveWithoutSource` |
| `compact` | `CheckCompaction`, then the same steps |
| end of a command, `cleanup-staging` | `Finish`, `CleanStaging` |

A publication is one step with the outcome of its tables. An answer may lack any of `Gaps`: a session without a
bar is neither a failure nor a fragment (`engine.py:1069`), and the run may be SUCCEEDED without it. The history
variable `lacking` names what the answers to a run lacked; `RunComplete` excepts that and nothing else. An instrument
passed over as inactive is like one with an empty answer; the second price type is abstracted. A run recorded SUCCEEDED by a correction whose revision is
forced promises less: `RunComplete` leaves those out (section 6, `KeepsRevision`).
`CompactionPreserves` is about listings that no QUARANTINED attempt left rows in (`Clean`).

### PipelineWorker

The queue is SQS as the code uses it: a state and a receive count per message;
the count doubles as the receipt, so an old receipt is one whose number is no
longer current. `proc[p]` is the memory of a process: where it is in the
code, stop flag, drain mode, health status, batch, the messages whose
heartbeat failed, claims, and the last outcome recorded per message.

| Code | Model |
|---|---|
| `run`, `_consume`, `_drain`, `_shutdown` | `Boot`, `Start`, `StartFails`, `Poll`, `LeaveLoop`, `Drain`, `EndBatch` |
| `_process_batch` | `EndBatch`, `Requeue` |
| `_process` | `RejectBody`, `SkipDuplicate`, `Begin`, `Succeed`, `RejectCommand`, `FailForGood`, `Fail`, `FinishLapsed`, `Finish` |
| `_park` | `ParkSend`, `ParkDelete`, `Unpark` |
| `_VisibilityHeartbeat` | `Renewed`, `HeartbeatFails` |
| exceptions of the queue client | second disjuncts with `Happens("broker")`, and `CallRaises` for a receipt that is not current; the call may have taken effect |
| lease expiry, process death | `LeaseExpires`, `Crash` |

Assumptions: a running heartbeat renews in time unless the process stalls
(fault `stall`); a delete with an old receipt may or may not delete; executing a command
is one step whose effect is a member of `executed`; a command with a durable
idempotency of its own is an `approval`. The messages of a batch are handled in any
order, which includes the code's.

### RealtimeIngest

One consumer of one feed. A row is the event it was built from.
`submit_batch` judges a whole message before it changes anything: `New`,
`Raises`, `Refused`, `Acceptable` and `Fails` are functions of the message and the
memory, and `CommitEvent` applies one prepared event at a time.

| Code | Model |
|---|---|
| `run_until_stopped`, `run_once`, `shutdown` | `Poll`, `EndCycle`, `LeaveLoop` |
| `submit_batch`, `_prepare` | `Park`, `Retry`, `Accept` |
| `_commit`, `_retain` | `CommitEvent`, `Kept` |
| acknowledge, dead_letter | `Acknowledge`, `ParkSend`, `ParkDelete` |
| `flush`, `_publish_year` | `Publish` |
| `WatermarkLedger` | `heads`, `CompletionFloor`, `Checkpoint`, `Boot` (new or resumed ledger) |

Assumptions: one consumer per feed and one dataset year; a dead-letter queue is
configured; a publication is one step that ends AVAILABLE or QUARANTINED (its own
steps are `DatasetPublication`); nothing in `run_until_stopped` catches an exception of the
queue, store or catalog, so those are `Crash`; `published` and `missed` are
history variables.

### CorporateActions

A candidate row is an event with the raw revision it was found against; `adjusted` is the set of
adjusted manifests with the actions each applies. Each researcher looks for the row of a finding (`Look`) and then inserts it (`Persist`), finding by
finding, until the slot ends (`SlotSucceeds`, `SlotFails`, `DiscoveryFails`, `ResearchDies`). The relay (`Decide`) may repeat and
reorder messages. A worker applies one in a catalog transaction: it reads the candidate's row (`Read`), then the rows of its subject
(`ReadSubject`), writes the rows back whole, as they were read (`Write`), builds the object (`Rebuild`) and commits (`Commit`); `Fails` rolls
all back except for the object. A refusal is a transaction of its own (`ReadRefused`, `RecordRefusal`, `RefusalKnown`). The reads are plain SELECTs and lock
nothing; a write waits for the rows an open transaction wrote, and then overwrites them. `WorkerDies` loses the
worker's memory. `Amend` and `PublishRaw` change the terms and the raw bars underneath.
The command line's `apply_decision`, the AI adapter, the issuer probes and the
candidate store of a deployment without a database are left out.

### Entrances of data

* **`RedisStream`**: a consumer group as two-call operations (`XPENDING` and `XCLAIM`; `XADD` and `XACK`)
  with another consumer, a trim of the producer or a death between the two. Idle time is a flag. Assumed: the retry delay is not longer than the
  reclaim threshold, which `retry_later` requires. Old servers that return a claimed but deleted entry without fields are left out.
* **`HistorySync`**: `StartSync` reads the newest native session; `PublishContract` and `FinishBatch` go batch by
  batch and resolution by resolution; `ProjectKey` writes Redis key by key and `WriteMetadata` comes last;
  sessions close and the job dies in between. Instruments stay listed.
* **`RealtimePort`**: `Deliver`, one `Submit` per event, which forgets the oldest sessions (`StillKnown`), `Refuse`, `Buffered`, a flush that publishes year by year (`BeginFlush`, `PublishYear`,
  `FlushEnds`) and may raise anywhere, with what it committed left in the catalog and the buffer kept (`FlushRaises`), `Cancelled`, `Restart`; an answered command may come again.
* **`ProviderClient`**: a tick is the interval of one token; a fetcher takes a token (`Acquire`), leaves, and fails, is refused or answers with a page;
  pages form a chain or, on a broken provider, a loop. Sleeps are exact; each process has a limiter of its own.
* **`LegacyHistory`**: `daily_pipeline` over one symbol's adjusted files: window, chunks, comparison, one atomic replacement
  per interval, checkpoint, inactive cache. A session's bars stand as one value, its number of adjustments.
* **`LegacyDerivation`**: incremental and full filter and resample, and gap repair, whose answer adds rows and replaces others; a row has a value of two, one of them without volume.

### Components beside the worker

* **`FeatureMaterialization`**: the planner (`PlanBackfill`), the worker port (`RefuseSources`, `BeginRun`), the materializer (`StartMaterialization`
  to `FinishSeries`), with cleanup of what it created, deaths and lost leases, and batches (`OpenBatch`, `SealReads`, `SealWrites`). A transaction is one step.
* **`FeatureCalculators`**: the five calculators as functions of the closes, in integer quanta, rounding half to even as `quantize` does.
* **`WarmupGate`**: `Evaluate`, with or without a feature batch to look at, `RecordIncident`, `ReadManifestRow`, `Quarantine`, and the export, which checks the feed code and the age (`BeginWarmupExport`)
  and later the manifest id, and moves (`MoveBundle`), are separate steps, with publications and time in between.
* **`WarmupBundle`**: `BeginExport`, `Drain`, `Check`, `WriteFile`, `Certify`, `Move`, `Replay`; two exporters share the output path.
* **`RuntimeExport`**: `Compute`, `WriteMapping`, `WriteEvidence`; the catalog and the symbols move between exports.
* **`ImmutableStore`**: `S3ObjectStore.put` on one key: `HeadFirst`, `PutLands` (with or without an answer), `PreconditionFails`, `Reread`, `Confirm`, `Cleanup`.
* **`LocalCatalog`**: `WriteTable` rewrites one file at a time; `Restore` puts the old bytes back, one file at a time.
* **`LegacyBootstrap`**: `Plan` translates and orders the rows, `InsertNext` a table at a time, `Finish` confirms in the transaction; another writer works beside it.
* **`QualityRules`**: bars are delivered one by one in any order (`Deliver`) and the detectors are functions of what was delivered.
* **`ReferenceRegistry`**: `CheckAssignment` and `WriteAssignment` are apart; `LoadReferenceData` and `Rename` are sequences of them with or without a transaction.
* **`CatalogApply`**: `ReadManifests`, `ReadObjects`, `ReadRelations`, `ResolveRights`, `Commit` of the replay; `Validate`; `StartUpload`, `PutObject`, `CopyManifests`, `CopyObjects`, `CopyRelations` of the
  upload, each table in a step of its own; the local catalog, a worker and a reviewer act in between. A publication of the local catalog is one step: `LocalCatalog` writes its files one at a time and without a lock against
  readers, so a command that meets one half-way may read a revision without its listing; that is left out.

## 3. The runs

| Run | Instance | Question |
|---|---|---|
| `publish_single` | 1 publisher, 2 days and their year, 2 shards, 2 contents, 2 revisions, broken tables, outages, crashes; local catalog | what one publisher guarantees whatever fails |
| `publish_concurrent` | 2 publishers, 3 revisions, PostgreSQL | what survives every interleaving |
| `publish_refines` | 1 publisher, sound tables, crashes | publication implements `VersionedDataset`; hash and listing agree; the watermark catches up. The only run with reviews of the rights: in the others the feed stays as an engine writes it, so only a publication moves the watermark (`WatermarkIsBacked` is proved for both) |
| `worker_safety` | 2 workers, 2 messages of one command, any 2 of all faults | nothing lost, no false report, nothing repeated |
| `worker_settles` | 1 worker, a message of each kind, cache of 1 | stops end, messages settle, leases are respected and returned |
| `realtime_ingest` | 3 messages: a correction before its original, a redelivered original over two sessions, a rival with a failing event; any 2 of 4 faults | accounting, order, watermark, progress |
| `pipeline_runs` | 4 days of two years, 2 instruments, 3 of 8 commands, answers that lack two days or everything, 1 fault, 1 price revision, `--resume` | SUCCEEDED runs are complete but for what the answers lacked, compaction preserves |
| `corporate_actions` | 1 worker, 1 researcher, 2 instruments, 3 events (two of one subject), 2 slots, 3 decisions, 1 fault | decisions hold, slots record what they found |
| `data_entrances` | the six entrances, one at a time | no entry dropped, answers true, collection current, the stream settles |
| `batch_tools` | the eleven components, one at a time | series, numbers, hand-overs and writes are sound |
| `lost_update` | 2 publishers, PostgreSQL | refutes `CarriesForward` |
| `daily_drops_year` | backfill, then incremental | refutes `DailyKeepsOtherDays` |

Deadlock is checked in the publication, worker and realtime runs. It is not in `pipeline_runs`,
`corporate_actions`, `data_entrances`, `batch_tools` and `daily_drops_year`: their components are finite jobs, and an
instance whose commands, decisions, exports or sessions are used up has really ended.

### Bounds and why they are enough

* Two contents per slot are what a conflict of keys needs; a year over two days is what
  partial and total overlap need. Two revisions for one publisher: the second one
  has a predecessor, and either may be attempted again after a quarantine or a crash.
  Three for two publishers: each publishes over the other once and then again.
* Two messages of one command id and two workers are what a duplicate needs,
  within one process and across two. Two faults let one repair of another
  fault fail too (a lost acknowledgement, then a failing heartbeat).
* `MaxDeliveries` bounds how often the queue delivers a message. A message that
  reached it without leaving the queue could never leave, and `Settled` would fail in
  the runs that check it; that it holds shows the bound is not met there.
* `MaxFaults` bounds faults, so "once faults cease" is a fact about every behaviour.
* `realtime_ingest` keeps its bars within `Retention` sessions: beyond it
  `NewerOnly` fails (section 6, `retention_overtaken`).
* `pipeline_runs`: a week that crosses a month, a chunk that is shorter than a year and a day of the next
  year are what staging, carry-forward and compaction tell apart. Three commands reach collect, fail, resume and compact. A gap of two days
  is an empty answer to the incremental command and a partial one to a backfill.
* `corporate_actions`: two events of one subject are what supersession needs, a second instrument what a wrong
  scope needs; three messages reach approve, approve the rival, withdraw.
* `data_entrances`: one entry that is malformed and one that is good, two consumers, three receives, one fault: an entry can be
  claimed back, die with its second holder and be exhausted. Five sessions with a look-back of two for the sync and the legacy window; bars of three sessions of two years for the port, so that one is forgotten and a flush raises between its years; two tokens a minute
  and a burst of two for the client, so that the bucket empties; two days of four minutes, the first of them before the session, for the derivations, so that a repair's window holds a row that is there.
* `batch_tools`: three segments of two years give a seam and a clamp; one worker with two tries and one fault reaches every cleanup and a redelivery; six bars exceed every calculator's
  history; three store users, two of which write the same bytes, reach a race and a conflict; four delivered bars reach a gap, a duplicate and a part that cannot be split.
  `MaxWriters = 1` in `ReferenceRegistry` because two writers break it (section 6). An apply and an upload share the local catalog only, which neither writes, so they are not begun beside each other (`OneCommand`).
* Symmetry of processes is used in `worker_safety` only, which checks no liveness.

### Fairness and why the code justifies it

* `DatasetPublication`: only `Reconcile`, a scheduled job
  (`apps/pipeline_worker/publish_manifest_watermarks.py`). Nothing makes a publication run or finish, and nothing makes a person review
  the rights. The job passes over a feed that is not active, and every engine that is constructed with `ensure_provider_metadata` (all but the
  sync's) writes the provider as REVIEW_REQUIRED again, so `WatermarkCatchesUp` is a promise about a feed that stays active.
* `PipelineWorker` and `RealtimeIngest`: a process that is down is started
  again by its supervisor (`Boot`), a live process takes its next step (`Advance`),
  and SQS ends a lease that no one renews. One weak fairness over `Advance`
  suffices because a process is always at one place of its code. Which outcome a step
  has (a failing command, an empty poll) is never fair; a long poll of the queue returning
  nothing for ever while a message is visible is excluded by SQS, and in the model
  by `Advance` being one action whose empty poll is a stutter.
* `RedisStream`: a consumer takes its next step, restarted if it died, and the idle clock of a pending entry
  runs. `EntranceFairness` states this for the behaviours about the stream; no other entrance has fairness.
* Faults are never fair.

## 4. What is proved

All for any number of publishers, processes, messages, bars, days, revisions and faults, from the
assumptions on the constants each module declares. A theorem that needs more says so in its
statement: a hypothesis about the deployment (`OnePublisher`, `OneExecutor`, `OneWriter`), about
the callers and other writers (`OwnRelations`), or about the behaviour (`[]NoLeftovers`, `[]Remembered`, `[]CommandsApart`, `[]Serial`, `[]InsertsApart`). Section 6
or 7 shows what happens where one of them fails.

**`DatasetPublicationProofs`.** Three layers, each inductive over the one before.

1. `Typed` = `TypeOK` and `BusyOnRevision` (a publisher that is not idle works on a
   revision number). Gives `TypeCorrect`. `OneAvailable` is not
   inductive on `manifest` alone; it follows because the only step that changes `manifest`, `Commit`, checks the
   table it leaves (`AtMostOneAvailable`).
2. `Linked` = `MemoryBacked` (what a publisher remembers as new was put, what it
   retains was listed), `ListedObjectsStored`, `SnapshotCovered` (the
   previous row it will write back has a hash its listing covers) and
   `HashCoversListed`. The memory conjuncts are needed because `Commit` writes
   rows from memory that was filled several steps earlier, with other publishers in between:
   they hold because listings and store only grow. Gives `ListedIsStored` and `HashIsListed`;
   `KeysAreImmutable` needs only `Typed` and the guard of the put.
3. `WatermarkInv` = `WatermarkBacked` and `ObservedBacked` (the end a publisher is
   about to project lies in an object it lists or is about to list). Gives
   `WatermarkIsBacked`. `MaximumExists` (a bounded non-empty set of numbers has a largest
   element) is proved from the well-foundedness of `<` and stands under
   every use of `PeriodEnd`, `EndOfHash` and `LatestAvailable`.

`StorageIsSound` joins the four storage theorems into the invariant `StorageSound` that both
publication runs check.

All of this is for any number of publishers. The second half of the module is about one
(`OnePublisher`), whose callers do not pass `--revision` (`Unforced`).

* `Chained`: nothing newer than the newest AVAILABLE manifest was ever released; a revision without a row lists nothing; a
  publication under way still builds on the newest release, and what it keeps of it is what its replace periods leave. With two publishers
  this is false from the first overtaken read on, which is `lost_update`. Gives `CarriedForward` and `ReleasesAlwaysStand`.
* `TakesTables`: the new objects of a publication are those of the tables it is done with. With `Chained` it gives
  `AvailableIsSound`, for callers whose replace periods cover their tables (`ReplacesCover`) and bring no day of a shard twice (`TablesApart`; the
  comments in `DatasetReleases` name the callers), while no QUARANTINED attempt has left rows under its revision (`NoLeftovers`; section 6,
  `quarantine_leaks_hash`, shows what happens otherwise). `SoundTablesLeaveNothing` discharges that hypothesis for tables that never fail.
* `PublicationReleases` is the refinement: `Init` maps to the empty chain, and a commit that is AVAILABLE
  is `VersionedDataset!Release` of the next snapshot, built from the current one by `KeepsTheRest` and the new objects; every other step leaves the
  snapshots as they are. The hypothesis is again `NoLeftovers`, and `SoundTablesRelease` goes without it.

**`PipelineRunsProofs`.** Three invariants over `CalendarAssumption`: months lie in a year and share no day, and `compact` names one period.

* `RunsTyped` = `TypeOK` and `FrameFits` (the years still to write are years of the chunk that was fetched). Gives `RunsTypeCorrect`, of which the hard part is
  that a run at work is recorded RUNNING and that only a recorded run has fragments, through `backfill --resume`, a crash, and a correction that runs a backfill inside.
* `CollectInv` follows each session of a request through the run: still to be fetched, in hand, staged, or lacking in the answer, unless a fetch failed
  (`Collected`). It needs two facts about what is replaced: an answer in hand is whole but for what it lacks (`FrameAnswered`), so a fragment it overwrites held nothing more,
  and under `--resume` a fragment holds its year but for what is lacking (`FragmentsFit`), since its request is not asked again. A dataset year is still to be
  published or holds a bar of each instrument and session asked for that is not lacking, unless a publication failed (`PlanServed`), and nothing is published before all is fetched (`PlanWhole`). Gives
  `RunsAreComplete`. The list of a command's years and the list of its requests name every element of their sets by a counting argument in place of an induction. The hypothesis
  `ResumesWhole` is needed: a chunk that spans two years, taken over on `--resume` when one year of it is on disk, leaves the other year out. Either the command does not resume or no chunk spans years.
* `CompactInv`: listed objects hold bars of their own days, in the shape of their granularity (`ObjectsFit`), and a compaction that was found possible still is
  when it publishes (`CompactionChecked`). Then what it reads is everything listed that overlaps its period, all of it lies inside, and the groups it writes hold the
  same bars. Gives `CompactionIsLossless`, for any mixture of DAY, WEEK and MONTH objects. The property is about a `Clean` target, one whose
  revision holds no rows of a quarantined attempt (section 6, `quarantine_leaks_hash`).

**`PipelineWorkerProofs`.** Three invariants.

1. `Inv` = types, `ProcessesGood` and `NothingLost`. `ProcessesGood` says of each process that its memory is `Sound` (the current
   delivery fits the place in the code, the claims fit the cache) and `Truthful`: every claimed command was executed, except the one being
   executed or parked right now; a process that is finishing has executed; one that has parked has its letter on the dead-letter queue; every
   recorded outcome is true. That exception is the heart of the argument: a duplicate is acknowledged on the word of the claims, so
   `NothingLost` stands only because a claim is released before its message can be seen again. One generic lemma (`ProcessStep`) reduces each
   action to what it does to one memory. Gives `TypeCorrect`, `NoMessageLost` and `ResultsAreHonest`.
2. `LeaseInv`: the deliveries in hand carry receipts that are no newer than the queue's count, no two processes hold the same delivery, and, unless a worker stalls, what
   is renewed is the last delivery of its message. Gives `LeasesAreExclusive` and `DeliveriesHandedBack` under every fault, and
   `WorkersKeepLeases` when no worker is stalled beyond a lease (`"stall" \notin Faults`, as in `worker_settles`): a stalled
   worker may delete a message whose lease another one holds by then.
3. `MemoryInv`: what a process reported as SUCCEEDED is still among its claims, and the command at hand is not. The cache forgets
   its oldest claim only when it is full; with room for every command id (`Cardinality(Command) <= CacheSize`) the pigeonhole
   principle leaves nothing to forget. Gives `NothingRepeated`. A smaller cache may forget a command that comes again.

**`RealtimeIngestProofs`.** `IngestInv`: a shard's head is the position of a bar received or the watermark it resumed from; the message
being committed or parked is in hand; a checkpoint finds an empty buffer. Gives `IngestTypeCorrect`, `ShardsPassed` and `PublishedBeforeWatermark`,
unconditionally. `HeldInv`: for each event seen there is a slot of its bar with no earlier version; what is still to be committed is newer than the slot; every bar
seen, or of the message being committed, has a row in the buffer, among the published or among the bars named `missed`, or is still to be
committed. That a published session stays listed needs no invariant (`SessionsStay`). A correction within one message is followed through by a least counterexample over the indices of the message. This needs
the consumer to remember the bars it buffers (`Remembered`), which `retention_overtaken` shows to fail beyond the window; `WindowRemembers`
proves it when the sessions of the stream fit in the window. Gives `NothingIsSkipped` and `NewerStays`, and `NothingSkippedInWindow` and `NewerOnlyInWindow` with no
hypothesis on the behaviour.

**`CorporateActionsProofs`.** The first layer, types and what an open transaction holds of its delivery and rows, is for any number of workers and researchers: `ReviewTypeCorrect`.
The others rest on what overlaps, which the code does not exclude (sections 3 and 6): `InsertsApart`, no two researchers are about to insert one row, and `Serial`, no two transactions about decisions
are open at once. Both speak of the behaviour, so they cover every deployment in which the overlap does not happen; the instance of `corporate_actions` always meets them. Under
`InsertsApart`, a row to be inserted is absent (`IntoAbsent`) and each finding up to the one at hand has a row with its terms (`TermsHeld`), which gives `SlotsRecordFindings`. Under both, what a transaction read is
what is committed (`InStep`), which gives `DecisionsAlwaysStand`; nothing of the subject is approved but what the open approval supersedes (`NoRival`), which gives `OneApprovedPerSubject`; and what was rebuilt is what a rebuild
would give now, and what it replaces is what is current now (`Fresh`), which gives `DecisionsRebuild` and `DecisionsAreHeld`, because `Commit` publishes what `Rebuild` computed a step earlier.

**`EntranceProofs`.** One invariant for each of the six components.

* Client, `ClientInv`: since any request was admitted, the bucket has paid for it and for every one after it, out of the burst or out of the time that passed (`Paid`); the pages a
  fetch has read lead from one to the next and lie in every set closed under the provider's tokens; its requests are within its attempts. Gives
  `ClientIsSound`: the ceiling of any minute is the payment of the first request admitted in it.
* Derivations, `DerivationInv`: a row that the next file does not follow yet was changed since, which its next run is told of, or came after every row that file
  has (`FilterFollows`, `ResampleFollows`). Filtering what changed gives what filtering the whole file gives, and the same of resampling by whole buckets, which no
  opening cuts. Once a repair leaves a change untold (`unreported`) only the types are kept. Gives `DerivationIsSound` for any calendar and bar length.
* Legacy history, `LegacyInv`: a file has every traded session up to its newest and up to the session the checkpoint vouches for, and unless a fetch was torn one
  moment explains all its prices (`FilesCurrent`); a range being fetched is as of one moment, and the files it was compared with agree with it where it does not reach
  (`FetchCurrent`). The comparison looks at the overlap only; that this is enough is the fact that ex-dates between two sessions change the price of the earlier one, so that two moments
  agreeing on a session agree on all before it. Gives `LegacyIsCurrent`.
* Stream: an entry's count in the group never exceeds the times it was handed out, so
  `MAX_RECEIVES_EXCEEDED` is never early; a consumer's counts and deliveries are no newer than that; and the entry a consumer is about to acknowledge is
  settled. Gives `EntriesAreNotDropped`.
* Sync: while sessions a to b are due, the native history ends just before the batch, or with the batch
  once its contract went through, and the keys projected so far hold what is published; gives `SyncIsSound`.
* Port: all the ingestor ever accepted is in its buffer, in the catalog or quarantined; the events of a command were accepted up to the next one to submit; a bar whose year the flush at hand is done with was
  published; and a bar that was forgotten is followed by as many later sessions as are kept (`Outlived`). Gives `PortIsSound`. A flush that raised after a commit publishes its bars again, which the property allows.
* `EntrancesTyped`, `EntrancesAreSound`, `CollectionIsSound` and `EntranceEntriesNotDropped` carry the six to `MCDataEntrances`: a step of the whole is a step
  of one of them and leaves the variables of the others alone.

**`ComputationProofs`.** Here the state is one series or one table, and the work is in what the functions of it compute, for every series and every table of the right type.

* Calculators. `Averages` says what both recursions are, an average that starts with a mean and goes on with p of q parts of itself; `AveragesExactly` is the same as a fraction, without rounding. A value depends
  on the bars up to it only (`AveragesAgree`, `MeanAgrees`), so a longer series keeps it. A step rounds by half a quantum at most and keeps p of q parts of the error so far, hence the error never exceeds
  q / 2(q - p) quanta (`DriftStep`, `AverageStaysNear`), which is (w+1)/4 for the exponential average and n/2 for Wilder's. Two averages that are not negative give an index between 0 and 100. Gives `ValuesStayFinal`.
* Gaps and rows in error. `Ascending` lists every bar once, in time order (`AscendingIs`). Both scans make runs of joined bars that are the bars scanned so far (`IsRuns`), which the next bar prolongs or follows. Over
  the pairs of one day the runs are the gaps (`GapsAreExact`), over adjacent bars the spans of the rows in error, and their counts add up to the rows (`CountsAddUp`).
* Scopes, derived bars, split. A finding is about a period or about the partition, and clamping a period that starts before it ends never gives one that `ImpactScope` refuses. A bucket is an interval of its session,
  so its bars can be counted and compared with what the detector expects. The split keeps: parts hold the rows of the timestamps scanned, in order, and one that is too large holds one timestamp (`IsSplit`). Gives
  `QualityStaysSound`.

**`BatchToolsProofs`.** One invariant for each component.

* Features, `SeriesInv`: a worker that registered its series cannot be in the phases that delete it or record FAILED, and one that may do so has not registered. It is
  inductive as long as no two workers are at one command (`CommandsApart`). Nothing but the lease keeps them apart, because the command is not claimed
  (`worker.py:323`); two that overlap break `SeriesIntact`. `SeriesStayIntact` is for one executor.
* Gate, `GateInv`: a READY verdict fits its manifest, the mark and, if one was looked at, the batch, and goes on to do so in the export under way and in the bundle, because listings and marks only
  grow and a batch stays sealed; its age is bounded when it is made and when it is accepted for export. Gives `GateIsSound` and `ExportsAreFresh`. That the eight checks are made in
  their order, and that a verdict without a failing one passed them all, is `Checks` read as a sequence of a known length.
* Object store, `StoreInv`: versions hold what their writer publishes, one of them is there at a time, and receipts and puts in flight
  name versions with the right bytes. Gives `StoreStaysImmutable` for any number of users, retries and lost answers.
* Registry, `RegistryInv`: rows have distinct ids and periods that do not overlap, and the row that was checked may still be written. The check and the write are apart, so this is
  for one writer (`OneWriter`; section 6, "Seen while modelling"). Gives `OneAnswerAlways`; both tables of a rename and of a reload are covered.
* Catalog commands, `ApplyInv` in four parts. Replay: the local catalog only grows, and while nobody else writes, the database is behind the plan that was read, which is
  behind the local catalog table by table (`ReadSound`: listings never change and objects only grow, so relations read after the manifests and the objects still hold each manifest's listing), so that merging the plan in yields exactly its tables. Rights, damage and upload each say what a command read before it writes. Gives `CommandsSound`.
* Local catalog, `LocalInv`: the files are the snapshot with the first k writes of the block; the tables put back are the snapshot's; and the
  snapshot was whole unless a process died in a block. Gives `BlocksLeaveWholeFiles` wherever a block raises.
* Bundle, `BundleInv`: an exporter writes files of the input it read, with the newest events of it, and a receipt is there only with all others; what is at the output path
  was whole when it was moved there. Gives `BundleIsSound`. What `Select` picks is a fold; below.
* Export, `ExportInv`: the mapping at its path is the one of the evidence beside it, and a document that was computed covers every day of the selection with the latest manifests of the rows it read (of finitely many revisions one has none above it) and maps
  one to one. Gives `EvidenceAlwaysBacks`, for any states of the catalog and a death between the two files. The cover is a fold over the periods in order.
* Bootstrap, `BootstrapInv`: rows of the source are in the target all or none and only when their objects were verified; each row still to come finds its parents in the
  database or in a batch before its own (`InOrder`). That the rounds of `_parent_first` have this order, and leave out a row only of a cycle, is `ParentsComeFirst`. Gives
  `BootstrapIsExact` where other writers link objects and manifests of their own (`OwnRelations`): a foreign relation on a legacy object, written after the bootstrap, would make two.
* `EachRunsItsOwn`: `BatchSpec` implies the specification of each of the eleven components, so `PromisesKeptTogether`, `BatchToolsTyped`, `HandedOverIsSound` and `ComputedIsSound` state `SeriesIntact`, `WritesSound`,
  `ExportIsFresh`, `BatchTypeOK`, `HandedOverSound` and `ComputedSound` of the run itself.

Folds and recursive functions. What the fold of a list computes is not found by an induction rule, which would take an operator as a parameter, but by a least counterexample. Among the positions
where the claim fails there would be a least one (`MinIsLeast`), and it is neither the first nor the one after a position where the claim holds. The same argument shows that a function
with the recursive equation exists (`IterationExists`, `ListExists`), so that the `CHOOSE` behind the definition is one; `IterationSteps` then gives its
values as a list, each the step from the one before. `SelectedStepwise`, `ScannedStepwise`, `RoundsStepwise`, `GapsStepwise`, `SpansStepwise` and `SplitStepwise` are that for the six scans; `EmaAverages` and
`WilderAverages` are it for the recursions.

Lemmas on numbers and sequences (a non-empty set of numbers has a least one, a bounded one a greatest, the parts of a concatenation) stand at the head
of the modules that use them.

## 5. What is only model-checked

* Liveness: `WatermarkCatchesUp`, `StopsEventually`, `Settled`, `StopsFlushed`, `StreamSettles`. They need fairness, which is outside the prover's
  reach. Every other property a passing run checks is stated by a theorem, some under the hypotheses named next.
* The hypotheses of section 4 where the code does not give them: `NoLeftovers`, `Remembered` beyond the window, `CommandsApart`, `Serial`, `InsertsApart`, `ResumesWhole`, `OwnRelations`.

## 6. Where the code and its documents disagree

Shown by runs of `PROJECT.json`:

* `lost_update`: the previous manifest is read before the lock (`engine.py:677`), so of two publishers of
  different days the second drops the first one's objects.
* `daily_drops_year`: a DAY publication does not carry forward the YEAR, MONTH or WEEK object its session falls
  in (`engine.py:713`), so every other day of that object leaves the dataset.

Shown by a configuration kept beside the modules (its module is the MC module of the component):

| Configuration | Property | What happens |
|---|---|---|
| `quarantine_leaks_hash` | `HashMatchesListing` | rows of a QUARANTINED attempt stay under the manifest id that the next attempt reuses (`engine.py:743`), so an AVAILABLE manifest lists objects its hash does not cover (`compatibility.py:161-166`); objects of overlapping partitions may meet |
| `two_approved` | `OneApproved` | the instance of `corporate_actions` with 2 workers and no fault: the look for approved actions of the subject locks nothing (`service.py:282`, `catalog.py:712-730`), so two workers approve two candidates of one subject, and the same bars are adjusted twice, although `tests/test_corporate_action_approval_provider.py:290-294` has an unnamed rival refused. Every pipeline worker applies approvals (`commands.py:287-288`, `consumer.py:21`) |
| `retried_forever` | `NotRetriedForever` | the path of a failed heartbeat does not look at the receive count (`worker.py:404`, `419` against `25-26`, `380-383`) |
| `flush_drops_bars` | `KeepsEveryBar` | a second flush of a session replaces the day's objects by the buffer's rows only (`realtime_ingest.py:857` against `1232-1234`) |
| `retention_overtaken` | `NewerOnly` | `_retain` forgets slots whose rows are still buffered (`realtime_ingest.py:764` against `147-148`) |
| `sample_run_reused` | `RequestServed` | a run recorded SUCCEEDED for fewer instruments answers a wider command of the same key (`engine.py:1574` against `README.md:127`) |
| `correction_withdraws` | `KeepsRevision` | a forced revision equal to the newest passes the strict comparison (`engine.py:399`); the new manifest and the one to be superseded are one row, and the dataset has no AVAILABLE manifest (`docs/db-aligned-market-pipeline.md:43`) |

Stated by a property no run lists, which TLC refutes when it takes the place of the properties of
the configuration named:

| Property | Configuration | What happens |
|---|---|---|
| `OtherInstrumentsServed` | `corporate_actions` | rebuilding one instrument's year supersedes the other instruments' adjusted manifests of the feed (`regeneration.py:202` against `6-8`, `catalog.py:678`) |
| `DecisionsStand` | `corporate_actions`, two workers | a transaction or a refusal writes back a row as it read it, and takes the other worker's decision back (`service.py:347` against `decisions.py:62-65`) |
| `DecisionTakesEffect` | `corporate_actions`, two workers | a rebuild that began before the other worker's decision committed leaves that decision out of the adjusted bars (`service.py:356`) |
| `DecisionsStand` | `corporate_actions`, two researchers | both read "absent", and the second upsert writes its terms over the first row, and over a decision taken on it (`catalog.py:117-120`) |
| `PlannedIsServed` | `batch_tools`, `NeededSegments = 1` | an extended series begins in the year of the shorter one, whose manifest is AVAILABLE under the same key, so it is refused until it is parked (`features/backfill.py:94` against `4-6`) |
| `ReleasesKeepSessions` | `batch_tools` | the loss of `lost_update` across two flushes, as the gate sees it (`engine.py:713`) |
| `ReceiptsHold` | `batch_tools` | who created a version deletes it although another put has confirmed it (`storage.py:73-76`, `features/output.py:222`) |
| `BlockIsAtomic` | `batch_tools` | a death inside a block, or its restoration, leaves part of it (`catalog.py:300-304`) |
| `OneRelease` | `batch_tools` | an apply makes AVAILABLE again a revision the worker superseded (`operations.py:694` against `db/errors.py:76`) |
| `DestinationIsWhole` | `batch_tools` | the upload reads the object rows before it puts them and the other tables after, one by one: what is published meanwhile is listed at the destination without its object row, or without its manifest (`operations.py:757-773`) |
| `MinuteCeiling` | `data_entrances` | a full bucket leaves with a minute's tokens: up to burst + rate - 1 requests in a minute (`rate_limit.py:96` against `alpaca/client.py:7`) |
| `BatchesRecoverable` | `data_entrances` | a sync starts from the native manifests, so a derived resolution that failed is not published again (`tests/test_market_history_sync.py:277`) |
| `AlwaysFull` | `data_entrances` | a repair reports its first added row only, so a row it replaced in an earlier session is not derived again (`quality_control.py:236-241` against `keep="last"`, `collect_sip_1min.py:372`) |
| `RefusedLeavesNothing` | `data_entrances` | the port submits the events of a command one by one, so a refused command leaves its first ones buffered (`apps/pipeline_worker/realtime.py:161-163` against `realtime_ingest.py:622-628`) |

Seen while modelling:

* Publication. An identical retry after a quarantine registers its objects with another
  `created_at` and is refused (`catalog.py:857-862`), although the comment above says a
  retry may reuse the same identity. Two publishers of one revision: the second may rewrite the row of a released
  manifest; `ReleasesStand` is therefore checked for one publisher. Constructing an
  engine writes the provider as REVIEW_REQUIRED over a reviewed status (`engine.py:311`), after which the scheduled job moves none of its watermarks.
* Worker. The drain polls once more after a stop (`worker.py:233`), and hands that batch
  straight back. A stop before `mark_ready` is overwritten by READY
  (`worker.py:193`); the flag survives, so the loop ends all the same. When `prepare()` fails, the drain still executes a batch on an executor that
  was not prepared (`worker.py:202`). The cache of claims forgets the oldest id when it is full (`idempotency.py:52`): with `CacheSize = 1`, two messages of one command and one of another, TLC refutes `NotRepeated`;
  what is reported stays true.
* Realtime. A flush that ends QUARANTINED clears the buffer and checkpoints the watermark.
  Acknowledged and unflushed bars die with the consumer: documented as a
  risk; `missed` names these two losses. `Accounted` calls a bar safe once it has been published: that a second flush of its session takes it out of the dataset again is a third loss, which
  `NothingSkipped` does not exclude and `flush_drops_bars` shows; `SessionsStand` confines it to sessions that are flushed again.
  After a restart the de-duplication state is empty: an original delivered again may be
  published over its correction. A port command that asked for no flush loses its bars when the process dies; a QUARANTINED flush is answered all the same. A flush
  that raises after a commit, in the watermark or in the next year, publishes its bars again on redelivery, and a bar of a session beyond the last two is forgotten, so "recognised as a replay rather
  than published twice" (`realtime.py:16-17`) holds only within what `ReplayRecognised` says.
* Runs. The correction looks at the last ten sessions only, so a partial one is never retried. A chunk that straddles two years
  and dies between its fragments is accepted on `--resume`. Fragments of a resumed run may mix vintages of prices.
* Corporate actions. A withdrawn action of a later year stays applied in an earlier year's adjusted data. Bytes left
  at a revision by a rolled back rebuild make a later approval with other content fail on the create-only key, and withdrawing back to content that was published before
  meets the unique `dataset_hash`. An approved dividend of a year whose bars all come after it blocks the approvals of later years.
  The executor abandons the remaining tickers where the docstring of `handler.py` says they go on. A finding against raw bars published again
  makes a second row. The engine publishes feed-wide RAW manifests (`engine.py:689`), which
  `CatalogSourceManifestResolver` never finds.
* Features. `MATERIALIZE_FEATURE_OUTPUT` is not claimed (`worker.py:323`), so two executors may hold one command and one cleans up what the other registered;
  `SeriesIntact` is checked for one executor. Two sealers may race. The snapshot batches have no caller in `src`. A recursive indicator restarts after a seam.
* Warm-up. A gate verdict names the catalog's feed id and manifest id; `publish_trading_warmup` refuses both (`runtime_warmup_export.py:180`, `223`), so no verdict is published until someone has
  rewritten them (`FeedNamed`, `ManifestNamed`). Without a feature batch the gate says READY with `feature_batch_checked` false (`warmup_gate.py:402`); `GateSound` speaks of sealed features only where one was looked at. The age is looked
  at once (line 182), before staging: stated at the move (line 235), `ExportIsFresh` is refuted by TLC. `publish_realtime_warmup_bundle` itself looks at no age. An incident stays ACTIVE
  on a manifest id that a restart reuses, and names only the first missing shard. A BLOCKED bundle is never replaced. `ingested_at` moves only with a later position.
  Deliveries are acknowledged before the bundle exists (`realtime_warmup.py:813`). A conflict within one revision depends on the order of the list.
* Legacy. A provider that adjusts between two chunks leaves mixed vintages for good (`torn` excepts it); a late adjustment is not detected;
  a symbol listed again is skipped up to the cache's lifetime; the validation checks structure and not coverage. The incremental derivations have no caller in `src`.
* Reference catalog. Two writers check before either writes (`instruments.py:357`, `372`), so a symbol has two instruments with `MaxWriters = 2`. Two venues may answer differently. A reload opens a closed period again. A rename
  without a transaction may leave the ticker closed; it has no caller in `src`.
* Catalog operations. The preservation reads the rights before the transaction, so a provider suspended in between becomes ACTIVE again. Three
  of the findings are reported and not recorded as incidents, as documented.
* Sync. Bars after hours of a session synced right after its close are not fetched again; a delisted instrument keeps its old key.
* Quality. An hourly derived bar starts at the first bar it observed, so a missing head of the session's last one is not reported (`quality.py:1353`); of a daily bar it is.

## 7. What is not modelled and why

* **Command executor**: parses a command and hands it to one port; the ports are modules, and the execution is a step of `PipelineWorker`.
* **Worker configuration**: settings are the constants of the models.
* **Feature definitions, resume verification, command line, contracts and compatibility checks**: pure functions of files, or wrappers of modelled operations.
* **Database layer**: engines, codecs, a schema guard; the unique indexes publication depends on are in `DatasetPublication`.
* **Lambdas**: validate an event and send one message.
* **Legacy reports and ticker lists**, and the separate **loader package**: no state the pipeline reads back, or not called by it.
* Within modelled components: numeric thresholds and schemas of the quality rules, column conversions of the bootstrap, the raw files and the
  one-minute collector's own loop, prompts, validators of the command line. `PROJECT.json` says it for each component.

Health counters, log records and file layouts carry no property. Times are
abstracted to the events they cause: a lease expires, a deadline passes, a backoff ends.

## 8. Plan

Done: every module of section 2, and the proofs of section 4. Next: `RunComplete` without `ResumesWhole`, for the runs whose years are each on disk or not asked for.
