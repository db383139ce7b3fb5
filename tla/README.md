# FlowForge in TLA+

FlowForge (module `durable-integrations`) is a data-integration platform in Go:
it reads records from source connectors, maps and deduplicates them and writes
them to destination connectors, as durable Temporal workflows, for several
tenants, with a control plane, REST/GraphQL/MCP front ends and in-process
worker pools. This directory holds TLA+ specifications of it, the TLC
configurations that check them on small instances, and TLAPS proofs of their
main properties for every value of the constants.

* [1. Inventory](#1-inventory)
* [2. Modules and the code they model](#2-modules-and-the-code-they-model)
* [3. Runs](#3-runs)
* [4. Fairness](#4-fairness)
* [5. Proofs](#5-proofs)
* [6. Where the code and its documentation disagree](#6-where-the-code-and-its-documentation-disagree)
* [7. What is not modelled, and the plan](#7-what-is-not-modelled-and-the-plan)
* [8. Running it](#8-running-it)

## 1. Inventory

Paths are relative to the repository. `PROJECT.json` lists every component
with its sources and status, and every hazard with its line.

### Orchestration

| Component | State | Operations | Interacts with |
|---|---|---|---|
| Sync orchestrator, `internal/orchestration/workflows/sync_orchestrator.go`, `signals/signals.go` | phase, result, `SignalState` (pause, cancel, modify), one coroutine per signal channel | start, signals pause/resume/cancel/modify, status query, record run, alert | starts the three child workflows, runs system activities, shares `SignalState` and the resume channel with the handler coroutines |
| Extract workflow and activities, `workflows/extract.go`, `activities/extract_activities.go` | merged records and state, partitions, futures; per fetch a channel and two goroutines | determine partitions, fetch batch, save checkpoint | the `Read` of a source connector |
| Transform workflow and activities, `workflows/transform.go`, `activities/transform_activities.go` | current records, dropped, errors | map fields, coerce types, deduplicate | records in, records out |
| Load workflow and activities, `workflows/load.go`, `activities/load_activities.go` | futures of concurrent batches, count, errors | write batch, confirm write | the `Write` of a destination connector |
| Temporal client, `orchestration/client.go` | none | start, signal, cancel, query, schedules | Temporal server |

*Hard:* coroutines of one workflow share state and a channel; signals arrive at
any time; children, activities and runs are retried; a fetch is cancelled while
its producer still sends; batches are written concurrently and cut short.
*Correct means:* pause and cancel are obeyed; what is recorded and alerted is
what happened; a sync ends; a checkpoint never passes a record that was not
read; a sync without errors has stored what its checkpoint covers; no fetch is
left blocked on its channel.

### Workers

| Component | State | Operations | Interacts with |
|---|---|---|---|
| Pool, `internal/worker/pool/pool.go` | bounded channel, done channel, atomic flags and counters | Start, Submit, SubmitWithContext, Resize, Shutdown, WaitIdle | worker goroutines, processors, callers' contexts |
| Supervisor, `worker/pool/supervisor.go` | registered pools, running flag, cooldown | Start, Stop, ScaleUp, ScaleDown, autoscaling loop | pools |
| Batcher, `worker/load/batcher.go` | buffer, timer, closed, last error | Add, Flush, Close, timer callback | flush function of its owner |
| Load worker, `worker/load/worker.go` | dead letters, metrics | ProcessBatch, DrainDeadLetter, FlushBatcher | destination, feeder goroutine |
| Extract worker, `worker/extract` | running flag | Process, partitioners | source |
| Transform worker, `worker/transform` | Bloom filter | deduplicate, map in parallel, coerce | columnar buffer of `pkg/arrow` |
| MCP worker, `worker/mcp` | times of calls, per key | rate-limit, clean up | tools |

*Hard:* every Submit, worker, Resize and Shutdown interleaves at each channel
operation and each counter; timer callbacks overlap with flushes of callers;
goroutines share a filter; chunks are retried and dead-lettered side by side.
*Correct means:* what was accepted is processed (handed over) exactly once,
counters are exact, Shutdown and Close drain, no batch is too large; a record is
neither dropped as a duplicate of itself nor lost between a failed write and
the dead letters.

### Connectors and their runtime

| Component | State | Hard behaviour | Correct means |
|---|---|---|---|
| Source connectors, `connectors/*` | cursor or page token, state message | the source changes between two pages; pages by offset; skipped objects; strict cursors | no change is lost between two incremental reads; a clean read is complete |
| Destination connectors | buffers, jobs, transactions | lost answers, retried POSTs, partial success, counts that promise too much, states acknowledged | no record disappears without an error or a missing count |
| HTTP client and paginators, `connectors/common` | pace, attempts | retries, Retry-After, adaptive pace shared by goroutines | bounded attempts, pace kept |
| Runtime and sandbox, `internal/connector/runtime` | channels, relay, tracker | the context ends while the connector still sends | order and completeness of what is relayed; a panic stays inside |
| Message handler, `connector/protocol` | batch, timer | callbacks that could not be stopped | a buffered record will be flushed |
| Registry, `connector/registry` | configurations, health records | a check that crosses a reload | health describes the present configuration |

### Control plane, storage, front ends

| Component | State | Hard behaviour | Correct means |
|---|---|---|---|
| Scheduler, `controlplane/scheduler` | entries with next and last run | late and dropped ticks, failing starts, entries replaced meanwhile, time zones and summer time | each minute an expression names is started once |
| Tenant, configuration and schema managers, `controlplane` | rows, Redis cache | cache-aside reads racing writes, asynchronous provisioning, check-then-act quotas | a stale copy has a known cause; a quota is overrun by the number of callers at most |
| Tenant router, `storage/postgres/tenant_router.go` | pool of each tenant | double misses, eviction, idle sweep, Close | no open pool is forgotten, none in the map is closed |
| Rate limiters, `ratelimit`, `storage/redis`, `api/middleware`, `mcp/security` | windows, buckets | boundaries of windows, entries removed while held | a bound for every stretch of one window |
| Audit log, `security/audit` | buffer, flush loop | overlapping flushes that fail | no event lost or doubled |
| Embedded lifecycle and OAuth, `embedded` | integrations, flows, tokens | repeated callbacks, refreshes that cross | a code is exchanged once |
| Key ring and secrets, `security` | keys, files | rotation, a crash in a write | ciphertexts stay readable while their key is kept |
| MCP gateway, `mcp/gateway`, `mcp/security/sandbox.go` | connections, tool calls, audit entries | deadline, client and tool race | one audit entry for each call, agreeing with its answer |
| REST and GraphQL API over the repositories | tables | read-modify-write requests that cross deletions | no dangling reference, versions contiguous |
| Subscriptions, `api/graphql/resolver.go`, `storage/redis/pubsub.go` | lists of channels, goroutine | closing while publishing | no send on, and no second close of, a closed channel |
| Mapping, auth, RBAC, white-label, blob store, MCP tools, observability, commands | request-scoped or read-mostly | little concurrency of their own | pure functions and I/O |

## 2. Modules and the code they model

| Module | Role |
|---|---|
| `SyncOrchestrator` | parent workflow, signal handlers, retries of the execution |
| `Pool` | worker pool |
| `Handoff` | abstract specification of a batching buffer |
| `Batcher` | batcher; `INSTANCE Handoff` with a refinement mapping |
| `Extract`, `Transform`, `Load` | the three child workflows with their activities and connectors |
| `Pipeline` | composes the three: what one sync does to the data |
| `Sources`, `Destinations` | how each connector reads and writes a stream |
| `Runtime`, `MessageHandler` | what runs a connector and routes its messages |
| `MCConnectors` | instance that holds the four above |
| `Workers` | extract, transform and load workers, pool supervisor |
| `Partitioner`, `FieldMapper` | pure algorithms of the workers |
| `Scheduler`, `Managers`, `TenantRouter`, `Catalog` | control plane and its tables |
| `Limits`, `Audit`, `Embedded`, `Keyring`, `Secrets` | rate limits, audit log, embedded connections, keys, secrets |
| `Gateway`, `Registry`, `Subscriptions` | MCP gateway, connector registry, events |
| `MCPlatform` | instance that holds the ones from `Workers` on |
| other `MC*` | instances for TLC |
| `SyncOrchestratorProofs`, `PoolProofs`, `BatcherProofs`, `PipelineProofs` | theorems about the modules of these names |
| `ConnectorProofs` | theorems about `Sources`, `Destinations`, `Runtime`, `MessageHandler` and their composition |
| `ControlPlaneProofs` | theorems about `TenantRouter`, `Managers`, `Scheduler`, `Keyring`, `Secrets`, `Registry` and `Catalog` |
| `ServiceProofs` | theorems about `Gateway`, `Embedded`, `Audit`, `Subscriptions`, `Limits` and `Workers` |
| `PlatformProofs` | theorems about their composition in `MCPlatform` |

The parts of `MCConnectors` and of `MCPlatform` share no state in the code
either. One run explores them side by side: a behaviour chooses one part (and
inside it one connector, limiter, transport...), and the others stand still.

### SyncOrchestrator

The Temporal server and SDK are external and modelled from their use. A
workflow task first applies the events that arrived, then runs the coroutines
one after the other, the root first, each until it blocks; `turn` says how far
the task is. `RootStep` is what the root does from one blocking call to the
next (a phase, a `checkSignals`, a record, an alert); `HandlersRun` is the turn
of the four handlers; `Signal`, `ChildStep`, `ActivityStep`, `RequestCancel`,
`TimeOut` are the events; `Retry` is the policy `StartSyncWorkflow` sets. A
signal goes to the first receiver blocked on its channel (`waiters`), otherwise
to `resumeBuf`. Children are opaque here: they succeed, succeed with errors, or
fail.

Things the model makes visible: the first `checkSignals` of a run can never see
a signal, because the handlers have not run yet; `ModifySignal` is recorded and
never consumed; a run is never *recorded* as cancelled, because the cancelled
path returns before `recordSyncRun`.

### Pool

One action per channel operation, counter update or flag: `CheckStopped`,
`CheckStarted`, `CountPending`, `SendItem`, `GiveUp` for a submitter; `Receive`,
`SeeCancel`, `Exit`, `UncountPending`, `CountActive`, `ProcessorReturns`,
`UncountActive` for a worker; `SetStopped`, `CloseDone`, `CloseInput`,
`AllExited`, `ShutdownTimesOut` for Shutdown. `Start` is `SwapStarted` followed
by `LaunchWorkers`, so that Submit may come in between; the supervisor's mutex
keeps Start and Shutdown of one pool apart. `select` with several ready cases is
a free choice. Sending on a closed channel panics and ends the process
(`Panicked` disables everything). A look of `WaitIdle` is two loads, `LoadActive`
and `LoadPending`, with steps of the others in between; `begun` remembers the
workers that started an item there.
A second Shutdown returns at once and is not an action. Each element of `Items`
is one call of Submit, those of `WithContext` of SubmitWithContext; `Failing`
are the items whose processor returns an error.

### Batcher and Handoff

Sections under the mutex are atomic actions, named for the functions
(`AddClosed`, `AddSurfaces` and `AddBuffers` for the three ways through `Add`,
`Flush`, `Close`, `timerFlush`, `drainLocked`). The flush function runs
outside the lock: `flight[c]` is the batch caller `c` is flushing, and it ends
by `flushFnDelivers` or `flushFnFails`. `Fire` starts a timer callback, which
then waits for the mutex in `fired`. `Close` with a non-empty buffer re-arms the
timer through `drainLocked`, as the code does. `Timers` bounds how many
callbacks are in progress at once.

`Handoff` knows neither locks nor timers: a record is accepted or refused, held,
handed over once in a batch of at most `MaxSize`, delivered or failed, and none
is held for ever. `StageOf` maps the batcher's state to it.

### Extract, Transform, Load, Pipeline

The records of stream `s` are `1..Size[s]` in order of modification, which is
also what a state holds; 0 is an absent key. The source does not change during
a sync.

* `Extract`: a `FetchBatchActivity` is two goroutines on a channel of capacity
  `BatchSize`. `ReadStream`, `ReadPage`, `ReadEmit`, `ReadState`, `ReadLog` are
  the connector's `Read` (after `connectors/hubspot/hubspot.go`: a stream's
  error is logged and the next stream follows, the state is sent at the end of a
  stream, the context is looked at between pages only, the filter re-reads the
  record at the cursor). The activity receives, cancels when the batch is full
  and goes on receiving until the channel is closed. An attempt may be lost (a
  stopped worker, a missed heartbeat). The workflow determines partitions and
  then fetches batch after batch, or one batch per partition, and merges states
  in the order of the futures. `SaveCheckpointActivity` persists nothing.
* `Transform`: operators for the three activities. A field's value is what an
  activity can tell: whether a record can be mapped, coerced, and the text its key
  makes (`SourceKey`, `MappedKey`, `CoercedKey`). Two keys may make one text: the
  parts are joined with a bar, a coercion may make "7" of "07", and an absent
  field is formatted as `<nil>`.
* `Load`: batches are written concurrently; a `Write` stores some of the records
  and reports a count of them, may stop early with or without an error, and may be
  repeated; `ConfirmWrite` compares counts. The count is the connector's word: some
  report more than they stored, which `overcounted` remembers.
* `Pipeline`: the phases in order, with the child workflows' retries.

### Sources and Destinations

In `Sources` a version is a pair of the time of a row's last change and the row.
`SrcModify` changes a row at any time; one step of a read is one request with the
records of its answer. `srcKind` names the connector and the way it reads: by
keyset cursor, by a result fixed at the first request, by offset, by listing
objects, or by the four paginators of `connectors/common`. A listing is the set of
its versions; the place of one is the number of those before it (`Ahead`), and a
page is cut by that number (`PageAt`). What the remote
system answers is external. Full reads (`FullKinds`) have no state; the others
send one as the code does, at the end or with every page, and the next read
starts from it. The `"<nil>"` that a null cursor turns into is in the model
(`extractNestedString`): an API that takes it for a first page makes the cursor
paginator read the pages again. Snowflake pages by LIMIT and OFFSET in an order
that its query leaves open between rows of one cursor value, and in a full refresh
between any two, and of an answer in several partitions only the first is read; a
page is then any choice that the order allows. Intercom ends a scroll when the
parameter repeats. An `OffsetPaginator` with `ResultsField` "" sees no results
(`pagesRoot`).

In `Destinations` a call of `Write` takes messages from its channel, buffers
records, and sends full buffers as requests of the retrying client
(`HttpRetry`), jobs that are polled (Salesforce, Zendesk), statements in a
transaction (Snowflake) or uploads (S3). A request that is not answered may have
been carried out. `dstResult` is the `WriteResult`; `seen`, `failed` and `acked`
say which records it stands for, `dstTaken` how many were taken from the channel.
The warehouses take a message before they look at the context and drop it when that
is done; results that are missing from an answer of Salesforce or HubSpot are
neither written nor failed. `dstMiscounted` are the records that the code
counts as written on an answer that does not say so (they are listed at
`Accounted`). The streams of Zendesk that can be written have both paths
(`zendesk.go:33-52`), so the branch for one without `updatePath` is not taken.

### Runtime, MessageHandler, Registry

`Runtime` is one `ExecuteRead` or `ExecuteWrite`: sender, relay, receiver,
two bounded channels, the sandbox with its deadline, the record limit and
the tracker. `rtCrashed` is a send on a closed channel in a goroutine that has
no recover. `MessageHandler` is `handleRecord`, `FlushBatch`, the timer and its
callbacks, with the flush function outside the mutex. `Registry` is
`LoadFromConfig` and a `HealthCheck` in three sections, which writes through a
pointer that the reload may have replaced.

### Workers, Partitioner, FieldMapper

`Workers` is about one worker at a time, used by two goroutines: `Process` of
the extract worker behind its running flag; `deduplicateRecords` on the bits of
a Bloom filter, then a mapping that may fail; `ProcessBatch` with chunks, feeder,
retries and dead letters; and the supervisor, whose scalings read a size and
resize later. `Partitioner` writes each loop of `partitioner.go` as a function of
its number of iterations, with ids of `PartIdBits` bits. `FieldMapper` is the
mapper, the coercions and the columnar batch on values that are known by their
type and by what they parse as. Both are pure; `MCPlatform` evaluates

* `PartitionersTile`: every offset, id and second of a range is in exactly one
  partition, except for the fraction of the last second, which RFC 3339
  formatting cuts off, and for ids near the largest one, where `current` wraps
  (`partitioner.go:114`);
* `ColumnarAgrees`, `OrderIrrelevant`, `RoundTrips`: the row-wise and the
  columnar way to map a batch agree, mappings that do not touch each other may
  come in any order, and a conversion and its inverse give the value back

as assumptions (`PartitionsCorrect`, `MappingsCorrect`) over all small inputs.

### Control plane

* `Scheduler`: the loop takes ticks from a channel of capacity one;
  `fireDueSyncs` holds the lock and starts what is due; `ScheduleSync` computes
  the next run before it takes the lock. `NextCronTime` searches minute by minute
  as the code does, over a calendar whose hours, days, months and weeks are
  constants, two of each in the run. The search is a function of the minute it has
  come to (`CronSearch`). A zone is an offset from UTC and one period of summer time
  (`Zones`): `Wall` is what its clocks show, `Date` is `time.Date` with its two
  look-ups of the offset. Where the clocks go forward, `Date` may answer with the
  very hour that was to be skipped, and the search stays there until it gives up.
  `loadFromRepo` searches in the server's zone (`SchLocal`), later searches of such a
  row are in UTC.
* `Managers`: one row and its cached copy, for configurations, schemas or
  tenants. Each call of the store or the cache is a step and may fail. `mgrRisk`
  remembers why a stale copy may stay.
* `TenantRouter`: `ForTenant` in its two critical sections, `Evict`, the
  sweep of idle pools tenant by tenant, `Close`.
* `Catalog`: the tables with their foreign and unique keys, the requests that
  change them, each statement a step.

### Limits, Audit, Embedded, Keyring, Secrets, Gateway, Subscriptions

* `Limits`: five limiters on one key; callers find an entry and use it after
  the lock of the map is released. Times are ticks, of which a second has some;
  `RedisWindow` cuts a window to whole seconds as the code does. Of each entry, the
  history `log` is the set of requests it let through in the last window, each with
  its time and number (`Noted`), and `late` counts those after it had left the map.
* `Audit`: `flush` takes the buffer under the mutex and writes without it;
  loggers, queries, the loop and `Close` all flush.
* `Embedded`: integrations are read, changed and written back whole; the OAuth
  manager calls the provider between two critical sections.
* `Keyring`, `Secrets`: versions of keys, and ciphertexts whose tag holds a version
  up to `KeyTags`; files that are truncated and then written, with a crash in between.
* `Gateway`: connections of one transport, requests, the sandboxed tool with its
  goroutine, audit entries, `Stop`. Over SSE a response is pushed onto the client's
  stream (`Push`) and then written as the answer of the request (`Answer`).
* `Subscriptions`: publishers under the read lock, subscriptions whose channel is
  closed after the lock is released; the Redis subscriber's goroutine and `Close`.

## 3. Runs

Passing runs check deadlock too, except where callers may simply stop (`Pool`,
`Batcher`: nobody has to submit or add anything more).

| Run | Instance | Distinct states | What it checks |
|---|---|---|---|
| `orchestrator` | 2 runs, 4 signals, execution timeout | 787 698 | `AtMostOneResumeLost`, `ReportsTruthful`, `CancelStopsRun`, `PauseHolds`, `EndsUnlessPaused` |
| `pool` | 3 items, 2 workers, concurrency 1, Resize to 2 | 544 352 | `CountersExact`, `NoItemLostOrDuplicated`, `ShutdownDrains`, `AcceptedAreProcessed` |
| `batcher` | 4 adders, 2 callbacks, 1 flusher, maxSize 3 | 76 011 | `BatchesBounded`, `OnePlace`, `TimerKeepsGoing`, `ImplementsHandoff` |
| `pipeline` | 2 streams of 3 and 1 records, batch and page 2, 2 partitions, 2 attempts of everything | 416 379 | `CheckpointCovered`, `CleanSyncIsComplete`, `KeyedLoadedOnce`, `PartitionsTile`, `FetchesEnd` |
| `connectors` | 22 ways to read 3 rows in pages of 1 (Snowflake: 2), 8 connectors that write 2 inputs, 4 messages through the runtime, 5 through the handler | 3 071 748 | `NothingLost`, `CleanReadIsComplete`, `NoSilentLoss`, `RelayFaithful`, `BufferedWillFlush` |
| `platform` | thirteen services, two concurrent callers of each | 1 375 194 | `StaleOnlyAfterOverlap`, `QuotaOvershootBounded`, `NoPoolLeaked`, `DeduplicatedNotLost`, `LoadedOrDead`, `AdmissionBounded`, `ExchangedOnce`, `EventsAccounted`, `AuditedOnce`, `ChannelsSafe`, `OncePerSlot` |

Every run also has one type invariant, `TypeOK`; in `connectors` and `platform`
it carries the smaller invariants of the parts (attempts of the HTTP client,
sizes of a pool, health of the present configuration, references of the catalog,
readable ciphertexts and secrets). These two runs do not check deadlock: a
behaviour of a part may simply be over. Six further runs are expected to end in a
counterexample; see section 6.

What the passing runs show:

* **orchestrator**: whatever the order of signals, failures and retries, no
  phase starts after a cancel was applied, a pause holds until a resume is
  taken, of the resumes delivered to a paused sync the handler can swallow one
  at most, records and alerts agree with the run, and nothing but a pause keeps
  a sync from ending.
* **pool**: in every interleaving each accepted item is in the channel, in one
  worker's hands or done; counters are exact up to the steps in progress; when
  `WaitIdle` returns, an item that is not done is in the hands of a worker that has
  yet to count it as active, or counted it after the first of the two loads; a
  Shutdown that returns nil has drained the pool, and accepted items are
  processed, as long as nobody cancels the context.
* **batcher**: it implements `Handoff`, liveness included.
* **pipeline**: a checkpoint never passes a record that was not read; a sync
  without errors has stored every record its checkpoint covers, or one whose key
  makes the same text (`KeyText`), unless a connector counted what it did not
  store; partitions that read the same records do not
  load one twice when it has a key; ranges tile the estimate; a cancelled `Read`
  never stays blocked on a full channel.
* **connectors**: which changes an incremental read may miss, connector by
  connector: those made in the very tick that a strict cursor names, those
  that move across a page cut by offset, what S3 and Zoom skip, and what Snowflake's
  order or its answers in partitions leave out, and no other; and when a read
  that ended without an error may be incomplete (the list is at
  `CleanReadIsComplete`). `Write` loses no record without an error, a failed count or
  a count that falls short of the records it took, but for the answers listed at
  `Accounted`; and it acknowledges no state in front of such a loss. The relay keeps
  order and leaves no gap; a buffered record always has a timer or a callback on its
  way.
* **platform**: a stale cached copy has one of three causes, each an overlap or
  a failed call; a quota is overrun by less than the number of callers; the open
  pools are the ones in the router's map or in a call's hands; the Bloom filter
  loses only records of failed batches and true collisions; a record of a batch
  that was processed is in the destination or in the dead letters; each limiter's
  bound for *any* stretch of one window: its limit, one more, twice the limit for
  the counters that begin again, three times where Redis cuts the window to whole
  seconds; an entry removed beside its callers adds one request for each of them; a
  code is exchanged once; audit events and audit entries are neither lost nor
  doubled; a response is the answer of its request once, and once more on the
  stream over SSE; no publisher has a closed channel before it, and the Redis
  subscriber closes each channel once *as long as Subscribe is not called again before
  Close* (`redOverlap`: with a second Subscribe a done channel may be closed twice or
  never, and the model says nothing more of that case); a schedule is started once
  for each minute that its expression names, except where the search after a start
  fails (`GapAhead`), when it is started at every tick.

### Bounds, and why they are enough

* `MaxRuns = 2` has a first, a retried and a last run. `MaxSignals = 4` allows
  pause, two resumes and a cancel in any order, the longest interplay the
  handlers have: after two resumes the waiting list is back where it was. The
  theorems cover any number of both.
* `Items`: three with a buffer of two (`Concurrency * 2`) fill the channel and
  block a sender; one has a context, one fails. Two workers: the one `Start`
  launches and the one Resize adds.
* `Records`: four with `MaxSize = 3` fill a batch and leave one; two callbacks
  overlap with each other, with Flush and with Close.
* `Size = <<3, 1>>`, `Start = <<1, 0>>`, `BatchSize = PageSize = 2`: the first
  stream is incremental, starts inside and is longer than a batch and a page;
  the second has the one record that cannot be mapped or coerced.
  `Discovered = {0, 3}` gives both the sequential and the partitioned way.
  `MaxBatches` bounds a loop the code leaves only at the end of the source or
  with the run's timeout.
* `SrcRows` has three rows in pages of one and a clock of three ticks: a row can
  change before, on and behind the page being read, twice in one tick, and again
  between two reads. `SrcMaxReads = 2`: a read, and one from its state.
* `DstInputs`: two inputs of which each fills a buffer of two and leaves a record
  over, one with a state in the middle, one with a record that does not parse;
  one retry, two calls, two seconds.
* In `platform`, two callers are enough for every overlap of two calls; the
  clocks pass one window, idle time or expiry and part of the next; a window of three
  ticks is one second of two and a fraction; `SchMaxTick = 10` goes over the ends of an
  hour, a day, a month and a week of two (one for months' days). The clocks of one
  zone, `West`, go forward within the run and those of the other, `East`, the
  server's, go back: both changes fall on schedules. `KeyTags = 2` with the
  versions 1 and 2 has a version that fits its tag and one that does not. `WrkBits`
  overlap, so that a record can be covered by two others.
* `MCSourceKey` and `MCCoercedKey` have two keys that a coercion makes equal and one
  that it leaves.

Some definitions have a second version next to them, marked as a mutant: the
same code with one plausible mistake. `PROJECT.json` pairs each checked property
with a mutant that violates it, so that each is known to depend on the code.

## 4. Fairness

| Module | Weakly fair | Why |
|---|---|---|
| `SyncOrchestrator` | `RootStep`, `HandlersRun`, `ChildStep`, `ActivityStep`, `Retry` | workers poll their task queue; children and activities have timeouts and bounded attempts; the server applies the retry policy |
| `Pool` | `LaunchWorkers`, each `Worker(w)` | the Go scheduler runs goroutines that can run, and processors return |
| `Batcher` | `Fire`, each `timerFlush(t)`, the flush return of each caller | an armed timer fires, a waiter gets the mutex (Go's mutex is starvation-free), flush functions return |
| `Pipeline` | each `FetchStep(p)` | goroutines of a fetch run, API requests return |

Nothing is assumed of users and callers: signals, Submit, Resize, Shutdown, Add,
Flush, Close, cancellation and loss of an attempt may or may not happen.
`MCConnectors` and `MCPlatform` state no fairness: their properties are
invariants and one action property (`BufferedWillFlush` says that the timer
that will flush is there, not that it fires).

## 5. Proofs

All theorems hold for every value of the constants that satisfies the named
assumptions: counts and sizes are naturals, positive where the code divides by
them or makes channels of them; sets of processes are disjoint where the
goroutines they name are different ones (`AuditAssumption`, `HandlerAssumption`);
`ManagersAssumption` has finitely many callers and at least one, without which a
bound by their number says nothing; the rows that `SchedulerAssumption` lets the
scheduler load are of syncs, as a row's key is; in `ZonesAssumption` clocks change once,
on the hour, by an hour, for longer than an hour and than the offset; and `RegistryAssumption` has
finitely many connectors, as the loop of `HealthCheckAll` needs. TLC evaluates each assumption in the run of
its module.

Each theorem `Spec => []P` has the same shape: an inductive invariant `I`, one
lemma that `Init` implies it, one that each action preserves it, and `I => P`.
The parts of `MCConnectors` and `MCPlatform` are proved of their own
specifications (`RouterSpec`, `ManagersSpec`, `GatewaySpec`, ...), which these
modules run side by side.

**SyncOrchestratorProofs.** `TypeCorrect`; `ResumeLossBounded`
(`AtMostOneResumeLost`), `CancelledRunLoadsNothing` (a run that returns "sync
cancelled" never started its load), `CancelIsObeyed`
(`CancelStopsRun`), `PauseIsObeyed` (`PauseHolds`), `ReportsAreTruthful`. None of
these is inductive alone. `ResumeInv` describes the waiting list of the resume
channel in each place the root can be blocked: who is first in line depends on
how many resumes came since the root blocked. `ProgressInv` says which children
have started and succeeded at each place the root blocks, and what it is
about to return. `ReportInv` ties past records and alerts to `run`, so that a
retry turns facts about this run into facts about an earlier one.

**BatcherProofs.** `TypeCorrect`, `BatchesAreBounded`, `RecordsInOnePlace`
(`OnePlace`), `TimerIsKeptGoing`, and `BatcherRefinesHandoff`: the batcher
implements the safety part of `Handoff`. The inductive invariant is the four
properties and `CallersFree`: a caller that has yet to drain holds no batch,
without which a drain could overwrite a batch in flight. The refinement then
shows each action to be an `Accept`, `Refuse`, `Complete`, `HandOver`, `Return`
or a stutter.

**PoolProofs.** `TypeCorrect`, `ItemsInOnePlace` (`NoItemLostOrDuplicated`),
`CountersAreExact`, `DrainedMeansProcessed` (`ShutdownDrains`). The invariant is
`TypeOK`, the two properties, `Counts` (a counter equals the cardinality of the
set of items or workers it counts, shifted by those between two steps), `Between`
(a worker that runs an item while `WaitIdle` is between its loads has begun it
there) and `Lifecycle`: how far Start, Shutdown and the workers may be of each other. The
drain needs the last: a worker leaves an item behind only if it exits on a cancel
or before the channel was closed and empty.

**PipelineProofs.** A sync is followed from the source to the destination by
`SyncInv`, in four parts:

* `ExtractInv` follows the records through the channel: what `Read` has sent of a
  stream is all below its position (`ReadBacked`); a state in the channel is
  behind its records, or those were received already (`StatesBacked`); what an
  activity takes as its new state is covered by the records it received and those
  of earlier batches (`Covered`). Cancelling, losing an attempt, draining after
  the limit and merging partitions in any order all preserve it.
* `TransformInv`: a record in the phase was extracted and its key has the text of
  the phase (`MappedText`, `KeyText`); while no error is noted every extracted
  record is there, or after `Deduplicate` one that shares its text (`SharesText`); no
  record of a stream with a key is there twice.
* `LoadInv`: a write's count is no more than its batch has, and, unless
  `overcounted`, as much only if all of the batch is stored; the total after `g` futures is at most
  `UpTo(n, g)`, the size of the first `g` batches, and as much only if these are
  all stored. A batch is never empty, so that one failed or short write makes the
  total fall behind for good, which `ConfirmWriteActivity` then sees.
* `SourceInv`: what is read is of the source, within the channels' capacity.

From these: `CheckpointIsCovered` (`CheckpointCovered`), `PartitionsAreTiled`
(`PartitionsTile`; it rests on `DivFits`: the equal parts fit, the last takes the
remainder), `PipelineTypes`, `KeysAreLoadedOnce` (`KeyedLoadedOnce`) and
`CleanSyncStoresAll` (`CleanSyncIsComplete`).

What the loops of the transform activities return is a recursive function of the
records (`AppendKept`). The library's induction theorems cannot be instantiated
here, but a set has no descending chain of numbers below its least element
(`WFMin`): `SetInduction` turns this into induction for a *set* of numbers, and
`AppendKeptIs` and `Picked` say with it what the loop computes for every input:
the kept records, each once and in their order. `splitIntoBatches` is described
by `BatchesAre` with the quotient of `\div`.

**ConnectorProofs.** `RelayIsFaithful` (`RelayFaithful`): the invariant counts how
many messages went in (`RtCame`), and says that what came out, what the relay
holds and what the channels hold are, one after the other, the messages up to
there. `BatchesWillFlush` (`BufferedWillFlush`): a record is in one place
(`MhOnce`), and a buffer that holds any has a timer that lives (`MhTimerLive`).
`WritesLoseNone` (`NoSilentLoss`): a record Write has taken is *settled*, still
in its hands, in the buffer or in a job that is left, or the count falls short
(`DstKept`): what the result tells of and what is in hand are never more records than
were taken (`DstCounted`), so that one that went out of the hands untold leaves a
gap that no later step closes (`Short`). What is settled
stays settled (`SettledKept`), in S3 too, where an upload replaces the object of its
key: the file index of the key grows within a call, so `Settled` counts only the
objects with an index the call has used up. That the same second and index of an
*earlier* call may be replaced does not touch the result of this one.

`NoChangeIsLost` (`NothingLost`) and `CleanReadsAreComplete`
(`CleanReadIsComplete`), for any rows and page size. `SrcCovered` is `NothingLost`
with the state the read under way began from, and holds in the middle of a read
too. What makes it inductive is `SrcProgress`, how far a read has come with what
its filter selects. Each way to read has its own: what was queried is among the
rows got and the rest of the fixed result, or its row has changed since
(`SrcQueried`, `SrcFetched`); it was got, lies after the place reached, or moved in
the tick that a page ended with (`SrcPassed`, `SrcListed`); or, as long as no row
changes, those with fewer ahead than the offset were got (`SrcCounted`), for
Snowflake as long as no page ended between rows that its order leaves open. The
lemmas on listings say that `Before` orders them, that `Ahead` numbers a finite set
without gaps, and that a page is therefore the whole of what is listed or ends at
a row with everything skipped behind it (`PageIs`, `FirstFew`, `ShortPageIsLast`).

`ConnectorsKeepTypes` (`TypeOK` of `MCConnectors`), by `EveryPartRuns`: a behaviour of
the composition is one of each part, so that the theorems above hold in it. With
the types go the limits of what is held: attempts of the HTTP client, channels of
the runtime, buffers and jobs of the destinations, the handler's batch.

**ControlPlaneProofs.** `RouterLeaksNoPool` (`NoPoolLeaked`) and `RouterOneOwner`:
a pool is in the map or in one call's hands, never in two. `QuotaOvershoot`
(`QuotaOvershootBounded`): a caller past its check was counted at most once, so
that the rows above the quota are fewer than the callers. `CacheTrueToStore`
(`StaleOnlyAfterOverlap`): a copy a caller holds is of the present version or
`mgrRisk` says what crossed it (`Versions`, `Settled`). `EverySlotOnce`
(`OncePerSlot`): each entry's next run is a minute its expression names, and the
first such after the last one started, or is that very minute when the search after
it failed (`EntryIs`). `NextCronTime` jumps over months, days and hours and gives up
at a horizon. `CandidateIs` shows that no jump passes a minute that matches and is not
shown again, and that a jump goes forward unless the clocks have a gap to come west of
UTC (`GapToCome`). `SearchFinds`: the search ends at the first match, by induction on the distance to go (with `WFMin`, as
above). A minute the clocks show twice is found the second time (`ShownLast`), since
`Date` answers with that one; and `CronRepeats` has the calendar's period within the
horizon, past the last change of the clocks.

`CatalogStaysWhole`: what a request has yet to write is a row with the references
of the one it read, whether that row was deleted or written over meanwhile, or a
version with a number that was free when it looked or is taken by now
(`CatPending`); a delete takes all that refers to its row with it, the versions of
a stream too, or fails (`CatRowsWhole`). `KeysReadTheirTexts`: also of a version that
the tag cuts, for which it promises nothing; `SecretsAreWhole`,
where a file without its text is in a write's hands or was left by one that was cut
off (`SecretsIInv`); `HealthIsPresent`: no two connectors share a record, and the
status a check is about to write is the present one unless a reload has replaced
the record it points to (`RegPoints`).

**ServiceProofs.** `GatewayAudits` (`AuditedOnce`), by the order in which tool,
deadline and answer may come (`GwOrder`, `GwEntries`); `CodesExchangedOnce`
(`ExchangedOnce`): a flow is removed under the lock before its code is used;
`AuditLosesNone` (`EventsAccounted`): an event is in the buffer or in one flush
until it is stored or dropped by the cap; `SubscriptionsSafe` (`ChannelsSafe`): for
the Redis subscriber, unless Subscribe is called again before Close.
`AdmissionsAreBounded` (`AdmissionBounded`): what an entry lets through in *any*
stretch of one window is at most `LimMost`: its limit (the MCP worker), one more (the
HTTP client), twice that (counters that begin again, buckets that refill), or three
times (Redis, when whole seconds are less than the window). The invariant (`LimKept`)
relates what is counted to what was let through, for each limiter in its own way:
a counter to its window and those before it (`LimCounted`), a bucket to the tokens
that came since any time (`LimFilled`), the pace to the waits since any time
(`LimPaced`), the worker's times to those of the last window (`LimSlides`).
`LimLate` bounds what a removed entry still lets through by the callers that hold it.

`DedupLosesNone` (`DeduplicatedNotLost`): goroutines that share
the Bloom filter leave a record out only when its bits were set by others;
`WrkPlaced` says where each record of a call is and `WrkFilter` who set which
bit. `LoadsLoseNone` (`LoadedOrDead`): each chunk is waiting, in one goroutine's
hands, written, dead-lettered or reported.

**PlatformProofs.** `PlatformKeepsTypes` (`TypeOK` of `MCPlatform`), by
`EveryComponentRuns`: a step of the composition is one of a component and leaves
the others alone, so that a behaviour of the composition is one of each, and the
theorems of the two modules above hold in it. Most of what `TypeOK` says of a
component is a bound that is not inductive alone (a queue within its capacity, an
integration that has tokens, a size within the configured ones): each has its
lemma, `GatewayTypes`, `EmbeddedTypes`, `SchedulerTypes` and so on, and reuses
the invariant the safety theorem of the component rests on.

Every invariant and action property of the passing runs is stated by a theorem.
Only model-checked:

* all liveness (`EndsUnlessPaused`, `AcceptedAreProcessed`, `FetchesEnd`, the
  fairness half of `ImplementsHandoff`): the prover handles neither fairness nor
  `ENABLED`;
* what `Partitioner` and `FieldMapper` compute (`PartitionsCorrect`,
  `MappingsCorrect`): facts about recursive functions of all inputs, evaluated on
  small ones;
* the six counterexamples of section 6.

## 6. Where the code and its documentation disagree

Each is a run of its own, with one property that states what is written; TLC's
counterexample shows what the code does. The quotations are in `PROJECT.json`.

| Run | Written | The code |
|---|---|---|
| `pause_ends` | a pause "blocks until resumed or cancelled"; a resume makes the workflow continue | the handler coroutine is first on the resume channel and takes the resume, and `checkSignals` does not wait for a cancel |
| `submit_never_panics` | Submit returns an error after shutdown | a Submit past its check sends on the channel Shutdown closes |
| `dropped_are_duplicates` | Deduplicate removes duplicates | it runs after the mapping but looks the key up by its source name; with a renamed key all records look alike |
| `clean_sync_reads_all` | extraction paginates through all batches | partitions fetch one batch each, `HasMore` is ignored and no connector reads `__partition` |
| `acked_state_is_stored` | buffers are flushed before a state is acknowledged | a flush that failed is noted as an error and the state acknowledged |
| `sandbox_recovers` | the sandbox recovers from panics | the connector runs in a goroutine without a recover, and the runtime closes its channel when the context ends first |

The models show more, which have no run of their own. The properties of the passing
runs name each as an exception, at the place given last.

| Written | The code | In the models |
|---|---|---|
| | a cancelled sync ends with a retryable error, so that the retry policy runs it again, the cancel forgotten (`orchestration/client.go:93`) | `Retry` |
| WaitIdle "blocks until all submitted items have been processed" (`pool.go:236`) | it loads `active` and then `pending` (242): both may be 0 while an item that was submitted before runs | `CountersExact` |
| it "removes duplicate records from a batch based on primary" keys (`transform_activities.go:326`) | keys are compared as texts joined with a bar (400-403), after the coercion: different keys may merge | `KeyText` |
| | some connectors count records that they did not store, without an error, so that `ConfirmWrite` passes: `intercom.go:572`, `bigquery.go:731`, `snowflake.go:919`, `hubspot.go:581`, `zendesk.go:528, 533, 557` | `overcounted`, `Accounted` |
| | results that are missing from an answer are neither written nor failed (`salesforce.go:452-455`, `hubspot.go:574-600`), nor is the message that is taken when the context is done (`bigquery.go:740-743`, `snowflake.go:734-737`, `s3.go:872-875`) | `NoSilentLoss` |
| | Snowflake pages without a tie-breaker, a full refresh without an order (`snowflake.go:589-618`), and takes the first partition of an answer (656); Intercom ends a scroll when the parameter repeats (`intercom.go:398`) | `CleanReadIsComplete` |
| `ResultsField`: "If empty, the root is assumed to be the array" (`pagination.go:36-37`) | the `OffsetPaginator` finds no results then (87-89) and ends at the first page | `pagesRoot` |
| NextCronTime searches "up to 4 years to handle all valid cron patterns" (`scheduler.go:395-396`) | west of UTC the search stays in the hour before the clocks go forward (429) and fails: ScheduleSync refuses the expression, and a schedule that is due is started at every tick until the clocks have changed (234-239) | `GapAhead` |
| | the first run of a row of the repository is searched in the server's zone (264), the later ones in UTC (227-233) | `loadFromRepo` |
| "a sliding window token bucket" (`storage/redis/ratelimiter.go:11`), "a sliding window counter" (`mcp/security/auth.go:199`) | counters that begin again: twice the limit passes within one window, and three times where the window is cut to whole seconds (`ratelimiter.go:77-80`) | `LimMost` |
| | over SSE a response goes out on the stream and in the body of the POST (`sse.go:217-235`) | `AuditedOnce` |
| | `AddKey` takes any version from 1, the tag of a ciphertext holds 32 bits of it (`keyring.go:93`): one made with a larger version is not read | `KeyringTypeOK` |
| | a second Subscribe before Close replaces the channel that the first goroutine is to close (`pubsub.go:59, 74`) | `ChannelsSafe` |

## 7. What is not modelled, and the plan

Left out for good, as pure I/O or pure functions of one request:

* the expression engine, the auto-mapper, templates and the visual model of
  `internal/mapping`: an interpreter, similarity measures and data over strings;
* authentication, JWT, RBAC and ciphers; white-label configuration;
* MCP tools and the connector builder, which call services modelled elsewhere;
* the blob store, routing, CORS, logging, metrics, tracing, configuration
  parsing and the commands. No command registers the workflows yet, and nothing
  connects the interfaces of the REST handlers to the repositories: `Catalog`
  puts the statements directly behind the handlers;
* `FlushBatcher` of the load worker, which nothing calls;
* `Spec`, `Check` and `Discover` of the connectors, request building, file
  formats and type mapping; reads that change no state of lists and look-ups.

Payloads are abstracted to what a property tells apart.

One hazard has no property: two writes of an S3 stream in one second share an
object key (`s3.go:941`). `Destinations` has the keys and the replacement, but
`NoSilentLoss` is about one `Write`.

The order followed importance to the data: syncs first, then the machinery
that runs them, then connectors, then the control plane.

1. *Done:* orchestrator, pool, batcher with its abstract specification, the data
   path of a sync.
2. *Done:* connectors, runtime, message handler.
3. *Done:* workers and supervisor, scheduler, managers, router, catalog, limits,
   audit, embedded, keys, secrets, gateway, registry, subscriptions.
4. *Done:* proofs of all safety properties of the runs, types included.

## 8. Running it

    tlc -workers 2 -config MCPipeline.cfg MCPipeline     # one run
    tlapm PipelineProofs.tla                             # one module's proofs

`PROJECT.json` names the module and configuration of each run, the lines of
source each definition models, and the theorem that covers each property.
