# TLA+ models of relayna

relayna is a Python SDK for task processing over RabbitMQ and Redis (`src/relayna`), with a
control plane, Studio (`studio/backend`, `apps/studio`), that watches services built on it.
This directory holds TLA+ models of the parts where processes, brokers and stores interleave, the
TLC runs that check them, and TLAPS proofs of most of their safety properties.

Paths below are relative to the repository root; `studio/` stands for
`studio/backend/src/relayna_studio/`.

## 1. Inventory

### 1.1 The SDK

| Part | State | Operations | Hard because |
|---|---|---|---|
| `consumer/task_consumer.py` TaskConsumer | the delivery at hand; everything else is in broker and Redis | receive, fan out a batch, acquire lease, run handler, manual retry, retry, dead-letter, reject, ack, release | publish and ack are two calls; channels get lost under running handlers; errors in `finally` |
| AggregationConsumer (same file) | as above, shard queues | the same without leases | as above |
| `consumer/workflow_consumer.py` WorkflowConsumer | as above, per stage | validate, dedup, mark in flight, lease, handler with timeout, retry, dead-letter, clean up | dedup key, in-flight entry and lease are taken and given back around a message the broker may redeliver |
| `storage/task_lease_store.py` | lease key with TTL, expiry index, claimed set, owner set | acquire, heartbeat, release, claim_expired, scan | read and write are separate round trips; TTL and `expires_at` are different clocks |
| `storage/workflow_contract_store.py` | dedup keys, in-flight hash | acquire, release, mark, clear | HSET and EXPIRE are two calls |
| `policies/retry.py` | none | decide_retry | off-by-one at the retry budget |
| `status/store.py`, `status/hub.py` | dedupe marker, history list, channel, feed, child index | store an event, announce it, ack | a marker that must be undone when the push fails; several handlers, several hubs |
| `status/stream.py` | per connection: what was replayed | subscribe, replay history, follow, resume | the gap between history and subscription |
| `_async.py` run_bounded_iterator | semaphore, tasks, first error | dispatch, drain, stop, cancel | done callbacks run late; `finally` can replace a cancellation |
| `dlq/service.py`, `dlq/store.py` | record, indexes, replay lock | replay, force, retry, mark investigated, delete | whole-record read-modify-write beside a lock that only replays take |
| `rabbitmq/client.py`, `topology/` | connection, declared queues | publish, declare | seen from outside as publications and deliveries |
| `observability/feed.py` | service event feed, forwarder buffer | store, evict, page, flush | two flushes at once (`feed.py:334`); pages of a feed that moves |
| `observability/backpressure.py`, `_async.py` map_bounded | results by position | collect, inspect | collectors that fail or end in any order, one bounded map inside another |
| `observability/execution_graph.py` | none: built from three lists | add observations, statuses, dead-letter records | evidence with gaps, three clocks |
| `api/fastapi_lifespan.py` | connections, hub task | start, stop | an error half way through start or stop |
| other `api/`, `mcp/`, `contracts/`, `workflow/`, `metrics.py` | none of their own | routes, conversions, formatting | - |

The parts interact like this. Producers publish tasks through the RabbitMQ client; consumers take
deliveries (through run_bounded_iterator when the prefetch is above one), hold a lease in Redis
while the handler runs, publish status events, and move failed messages to the retry queue, whose
TTL brings them back, or to the dead-letter queue, where a DLQ record mirrors them in Redis. The
status hub consumes the status queue and writes Redis; SSE streams read the history and follow the
channel. Operators replay or retry DLQ records through the API. The lease scanner publishes a stale
status for leases whose worker died.

### 1.2 Studio

The backend keeps its state in PostgreSQL or, by configuration, in Redis; several replicas may run.
On PostgreSQL an operation is mostly one transaction, on Redis it is a series of calls.

| Part | State | Operations | Hard because |
|---|---|---|---|
| `studio/_recovery.py` recovery center | plan rows, claims on failures | preview, create, control, dispatch loop, observe | a POST that must never be repeated; late answers against an observer; stale plans |
| `studio/events.py`, `database.py` ingest | pull cursor, events, dedupe keys, a search document per task | push, pull, project, rename, delete, prune | pages of a moving feed; read-merge-write of documents by concurrent ingests |
| `studio/registry.py` | service record, URL reservation, list, search card | create, update, delete, refresh | four keys per service; refresh writes a record it read seconds ago |
| `studio/health.py` | health document per service | refresh, derive the status shown | overlapping refreshes each write a copy |
| `studio/_provider_availability.py` | gates in a bounded cache | run, probe, wait, release | eviction under use; late success against a fresh outage |
| `studio/failed_task_notifications.py` | settings, pending batch, marks, lock | sweep, send, patch | lock that expires; mail sent and mark not stored |
| `studio/_incident*.py` | incidents, groups, revisions | list, change, merge, split | corrections from stale pages |
| `studio/auth.py`, `_operator_auth.py` | login transactions, members, sessions, audit | sign in, update a member, mutate upstream | last-administrator check; callback sent twice |
| `studio/load_testing.py` | test records, the chamber connection | plan, start, status, cancel | lost answer of a POST, moved connection |
| `studio/backfill.py` | the tables, the import marker | scan, check, import | source still written, two runs at once |
| `studio/_reliability.py` | goals, alert receipts | webhook, mail; preview, export of rules | repeated and overlapping webhooks; two judges of one set of samples |
| `studio/federation.py` | cursors handed to the browser | page failed tasks, resolve joins | lists that change between pages; services that do not answer |
| `studio/search.py` | documents by last time seen | search, prune | as above |
| `studio/app.py` | resources, workers | start, stop | workers that fail or hang |
| `studio/logs.py`, `metrics.py`, `traces.py`, views, `_doctor.py` | none | query, format | - |

The parts meet in the database: ingest writes the documents that search pages, the registry renames
and deletes what ingest is writing, health reads the events and capabilities the others stored. The
interactions that race are inside the models (rename and delete are actions of EventIngest, the
health card one of ServiceRegistry); for the rest every part only sees rows that are there or not.

### 1.3 What makes each part correct

- Consumers: no accepted message is lost; a message is dead-lettered only when its retries are used
  up; two workers never run one task under a valid lease; duplicates come from faults only; queues
  drain.
- Lease store: one holder; an expiry is reported, and once; nothing is left in the indexes.
- Status: what is acked is in the history once, announced, in order; a stream has no gap and ends.
- Dispatch: permits balance; the channel closes after the handlers; errors surface; stop and
  cancel end the consumer.
- DLQ: one replay without force; the record tells the truth; the lock does not stick.
- Workflow: one handler per dedup signature; only duplicates are turned away; nothing lost, nothing
  left behind.
- Observability: an observation is dropped only once delivered; a snapshot reports each source; a
  graph hangs together and ends as the task did.
- Recovery: a failure is sent once and only with authority; the report is true and final.
- Ingest: the cursor covers what is stored; documents count every event and carry the current name.
- Registry and health: one service per URL; the operator's word stands; healthy means seen lately.
- Mails (failures, alerts): each once, and none forgotten.
- Access: an administrator remains; a login is used once; no effect without an audit entry.
- The rest: a failure has an incident; a plan has one job; an import has owners; pages miss nothing.

## 2. Modules

| Module | Models | Composition |
|---|---|---|
| `TaskDelivery` | abstract: at-least-once handling as producers see it | implemented by TaskConsumer |
| `TaskConsumer` | TaskConsumer with retry, manual retry, leases, batches | refinement mapping `Delivery` |
| `TaskConsumerProofs` | theorems about TaskConsumer, and that it implements TaskDelivery | extends it |
| `TaskLeaseStore` | one lease id, workers, expiry scanners, time | the lease of TaskConsumer in detail |
| `TaskLeaseStoreProofs` | theorems about TaskLeaseStore | extends it |
| `StatusHub` | hubs, their handlers, `set_history` | extended by StatusStream, in MCRuntime |
| `StatusStream` | SSE clients over the history and channel of StatusHub | composes both |
| `BoundedDispatch` | run_bounded_iterator and the loop of run_forever | the slot of TaskConsumer in detail |
| `BoundedDispatchProofs` | theorem about BoundedDispatch | extends it |
| `WorkflowConsumer` | WorkflowConsumer and the contract store on one stage | |
| `WorkflowConsumerProofs` | theorems about WorkflowConsumer | extends it |
| `DLQRecords` | one DLQ record, operators, the replay lock | in MCRuntime |
| `Aggregation` | AggregationConsumer, shards, prefetch | in MCRuntime |
| `ObservationForwarder` | the batching sink of observations | in MCRuntime |
| `ExecutionGraph` | build_execution_graph and the live states | in MCRuntime |
| `Lifespan` | start and stop of a service's API and of Studio | in MCRuntime |
| `Backpressure` | the snapshot, its collectors, map_bounded | in MCRuntime |
| `RuntimeProofs` | theorems about DLQRecords, StatusStream with StatusHub, Aggregation, ObservationForwarder, Lifespan, Backpressure, ExecutionGraph | extends them |
| `Recovery` | recovery plans and the service that is retried | MCRecovery |
| `EventIngest` | feed, pull, push, documents, rename, delete | MCEventIngest; both ends of the feed |
| `ServiceRegistry` | records, reservations, cards | in MCStudio |
| `HealthStatus` | the health document and what is shown of it | in MCStudio |
| `ProviderAvailability` | gates, probes, waiters, the bounded cache | in MCStudio |
| `Notifications` | mails about failed tasks | in MCStudio |
| `Incidents` | grouping, merge, split | in MCStudio |
| `StudioAuth` | logins, members, audit | in MCStudio |
| `LoadTesting` | plans, runs, chamber connections | in MCStudio |
| `Backfill` | the import from Redis | in MCStudio |
| `Reliability` | alert webhooks and their mails | in MCStudio |
| `ReliabilityGoals` | preview and exported rule on the same samples | in MCStudio |
| `FailedTaskPages` | merged pages of failed tasks | in MCStudio |
| `TaskJoins` | related tasks of other services | in MCStudio |
| `SearchPages` | paging through task search | in MCStudio |
| `StudioProofs` | theorems about StudioAuth, LoadTesting, HealthStatus, Backfill, Notifications, ProviderAvailability, Reliability | extends them |
| `StudioStoreProofs` | theorems about ServiceRegistry and Recovery | extends them |
| `StudioViewProofs` | theorems about EventIngest, SearchPages, FailedTaskPages, TaskJoins, Incidents, ReliabilityGoals | extends them |
| `StudioValues` | the value for absent rows | extended by the Studio modules |
| `MC...` | model values and small functions for TLC | |

`MCRuntime` and `MCStudio` hold parts that do not meet: a behaviour chooses one of them in its
initial state (`active`) and takes only its steps. That is the disjoint union of the separate
models, not their product, so nothing is lost and nothing is multiplied.

Conventions: an action is the code between two awaits that another process can observe; `pc` (or
the step field of a request) names the next await. On PostgreSQL a transaction is one action where
it holds the lock that orders it, otherwise its statements are taken apart (`PgInsert`, `PgCommit`).
A failing call may have been executed by the server before it raised where that matters. Bounds
(`Max...`) are guards of the actions they count and are named in each module. History variables say
so in their comment and are read by properties only. Definitions called `Mutant...` are seeded
faults used to show that each property can fail; no specification uses them.

### 2.1 TaskConsumer

A worker is one handler slot. `Deliver` and `Parse` are the iterator and the parsing of
`_handle_message`; a body that is no task is dead-lettered or rejected (`RejectUnusable`,
`PublishDeadLetter` from `bury`), a batch is fanned out item by item (`FanOut`, `AckBatch`), a task
goes through `AcquireLease` or `LeaseConflict` to the handler. The handler returns, raises or asks
for a manual retry; `Decide` is `RuntimePolicyEngine.decide_retry`. A relocation publishes first
(`PublishRetry`, `PublishManualRetry`, `PublishDeadLetter`), then persists the DLQ record where
there is one, then acks (`AckRelocated`). `Leave` and `Proceed` are the ways out of the `try` whose
`finally` releases the lease (`ReleaseRead`, `ReleaseDelete`). Faults are `Crash`, `LoseChannel`
(the broker requeues while the handler goes on), `Interrupt` (cancellation or an error of the call
at hand), `AcquireRaises`, `ReleaseRaises` and `ExpireUnderOwner`. Status messages are left out:
their errors are caught and nothing here reads them. The two stores of a lease are one variable;
TaskLeaseStore takes them apart.

### 2.2 TaskLeaseStore

Time is a counter; `Second` is the number of ticks in a second because `int(ttl)` truncates the
key's TTL (`KeyTtl`). `Tick` drops the key at its TTL. `Prompt` is the assumption that a live
worker's heartbeat reaches Redis before the key expires; `_heartbeat_lease` does not look at the
result of a heartbeat, so without it two workers can run the same task. A scan is four steps:
range, claim (SADD), fetch, clean up; publishing may fail, and then the claim is released in two
more.

### 2.3 StatusHub and StatusStream

Events of one task are 1..N in the order their producers published them. The queue is a set because
RabbitMQ puts a requeued message back in its old place. A handler takes the lock of the task in its
hub, then runs `set_history`: SET NX, GET, the push pipeline, relations and feed, publish, marker
"done". `failed` records which calls have failed so that a property can name its condition. A
client subscribes, reads the history, replays it from its Last-Event-ID, then follows the channel,
skipping what it replayed; `Drop` breaks the connection.

### 2.4 BoundedDispatch

The dispatcher's loop, the handler tasks, and the done callback (`RecordCompletion`) as a step of
its own, because asyncio runs it after the permit was released. `exit` is how the loop was left;
`Close` is what run_forever makes of it.

### 2.5 DLQRecords

Operators issue requests; replays take the lock, others do not. `copy` is the record each request
read. `disturbed` becomes true when the lock expires under a replay, a published replay is never
marked, or a stale copy is written back.

### 2.6 WorkflowConsumer

Like TaskConsumer for a stage queue, with `dedup`, `inflight` and `leases`. What happens before the
`try` is not cleaned up when it raises (`Interrupt`), except that a failing mark_inflight releases
the dedup key. `SlowRetry` is the assumption that a retry's delay is longer than the `finally` block
of the worker that published it. `unusable` is chosen once, in the initial state. Each worker has a
channel of its own, so an exception closes only its delivery's.

### 2.7 Aggregation, ObservationForwarder, ExecutionGraph

Aggregation: a copy of an event is a record of its queue, attempt and place. A worker declares the
queue of its shards when it starts; before that, events for them go nowhere. A worker handles
`AggregationPrefetch` events at once on one channel, and an error in one gives all of them back
(`ChannelCloses`). ObservationForwarder: `Observe` appends and may start a flush; `Flushed` deletes
as many entries from the front as the batch had, whatever was appended during the POST.
ExecutionGraph: `ReadObservation`, `ReadStatus` and `ReadRecord` feed lists in their order in time,
with any element missing; `AddObservation`, `AddStatus` and `AddRecord` are what the builder makes
of one, `LinkRetries` what it does between the lists, and `LiveStates` replays the edges as the live
view does, slot by slot of time and kind.

### 2.8 Lifespan and Backpressure

Lifespan: `host` is a service's API or Studio. Workers loop through passes and pauses; `Guarded`
are those whose loop catches the errors of a pass. Stop signals each, awaits each for five seconds,
cancels, then closes the resources in the code's order; an error raised on the way leaves the rest
out (`abortCause`). Backpressure: `mapped[m]` is one map_bounded with its results by position; each
collector of queues is an item of the outer map, 0, that runs an inner one of its own. A service may
have several collectors of a kind, as `test_backpressure.py` has.

### 2.9 Recovery

`plan[p]` is the row: version, permission, dispatch and outcome per failure. A control names the
version it saw; a repeated one counts once. A replica's loop is `Due`, `Preflight` (an HTTP
inspection), `Claim` (re-checks everything under the row lock and commits the intent), `Send`,
`Answer`, `Record`, then `Reread`, `Observe`, `Note`. The service is `Arrive`, `Finish`, `Foreign`
(somebody retried elsewhere) and `LoseRequest`. `posts[f]` counts the requests ever sent;
`granted` holds one unit for each failure that a counted batch request authorized.

### 2.10 EventIngest

Events are numbered by the sequence of the service's feed, so the bounded list `feed` is the set of
its newest numbers and a page is the newest of those below a cursor. A sync pages down to the
cursor of the last sync, to the end of the feed, to an empty page or to the last page allowed, and
ingests the new items of each page newest first (`Lookup`). A push is ingested at the same time. On PostgreSQL a
transaction inserts, locks and projects (`PgInsert`, `PgCommit`); on Redis the calls from `SetNX` to
`AddIndex` are separate and `Abort` may end any of them. The registry's `Rename`, `Delete` and
`Create`, and retention (`Prune`), run beside them.

### 2.11 ServiceRegistry and HealthStatus

ServiceRegistry follows each call of create, update, delete and refresh in both stores, and the
health card. `word[s]` remembers what an operator last asked for. HealthStatus is the document of
one service: refreshes copy it, fetch capabilities and workers with any result, and write the copy
back; `Shown` derives the status from row, document and latest event with the code's limits.

### 2.12 ProviderAvailability, Notifications, Incidents, StudioAuth

Gates are numbered objects; the cache is a sequence of pairs so that eviction takes the oldest
evictable one. Notifications: settings and pending batch, a sweep per replica from `TryLock` to
`Unlock`; a mail may be refused or its answer lost. Incidents: corrections check the revision the
page had under one advisory lock; a split takes a scan made before it. Which incident a failure
ends up in is found by `_resolve`, a loop over the rows of one scope that follows `merged_into` and
raises on a cycle: `Follows` says that a set of incidents is closed under those links, and `Visited`
is the smallest such set from the first incident, the rows the loop passes.
StudioAuth: each request is a
visit with its own reads and writes; the Redis store checks the last administrator in a script, the
PostgreSQL one under row locks.

### 2.13 LoadTesting, Backfill, Reliability, ReliabilityGoals

LoadTesting: requests read a record, call the chamber and write the whole record back; `jobs` is what
the chambers run. Backfill: a scan kind by kind, then one transaction with tombstones for owners that
are gone. Reliability: a webhook delivers a list of alerts, mails each under the row lock and keeps
a bounded list of receipts. ReliabilityGoals: `Preview` is the Python judgement, `RuleFires` and
`MissingFires` what Prometheus makes of the exported expressions, over all small sets of samples.
`Infinite` stands for a sample that is no finite number.

### 2.14 FailedTaskPages, TaskJoins, SearchPages

Cursors are positions as the code encodes them; the lists below change between and within
requests. A list that is kept in the order of time is a set of numbers here, with the place of an
item the count of those above it. TaskJoins fixes which service holds which task in the initial state and lets every scan
fail for any subset of services.

## 3. Runs

| Run | Instance | Checks |
|---|---|---|
| `task_lease` | 1 task, 2 workers with owner ids of their own, 1 retry, 1 manual retry, leases, 1 fault, fairness | `TypeOK`, `LeaseExcludes`, `DeadLetterSound`, `DeliveryContract` (refinement), `Drains` |
| `task_mixed` | a batch and a body that is no task, a worker with and one without a retry policy, no retries left, 1 fault | `NoTaskLost`, `SingleCopyWithoutFaults` |
| `lease_safe` | 2 workers with the default shared owner id, 2 scanners, sub-second TTL, 1 crash, 1 failing publication, fairness | `LeaseSound`, `IndexCleaned` |
| `lease_unreported` | 1 worker that may crash, 1 scanner, TTL of two seconds | `ExpiredReported` is violated (finding) |
| `status_stream` | 1 hub with 2 handlers, 3 events, history of 2, 1 failure of any call, 1 client, 1 reconnect, fairness | `StreamDelivers`, `StatusSettles` |
| `dispatch_live` | 3 deliveries, prefetch 2, consume timeout, stop, cancel, 2 handler errors, 1 iterator failure, fairness | `DispatchSound`, `DispatchEnds` |
| `workflow_stage` | 2 workers (one with a retry policy), 2 messages of one signature, one perhaps unusable, 1 retry, leases, 1 fault, fairness | `DedupExcludes`, `MessagesKept`, `ComesToRest` |
| `recovery_plan` | 2 plans that share a failure, 2 replicas, repeated controls, lost calls and crashes | `SendingSound`, `ReportSound` |
| `studio_ingest` | 3 events of 2 tasks, a feed that evicts, both stores, push beside pull, rename, delete, failures | `FeedCovered`, `DocumentSound` |
| `runtime_parts` | 2 hubs with 3 events and 2 failures, a crash and a lost channel; 2 operators with 4 requests on a record; 2 shards, prefetch 2; 4 observations; 3 observations and 2 statuses; the workers of both hosts; 4 collectors, two of them with 3 queues together | `HubSound`, `ReplaySound`, `AggregationKept`, `NoObservationLost`, `GraphFaithful`, `StopReleases`, `PressureReported` |
| `dlq_twice` | 2 operators, replay and investigate | `NeverReplayedAgain` is violated (finding) |
| `studio_parts` | 2 actors or replicas for each part, both stores where there are two, 1 or 2 faults | `RegistrySound`, `ProbingSound`, `MailSound`, `FailureHasIncident`, `AccessSound`, `OneJobPerPlan`, `ImportSound`, `AlertsSound`, `PreviewAgrees`, `PagesComplete`, `JoinsSound`, `SearchComplete`, `HealthHonest` |

Properties named `...Sound` and the like are conjunctions of named parts, each with its own comment
in the module:

- `DeadLetterSound` = `DeadLetterExhausted` and `RecordHasMessage`; `LeaseSound` = `OneWorkerAtATime`
  and `ReportedOnce`; `StreamDelivers` = `AckedIsStored`, `HistoryInOrder`, `ReceivedOnce`,
  `ReceivedInOrder`; `StatusSettles` = `Settles` and `StreamEnds`; `DispatchSound` =
  `PermitsBalance`, `DrainedBeforeClose`, `ErrorSurfaces`; `DispatchEnds` = `AllHandled`,
  `StopReturns`, `CancelEnds`; `MessagesKept` = `NoMessageLost` and `OnlyDuplicatesTurnedAway`;
  several include the module's type invariant;
- `HubSound` = `AckedIsAnnounced` and `StoredOnce`; `ReplaySound` = `ReplayedOnce`,
  `MarkedIsPublished`, `CountsReplays`, `LockFreed`; `GraphFaithful` = `GraphSound` and
  `DeadLetterShown`;
- `SendingSound` = `SentOnce` and `WithinAuthority`; `ReportSound` = `ReportTrue` and
  `ObservedIsFinal`; `FeedCovered` = `CursorCovers` and `Findable`; `DocumentSound` =
  `DocumentComplete` and `DocumentNamed`;
- `RegistrySound` = `RegistryConsistent`, `OperatorWins`, `HealthShown`; `ProbingSound` = `OneProbe`
  and `OutageHolds`; `MailSound` = `MailedOnce` and `QueuedIsMailed`; `AccessSound` =
  `AdminRemains`, `LoginOnce`, `EffectAudited`; `AlertsSound` = `AlertMailedOnce` and
  `AnsweredIsMailed`.

Why the bounds are enough: the protocols treat their objects independently and meet pairwise, on one
lease id, one signature, one record, one task's history, one plan item, one URL, so two actors on
one shared object show their races. One retry distinguishes the first, a middle and the last attempt
of the retry budget together with the manual retry. Faults are limited to one or two because each
property already has to survive a fault at every step and, with two, a second fault during the
recovery from the first. Bounded lists (history, feed, cache, receipts, pages) are smaller than what
is put into them, so trimming, eviction and paging happen. With two hubs (`runtime_parts`) the calls
that fail are those whose failure a crash does not also show; `status_stream` has all of them. In
ReliabilityGoals the samples range over
the values on both sides of each comparison. The instances explore between some ten thousand and
several million states.

Deadlock checking is off everywhere: a system whose work is done, or whose bounds are used up, may
stop. That it does not stop too early is what the liveness properties say.

### Fairness

- Workers, handlers, the hub and the dispatcher: weak fairness of their own steps. The event loop
  runs what is ready and handlers are assumed to end.
- The broker: strong fairness of delivering each task in TaskConsumer and WorkflowConsumer, since a
  queue is served in order and a requeued message cannot be passed over for ever; weak fairness of
  delivery in StatusHub and BoundedDispatch.
- TTLs and retry delays run out (weak fairness).
- Producers, operators, heartbeats, failures, crashes, stop and cancel are never forced.
- `AllHandled` and `StopReturns` need the consume timeout that is the default of the consumers.
- The Studio modules are checked for safety only.

### Conditions in properties

Several properties state the condition under which the code keeps them, because TLC shows that it
does not without it:

- `OneWorkerAtATime` needs prompt heartbeats; `LeaseExcludes` says the same through `late`.
- `ReportedOnce` is about an id that was acquired once: acquire removes the claim marker of a scan
  under way, after which the new and the old acquisition can both be reported.
- `IndexCleaned` excepts leases that were reported: their claim marker stays until the id is
  acquired again.
- `HistoryInOrder` and `ReceivedInOrder` need that no call failed: a requeued event is stored after
  the one that overtook it. `ReceivedInOrder` needs besides that no hub died between the marker and
  the push, which leaves the event out of the history, and excepts events that the bounded history
  list no longer holds.
- `StoredOnce` and `ReceivedOnce` need that no push raised after Redis had executed it, and
  `ReceivedOnce` that the client did not reconnect: a resumed stream may repeat an event that was
  published only after the first connection had replayed it.
- `AckedIsStored` and `StreamEnds` need that no call that sets or undoes the marker failed.
- `CancelEnds` holds until a handler has failed: `finally` raises `first_error` in place of the
  CancelledError and run_forever carries on.
- `ReplayedOnce` and `CountsReplays` hold until a replay is disturbed (2.5); `LockFreed` excepts a
  process that died in a replay, whose lock runs out by its TTL.
- `OnlyDuplicatesTurnedAway` is about the time before the first fault and needs `SlowRetry`. After
  an error in the lease store, or when a message is requeued on a lease conflict before its dedup
  key is released, a message can be turned away as a duplicate of itself.
- `ComesToRest` excepts an in-flight hash whose EXPIRE never ran.
- `NoObservationLost` excepts flushes that overlap: each deletes as many entries as it sent, so the
  second deletes entries nobody sent (`observability/feed.py:334`).
- `StopReleases` names what may cut a stop short: a worker whose loop does not catch its errors, a
  resource that cannot be closed, a cancelled start.
- `CursorCovers` and `Findable` except, on Redis, what a failed call left half done (`lost`, `torn`);
  `DocumentComplete` and `DocumentNamed` are about PostgreSQL.
- `RegistryConsistent` excepts overlapping updates and deletes on Redis, `OperatorWins` a call that
  was storing the same record.
- `HealthHonest`'s last part excepts a failed refresh that another one overlapped.
- `MailedOnce` excepts faults (a mail sent whose mark was not stored), `QueuedIsMailed` a lock that
  ran out under a replica at work.
- `AdminRemains` excepts a sign-in that wrote back a member changed since it was read.
- `AlertMailedOnce` excepts episodes whose receipt was not stored or is no longer kept.
- `ImportSound` excepts, in its second part, two imports that overlapped.
- `PagesComplete` excepts services named in the errors, and failures hidden because an entry before
  them was deleted.
- `JoinsSound` speaks of the services that answered.

### Findings

- `lease_unreported`: `docs/runtime-controls.md:44` says stale statuses make expired leases visible;
  because the key's TTL is truncated and starts after `expires_at` was computed, Redis drops the
  payload first and the scanner has nothing to publish.
- `dlq_twice`: `dlq/models.py:275` refuses a second replay; a triage request that wrote back the
  record it read before the replay makes it replayable again.

Known limits that the conditions above stand for, met while modelling: a status event whose push and
marker removal both fail is acked without being stored (against `tests/test_status_store.py:163`); a
Studio worker that ended with an error cuts the shutdown short (`app.py:601`); a service that cannot
be scanned counts as one without the task, so an ambiguous join may be followed
(`federation.py:769`); settings of the failure mails are patched by read and write; a
service deleted while an event of it is being stored leaves that event behind.

## 4. Proofs

TLC checks the instances of section 3; the theorems below hold for every value of the constants: any
sets of workers, tasks, services, replicas, any bounds. Each proof has the same plan: an inductive
invariant, a lemma that it holds initially, lemmas that every action keeps each of its parts, and a
last step that combines them. The property as it stands is almost never inductive, since it speaks
of the moment that matters and says nothing of the steps that lead there; the strengthening is what
the sections below explain.

The proofs use the named assumptions on the constants in the modules that declare them: bounds are
natural numbers, sets that must be told apart do not overlap, the value for an absent row, record or
lease is not one, a worker's owner id is an owner. TLC evaluates them in every run of an MC module.
Four theorems have a premise besides: `DistinctTasks` (producers submit each task id once),
`OneHub` (one hub process serves the status queue), `SlowRetry` (2.6) and `Prompt` (2.2). The last two
are constants that the runs `workflow_stage` and `lease_safe` set to TRUE, `DistinctTasks` holds of
the submissions of both task runs, and `OneHub` of the run `status_stream`.

### 4.1 TaskConsumerProofs

| Theorem | States | From |
|---|---|---|
| `TypeCorrect` | `TypeOK` | `TypeInv` |
| `NothingLost` | `NoTaskLost` | `TypeInv`, `NoTaskLost` itself |
| `ContractMet` | `DeliveryContract`, the refinement of TaskDelivery | `OpenInv`, `Accounted` |
| `DeadLettersSound` | `DeadLetterSound` | `BudgetInv` |
| `LeasesExclude` | `LeaseExcludes` | `LeaseInv` |
| `CopiesSingle` | `SingleCopyWithoutFaults`, given `DistinctTasks` | `SingleInv` |

`TypeOK` is not inductive: that `TaskOf(w)` is a task, and so that the lease function keeps its
domain, needs the shape of the messages. `TypeInv` adds `Shape`: a message of kind task has exactly
one item, a worker past parsing handles a task, what is left to fan out belongs to the batch, and a
worker with nothing left to ack no longer holds its delivery.

`NoTaskLost` is inductive relative to `TypeInv` because of how `Carried` is defined: a worker stands
for its tasks exactly while its delivery is unacked and nothing has been published for them. Each
action keeps the copy that stands for a task, publishes a new one before it gives up the old one, or
records an outcome; `StepKeepsSafe` is that argument.

For the refinement, `Moves(w)` says what any step of a worker can do to the open messages, and
`Concludes` how the outcomes change; each action is one of the two, or a stutter. `Accounted`, that
what is not open any more has an outcome, follows from `NoTaskLost`, and gives the contract's guard.

`BudgetInv` carries along with each message that a task on attempt `a` failed on every attempt
before it (`Budgeted`), so that one on its way to the dead-letter queue has used its budget up
(`Exhausted`). `LeaseInv` extends the exclusion from the handler to the whole section from acquire
to delete: whoever is there has the lease under its own owner id, and is alone there, unless the key
of the task ever expired under a holder (`late`). Owner ids may be shared.
`SingleInv` says, until the first fault, that a delivery a worker holds is in no queue and with no
other worker (`Placed`), that a worker loses its delivery only at an ack (`Attached`), and that each
task is in one message, one worker's load or finished (`Sole`).

### 4.2 WorkflowConsumerProofs

| Theorem | States | From |
|---|---|---|
| `HandlersExcluded` | `DedupExcludes` | `KeyInv` |
| `StageNothingLost` | `TypeOK` and `NoMessageLost` | `StageInv`, `Borne` |
| `StageMessagesKept` | `MessagesKept`, given `SlowRetry` | those and `KeptInv` |

`DedupExcludes` speaks of two workers in their handlers only. `KeyInv` extends it to the section from
acquire_dedup to release_dedup (`HasKey`): the key of such a worker is in Redis (`KeyStored`), and no
two of them have the same key (`KeyUnshared`). Entering needs the key to be absent; a release
removes a single key, which by `KeyUnshared` is nobody else's. A cancelled or crashed worker leaves
its key behind, which harms no one's exclusion. The theorem rests on the model's assumption that a
dedup key does not expire under a worker that still has it (`ExpireKey`; the default TTL is a day
and the key is never refreshed).

`Borne` names the deliveries that stand for their message: held, and not about to be acked.
`Counted` is there because the model takes the id of a new copy from outside a finite set.
`KeptInv` says, until the first fault, that a message is in one place (`OnePlace`) and that every
dedup key and lease has its worker (`Owned`). `SlowRetry` is used in one step, the return of a retry:
the worker that published it is past its cleanup.

### 4.3 TaskLeaseStoreProofs and BoundedDispatchProofs

| Theorem | States | From |
|---|---|---|
| `ExpiryPublishedOnce` | `TypeOK` and `ReportedOnce` | `StoreInv` |
| `LeaseIsSound` | `LeaseSound`, given `Prompt` | `StoreInv`, `Held` |
| `DispatchIsSound` | `DispatchSound` | `DispatchInv` |

`ReportedOnce` is about the first acquisition. `FirstLease` tells its phases apart: nothing acquired
(`Untouched`), not yet in the index (`Unindexed`), then either the claim marker stands and at most
one scanner has the claim (`Marked`), or the lease was released, the marker with it, and only a
scanner that had fetched the payload before can publish it (`Released`). `Held` is the other half:
with prompt heartbeats a worker that is not idle has the key, with its own acquisition number, so a
shared owner id does no harm.

`DispatchInv` counts the permits with the one in the dispatcher's hand (`Balanced`), and says that
in_flight holds every handler that runs, and none once the loop is left (`Tracked`), and that a
failed handler is still to be recorded or has set first_error (`Noticed`).

### 4.4 RuntimeProofs

| Theorem | States | From |
|---|---|---|
| `ReplaysSound` | `ReplaySound` | `ReplayInv` |
| `HubsSound` | `HubSound` | `HubInv` |
| `StreamsDeliver` | `StreamDelivers`, given `OneHub` | `StreamState` |
| `AggregationKeeps` | `AggregationKept` | `AggregationInv` |
| `ObservationsKept` | `NoObservationLost` | `ForwarderInv` |
| `StopsRelease` | `StopReleases` | `LifespanInv` |
| `PressureIsReported` | `PressureReported` | `PressureInv` |
| `GraphIsFaithful` | `GraphFaithful` | `GraphInv` |

`ReplayInv`: since a request writes back the whole record it read, honesty is required of every copy
in flight (`CopiesHonest`); the count of a record plus the replays published and not yet marked is at
most the number published. Until a replay is disturbed the lock keeps its section to one request
(`Exclusive`) and record and publications agree (`Undisturbed`).

`HubInv`: a complete marker stands for an announced event (`Announcing`), so a handler that finds one
may ack; while no push failed, only the handler that set the marker may push (`Storing`).

`StreamState` builds on it, from the lock to the client. The handlers of a hub stand in one line and
its head holds the lock (`InLine`). Redeliveries let an event come back to the queue at any time, so
the line is not sorted; what holds until a call fails is that whoever is in line has every unmarked
earlier event before it (`MarkedInOrder`), hence markers are set in order and a push adds the largest
event (`PushedInOrder`). A marker stands for a stored event or for the push of the lock holder
(`Backed`), which gives `AckedIsStored` under any other failure. Without crashes an event is stored
and announced only after all earlier ones (`Concluded`). On the client's side `CaughtUp` relates what
it has, what is left of its replay and its position on the channel: whatever it is sent next has all
earlier events before it, and of the channel up to its position it has, or will be replayed, all that
the history still holds. That a resumed client lacks nothing before the event it names is the step
that needs it of a past connection too (`ReplayCovers`).

`AggregationInv`: each copy is where it is for a reason (`Placed`), and one about to be acked was
aggregated or has a later copy (`Followed`). `Covers` is the shared argument: after a step whatever
was there is there still, has a later copy, or was aggregated.

`ForwarderInv`: while flushes do not overlap there is at most one POST and what it sends is the front
of the list, so deleting as many entries as were sent deletes those that were sent.
`LifespanInv`: a worker that runs is configured, and during a stop is still waited for.
`PressureInv`: the items taken and no longer running are those whose result is in its place
(`InPlace`), and a collector of queues among them has ended its own map. `TakenFacts`,
`ReturnedFacts` and `CompleteFacts` say what map_bounded keeps, whichever map it is.

`GraphInv`: ids tell nodes apart; attempts, stages, statuses and (when the first attempt is known)
retries are numbered past those of their kind, so that each observation makes a node (`GraphPlaced`,
`Counted`, `RetriesCounted`); an attempt has an edge from the task, and a status one from the task
or an attempt, so both are at most two steps away. That nothing leads back is a `Rank` of the nodes
by their time, which every edge raises (`AllRise`): a retry lies between the attempt it comes from
and the later one it leads to, because with the first attempt known the latest attempt is never
after the time asked for. `Reached` and `LiveStates` are recursive functions; `StepsExist` shows that
such a function exists, and what its last value has follows by the least step that lacks it.
`SlotKept` is the argument for `DeadLetterShown`: a slot of edges never takes "dead_lettered" back,
and the slot of a dead-letter edge sets it.

### 4.5 StudioProofs

| Theorem | States | From |
|---|---|---|
| `AccessIsSound` | `AccessSound` | `AuthInv` |
| `PlansRunOnce` | `OneJobPerPlan` | `LoadInv` |
| `HealthIsHonest` | `HealthHonest` | `HealthInv` |
| `ImportIsSound` | `ImportSound` | `BackfillInv` |
| `MailIsSound` | `MailSound` | `MailInv` |
| `ProbingIsSound` | `ProbingSound` | `ProviderInv` |
| `AlertsAreSound` | `AlertsSound` | `AlertInv` |

`AuthInv`: a sign-in under way has consumed its transaction and is the only one that did
(`LoginInv`); a call is made after its entry (`AuditInv`); on Redis the counter of administrators is
right until a sign-in crosses an update (`AdminInv`). `LoadInv`: the chambers named for a plan, in a
job, in its record or in a request that may write the record back, are one (`OneChamber`).
`HealthInv`: every document, stored or in a refresh, notes no success later than the last fetch
(`Honest`), and a refresh that nothing overlapped writes back what it read (`Alone`).
`BackfillInv`: rows refer to services (`Referenced`), and runs that do not overlap import only where
nothing was imported (`ImportsOnce`).

`MailInv`: until the lock runs out a replica at work holds it (`Held`), its sweep holds the whole
stored batch (`Covered`), and without faults what was mailed is marked or about to be (`Singly`).
`ProviderInv`: the cache has one entry per provider and one per gate, a gate in use is not evicted
(`CacheHolds`), a probe holds its gate's lock (`ProbesLocked`), and a request knows no generation
newer than its gate's, and an older one while its provider is paused (`Generations`), so that a late
success does not end a fresh outage (`Paused`). `AlertInv`: the row lock is the webhook's that sends or commits (`RowLocked`), a receipt
stands for a mail (`ReceiptsHonest`), and a mail has a receipt, kept or about to be committed, unless
it was lost or trimmed (`MailsCovered`).

### 4.6 StudioStoreProofs

| Theorem | States | From |
|---|---|---|
| `RegistryIsSound` | `RegistrySound` | `RegistryInv` |
| `SendingIsSound` | `SendingSound` | `SendInv`, `AuthorityInv` |
| `ReportIsSound` | `ReportSound`, an action property | `SendInv`, `RowsStable`, `ArrivalsStable` |

`RegistryInv`: what an operator asked for is in the record, or on its way in a call (`WordKept`); on
PostgreSQL a URL has one row (`OneRow`); on Redis, while no calls overlap, the record, the
reservation and the list agree for every service that no call is amid (`AllSettled`), and `AllFit`
says for every step of a call which of the three are there already.

`SendInv`: two saved plans share no failure (`ClaimsApart`), an item was posted only if a saved plan
has committed its intent (`PostFits`), and intents are never taken back. So a pending item was never
posted (`PendingUnsent`), which is what the claim in `_recovery.py` relies on when it commits and
then sends outside the transaction. What a replica still holds of an answer or an observation is
true of the service (`LoopFits`), and so are the rows (`RowFits`). `RowsStable` and `ArrivalsStable`
say that no step takes a state of a row, or an arrival, back; with `SendInv` they give the action
property. `AuthorityInv` is counting: a plan's items sent are no more than the units authorized, and
its allowance, a total that blocked items use up too, is at most the units plus the blocked items.
The units of a new batch are fresh because the version in them grows with each control.

### 4.7 StudioViewProofs

| Theorem | States | From |
|---|---|---|
| `FeedIsCovered` | `FeedCovered` | `IInv` |
| `DocumentsAreSound` | `DocumentSound` | `IInv` |
| `SearchIsComplete` | `SearchComplete` | `SearchInv` |
| `PagesAreComplete` | `PagesComplete` | `PagesInv` |
| `JoinsAreSound` | `JoinsSound` | `JoinsInv` |
| `FailuresHaveIncidents` | `FailureHasIncident` | `IncidentsInv` |
| `PreviewsAgree` | `PreviewAgrees` | `GoalsInv` |

`IInv` of EventIngest: the feed is the newest `FeedMax` events emitted (`FeedShape`); a dedupe key
stands for an event that is stored, lost or about to be stored (`KeysCovered`), so finding one may
skip the event; everything in the feed up to the cursor is covered (`CursorOK`); during a
synchronization everything from where it has paged to up to the newest event it saw is covered or on
its way (`SyncOK`). That a synchronization never runs out of pages before it meets its cursor is the
assumption `FeedMax <= PageLimit * MaxPages` on the constants: the code's defaults are a feed of 5000
and 25 pages of 200. `FindableOK` follows a document through the three calls that index it on Redis;
`DocumentsOK` says of PostgreSQL that a document counts every event stored since it was created and
carries the service's name (`DocOK`), and that a transaction under way is alone on its task and has
read a row of which the same is true (`TransactionOK`).

`SearchInv`: a document nothing happened to is there (`UntouchedThere`), was shown if it lies up to
the cursor (`UpToCursor`), and on PostgreSQL not yet if it lies behind (`NotYetShown`).
`PagesInv`: for a service whose list did not shrink, no failure of the beginning was passed over
unseen (`NonePassed`), and what is fetched lies where its cursor and skip say (`PageInPlace`); if the
list did not change at all, nothing is shown twice (`NoneTwice`, `PageAtPlace`).
`JoinsInv`: the matches of the scan under way are services that hold the candidate and answered
(`ScanFits`), the joins are those of candidates with one match (`JoinsFit`), and a candidate no longer
on the list was joined, warned of or could not be asked about (`AllHandled`).

`IncidentsInv`: merged rows link to rows of their scope (`LinksWithin`), and every set of incidents
closed under the links has one that was not merged (`Acyclic`). A merge adds a link from a row not
reachable from its target, which keeps that; so following links ends at a row that exists. It is
stated with sets because a statement about chains would need induction over their length.
`GoalsInv` says that each query was answered by one of its possible answers; the rest of
`PreviewsAgree` is a case analysis over what makes an answer usable, for both computations.

### 4.8 What the proofs changed

- StatusStream: `ReceivedInOrder` said that later events are received later. For larger constants
  that is false of the code, and says too little: a hub that dies between the marker and the push
  leaves an event out for good, and a history list that is shorter than what a client missed has a
  gap. It now says that every earlier event was received before, or had left the history list, until
  a call fails or a hub dies; lost channels, redeliveries and reconnects are allowed.
- HealthStatus: the history variable behind `HealthHonest` recorded a success for a service that was
  disabled while its refresh succeeded. TLC had not met it within its bounds; the proof of
  `FailureShows` could not be completed until it was right.
- Backpressure kept one answer per kind of collector, and `PressureReported` is false of two
  collectors of one kind under that; it now keeps one per collector, and a map of queues for each.
- EventIngest was stuck at a page that comes back empty; the page now ends the synchronization, and
  one that has read nothing leaves the cursor alone, as in the code.
- ReliabilityGoals had a large number for an infinite sample; it is now a value that is no number.
- Lifespan, Backfill, ProviderAvailability, Recovery, Incidents, FailedTaskPages, SearchPages,
  TaskJoins and ExecutionGraph were restated where a definition chose a value or folded a sequence,
  by the property of the value that the code uses. Recovery now counts authorized sends as units of a
  set in place of a sum.

### 4.9 Only model-checked

Liveness, which the prover does not do: `Drains`, `IndexCleaned`, `StatusSettles`, `DispatchEnds`,
`ComesToRest`. Every other property of a passing run is a theorem, or a part of one.

## 5. Not modelled

- Topologies, message contracts, aliases, workflow helpers, metrics, tracing, logging: names,
  conversions and output; nothing that changes at run time.
- Consumer middleware, lifecycle and idempotency helpers: exported wrappers that the consumers do
  not call.
- Read-only routes, the MCP adapters, the DLQ broker inspector, the stream history reader, and
  Studio's logs, metrics, traces, views and doctor: they query and format, and keep nothing.
- The cryptography of tokens and cookies, the SQL migrations, uploads for load tests, profile import
  and gateway export.
- The React frontend.

`PROJECT.json` lists every part with the reason.

## 6. What could follow

1. Composition: BoundedDispatch with the slots of one channel, so that an exception of one handler
   gives back the deliveries of the others; TaskLeaseStore as an implementation of the lease that
   TaskConsumer assumes.
2. Liveness of the Studio workers: that a batch is mailed and a plan comes to its end.
3. The traces and metrics queries of Studio, once they keep state of their own.
