# Laminar: a TLA+ verification project

This directory holds the formal models of Laminar: TLA+ modules, the TLC
configurations that check them on small instances, and theorems that TLAPS proves
for every instance. They cover four parts of the backend (`src/app-server`) and
the three parts of the frontend (`src/frontend`) whose state interacts: the
billing webhook, the trace view and the labeling queue. Source paths are relative
to `src/app-server/src/` unless they start with `src/`; in the sections on the
frontend parts they are relative to the directory the section names.

Contents: 1 the system · 2 modelled modules and the code · 3 what each run
checks · 4 what is proved · 5 where code and text disagree · 6 what is not
modelled · 7 plan · 8 running it.

## 1. The system

Laminar ingests OpenTelemetry spans of LLM applications, stores them in
ClickHouse, keeps one statistics row per trace in PostgreSQL, and shows both to
browsers live. Almost all of its own logic is asynchronous: an HTTP or gRPC
handler validates a request and publishes a queue message; pools of workers
consume the queues, write to two databases, and publish further messages. Redis
holds caches, locks with a TTL, and deduplication keys. There are no
distributed transactions anywhere: correctness rests on the *order* of writes,
on idempotence, and on row versions.

The frontend is a Next.js application: most of it is pages, forms and server
actions that read or write single rows. Three parts hold logic of their own: the
webhook that follows Stripe's subscriptions, the trace view, which merges
responses with live events and lays spans out in a tree, a timeline and a
transcript, and the labeling queue, whose page saves edits on a timer while
rows are approved, discarded and moved to datasets.

```
 clients --HTTP/gRPC--> producers --RabbitMQ--> batch workers --> ClickHouse (content, spans)
                          |  reads                |   |  stamps       |
                          v                       |   v               v
                        Redis  <------------------+  Redis      traces_replacing
                     (s:, tn: keys)               |                   ^
                                                  +--> PostgreSQL traces (version num_spans)
                                                  +--> usage counters, warnings --> notifications --> e-mail/Slack
                                                  +--> Redis pub/sub --> pods --> SSE connections --> browsers
                                                                                                      (trace view,
 Stripe --events--> webhook (Next.js) --> PostgreSQL workspaces, limits, warnings --> cached billing    labeling queue)
```

### 1.1 Components

| component | state it keeps | operations | talks to |
|---|---|---|---|
| **Span ingestion** `traces/{producer,consumer,processor,input_dedup,tool_dedup}.rs` | Redis keys `s:{project}:{hash}` and `tn:{project}:{trace}:{hash}`; `deduped_content` and `spans` in ClickHouse; deliveries held by batch workers | publish, preprocess (verdicts), receive, flush, stamp keys, acknowledge, requeue | broker, Redis, ClickHouse, every consumer below |
| **Trace statistics** `traces/processor.rs`, `db/trace.rs`, `ch/traces.rs`, `api/v1/traces_metadata.rs` | `traces` in PostgreSQL, `traces_replacing` in ClickHouse (ReplacingMergeTree on `num_spans`) | aggregate a flush, upsert, merge metadata patches, copy rows, trigger signals | span ingestion (same flush), checkpoints (source of patches), signals |
| **Realtime updates** `realtime/mod.rs`, `pubsub/`, `routes/realtime.rs` | per pod: map from (project, key) to connections; a heartbeat task per connection; one Redis subscription | connect, publish, forward, clean up, heartbeat | ingestion, evaluations, rollouts publish; browsers receive |
| **Soft usage limits** `utils/limits.rs`, `notifications/mod.rs`, `db/usage_warnings.rs` | `usage_warnings.last_notified_at`, its cached rows, the notifications queue, a dedup lock | check, push, mark, evict, lock, fan out | ingestion (caller), delivery |
| **Billing** `src/frontend/lib/actions/{checkout,usage}/` | the workspace's tier, subscription, limit, warnings and add-on rows; the subscription at Stripe; billing info cached for the app server | handle an event in a dozen statements, add overage prices, switch the tier, buy the add-on, edit limits and warnings, drop the cache | Stripe, soft limits (reads the rows) |
| **Trace view: layout and transcript** `src/frontend/components/traces/trace-view/store/utils.ts` and neighbours, `src/frontend/lib/actions/spans/utils.ts` | none: pure functions of the list of spans | tree, condensed timeline, visible spans, placeholders, metrics of subtrees, parents after a search, subagents and transcript entries, numbered breadcrumbs | live updates |
| **Trace view: live updates** `src/frontend/components/traces/trace-view/` | the store of one open trace: rows, totals, open span, collapsed branches, address | request the trace and its spans, search, handle an event, select, close, collapse | realtime updates (source of events), ingestion |
| **Datasets and labeling queues** `src/frontend/components/queue/`, `src/frontend/lib/actions/{queue,queues}/` | the page's list, its window of loaded items, timers and requests; rows of the queue; datapoints | debounced save, approve, unapprove, revert, discard, push one or all, refetch, leave | ClickHouse |
| Usage counters `utils/limits.rs`, `ch/limits.rs` | cached counter per workspace and period | read, seed from ClickHouse, increment, compare with the hard limit | ingestion |
| Queue workers and brokers `mq/`, `worker/`, `batch_worker/` | RabbitMQ channels; or in-process bounded channels | publish with retry, receive, ack/reject, reconnect with backoff, worker pools | every consumer |
| Data plane routing `data_plane/`, `ch/data_plane.rs` | cached deployment mode of a workspace | pick the ClickHouse a row goes to | ingestion, frontend (switches the mode) |
| Debugger replay cache `debugger/mod.rs` | cached spans of a trace, warming lock, heartbeat | warm, wait, select entries | replay endpoints |
| Checkpoints `checkpoints/` | agent versions in PostgreSQL, hash cache, classifier lock | look up, classify, create, patch trace metadata | ingestion, trace statistics |
| Reports `reports/` | `last_check` and a scheduler lock in the cache | hourly tick, enqueue, generate | notifications |
| Cache and Redis connection `cache/` | connection, in-memory map with TTLs and locks | get/insert/remove/increment/locks, reconnect | everything |
| Notification delivery `notifications/{delivery,email,slack}.rs` | none | send one message per delivery | soft limits, reports, signals |
| Evaluations `evaluations/`, `api/v1/evals.rs` | evaluation datapoints in ClickHouse | insert, read row and insert successor | realtime |
| Rollouts and debugger sessions | session rows | update and broadcast | realtime |
| Full-text index `quickwit/`, Logs `logs/`, Browser session events | queue messages | batch and insert | batch workers |
| Span conversion, Search, Query engine, LLM providers, Authentication, Signals (stub), Clustering (stub), PII redactor, Object storage, the rest of the frontend | stateless, external or plain row updates | | |

`PROJECT.json` has the full list with one note per component.

### 1.2 What is hard, and what makes each component correct

* **Span ingestion.** The producer decides from Redis what content to ship; the
  worker acts on that verdict after any delay, in any order, possibly twice,
  while keys expire and other batches fail half-way. Correct means: a Redis key
  never promises what is not stored, a stored span can always be read in full,
  every message of a trace has a recorded first occurrence (search needs it),
  no accepted request is lost, and rows are repeated only for faults that nobody
  can tell from a failure (late responses, lost channels, crashes).
* **Trace statistics.** Two workers may upsert one trace in one order and copy
  their rows to ClickHouse in the other; the version column decides which row
  a reader sees. Patches, upserts, and the span insert fail independently, and
  a redelivery repeats all of them. Correct means: versions never tie, the copy
  never shows a state PostgreSQL was not in and ends up equal to it, counts are
  off by redeliveries at most, a patch neither disappears with somebody else's
  error nor creates a stub row, and a trace is checked for signals when the spans
  of the flush can be read.
* **Realtime updates.** Connections, heartbeats and the subscriber race on one
  concurrent map whose lock is given up between "the entry is empty" and
  "remove the entry". Correct means: whoever is registered gets each message
  of its key once and in order, an open connection stays registered, the map
  empties itself, and a pod stays subscribed.
* **Soft usage limits.** A cached row is filled by one worker while another one
  marks and evicts it; the notification is deduplicated by a lock that is never
  released on success and must be released on failure. Correct means: no
  warning is lost, and none is repeated without bound.
* **Billing.** Stripe delivers each event at least once and in any order; the
  webhook handles it in separate statements outside any transaction, answers 500
  from the middle, and may run twice at a time while the owner changes the same
  rows and the same subscription. Correct means: handling the newest event
  undisturbed repairs whatever went before, a limit the owner set to another value than
  Hobby's defaults is never overwritten, those defaults go when Hobby goes, every
  new subscription ends up metered, and whoever writes drops the cached billing info.
* **Trace view.** Rows come from two sources in no order: responses, which
  replace everything, and events, which may be lost, repeated or overtaken. Parents
  end after their children, so the view invents them and takes them back. Correct
  means: the rows always form a whole tree with current sums, the two
  sources add up to what is stored, an event does not undo what the user did,
  and each of the layouts shows each span exactly once where it belongs.
* **Labeling queue.** Edits wait on a timer, requests the page gave up still run
  at the server, a row is updated by reading and inserting it again, a push
  copies and then deletes. Correct means: an edit that waits is neither evicted nor
  rolled back, it is in the row in the end, and nothing leaves the queue
  without being in the dataset.

The hazards behind these lines are listed one by one in `PROJECT.json`, each
with its line and the properties that would catch it.

## 2. Modules

| module | lines of the system it models | role |
|---|---|---|
| `SpanIngest` | `traces/producer.rs`, `traces/input_dedup.rs`, `traces/tool_dedup.rs`, `traces/consumer.rs`, `traces/processor.rs` (span branch), `batch_worker/worker.rs`, `mq/rabbit.rs` | detailed specification of ingestion |
| `IngestContract` | what ingestion promises | abstract specification, implemented by `SpanIngest` |
| `SpanIngestProofs` | | TLAPS proofs about `SpanIngest` |
| `TraceStats` | `traces/processor.rs` (trace branch and join), `db/trace.rs`, `ch/traces.rs`, `api/v1/traces_metadata.rs` | detailed specification of trace statistics |
| `TraceStatsProofs` | | TLAPS proofs about `TraceStats` |
| `SseRegistry` | `realtime/mod.rs`, `pubsub/redis.rs`, the subscriber task of `main.rs` | detailed specification of live updates |
| `SseRegistryProofs` | | TLAPS proofs about `SseRegistry` |
| `UsageWarnings` | `check_soft_limits` and its helpers in `utils/limits.rs`, stage 1 of `notifications/mod.rs` | detailed specification of soft limits |
| `UsageWarningsProofs` | | TLAPS proofs about `UsageWarnings` |
| `Billing` | `src/frontend/lib/actions/checkout/{webhook,index,addons}.ts`, `src/frontend/lib/actions/usage/`, `src/frontend/app/api/webhook/stripe/route.ts` | detailed specification of one workspace and its subscriptions |
| `BillingProofs` | | TLAPS proofs about `Billing` |
| `SpanRows` | `utils.ts` of the trace view; `src/frontend/lib/actions/spans/utils.ts` | the pure functions the rows of a view are made with |
| `SpanTree`, `Transcript` | `store/utils.ts`, `condensed-timeline-utils.ts`, `transcript/` of the trace view | the pure functions that lay the rows out |
| `TraceAlgorithmsProofs` | | TLAPS proofs about the functions of `SpanTree` and `Transcript` and about `TransformSpans` |
| `LiveTrace` | `trace-view-content.tsx`, `store/`, `utils.ts` of the trace view | detailed specification of an open trace; uses `SpanRows` |
| `LiveTraceProofs` | | TLAPS proofs about `LiveTrace` and `SpanRows` |
| `LabelingQueue` | `src/frontend/components/queue/`, `src/frontend/lib/actions/{queue,queues}/` | detailed specification of one user's page and its handlers |
| `LabelingQueueProofs` | | TLAPS proofs about `LabelingQueue` |
| `MC...` | | instances for TLC |

### 2.1 SpanIngest

One project is modelled: every Redis key and every row carries the project id.
A hash is a model value; a span has a sequence of message hashes and at most one
tool-definition hash.

| in the code | in the model |
|---|---|
| a request in `push_spans_to_queue` | `client[m]`: idle, preparing, accepted, failed, rejected; `prepared[m]`, `verdict[m]` are its local variables |
| `preprocess_for_queue` on one span, with its Redis reads | `Preprocess`; `Verdicts(s)` lists the outcomes, a failed read counting as "not seen" |
| the payload size test | `RejectTooLarge` |
| `publish`, with its retry on connection errors | `Publish(m, outcome)`: accepted; accepted and retried ("preparing"); accepted and reported as an error ("failed"); `PublishError`: not accepted |
| the observations queue | `queue`, a set of numbered copies |
| `handle_message`, `handle_interval` | `ReceiveEmpty`, `Receive`, `FlushInterval` |
| `process_span_messages`, span branch | `InsertContent`, `InsertSpans`, then `StampStorage`, `StampTrace`, `Stamped`, with `InsertContentError`, `InsertSpansError`, `InsertSpansTimeout` |
| `handle_result` | `Ack`, `Requeue`, one delivery at a time |
| a closed channel, a dead process | `Disconnect` (the broker redelivers at once, the worker goes on), `Reconnect`, `Crash` |
| key TTL, eviction | `ExpireStorage`, `ExpireTrace`, at any time |

`MaxPositions` stands for the 65536 positions a `u16` can name. A message
beyond them is listed on the row and gets no verdict and no content;
`HashesResolve` speaks about the others.

`IngestContract` has no queues, workers, verdicts, keys or retries, only
accepted requests, stored content, recorded first occurrences, and stored spans.
Its `Commit` allows spans to become visible only together with what they
need. `SpanIngest` refines it under the mapping at its end (`Contract`).

### 2.2 TraceStats

`pg[k].applied` counts how often each message was added to a row, `pg[k].n` is
`num_spans`, the version. All other columns are functions of what was absorbed,
so the multiset stands for them. `Upsert` and `Merge` are one statement each
(they commit by themselves), with error actions whose statement may have taken
effect. `aggRows` and `patchRows` are the rows the two stages return,
`UpdatedTraces` their union in which a patched row wins, `InsertTraces` the copy.
The span branch runs beside it (`InsertSpans`, `InsertSpansError`); it stores the spans
of `Recordable` only (`should_record_to_clickhouse`), while `from_spans` counts all of
them, and a flush without recordable spans has no statement that could fail. The join
is `JoinOk` or `JoinFailed`. `signalled` keeps, for each trace checked for signals, what its
row counted and what the flush held at that moment. A crash and a lost channel look alike here:
the batch comes back. Unlike the code, `Flush` takes a whole batch at once: what
happens while a batch is collected is in `SpanIngest`.

`Aggregations` keeps the code's grouping by trace id alone, so instances with two
projects show what that does (section 5).

### 2.3 SseRegistry

Each DashMap call is a step. `HeartbeatFails` and `Forward` retain the living
connections and remember that the entry was empty; `HeartbeatRemoves` and
`ForwardRemoves` remove the entry in a later step, with whatever it holds by
then. `Publish` reaches the pods that are subscribed at that moment. `due` is a
history variable: what a connection should see. `StreamEnds` is the end of the
Redis stream, after which the subscriber task is gone.

### 2.4 UsageWarnings

One warning of one workspace, whose usage stays above the limit. Time is the
number of the billing period. `CacheHit` … `Evict` are the awaits of
`check_soft_limits`, `Receive` … `AllFailed` those of
`NotificationHandler::handle`. Faults of each kind are counted in `faults`, so
that a property can say under which of them it holds. A failed publish may have reached
the broker, for a notification (`PushFails`, counted in `unconfirmed`; nothing is marked
after it, or the publish is retried) and for a delivery (`FanOut`).

### 2.5 Billing

`sub[s]` is a subscription as Stripe holds it (its flat price names the tier);
each change at Stripe adds an event with a snapshot to `events`, from which it goes
only with a 200 that reaches Stripe. `handler[h]` is a request of the webhook: `pc`
names its next statement, `cur` is the tier it read. `Receive` … `Ack` follow
`handleSubscriptionChange` and `manageSubscriptionEvent` statement by statement,
with their early returns (`FirstPc`, `AfterManage`: a cancellation returns
inside the loop over the items). `Fail` ends a request anywhere, `SwallowError`
is the catch around the limits and warnings, `NoTierEntry` and `PricesMissing` are the
silent returns of `addOveragePricesToSubscription`. The owner's requests (`SetUsageLimit` …
`AddonRow`) are steps of their own.

The limit is a value: "default" stands for both Hobby defaults, today's and the legacy one,
whoever entered it, because `upsertDefaultTierUsageLimits` deletes by value. `cache` is
the cached billing info against the rows: a lookup of the app server reads the rows
(`ReadRows`) and caches them in a later step (`Fill`), whatever was written in between, and a
removal may fail while its request goes on (`ClearFails`, `InvalidateFails`,
`RequestKeeps`). A copy that is wrong by one of these is "stray": nobody is going to drop
it but the next writer or its TTL. A copy that was outdated by a write is "stale".

`solo`, `overlap`, `half`, `unpriced` and `owners` (what the owner entered) are
history variables that name what a property has to except.

### 2.6 SpanRows, SpanTree and Transcript

Operators named as the functions they stand for (`EnrichSpansWithPending`,
`AggregateSpanMetrics`, `TransformSpans`; `TransformSpansToTree`, `CondensedRows`;
`GetTreeSpans`, `AgentsOf`, `SpanToAnchor`, `BuildTranscriptListEntries`, `BuildSpanNameMap`).
`SpanRows` has those that `LiveTrace` uses. Their recursions are recursive functions
(up the parents, down the subtrees), so that theorems can be about them. The two walks of
`SpanTree` (`buildTreeWithCollapse`, `dfsOrder`) call themselves for each child in
turn; here the calls still to be made are a list, `todo`: a step takes its head
(`DrawRow`, `Visit`) and puts the head's children in its place, which visits the
spans in the same order. What the code does in turn for each member of a list (a sort,
sections, a set filled in order) is a function of how many were handled (`SortByStart`,
`GroupIntoSections`, `Distinct`, `BuildSpanNameMap`). In `Transcript` an agent is the id of the call
that stands for it; the main agent, and a span of no agent, has None. `MCTraceAlgorithms` grows a list of spans one at a time and
compares every function with what its caller relies on, stated without
the function's own recursion.

### 2.7 LiveTrace

`Path[s]` is the `ids_path` a span carries; `TraceAssumption` ties it to `Parent`, which
makes the spans a forest. Ingestion and the stream are as small as the view can tell: a span is running,
stored, sent; an event is in `feed` until it is handled; nothing keeps events while
the view is not connected. `requests` are the requests for spans with what their
closure took along: the times of the trace, here the spans that start between them
(`within`), and the address. A time unit of the model is longer than the second the view
adds at both ends. `ShowSpans` replaces
the rows, `HandleEvent` merges one in, and both run the effect that opens the linked
span again (`Reselect`). `raced` is a history variable: whether an order of the two
sources that the code does not reconcile has happened.

### 2.8 LabelingQueue

`rows` holds the last version of each item that is still in the queue; a handler
that updates reads first (`ReadRow`) and inserts later (`InsertRow`), a push matches,
copies and deletes in three steps. On the page, `timers` and `aborts` are the save
orchestrator's maps, `loadedItems` the window around the open item, `index` and
`window` the loader's two requests. `Act` is what approve, unapprove, discard and push
share. `exposed` is a history variable with the items whose edit the code gives
up: a failed save, a closed tab, an action that cancels it, two requests for one
item at the server at a time.

## 3. Runs

| run | question | distinct states |
|---|---|---|
| `ingest_shared_trace` | two requests of one trace share a message; two workers, key expiry at any time, one fault, one failed insert: do keys, rows and verdicts agree, is anything lost? | 192 thousand |
| `ingest_mixed_contract` | does ingestion implement its contract, with sharing across traces, tool definitions, spans that are not recorded, empty and oversized requests, and a message beyond the positions a verdict can name? | 2.0 million |
| `ingest_liveness` | is what the broker accepted stored in the end, and at most once per delivery that may have failed late? | 413 thousand |
| `stats_one_trace` | two workers, two spans, one of them recorded, and a patch of one trace, one fault of every kind | 2.6 million |
| `sse_registry` | three connections, two of them sharing a key on one pod, messages for two keys, a stream that may end | 182 thousand |
| `warnings_faults` | two ingestion and two notification workers; three faults in one period (two with a failed publish of a notification), or a failed publish or an expired lock and a change of the period | 1.8 million |
| `warnings_fetch_error` | does a failed query lose a notification? (yes) | violation |
| `billing_webhook` | two webhook requests, events in any order, a fault, a lookup that caches late, an owner's request; a new workspace, one on Pro with the add-on, one on Hobby whose creation is retried | 4.7 million |
| `trace_algorithms` | every small list of spans through tree, timeline, search, transcript and breadcrumbs | 56 thousand |
| `live_trace` | a drawer, a page and a linked drawer of a trace of three spans, a search, a fault, a click, in every order | 2.3 million |
| `labeling_queue` | two items of which the page holds one, three clicks, one fault: edits, saves, actions, refetches in every order | 3.5 million |
| `queue_approve_drops_edit` | is an approved item approved with the target the page shows? (no) | violation |

### 3.1 What the properties say

*Ingestion.* `StoreInv` is the inductive invariant of section 4; its conjuncts
include the types and: an `s:` key names stored content (`NoPhantomStorageKey`); a
`tn:` key has a stored row that recorded the first occurrence
(`NoOrphanTraceMarker`); every message of a stored span is marked new by some
stored span of its trace (`FirstOccurrenceRecorded`). `HashesResolve`: every hash
of a stored row resolves. `NoAcceptedRequestLost`: an accepted request is queued,
held by a connected worker, or stored. `RowsPerCopy`: a span has at most
(copies that carry it, `CopiesOf`)·(1 + faults) rows; a failed insert, which is not in
the bound, costs none.
`Refines`: ingestion implements `IngestContract`. `AcceptedEventuallyStored`:
what the broker accepted is stored in the end.

*Statistics.* `NoVersionTie`, `ClickhouseFollows`, `ClickhouseCatchesUp`: the
copy. `CountedPerDelivery`: no delivery counts a message twice. `NoStubTrace`,
`PatchNotDropped`: patches. `SignalsSeeSpans`: when a trace is checked for signals, every
recordable span of the flush is stored, and one that the row counts and that is not yet
stored is with another flush that has not ended, or will be delivered again. It
does not say that every counted span can be read: a span another worker has counted and
not yet inserted cannot. Note what
`ClickhouseCatchesUp` does *not* say: after an error in a trace branch the copy
may stay behind until the trace's next flush, which the code accepts.

*Live updates (server).* `NoGap`: received plus pending is exactly what was due, in
order, for whoever is registered. `CleanupKeepsOpen`: cleaning an entry takes no
open connection out of it. `NothingLeaks`: once all browsers are gone the maps
become empty, also after the removal race.

*Soft limits.* `NotLost`: without cache errors, crashes or query errors, skipping
and releasing lose nothing within a period. `DeliveredOnce`: one delivery per
owner and period, plus one per expired lock or ambiguous publish.
`RepeatsBounded`: n racing ingestion workers send at most n(n+1)/2 notifications
in a period, plus one per failed publish, which may have reached the broker. The bound is reached: a worker that read the unmarked row before
the mark can cache it again after the eviction, and each such refill lets the
workers that are idle push once more.

*Billing.* `NewestHeals`: after a request alone with the newest event, tier,
subscription, add-on, Hobby cap and warnings match Stripe and no copy is cached that
the request should have dropped, whatever happened
before. `HobbyDefaultsFollow`: the Hobby cap and overage warnings are gone once the
tier is, but for those the owner entered, unless requests overlapped or one stopped
between its writes.
`CacheFollows`: a stale copy is about to be dropped. Neither says anything of a stray
copy (section 5.2). `MeteredOnceCreated`: an acknowledged creation left overage prices
behind. `CustomStays`: no event touches a limit of another value than Hobby's defaults;
one of their value goes with Hobby, even if the owner entered it (section 5.2).

*Trace layouts.* `TreeShown`: each span without a collapsed ancestor is one row,
below its parent, at the depth of its ancestors, with lines where siblings follow,
and a selection keeps exactly the rows that it and the way to it have in the whole tree,
at their depth: it opens no branch, so what is below a collapsed one stays hidden. `TimelineSound`: children
below parents, spans of a row apart in time, no empty row. `SearchKeepsAncestry`:
what is found keeps its ancestor order. `EveryVisibleOnce`, `GroupsAgree`: the
transcript shows each visible span once, in blocks, and groups as the timeline
does. `AgentsGrouped`: invocations apart, main agent inline, tools with the agent
whose way they share. `NumbersDiffer`: breadcrumb numbers tell spans of one name
apart.

*Open trace.* `RowsWhole`: no orphan row (`NoOrphan`), placeholders cover what is below
them (`PendingCovers`), and when nothing is on its way the tree is what is stored,
except after the orders `raced` names (`ViewExact`). `AddsUp`: the sums on the rows are
those of the LLM calls at the leaves below (`MetricsCurrent`, with the exception of
section 5.2), and the totals count every stored span once, under the same condition
(`TotalExact`). `EventKeepsUserState`: an event neither opens nor closes a branch nor changes
the open span, unless the view was opened with a link.

*Labeling queue.* `PendingShown`: while an edit waits or its save is under way the
page shows it. `SavedWhenQuiet`: when nothing is on the way for an item its row, and
the page, have the last edit, unless it is `exposed`. `PushLosesNothing`: an item's
payload is in the queue, in the dataset, or was discarded by the user.

### 3.2 Bounds, and why they are enough

* Two workers (or two requests, two handlers) are what a race needs; the hazards
  are between one that has acted on something and one that acts on it again.
* `MaxFaults`, `MaxErrors`, `MaxCrashes`, `Max...Errors`: one fault of each kind
  in a run, two in `ingest_liveness`; `warnings_faults` allows three faults
  within one period, a failed publish with one other at most, and across two periods one
  failed publish or one expired lock (`CONSTRAINT Bounded`). Each fault action sends the system back to a state from which
  everything else happens again, so a second one of a kind repeats the first.
* `MaxCopies` bounds re-sending and publish retries: one copy per request in the
  shared run (redelivery already duplicates it), two in the liveness run.
* One or two hashes, one or two traces: hashes and traces interact only through the
  equality of keys; sharing within a trace, across traces, and between a
  message and a tool definition are all present.
* `MaxPositions = 2`: `ingest_mixed_contract` has a span with three messages.
* Billing: one subscription, two changes Stripe makes on its own (more come from
  the owner's request and from `AddOverage`), one fault, one lookup at a time, one owner's
  request, three initial states (`MCSpec`). Two events are enough to be out of order. The
  new workspace checks out; the ones on Pro and on Hobby reach the cancellation, the
  switch and the owner's edits without spending changes on the creation, and the one on Hobby
  has its creation retried next to them. These two are states the code
  gets to from the first, but for the counters that bound the changes, faults and requests. The theorems
  hold from `Init` for any number of each.
* `trace_algorithms`: timelines of 4 spans with times 0..2 (every relation of two
  intervals), trees of 4 (a branch with a sibling below and above), transcripts
  that add 3 spans to a main agent, two tools and a subagent's call, with a
  window of 3 calls so that the window can end before the last.
* `live_trace`: a root, an LLM call inside it and one inside that; two requests
  for spans, one fault, one click, and three initial states that put the opening
  at different points of the ingestion.
* `labeling_queue`: two items with a window of one (the code's radius is 2; what
  matters is that one item is outside), three clicks and one fault; the
  violation needs four clicks and no fault.
* `CHECK_DEADLOCK FALSE` everywhere: clients, browsers and faults are finite in
  the instances, so the models stop when all of them have been used up, which
  the system does not.
* Symmetry is declared for workers and handlers in safety runs only.

All of the theorems of section 4 hold without any of these bounds.

### 3.3 Fairness

* `SpanIngest!FairSpec`: weak fairness of the steps of each worker that its own
  process drives (the tokio runtime polls a ready task, the interval timer
  fires, the worker loop reconnects). Errors, crashes and failed Redis writes
  are never fair. Strong fairness of the delivery of each request, because a
  worker's prefetch window opens and closes while RabbitMQ serves the queue in
  order. Nothing is assumed of clients: an unaccepted request may stay so.
* `SseRegistry!FairSpec`: weak fairness of each connection's heartbeat (it ticks
  every few seconds) and of each pod's subscriber task. Browsers and publishers
  owe nothing.
* The other modules are checked for safety only. For billing the code justifies
  no more: nothing but Stripe's retries drives a failed request on. In the trace
  view and the labeling queue what must happen in the end is stated of the states in
  which nothing is on its way (`RowsWhole`, `AddsUp`, `SavedWhenQuiet`).

## 4. What is proved

The eight `...Proofs` modules are checked by TLAPS without any
unproved leaf, for every value of the constants that satisfies `IngestAssumption`,
`StatsAssumption`, `SseAssumption`, `WarningsAssumption`, `BillingAssumption`,
`QueueAssumption`, `TraceAssumption`, `AlgorithmsAssumption` and `WindowAssumption`. These
type the parameters; beyond that those of billing, the queue, the trace and the trace
layouts say that the markers for "none" are different from the things they stand beside,
`QueueAssumption` that a queue is finite, and `TraceAssumption` that a trace is, that its
spans form a forest and that none ends before it starts. Counting ingestion workers needs
that they are finitely many; other sets of requests, spans, workers, handlers and
subscriptions may be infinite.

**Ingestion.** `TypeCorrect`, then `StoreConsistent`: `Spec => []StoreInv`. The
properties alone are not inductive. A row is resolvable because the verdict it
was written from was right when it was *written*, so the invariant has to say
what a verdict promises while it travels:

* `Sound(s, v)`: whatever `v` does not mark new is recorded by a stored row, and
  whatever it does not ship is stored. It holds when the verdict is taken because
  of the two key invariants, and it keeps holding because `content` and `rows`
  only grow (`Monotone`): keys may expire under it.
* `SoundVerdicts`: that, for every verdict in a producer, in the queue and in a
  worker's batch.
* `InOrder(w)`: a flush that has reached the spans insert has its content stored,
  what it has still to stamp is stored, and what it acknowledges is stored. This
  is where the order content, spans, keys is used.
* `FirstsStored`: what a row marks new has its content stored; it carries
  resolvability from the first occurrence to later ones.

From it follow `NoPhantomKeys`, `NoOrphanMarkers`, `RowsResolve`,
`FirstOccurrences` and `AcceptedNeverLost`.

`RowsBounded`: `RowsPerCopy` speaks of what is written; `RowsInv` adds what may still be.
Each copy that is ready, and each copy in a batch whose spans are not inserted,
is one write to come (`Unwritten`); written plus to come never exceeds the bound. A
fault can make every copy unwritten again, and pays for all of them at once.

`ImplementsContract` (module `SpanIngestProofs`): `Spec => Refines`. A step leaves
what the contract sees alone, raises one counter of copies (`Accept`), adds content
(`AddContent`), or stores the rows of a batch (`VisibleFrame`). The last is a
`Commit`: `StoreInv` gives the content and the first occurrences the contract asks
for, and `OnlyAcceptedTravels`, an invariant of its own, says that the batch
came from accepted requests.

**Statistics.** The invariants are proved in layers, each using the ones before:

* `BatchesFormed`: types, and the shape `from_spans` gives a batch.
* `Versions`: every *snapshot* (a row returned by a stage or inserted into
  ClickHouse) is at most as new as the row of record, equal to it at the same
  version, and no two snapshots tie. Each step either leaves a row alone or gives
  it a larger version (`Advance`, `AdvanceKeeps`); this is the whole purpose
  of the version bump in `merge_trace_metadata_batch`. It gives
  `VersionsNeverTie` and `ClickhouseNeverAhead`.
* `ClickhouseEndsUpEqual`: without errors the latest row is in ClickHouse or in
  the hands of a worker that has still to insert it (`LatestInv`); it needs that
  patches are merged after the last upsert (`Staged`).
* `Counted`: a message is in one place at a time (`Exclusive`), and what a batch
  has still to add was added less often than it was delivered.
  It gives `CountedOnce`.
* `SignalsAfterSpans`: what was sent is ready, held by a worker or acknowledged (`Kept`), a flush whose span branch is through can read its own spans (`Readable`), and a
  row counts nothing that was not sent (`CountsSent`). Together they hold of
  a trace when it is checked, and of every check later on (`Checked`).
* `NoStubs`, `PatchesMerged`, each with its own strengthening.

**Live updates.** `CleanupSpares`: `Spec => CleanupKeepsOpen`, from `RegistryInv`: a
registered connection is in an entry of the map under its own pod and key. The
proof has one lemma for each way an entry changes: `RetainSound` (only closed
connections leave an entry that stays) and `DropSound` (an entry that goes holds
nobody, so a connection that the removal race drops is not left behind in a map
without its key). `NothingMissed`: `Spec => []NoGap`, from what `OfKey` does at both ends
of a stream (`OfKeyAppend`, `OfKeyHead`): a message published is appended to what is
due and to what is pending, one forwarded moves from the front of what is pending to
the end of what was received. `NoGap` needs beside it only `TypeOK` and that a connection
that was never open has received and is due nothing (`Fresh`).

**Soft limits.** `TypeCorrect`. `DeliveredOncePerPeriod` is a budget: a worker
that holds the lock, and a lock that is free for the first time, each may pay
for one delivery; what was paid, plus who may still pay, never exceeds one plus
the expired locks and ambiguous publishes (`Paid`). `NotificationNotLost` needs
that a lock vouches for something: while no fault the property excepts has
happened, a held lock means that a notification is in a handler's hands or was
delivered (`CalmInv`). `RepeatsAreBounded` gives n(n+1)/2 its reason (`RepeatsInv`):
until the row is marked every push has a worker that is marking it, so there are at
most n; afterwards nobody reads an old row any more, and the f workers that
still hold one can each put it into the cache once and let the others push once:
n + (n-1) + ... + (n-f+1) at most, of which every push and every refill takes its part.
A failed publish brings no worker to the mark, so it is counted apart: no more of them
reached the broker than failed (`UnconfirmedInv`).

**Billing.** Everything the run checks. `StripeInv` types the state and says what
an event promises (`Good`): its subscription exists, and if it is the newest its
snapshot is what Stripe holds. On top of it, one invariant for each property:

* `CacheIsDropped`: the property is inductive as it stands, once a copy cached after a
  write it was read before is told apart from one that was there at the write.
* `OverageIsMetered`: a request that is about to acknowledge a creation knows of a
  price (`MeteredInv`); this is where fetching the subscription again matters.
* `DefaultsLeave`: at most one request is at work, and at each of its statements it
  knows whether the defaults are still to go: from reading the tier until the limit
  is written, "the tier I read was Hobby, or there are no defaults" (`HobbyAt`).
* `NewestEventHeals`: what a request alone with the newest event has brought in line
  at each of its statements (`SoloAt`); with `Good` it matches Stripe at the end.
* `OwnersLimitStays`: an action property, by cases on the actions.

**Labeling queue.** `NothingLost`: `PushLosesNothing` alone is not inductive,
because a request in flight may be about to delete or overwrite. `QueueInv` adds what
each request in flight knows (`HandlersSound`): a push that has counted its copies
is about items the dataset has, and a save that read no payload is about an item
that is already safe.

`PendingEditsShown` and `EditsSaved` are about the page, and rest on layers:

* `PageInv`: types, and that the saves somebody waits for are those whose ids the
  orchestrator keeps, one for each item (`Tracked`); this is what makes a late answer of
  an aborted save harmless.
* `Listed`: whatever the server, an answer or the page calls the list of the queue has
  every item that was never deleted.
* `Shown`: an item with an edit that waits or is being saved is loaded, with that edit.
  It is `PendingShown` with the save under way named by its liveness, not by its id.
* `Kept`: for each item that is neither `exposed` nor deleted, at most one request is
  active (`OneAt`), its last edit waits, is on its way or is in the row (`EditKept`), and
  neither the page nor an answer on its way to it shows another one (`EditShown`).

`StepKinds` sorts the steps by what they do to an item, and each layer has a lemma per kind. The
list's order is stated by how many items stand before one (`AllListed`) and a
list with one item replaced or removed by its places, which is how they can be
reasoned about without induction over sequences.

**Open trace.** First what the functions do to any table of rows (one row for each id):
`EnrichRows`, `EnrichCovers`, `EnrichClosed` and `EnrichExact` for placeholders,
`RedrawnKeeps` for whatever changes only sums and branches, `UpdateRows` for an event,
`ResponseRows` for an answer. `SearchParents` says what `createParentRewiring` computes:
the nearest found ancestor if everyone between is stored, otherwise none; the walk
up the parents is defined because a closed form of it exists (`ClimbExists`) and means
one thing because the first id to differ would have a parent that differs (`ClimbUnique`).
On top of them two invariants:

* `LiveInv`: the table is closed under parents, placeholders cover, what a search did
  not make is exactly paths (`Exact`), and answers on their way are tables of stored
  spans, closed if they answer a search. `NoOrphan` alone is not inductive: the next
  event needs to know that the rows an answer brings hang from their own parents.
* `PastInv`: unless an event was lost or overtaken, what was handled is in the rows, or
  the first answer will bring it; every later request's range has in it everything
  handled, because the times of the trace grow with each event, in both directions
  (`InTime`, `WithinRow`). A request sent before keeps the range it was sent with
  (`Sooner`): an event that is not in it is one of the orders `raced` names. This
  relates four pieces of state that nothing in the code keeps together: the
  closure of a request, the row of the trace, the answers and the store.

They give `TypeCorrect`, `WholeRows`, and, for events, `UserStateKept`.

`SumsAndTotals` (`AddsUp`) rests on a theory of the tree a table makes. A sum over a
finite set is the value of a function defined on all its subsets (`SumsExist`,
`SumsAgree`), whatever order `FoldSet` takes the members in; so sums of disjoint sets
add (`TotalJoin`, `TotalFamily`). Row a stands over b if every set with b that is closed under parents
has a (`Over`): a definition without recursion, by which the code's two recursions
are measured. `SubtreeMetrics`: `calculateSpanMetrics` gives every row of every table
the tokens of the LLM rows at the leaves below it, or -1 where there are none.
`AllAncestors`: the walk of `computeVisibleSpanIds` collects exactly the rows above.
Then the invariant `MetricInv`, of the store and of the answers on their way:

* `Current`, without placeholders: every sum is what is due. Each event and each answer
  ends with an aggregation, which makes this so by `SubtreeMetrics`. But a row without
  calls below keeps its old sum, so `MetricsCurrent` also needs
* `Ever`: a sum that is there was made of a call that is still below. An event may move
  a row: one that a search hung high goes back to the parent of its span, and
  nobody above may lose it. That needs
* `Rejoins`: where a row hangs higher than its span, those between that have rows hang
  where their spans do, so that the way up from its new place passes the old
  parent (`ClimbBetween`). A search's answer has it because it hangs each span
  from the nearest one found (`SearchParents`).

The totals are a second invariant (`CountInv`, theorem `TotalsExact`): as long as `raced`
names no order, the row of the trace, in the store or on its way, counts what was
handled, each span once.

Induction comes from the library in one form only, that a set of numbers has a
least element (`WFMin`): a claim about all numbers or all spans is proved by
looking at the least number, or the shortest path, that breaks it (`SetInduction`,
`ClimbUnique`).

**Trace layouts.** For lists of every length. `ListsAreTrees` says what the functions are
given (`Listed`): the spans of a tree, each once, a parent among them with a smaller
number. On such a list:

* The walk (`WalkOn`, `WalkEnds`). What was seen and what is still to be seen form one
  list in which nothing is twice; a parent was seen before its child is in the list; the top-level
  spans, and the children of what was seen, are in it (`Walked`). A visit keeps this and moves one
  span, so `todo` is empty after as many visits as there are spans, and then all of
  them were seen: of the spans that were not, the one with the smallest number would have a
  parent that was. The lemmas are about any choice of children: all of them for the timeline
  (`OrderedWalk`), those of expanded spans for the tree (`TreeIs`).
* `TimelineIsSound`. `InPlace` is the invariant of placing the spans in the order of the
  walk: a placed span is below its placed parent, spans of one row are apart, and
  every row above a used one is used. A free row exists among as many rows as
  there are spans placed and one more, each of which could block one (`FreeRow`); a
  row skipped for a child of row r is below r and blocked, hence used.
* `TreeIsShown`. `Drawing` adds the lines: `mask[d]` of a row, and of a row that is still
  to be drawn, is true exactly when, below it in what is drawn and to be drawn, there is a
  child of its ancestor at depth d (`Passes`). Drawing a row replaces it by its children
  right below, so what is below each other item stays the same but for the children of
  the row just drawn, which is nobody's ancestor yet (`LinesGrow`). At the end only
  drawn rows are left. A selection: the closure of `WithAncestors` is a union of ways up
  (`WithAncestorsIs`), so what it leaves of a list is again such a list (`VisibleListed`),
  in which a visible span has the ancestors it had (`VisibleAncestors`); hence it
  has a row under the same condition and at the same depth (`PlacesAre`, `SelectionPlaces`).
* `SearchesKeepAncestry`. An induction along the parents of the spans found, with the nearest
  found ancestor as the step (`SearchAncestry`).

* `TranscriptIsWhole`. A part of the transcript (`Part`) has each of its ids in one row and
  its groups in whole blocks. Parts with different ids make a part (`Parts`): a block
  does not go on across the seam, because a part never begins inside one. A span adds a plain
  row, nothing, or the block of its group; it adds the block if nothing before it is
  of the group (`Reveals`), so what is added is shown for the first time
  (`RevealedOnce`), and in the end everything is (`EntriesIs`).
* `OneGrouping`. A row carries the group `buildSpanToAnchorMap` gave its span (`EntryOf`);
  every group has a call (`GroupsHaveCalls`), so a member becomes a plain row only when the
  selection hides all the calls of its group.
* `AgentsAreGrouped`. That the lists are trees is not enough: it rests on paths.
  `CallsAreNested` is the invariant that a span's path is its parent's and its id, that only
  a call may be without one, and that a call is never below a call. Two calls of one
  cluster have the same anchor exactly if they have the same prefix (`AnchorOfIs`,
  `SameInvocation`), and the prefix is the parent's path for a loop, the path above it for an
  iteration (`PrefixIs`), whether or not a sibling of the call lacks its path
  (`ParentIsDirect`). The main agent exists: among the calls with the shortest path one has
  the most tokens (`MainAgentIs`, `BestOf`). The deepest ancestor of a tool that an agent claims
  is as far as any agent's calls go along with the tool, and the main agent's do not
  (`ToolsResolved`).
* `NumbersTellApart`. A span's number is that of the last section it is in (`LastNumber`), and
  within a section spans of one name are counted up to different places (`NumberIs`).

Recursive functions are unfolded with one lemma each (`...Def`), from a rule that says
that such a function exists (`Recursion`, `Steps`), by the least number at which it would not.

Only model-checked: liveness (`AcceptedEventuallyStored`, `NothingLeaks`), which
is out of the prover's reach. Every other property of a passing run is stated by a theorem; the
two violated runs' properties have none, of course.

## 5. Where code and text disagree

### 5.1 Checked

Two runs are violated; `PROJECT.json` quotes the line.

1. `warnings_fetch_error`: a failed read of the owners returns with the dedup lock
   held, and the redelivered notification is skipped as a duplicate
   (`notifications/mod.rs:341`).
2. `queue_approve_drops_edit`: approving cancels the pending save of the item and
   sends the status alone (`src/frontend/components/queue/queue-store/index.tsx:438`),
   because "the canonical value already lives in `edit`"; an edit that still waits
   for its timer does not, and the row is approved with the older target.

Five more configurations are kept for a reader to run; each checks one property
that the code does not keep:

| configuration (module) | property | what happens |
|---|---|---|
| `MCTraceStatsProjects.cfg` (`MCTraceStats`) | `OwnProject` | `TraceAggregation::from_spans` groups a flush by trace id alone; two projects with one trace id in one flush share a row (`ch/traces.rs:167`) |
| `MCTraceStatsPatch.cfg` (`MCTraceStats`) | `PatchesDoNotCount` | a metadata patch raises `num_spans`, which the API's doc denies (`db/trace.rs:446`); the bump is needed (section 4) |
| `MCSseRegistryRace.cfg` (`MCSseRegistry`) | `ActiveEntriesStay` | a connection made between the emptiness test and the removal is dropped from the map (`realtime/mod.rs:119`, `:197`) |
| `MCSseRegistryStream.cfg` (`MCSseRegistry`) | `Resubscribes` | nobody subscribes again after the Redis stream of a pod ended (`main.rs:856`) |
| `MCBillingSwitch.cfg` (`MCBilling`) | `OneTierMetered` | a creation handled after a tier switch adds the overage prices of the old tier next to those of the new one: the fresh items are compared with the snapshot's tier |

### 5.2 Seen while modelling

*Backend.* The in-memory cache keeps locks apart from entries, so `remove` does not
release one (`cache/in_memory.rs:50`); a billing period that ends between `Push`
and `Mark` marks the wrong period (`utils/limits.rs:719`); publisher confirms are not
used, so an accepted `basic_publish` is not a stored one (`mq/rabbit.rs:180`); a
batch that can never be inserted is requeued for ever with its neighbours
(`batch_worker/worker.rs:254`); a redelivered patch is merged again, after newer ones
(`db/trace.rs:446`); a prefetch smaller than the batch waits for the interval
(`traces/consumer.rs:64`); positions beyond a `u16` get no verdict
(`traces/input_dedup.rs:235`).

*Billing* (`src/frontend/lib/actions/checkout/webhook.ts`). The add-on row survives a
cancellation: the return at 236 comes before the add-ons at 279. The Hobby cap is
inserted again by a later event after the owner removed it (453, against the
comment at 325–326, which also says $50 where the value is $100). The
billing period is reset where the comment at 85–88 says it is not. A retried creation
after a cancellation activates the tier again or fails for ever. Warnings at the
Hobby allowance survive a cancellation followed by Pro. A late `updated` or
`deleted` of an older subscription is applied to the newer one. A limit the owner set to
the value of a Hobby default, today's or the legacy one, is taken for it and
deleted when Hobby is left (434–446, against "preserve user overrides" at 428). A
lookup of the app server that read the rows before a write puts them into the cache after
the removal (`src/app-server/src/utils/limits.rs:806–816`), and a removal that fails is
logged or dropped and the request answers 200
(`src/frontend/lib/actions/usage/utils.ts:39–42`,
`src/frontend/lib/actions/project/index.ts:190`): the wrong copy stays until
the next write or for seven days.

*Trace view.* A linked span is opened again after the user closed the panel
(`trace-view-content.tsx`, comment at 221 against the effect at 284–291). Responses
to two searches are shown in the order they arrive (208); a request is limited by
the trace times of the closure that sent it, at both ends (187–192): when the row of the
trace was read before its root ended, the first request leaves the root out, and if
the root's event is handled before the answer the placeholder stays. It selects by the
address it took along (217). Events are added to a filtered view (`utils.ts`, 242). Spans whose
`ids_path` is missing get no placeholder (`store/utils.ts:25`). Events missed while
disconnected are not fetched again; totals count a span twice when the row of the
trace already had it; an LLM span with children contributes no tokens of its own, but one
that gets its first children later, none of them with LLM calls below, keeps the sum it
had (`src/frontend/lib/actions/spans/utils.ts:406`, a span without metrics is left as it
is): `MetricsCurrent` excepts it; a later section overrides breadcrumb numbers; placeholders have no metrics.

*Labeling queue.* A save the page aborted may still be applied after an approval,
with status 0, or bring a discarded row back; failed saves are not reported; an edit
made while the approval is under way is shown as approved; an edit between the copy
and the delete of a push is in neither; a push repeated after a failed delete copies
twice; an answer about an item that is no longer listed changes the counts
(`queue-store/index.tsx:463`); closing the tab drops what waits
(`queue-data-loader.tsx:85–86`); a list of the same length does not refetch the
window.

## 6. Not modelled

* Stateless code: span conversion, search, the query engine, LLM providers,
  authentication, rendering of e-mails, the PII redactor.
* Stubs: signals and clustering have no implementation in this repository;
  `TraceStats` models when signals are triggered.
* Plain row updates: dataset and rollout rows, object storage.
* The frontend beside the three parts above: pages, forms, charts, the SQL editor
  and server actions that read or write single rows. It is most of the repository's
  TypeScript, and rendering and single-row actions have no states for a model to
  relate; the map covers a small share of the lines for that reason.
* Billing: `invoice.finalized` with the billing period and the write-only
  `workspace_usage` table, e-mails, the amounts of meter events; more than one owner's
  request at a time; the owner's limits on data volume, which no event touches.
* Trace view: filters other than a search, panels other than the span's, widths and
  persisted settings, `buildPathInfo`'s trimming of long breadcrumbs, duplicate
  rows of one span (rows are a set).
* Labeling queue: targets that are not valid JSON while they are typed, adding items
  (`pushQueueItems`), other users at the same queue, the annotation schema and its
  editor, `DELETE` with a dataset id, deleting queues.
* The batch workers of logs, browser events and the full-text index: the worker of
  `SpanIngest` with a single insert.
* Inside the modelled parts: payload formats, byte limits other than "too large",
  columns other than the version, channel names, and the wall clock.
* Redis, RabbitMQ, PostgreSQL and ClickHouse are modelled by what the code
  relies on: atomic single statements and commands, redelivery of what was not
  acknowledged, the largest version winning in a ReplacingMergeTree.

## 7. Plan

Order of the modules, the most important behaviour first:

1. `SpanIngest`, `IngestContract`, `SpanIngestProofs` (done).
2. `TraceStats`, `TraceStatsProofs` (done).
3. `UsageWarnings`, `UsageWarningsProofs`, `SseRegistry`, `SseRegistryProofs` (done).
4. `Billing`, `BillingProofs` (done).
5. `SpanRows`, `SpanTree`, `Transcript`, `LiveTrace`, `LiveTraceProofs`,
   `TraceAlgorithmsProofs` (done; composing `LiveTrace`'s stream with `SseRegistry` is
   left).
6. `LabelingQueue`, `LabelingQueueProofs` (done).
7. `UsageCounter`: read, seed and increment of the cached counter, its TTL and the
   change of period. Abstract specification: a counter that never exceeds what was
   ingested (the code prefers to underestimate). Runs: two ingesters, expiry
   between read and increment, a ClickHouse error while seeding.
8. `DeploymentRouting`: the mode of a workspace, cached and refilled while it is
   switched; rows and content must go to the same store. Composes with
   `SpanIngest` (the keys say "stored", but where?).
9. `BatchQueue`: the generic batch worker and the in-process broker with bounded
   channels; abstract specification: at-least-once delivery. `SpanIngest`'s
   queue actions are an instance.
10. `CheckpointAgents`, `DebuggerCache`, `ReportScheduler`: work done once under a
    cache lock that expires.

## 8. Running it

    tlc -workers 2 -config MCSpanIngest.cfg MCSpanIngest
    tlapm SpanIngestProofs.tla

`PROJECT.json` lists every run with its module, configuration and properties,
the map from definitions to source lines, and for each property a mutant of
the code it catches.
