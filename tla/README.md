# Verification of the Global Music AI Ecosystem

TLA+ models of this TypeScript monorepo (`src/packages`), checked with TLC on
small instances and, for the modules named in section 5, proved with TLAPS for every
instance. Each definition is translated from the code; `PROJECT.json` maps it to its
lines.

## 1. Inventory

Everything runs in Node.js: one JavaScript step at a time, interleaved at every
`await`, timer, event and promise continuation. Several API processes may run over
one PostgreSQL database (`k8s/api.yaml`, three replicas). "Hard" names what a
test would hardly reach.

| Component | State | Operations | Works with | Hard | What makes it correct | Modelled |
|---|---|---|---|---|---|---|
| **Job queue** `core/queue` | jobs, `pending` heap, `active` map, `deadLetter` and its eviction timers, `dedupeIndex`, one loop timer, `closed`, `draining`, waiters of `drain` | `process`, `enqueue`, `cancel`, `retryDead`, `drain`, `close`, tick, settlement of the worker's promise | the worker and the listeners call back into the queue | re-entrant callbacks in the middle of a tick or of a settlement, a tick that goes on with a `now` of the past, settlements in any order, drains racing closes | no job lost or in two places, concurrency bound, dedupe exclusive, attempts exact, no lost wake-up, drain and close wait for everything, every job settles | `JobQueue`, proved |
| **Workflow DAG** `core/engine/dag` | local maps of each function | `build`, `detectCycles`, `topologicalSort`, `getParallelGroups` | called by `execute` | repeated edges, edges to ids no node has | finds exactly the cycles, orders respect edges, no node dropped, groups as early as possible | `DAGBuilder`, proved |
| **Workflow engine** `core/engine/engine, executor` | `activeExecutions`; per run the node states, retry counts, collected outputs | `execute`; per node attempt, timeout, retry | DAG, node registry, context | `Promise.all` leaves siblings running after a failure, timed-out handlers go on, slots given back on several paths | slots accounted, dependency order, bounded attempts, fail-fast, every run ends | `WorkflowEngine`, proved |
| **Workflow context, builder, registry** `core/engine/context, workflow, node-registry` | scoped variables and outputs, a draft workflow, registered types | get, set, child contexts, merge; add, connect, build; register | engine | branches write while parents and siblings do; a builder is used after it has built | own writes are read, siblings see nothing, what was built stands, the default registry can be built | `Contexts`, `WorkflowBuilder`, `NodeRegistry`, proved |
| **Document store** `api/http/context, persistence` | a `Map` cache per collection and replica, the table `kv_documents` | insert, update, remove; upsert, remove, `loadAll`, `hydrate` | every handler; a PostgreSQL pool of five | writes are not awaited, commit in any order, may fail; restarts rehydrate; replicas do not see each other | cache and table part only where writes overlapped, failed or came from elsewhere; rows survive a restart | `DocumentStore`, proved |
| **HTTP server and router** `api/http` | requests under way, the route table | one pipeline per request | auth, audit log, handlers | requests meet while bodies arrive and after their handlers; the first matching route wins; a path that cannot be decoded throws outside the `try` | one handler per request, one audit entry per effect and in its order, every request answered unless the process ends | `Routes`, `ApiServer`, proved |
| **Request handlers** `api/http/handlers` | rows, users, runs | register, login, create, execute, cancel, ... | store, services | any body is merged into a row; ids of any type come from the body | writes only with a token or by a handler open to all, what was created stays, who registered can log in | `ApiServer`, proved |
| **Connectors** `enterprise/connectors` | calls, registry, sync jobs | `execute`, register, `runSync` | upstream HTTP APIs | retries of carried-out requests, aborts racing answers, pulls that fail half-way | attempts bounded, answers true, only failures repeated, cursors kept, every call ends | `Connector`, proved |
| **Notifications** `enterprise/notifications` | transports by channel, delivery log | `dispatch`, `dispatchAll`, `send`, `append` | channels | callers interleaved over one log, retries, falls through to the next channel, one failure in a batch | log agrees with the outcome, attempts justified and bounded, first accepting channel, batch in order | `Notifications`, proved |
| **Governance** `enterprise/governance` | audit ring, policy rules, consents | append, query, clear; add, remove, evaluate; grant, revoke, ask | server | wrap-around, rule order under changes, expiry | the newest `capacity` entries; denials win; both views of consent agree | `AuditLog`, `Governance`, proved |
| **Observability** `enterprise/observability` | spans, counters, histograms, registry | start/end span, set attribute, observe, clear | all | spans used after `end()`, exporters that throw, a registry cleared under its users | exported once and final; buckets cumulative, percentiles sound | `Tracer`, `Metrics`, proved |
| **Go-to-market** `enterprise/gtm` | campaigns and their counters | quote, meter, coupon, tax; tier, attribute, settle; assign, record | | rounding and tier boundaries; campaigns replaced under callers | each unit at its tier, parts sum to the whole, counters belong to the present campaign | `Commerce`, `Campaigns`, proved |
| **Analytics** `analytics/*` | experiments, key figures, alerts | create, start, assign, convert, stop, results; record; fit, detect | | users asked again, counters against assignments, sums over short series | users counted once and kept, verdicts stable, alerts follow values, the line is the best | `Experiments`, `ExperimentResults`, `KpiEngine`, `Forecasting`, proved |
| **Music services** `music/*` | generation jobs | generate, poll, cancel; rights by territory; ingest, match | | cancel against completion; nested groups of territories; near-duplicates, keys made of ISRCs and titles | result iff completed, a wider group covers a narrower one, no record lost, none left out but for its like | `GenerationJobs`, `Rights`, `Catalog`, proved |
| **Security** `core/security` | rate-limit windows, tokens | sign, refresh, limit | server | window boundaries, chains of renewals | at most twice the rate, sessions end | `Security`, proved |
| **Storage** `core/storage` | pool, transactions, vectors | `transaction`, `query`; `upsert`, `delete`, `search` | repositories | a client used after its transaction, a batch half stored | late queries refused, every transaction ends, search is the true top k | `Storage`, proved |
| **AI services** `ai/*` | prompt registry | register, update, render; check a text | | placeholders in values, declared against used variables; keyword thresholds | prompts whose variables were declared rightly render completely; more keywords are never safer, but for one case of lyrics | `Prompts`, `ContentSafety`, proved |
| **Logger, configuration, types** `core/logger, config, types` | the level of a logger | | all | | | no (section 8) |
| **User interfaces** `ui/*`, **Deployment** `k8s` | none | | | number of replicas | | a constant of `DocumentStore` |

The hazards of the code, each at its line, with the properties that cover it, are in
`PROJECT.json` under `hazards`.

## 2. Modules

Components that share state are composed in one module (`ApiServer` extends `Routes` and
`AuditLog`; `Storage`, `Security`, `Governance`, `Commerce` hold two small components of a package each); abstract
specifications are instantiated by what implements them.

| Module | Models | Uses |
|---|---|---|
| `JobLifecycle` | what a caller of the queue may rely on: the life of a job | |
| `JobQueue` | `core/queue/src/queue.ts` | `INSTANCE JobLifecycle` |
| `DAGBuilder` | `core/engine/src/dag.ts` | |
| `WorkflowPromise` | what a caller of `execute()` may rely on | |
| `WorkflowEngine` | `core/engine/src/engine.ts`, `executor.ts` | `INSTANCE WorkflowPromise` |
| `Contexts`, `WorkflowBuilder`, `NodeRegistry` | `core/engine/src/context.ts`, `workflow.ts`, `node-registry.ts` | |
| `DocumentStore` | `api/src/http/context.ts`, `persistence.ts`, start-up in `server.ts`, `main.ts` | |
| `BoundedLog` | what a reader of the audit log may rely on | |
| `AuditLog` | `enterprise/governance/src/audit-log.ts` | `INSTANCE BoundedLog` |
| `Routes` | `api/src/routes/*.ts`, the registry of handlers, `http/router.ts` | |
| `ApiServer` | `api/src/http/server.ts` and `handlers/*.ts` | `Routes`, `AuditLog` |
| `Notifications` | `enterprise/notifications/src/service.ts`, `channels.ts`, `deliveryLog.ts` | |
| `Connector` | `enterprise/connectors/src/connector.ts`, `concrete.ts`, `registry.ts` | |
| `Governance` | `enterprise/governance/src/policy-engine.ts`, `compliance.ts` (consents) | |
| `Tracer`, `Metrics` | `enterprise/observability/src` | |
| `Security` | `core/security/src/middleware.ts` (rate limiter), `jwt.ts` | |
| `Storage` | `core/storage/src/db.ts`, `vector-db.ts` | |
| `GenerationJobs` | `music/generator/src/music-generator.ts` | |
| `Experiments`, `ExperimentResults` | `analytics/experimentation/src/ab-testing.ts` | `ExperimentResults`: `PureCalls` |
| `Campaigns` | `enterprise/gtm/src/campaigns.ts` | |
| `Prompts` | `ai/prompts/src/prompt-manager.ts` | |
| `KpiEngine` | `analytics/kpi/src/kpi-engine.ts` | |
| `PureCalls` | one call of a function without state | |
| `Commerce` | `enterprise/gtm/src/pricing.ts`, `money.ts`, `partners.ts` | `PureCalls` |
| `Rights`, `Catalog` | `music/rights/src`, `music/catalog/src` | `PureCalls` |
| `ContentSafety` | `ai/guardrails/src/content-safety.ts` | `PureCalls` |
| `Forecasting` | `analytics/forecasting/src/forecasting-engine.ts` | `PureCalls` |
| `JobQueueProofs`, `DAGBuilderProofs`, `WorkflowEngineProofs`, `DocumentStoreProofs` | theorems about the module each is named after | that module, TLAPS |
| `OutboundProofs` | theorems about notifications and connectors | `Notifications`, `Connector`, TLAPS |
| `ApiProofs` | theorems about the routes, the audit log and the server | `ApiServer`, TLAPS |
| `ServicesProofs` | theorems about the stateful services | `MCServices` (for the conjunctions its runs check), TLAPS |
| `DataProofs` | theorems about the calculations and the key figures | `MCData`, TLAPS |
| `MCJobQueue`, `MCWorkflowEngine` | symmetry; the workflows TLC executes | `JobQueue`; `WorkflowEngine` |
| `MCOutbound` | calls that may never come back | `Notifications`, `Connector`, `INSTANCE WorkflowEngine` |
| `MCApi` | the requests TLC makes | `ApiServer` |
| `MCServices` | the stateful services side by side | 12 modules |
| `MCData` | the store, the graphs and the calculations | `DocumentStore`, `DAGBuilder`, 7 modules |

A definition whose name has an underscore (`SlotFree_OffByOne`) is a plausible bug
in the definition it is named after. It is not part of any specification; the
mutants of `PROJECT.json` put it in place of the original to show that the property
notices.

The last four MC modules hold several components that share no state. Each behaviour
exercises the one that the variable `focus` names, chosen in the initial state; the others keep
their initial values. So the state space is the sum, not the product, of those
of the components, and nothing about one is lost: no action of one reads or
writes a variable of another. The properties of a run are conjunctions of named
parts (`RowsKept == OnlyGrantedWrites /\ CreatedStays /\ RegisteredCanLogin`), each with a comment of its
own where it is defined.

## 3. State and actions

### 3.1 JobQueue

`job[j]` is the entry of the code (status, dedupe key, priority, limit, attempts,
creation order, time until it is due); `pending`, `active`, `deadLetter`,
`dedupeIndex` are the containers; `timer` is the loop's timeout. The
heap's order is not state: `Before` is its comparison, and `Dispatch` takes a
smallest ready job.

Code that runs without a break is one action, and is cut only where it calls out:
the worker and the event listeners may call any method of the queue from inside
the tick or the settlement that called them. `ticking`, `calling`, `settling`, `failing` and
`announcing` are those open frames: `BeginTick` promotes due jobs, each `Dispatch` removes
a job and calls the worker (`calling`), `Await` is the return of its promise,
`AnnounceDrained` takes out the waiters of an idle queue and tells the listeners of 'drained',
which may enqueue before `EndTick` lets the waiters go on and arms the next timer. A `drain()` that finds
the queue idle tells them too (`call[c] = "telling"`, then `EndDrain`). `Succeed`, `Retry` and
`Bury` are the three ways an attempt ends up to their event, by a promise or by a worker that throws;
after `Retry` the listeners of 'failed' see a job that is delayed, still in `active` and not in
`pending` (`failing`), until `PushBack`; `Release` is the
`finally` after the listeners. `CanCall` says when user code can run.

`Elapse` is the passing of one millisecond, on whatever code is running, a tick included. `tick()` reads the clock once:
promotion, `Ready` and `ArmNextDelayTimer` go by that `now`, while `enqueue` and a retry, called from
inside the tick, read the clock anew. `lag` is the time that has passed since `now`; while a tick is on the stack
`dueIn` counts from its `now`, so what enters the queue then is due in `lag` + its delay and has to wait for
the next tick. `NoOvertaking` and `WakesOnTime` say what holds in spite of it: what was due when the tick began is not
overtaken, and a delayed job wakes late by no more than a tick takes.

Cut: at most `Jobs` jobs are ever created (ids are never reused), delays and
time to live are one or two milliseconds, and a tick takes at most `TickTime`.

### 3.2 DAGBuilder

One action per loop iteration: a call, a back edge, a finished neighbour and a
return of `detectCycles`; a `shift` of `topologicalSort`; a level of
`getParallelGroups`. `ready` is the code's `queue`. `source` and `target` give every edge
its ends, so the same pair may occur twice, and an end may be an id that no node has, as
nothing in the code forbids it. The order in which a `Map` or a `Set` is iterated is
left open.

### 3.3 WorkflowEngine, Contexts, WorkflowBuilder, NodeRegistry

`run[r]` is the call of `execute`, `level[r]` the group it has reached, `node[r][n]` where
`NodeExecutor.execute` is for a node, `fed[r][n]` the predecessors whose outputs
it was given, `stray[r][n]` the handlers that go on after their attempt has timed
out. The workflow and its groups are the constant `Plan`; of the groups of a sound workflow
`OrderAssumption` demands what `DAGBuilderProofs` proves of `getParallelGroups`. The plans of
broken graphs (an edge to an unknown id, a cycle, an edge given twice; `MCWorkflowEngine`) are
what `getParallelGroups` really returns for them.

The prologue of `execute` up to its first `await` is one action for each way it goes:
`Reject`, `FindCycle`, `FindNothing`, `Execute`. `Fail` and the steps of the nodes
interleave freely, so siblings of a failed node go on after the run has ended.

In `Contexts`, contexts form a tree (`ancestor`) and each has its own `locals` and `outputs`;
parents write while their children run, children are merged in any order and again.
`WorkflowBuilder` keeps the draft and everything `build()` has handed out, which must not
change while the builder is used on. In `NodeRegistry` a handler is known by the
fields of its output; the sections of `createDefaultRegistry` register one after the other,
custom types come between them, and chains of nodes pass fields on.

### 3.4 DocumentStore

A row is the set of the requests whose changes it contains, so a lost update shows
as a missing request. `cache[r]` is the `Map` of replica `r`, `queue[r]` the writes that wait
for one of its `PoolSize` connections, `flights` those that a connection has sent,
`table` the database. `Put` is what `insert`, `update` and `remove` share: change
the map, hand the row to the sink, answer. A process that starts is "down" until
`loadAll` (`LoadAll`), "loading" until `hydrate`, then "up"; if the database cannot be reached it
boots without one (`StartWithout`). A `loadAll` that is rejected ends the process, which is
the state it was in. `Stop` is any end of a process: `main.ts` has no handler for
signals, so what was queued is lost and what was sent may still commit.

`atRisk` and `missed` are history variables, read by no action: the rows of which
the code promises nothing since the replica was hydrated, because writes
overlapped, failed or were cut off, or because another process wrote the row. They make the
promise of the write-through cache exact: everything else agrees.

### 3.5 Routes, AuditLog, ApiServer

`Routes` is the table of routes and the registry of handlers as data: a path is a sequence of
words and `Any`, a handler is known by what it does (`create`, `update`, `cancel`, ...) and to
which collection. `Permissions` is what the routes list as such; no code asks for it. `AuditLog` is the ring: `buffer`, `head`, `total`, and a query is
its loop: it walks from the newest entry back, takes what matches by action, actor, resource, severity, success and
time, and stops at the limit; `recorded` is the history of all entries.

`ApiServer` composes the two. `stage[r]` goes from "none" by `Arrive`, which is `handle()` up
to the reading of the body (preflight, routing, authentication, lookup of the handler), to
"reading"; a handler is one action, as it runs without an `await`, and leaves the request
"settled", queued in `microtask`; `Continue` is the rest of `handle()`, which records the audit
entry and answers. So between a handler and its entry other handlers run, but the entries
come in the order of the handlers. `Throw` and `BreakOff` answer 500 without an entry. `Collapse` is a path that
`decodeURIComponent` refuses where a route has a parameter: `match()` is called outside of the `try`, the rejection is
unhandled, and the process ends (`up`) with the requests under way. A
row is `[on, id, by, sound]`: its collection, its id, the request that wrote it last, and whether its
fields have the types the other handlers expect: `update` merges any body, and the `nodes` of a new workflow may hold
anything. An id from a body may be no string (`OddIds`): such a row is listed but found by no path. `ChangeUser`
merges any fields into a user; a password hash that is no string is left out.

### 3.6 Connector, Notifications

`stage[c]` is where `Connector.execute` is: "secret", "fetching" (the status is awaited), "reading"
(the body), "failed", "sleeping" (the back-off), "over". `wire[c]` are the attempts the upstream may still
carry out and `carried[c]` those it has, which an abort on this side does not undo: `CarryOut` may come
at any time. `Answer`, `BreakOff`, `Normalize`, `GoAgain` and `Wake` are the branches of one round of the loop.
`registry` and `sync` are the connectors of `registry.ts` and the calls of `runSync`, during which a
connector may be unregistered.

In `Notifications`, `phase[c]`, `at[c]`, `walk[c]`, `attempt[c]` are the position of a call of `dispatchAll` in
its three nested loops; `results`, `total`, `outcomes` are what it has gathered; `log` is shared.
One action runs from an `await` to the next: `GoOn` passes over channels without an
adapter up to the next one that has one. How a transport answers is left open, and
one that reports a failure may have delivered (`copies` counts what the
recipient got).

### 3.7 Services

One action per method of the class; what callers hold (spans, metrics, assignments, tokens, built
workflows, clients of a transaction) is kept, because the hazard is that it is used late.

| Module | State | Remarks |
|---|---|---|
| `Governance` | the rules in order of precedence; the grants | a rule names the requests it matches, equal priorities are ordered by id, an added rule goes before the first that follows it; times of consents are relative to now, so the clock needs no bound; a subject's list and the single question are both modelled |
| `Security` | counters and windows; tokens | the history `admitted` is the ages of the admissions of each client; a token is the time since the login behind it |
| `Tracer` | spans and what each exporter got | exporters run in turn and may throw, which skips the rest |
| `Metrics` | the registry, counters, bucket counts, the observations | a cleared registry leaves callers with unregistered metrics |
| `Storage` | transactions by stage, the queries they let through; the vectors in `Map` order | a batch with a vector of the wrong dimension keeps its prefix, a stored id keeps its place; `search` sorts by `Arranged`, stably; similarities are compared as integers |
| `GenerationJobs` | the jobs | `generate` runs up to its first timer; `Progress` is a timer going off |
| `Experiments` | status, assignments, counters | `userAssignments` outlives a stop |
| `Campaigns` | campaigns, segments, counters, assignments handed out | `addCampaign` replaces campaign and counters under callers that hold an assignment; `Chosen` is the first variant whose `Cumulative` weight exceeds the subject's point |
| `Prompts` | the templates | a template is the sequence of its placeholders; values may themselves contain some, and the `$&` that `replace()` expands; variables are replaced one after the other, each in what the former ones left; `UpdateText` and `UpdateVariables` are an update with and without a text, `honest` the ids whose variables were extracted or declared rightly last |
| `KpiEngine` | thresholds, which are optional, and the latest value | values are whole, in tenths or hundredths where the table has fractions; which way a figure gets worse is known by id for two of them, so `AlertsStay` is about figures whose thresholds go that way (`RightWay`) |

### 3.8 Calculations

Functions without state (`Commerce`, `Rights`, `Catalog`, `ExperimentResults`,
`ContentSafety`, `Forecasting`) extend `PureCalls`: a behaviour makes one call, whose arguments and
result `call` keeps. What is checked is never the formula again but a second definition
(each unit priced on its own, the tier searched by brute force, the equations that only the line of least squares
meets) or a law that relates two calls (more usage is never cheaper, the order of referrals does
not matter, more rights never lose a territory, a reversed series reverses its trend, ingesting
twice adds nothing). Products with a fraction are computed in floating point, where
a tie may come out either way: `Rounded` gives both outcomes, so `CouponsOnlyLower` compares
two quotes of one amount by the same rounding of its tax. Other floats whose exact value decides
nothing are rationals with a common denominator. A usage below zero makes `quote` throw (`pricing.ts:100`):
the call has no outcome, and a caller gets no price (`Negative`).

Strings of `Catalog` are sequences of characters with a case, blanks, letters and digits, and the bar that joins title and artist
into a key, so trimming, case and the characters dropped from an ISRC are what the code does to them. Tracks can share a
key without being the same: an ISRC of other characters only (`-`) becomes the empty string, which is a key, and a bar in a title can stand where
the joining one does. `LeftOutForItsLike` says so: a track is left out only for one with the same ISRC as normalised, or for one
with the same words unless a bar is among them.

Loops over data are recursive functions over the steps of the loop: `Sums` gives the sum of every beginning of
a sequence, `NextRow` fills a row of the matrix of an edit distance from the row before it, `Enter` takes one tier,
one record or one row. Each step is then a fact that a proof can use.

## 4. Runs

Their properties are conjunctions of named parts; the run's name is in the first column.

| Run | Question | Bounds and why they are enough |
|---|---|---|
| `queue_core` | `LimitsKept`: slots, attempts; `WakesOnTime`; `NoOvertaking` | 3 jobs, 2 priorities, 2 slots: two jobs run while a third waits, is retried or buried; delays 0 and 1 distinguish due from not due, and a tick of up to 1 ms makes its `now` stale |
| `queue_shutdown` | `ShutdownSettles`: drain and close wait for everything, nothing runs in a closed queue; `PlacedOnce`: statuses, containers, dedupe; refinement of `JobLifecycle` | 2 drains and 2 closes over 2 jobs with 1 key: each pair of waiters races, and both jobs may want the key |
| `queue_live` | every job settles, a drain returns | 2 jobs, 1 slot, 1 drain; no symmetry |
| `queue_two_drains`, `queue_close_race`, `queue_retry_dead` | violated, see 6 | the least that shows it |
| `engine_safety` | dependency order, attempts, slots, fail-fast, refinement of `WorkflowPromise` | 4 runs over 2 slots: a join, siblings, broken graphs; one node is conditional, one may stop early, one is retried |
| `engine_dropped` | violated, see 6 | the least that shows it |
| `outbound` | `OutcomesAgree`, `AnswersAgree`: log and answers tell what happened; `OnlyFailuresRepeat`; `EverythingEnds` | 2 callers, 5 notifications with no adapter, no address, no channel, a channel twice, 2 attempts; 2 calls with one capability of two, 3 attempts (a first, a middle, a last), 2 synchronisations; 2 runs of the engine over 1 slot |
| `api` | `RowsKept`, `RoutedToOneHandler`, `AuditTrustworthy`, refinement of `BoundedLog`, every request is answered | 3 requests (one creates, two come across it, with a string and a number for an id, and one path that cannot be decoded); every path and method of the table, each word well encoded or not; a ring of 3 with 5 entries wraps and is cleared |
| `services` | one property per service or group of services, see `MCServices` | 2 of whatever may collide: users, spans and exporters, metrics, segments, purposes, transactions; windows of 3 ticks; 4 requests under 6 rules; `MaxEvents`, `MaxStats`, `MaxSamples`, `MaxQueries`, `MaxBuilt`, `MaxNodes`, `MaxEdges` cap counters and lists at the first values that differ |
| `data` | store: `SettledRowsAgree`, `RestartKeepsRows`; graphs: `GraphAnswersCorrect`; calculations: `AmountsExact`, `RightsAndTracksKept`, `VerdictsStable`, `FiguresFaithful` | 2 processes, 2 rows, 3 requests, 2 connections, any number of stops and starts; all graphs of 4 nodes, an unknown id and up to 4 edges (diamonds, self-loops, cycles, repeated edges), those that differ in the order of edges taken once; tier tables, usages, texts, series listed in `MCData` with every boundary on both sides |

`TickTime` is 1 ms in all runs of the queue. The properties of `queue_core` are about slots, timers and order, those of
`queue_shutdown` about statuses, keys and waiters; each run leaves out the constants that only the other needs.

`CHECK_DEADLOCK FALSE` is set everywhere: every instance has finitely many jobs,
runs, requests or calls, and a system whose work is done stops.

### Fairness

The event loop runs what is on its stack, its continuations and its due timers:
weak fairness of those actions, nothing of users.

- `JobQueue`: the promise a worker returns is assumed to settle (the queue has no timeout of
  its own), so `EveryJobSettles` is about workers that return.
- `WorkflowEngine`: a handler owes nothing at all; only the timer of its attempt is fair, and
  `EveryRunEnds` holds by the timeouts alone.
- `Connector`: likewise, the timer that aborts an attempt and that of the back-off are fair; the
  upstream owes nothing.
- `Notifications`: a transport is assumed to settle, as nothing bounds how long it may take.
- `ApiServer`: a client sends its body or breaks off, and settled handlers continue, as long as the process is up.
- `GenerationJobs`: its timers. `Storage`: a transaction's callback settles.
- `Security`: time passes, and a refused client that asks again and again (strong fairness) is
  admitted; a client that gives up is not promised anything.
- `DocumentStore` states no liveness: a write that fails is never tried again.

## 5. Proofs

From the named `ASSUME`s of the modules only. TLC evaluates each of them in the run of its module. They are

- finiteness where the program holds the set in memory: jobs, runs, nodes, edges, contexts;
- types: limits and delays are naturals, there is at least one slot, a capacity is at least 1, special values lie
  outside the sets they stand beside, ids that no path spells are no strings, requests have the fields that handlers read (`AsksAssumption`,
  `AuditedAssumption`), rules, campaigns, vectors, templates and chains are made of what their types in the
  code say (`RulesAssumption`, `DefinitionsAssumption`, `EntriesAssumption`, `TextsAssumption`, `ChainsAssumption`);
  so are the arguments of calculations: amounts, usages and rates, tiers and referrals, counters, values and series
  (`PricingAssumption`, `PartnersAssumption`, `CountersAssumption`, `KpiAssumption`, `SeriesAssumption`),
  titles and records (`CatalogAssumption`, `CharacterAssumption`), the limit of a query (`FiltersAssumption`), and a request for a territory names a country (`AskedAssumption`);
- what callers owe: ids of notifications are unique (`BatchAssumption`; `types.ts:44` does not enforce it); base prices, tiers, the
  amounts of coupons and tax rates are not negative (nothing checks a coupon, `pricing.ts:188`); the referrals of a partner share a
  currency (`partners.ts:116`), which is left out;
- facts the code establishes or that identify things: the
  bounds of a histogram ascend (`BoundsAssumption`), a template does not contain the placeholder `$&`, and the groups
  of a sound workflow are what `DAGBuilderProofs` proves of them (`OrderAssumption`).

Recursive functions (rendering, dot products, sums, the loop of a query, the rows of a matrix) are shown to exist by
`StepByStep`, an induction over their steps, and are then reasoned about one step at a time.

**JobQueue.** The inductive invariant `IInv` joins `TypeOK`, `ConcurrencyBound`,
`OnePlace`, `DedupeExclusive`, `AttemptsWithinLimit`, `WakesOnTime` with what they need of each other
(`JobFacts`: a job not yet created is in no container). `OnePlace` is not inductive alone, because
listeners run between the change of a status and that of a container: the
frames `calling`, `settling` and `failing` say exactly which job is in between. `TickTimer` and `TickArmed`
say of a tick on the stack that a timer is armed at once for whatever entered after its `now`, which makes `WakesOnTime` inductive although
the tick counts from the past. `DrainInv` says that between finding the queue idle and letting the waiters go
no worker runs, none can start, and what the listeners of 'drained' added has not been tried; `ShutdownHolds` follows from it.
`NoOvertaking` needs `OrderInv`, of the tick on the stack. `Refinement` shows that every step maps to a step of
`JobLifecycle` or to a stutter.

**DAGBuilder.** `DetectHolds`: a search keeps three things. The stack is a path of
edges from its bottom to its top (`PathInv`), whatever is seen is finished or on the stack, and
what is finished has only finished successors (`SeenInv`), and no cycle runs through finished nodes
(`NoCycleFinished`). A back edge closes a cycle with the path; a search that ends without one has
finished every node. `GraphHolds`: in Kahn's algorithm the `degree` of a node and the
edges from nodes already taken add up to its in-degree (`KahnInv`), so a node is
taken when its last predecessor is; the graph is finite, so a node left over has a
cycle behind it, found by `CycleBehind` in a minimal set closed under "has a predecessor in". With `OrderInv`
sorts and groups respect the edges, groups are disjoint and as early as possible, nothing is
dropped unless the graph is broken. This is what `WorkflowEngine` assumes in `OrderAssumption`.

**WorkflowEngine.** `IInv` joins `TypeOK`, `SlotsAccounted`, `AttemptsBounded`,
`PredecessorsFirst` with `RetriesInv` (an attempt that waits has a retry left) and
`GroupsInv` (a started node belongs to a group up to the current one, the groups
before it are done). `GroupsInv` is what makes `PredecessorsFirst` inductive: when a
group starts, `OrderAssumption` puts the predecessors of its nodes into earlier
groups, `GroupsInv` says these are done, and that no node of the new group had been
started. The slots are counted with the library's theorems on adding an element
to a finite set and removing one. `FailFast` and `CompletedMeansDone` follow;
`Refinement` maps each step to `WorkflowPromise`.

**DocumentStore.** `IInv` joins `TypeOK` and `QueuesOwn` (a process queues its own writes) with
what is known of a row not at risk in each phase of a process: up, either nothing
is outstanding and cache and table agree, or exactly one write is, made by this process, with
what its cache has (`UpInv`); not up, nothing is outstanding and the table has what the
process last had (`DownInv`); loading, for a row not missed, nothing is outstanding
and the snapshot is the table (`LoadInv`). `SettledRowsAgree` alone is not inductive: it says
nothing of a row while a write is under way, and it is that write which makes table and
cache agree again. `WriteThrough` and `SurvivesRestarts` follow.

**Connector** (`OutboundProofs`). `ConnectorInv` ties the stage of a call to its counters: which stages have an attempt under way,
that a status being read is that of an attempt the upstream carried out, that attempts stay within
the policy, and that a call that has failed has used them up or met a refusal. `AnswersHold` and
`RepeatsHold` (nothing is attempted again after a success or a refusal) follow.

**Notifications** (`OutboundProofs`). What a caller is told about a notification agrees with the log only when its dispatch has ended, so
`IInv` says of a call that waits for a transport (`Underway`): the channels before the present one have
refused, the log of the notification has one entry for each attempt so far, and the last of them is the
transient failure of the attempt before this one at this channel. With `Settled`, which says of each outcome told
that the log bears it out and that it names the first channel that accepted, `OutcomesAlwaysAgree` follows. Ids
are unique, so other callers append to the shared log but not to the log of this notification.

**API** (`ApiProofs`). *Routes*: rows of different length fit no path in common, and of rows of
one length each two differ in a word or a method (`RoutesUnambiguous`, over all 7 files of routes); each row has its
handler in the registry (`TableHandled`). *Audit log*: adding modulo the capacity wraps at most once
(`WrapOnce`), so the slot of the k-th newest entry is where `RingInv` says it is, each `record` and
`clear` is a step of `BoundedLog` (`LogRefinement`), and the loop of a query picks the newest entries that match
(`QueryPicks`). *Server*: `ApiInv` joins what is known of a request in each stage (`RequestInv`: whoever
gets to a handler was routed, and authenticated unless the handler is open to all), `TurnInv` (the continuations that wait are those of the last
requests whose handlers ran, in that order), `LogInv` (the entries are those of the requests
that were continued, in order), `RowInv` (what is kept was written by a request that may write and was not
refused), `CreatedStays` and `UserInv` (as long as nobody changes users, who registered is the first with that email and has
that password). `TurnInv` is what puts the entries in the order of the effects: handlers and entries are
steps of their own, and requests meet between them. `WhatIsKept`, `NothingUnrouted` and `AuditReliable` follow.

**Services** (`ServicesProofs`), each for any number of whatever it has several of:

- *Consents, sessions, rate limits.* Both ways of asking agree, and only a grant gives a consent back
  (`ConsentHolds`). Every token descends from a login no longer ago than its chain of renewals allows (`SessionsHold`).
  Admissions are counted by the age at which their window began: any interval as long as a window meets at most
  two windows, and each admits at most the rate (`AccessIsLimited`).
- *Policies.* `addRule` keeps the rules sorted by priority and id and the ids distinct (`PolicyInv`), so
  that the first match decides and a denial comes first among equals (`DecisionsHold`).
- *Spans.* Every exporter has received ended spans only, each once, as it is now, and after the exporter
  before it (`Received`). Every set of spans closed under "parent of" that contains the root of a trace contains
  the trace (`InTree`), which states reachability without recursion (`TracesHold`).
- *Histograms.* Bucket i counts the observations up to its bound (`Faithful`); percentiles lie between the
  observations next to their rank (`HistogramsHold`).
- *Jobs, transactions, builders, registered types.* What is final has lost all that its callers could change it by
  (`FinishedIsKept`); what a builder has handed out is a prefix of what it has (`BuildersInv`).
- *Experiments, campaigns.* Who holds a variant was sampled, once, and shown it (`Sampling`). A variant's share of the
  points is the distance of two cumulative weights rounded to points (`Multiples`, `Between100`), so it is exact to
  less than one; the scan for the leading variant compares rates as fractions, which order transitively (`FractionsOrdered`).
- *Contexts.* The contexts above one are reached in at most as many steps as there are contexts; what is written in one is
  seen by those below only (`ScopesHold`).
- *Vectors.* `Arranged` lists a finite set in any strict linear order (`ArrangedIs`); so a search returns the k
  closest in the order of closeness and place. By cosine and distance nothing is closer to a vector than itself: the
  inequality of Cauchy and Schwarz, by induction over the dimension (`SearchesHold`).
- *Prompts, node types.* Replacing a variable works on a text part by part (`ReplacedConcat`, `ReplacedParts`), so after any
  number of variables in any order each placeholder has become its own value and no other
  (`RenderedIs`); a template whose variables were extracted, or declared rightly by the last who did, covers its placeholders
  (`PromptInv`). Each default type belongs to one category (`Placed`), and music nodes hand on the track (`PartsHold`).

**Calculations** (`DataProofs`), for arguments of any length. Every behaviour makes one call, so an invariant says
something of each call that `Answers` lists; the work is in the lemmas. What a loop over data computes is shown by
`UpTo` (what holds at 0 and passes from one index to the next holds up to the last). Sums are linear, monotone, the
same backwards, and determined by their steps (`SumsUnique`).

- *Quotes.* Tier by tier, the price of the units passed so far and what has been charged part by less than one
  minor unit for each tier (`TiersCharge`); a unit more is never cheaper since it ends in the same tier or a
  later one (`Dearer`). Two parts of a period round apart by less than one unit together (`PartsWhole`).
- *Partners.* The candidate at an index of the sorted list is known by how many are smaller, which a bijection of
  the candidates does not change (`Reordered`). Of the statements each takes a part of the
  referrals, and the sum over partners of the sums over referrals is taken by induction over the partners (`CountedOnce`).
- *Rights.* The groups of territories nest (`TableNests`), so whoever holds the wider one holds the narrower, and
  a bundle more takes nothing away (`MoreBundles`).
- *Catalog.* The matrix of two titles is a grid whose neighbours differ by at most one (`GridNear`); read backwards it is that
  of the reversed roles (`GridBack`), and no path through a third title is shorter (`GridTriangle`): the distance is a
  metric. Of the records each is kept, counted as a duplicate or listed as failed (`EnterAccounted`), and what has been
  deduplicated has no duplicates left, so a second time changes nothing (`DeduplicateAgain`). The key made of an ISRC has no bar and the other
  one has (`KeysApart`), and two of the latter are equal only for the same words, unless there are more bars (`Joined`).
- *Verdicts.* Rates are compared as fractions, transitively, so the winner is the same in every order
  (`OrderIgnored`); with `Scale` times the traffic both sides of the test of significance grow, the deviation
  faster (`TrafficConfirms`). What a text with more keywords is found to hold is never less, so it is never safer, nor are lyrics (`KeywordsCount`), except that the first copyright
  keyword replaces the 0.7 of a music keyword by its share of the keywords (`content-safety.ts:195`).
- *Key figures.* `KpiInv` says that the latest status is that of the latest value by its thresholds unless these were
  defined anew, and that these are the ones it was judged by; a value that is worse, by thresholds that go the way the engine assumes, is beyond every threshold the one before was beyond
  (`WorseKeepsStatus`), so alerts stay (`AlertsStay`) and trends follow (`TrendsFollowValues`).
- *Series.* The sums over x have closed forms (`SumsOfX`); what the line leaves over sums to zero and has no trend
  (`LeftoverIsZero`, `LeftoverHasNoTrend`), which are the equations of least squares, and the predictions go on along it (`BestFit`). The slope of
  the reversed series is the negative one (`SlopeReverses`). A series made of a repetition correlates at its period at least by half
  (`RepeatedCorrelates`), and the first of the highest lags is chosen (`HighestLag`). Outliers are few by the inequality
  of Chebyshev, counted in whole numbers (`FewOutliers`).

Only model-checked is liveness (`EveryJobSettles`, `DrainReturns`, `EverythingEnds`, `EveryRequestAnswered`,
`EverythingSettles`), which needs fairness and ENABLED, out of the prover's reach. Every other property of a
passing run is stated as a whole by a theorem. Theorems listed without a property
state an inductive invariant or a part of what a run checks.

## 6. Where the code and its documentation part

Shown by a run:

- `queue_two_drains`: `drain()` on an idle queue resets `draining`; an earlier drain
  that still waits is never resolved, although it promises to wait "until every pending
  and active job has reached a terminal state" (`queue.ts:187`).
- `queue_close_race`: between the end of the drain inside `close()` and `closed =
  true` a listener of `drained` can enqueue; the job stays in a closed queue.
- `queue_retry_dead`: `retryDead` deletes the dead letter before `enqueue`
  throws on a draining or closed queue; the job is gone.
- `engine_dropped`: an edge given twice makes `execute` complete a run without ever
  starting the target.

Met while modelling, a matter of one line each:

- `queue.ts:313` arms the timer for the soonest delayed job "so it wakes on time"; it counts from the `now` of the tick, so the job wakes
  late by what the tick has taken since.
- `queue.ts:400`: listeners of 'drained' run before the waiters of `drain()` are resolved; what they enqueue is pending when the waiters go on.
- `queue.ts:376`: `cancel()` called by a listener of 'failed' finds the job in no `pending` and returns false, although the job is retried.
- `README.md:288` of the repository lists six roles with permissions and a read-only viewer, and the routes list permissions
  (`admin.routes.ts:3`); `server.ts` never reads them and tokens of a login carry none (`auth.ts:52`). `OnlyGrantedWrites`
  is what holds: a valid token, or a handler open to all.
- `README.md:293` promises an audit trail "for all operations"; requests refused before a handler, or whose handler throws, leave no entry.
- `README.md:291` promises 60 requests a minute; around the border of two windows a client gets up to twice as many.
- `router.ts:45`: a path that is not well encoded rejects the promise of `handle()` that nobody looks after.
- `kpi-engine.ts:184`: a figure registered with a critical threshold above the warning is taken for one of which less is worse, and
  loses its alert as it gets worse.
- `content-safety.ts:227`: lyrics unsafe for a music keyword alone are still said to appear safe, and turn safe with a copyright keyword more (195).
- `ingestion.ts:48`: an ISRC without letters and digits becomes the empty string and not null, so tracks that have one pass for one track (85).
- `audit-log.ts:39` calls `limit` a "cap on returned entries"; with 0 one entry is returned, as the
  bound is tested after the push (`audit-log.ts:107`).
- `audit-log.ts:92`: `totalRecorded` counts entries "over the lifetime of the log", but `clear()` sets it to 0.
- `campaigns.ts:197` promises a rate in [0, 1]; nothing keeps conversions from exceeding exposures.
- `pricing.ts:24` calls `upTo` an "inclusive lower bound"; it is the upper bound.
- `prompt-manager.ts:98`: an update that sets `variables` alone is taken as it comes; what then validates need not render completely.
- `rights-engine.ts:70`: `resolveRights` ignores the start and end dates of a bundle.

## 7. Plan

1. An abstract delivery that each dispatch of `Notifications` implements, and an abstract map of rows that
   `ApiServer` implements.
2. A drain on a queue that never gets a worker (`queue.ts:190`), which nobody resolves.
3. `DocumentStore` behind the collections of `ApiServer`, so that requests that reach two replicas meet.

## 8. Not modelled, and why

The content of messages, prompts, documents and workflow values; parsing and formatting, among
them CORS headers, pagination and the text of exported metrics;
cryptography (signatures, hashes, encryption); statistics in floating point (z-scores beyond the comparison
they decide, exponential smoothing, error metrics, royalties as float products); the simulated ETL
pipeline, recommendations, moods, embeddings and evaluation scores, which have fixed formulas and
promise nothing but these; user segments; the operators of policy conditions; the concrete connectors' field
mappings and the node handlers, which return canned results; the repositories of `core/storage`, which build SQL
for a database that is not there; logger and configuration, which keep no state to speak of; user interfaces and
deployment. `workflow.timeout`, `workflow.retryPolicy` and the `condition` of an edge are declared in the types and
read nowhere, so they have no counterpart in the models. Also left out: a `Channel.send` that rejects instead of reporting
a failure (`service.ts:104`; no channel of the repository does by itself), the later end time of a span ended twice, amounts in
currencies that do not match, and of a track its album, duration, genre, year, tempo and metadata, titles that are no strings and letters
whose other case has several characters. Child contexts (`Contexts`) are an interface of `context.ts` that the engine, which gives all nodes one context,
does not use yet.
