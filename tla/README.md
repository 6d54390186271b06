# Verification of Horizon UI's stateful core

Horizon UI is a web client and a back end for it (the BFF), which talks to an
Apache SkyWalking OAP server and keeps an audit trail of its own. Paths below
are relative to the repository; `bff/` stands for `apps/bff/src/`.

The modules here are TLA+ translations of the parts of the BFF and of the web
client whose correctness depends on the order in which things happen. TLC checks
them on small instances. TLAPS proves every safety property those runs check, of all
ten components, for every value of the constants, and that the audit service
implements an abstract specification of what it promises.

    tlc -workers 2 -config MCAuditService_live.cfg MCAuditService.tla
    tlapm AuditService_proofs.tla

## 1. The system

### 1.1 Parts, their state and what makes them hard

The BFF is one Node.js process: one event loop, so a handler runs undisturbed up
to its next `await`. Everything that is hard in it comes from what happens
*between* two awaits of the same handler, from stores that answer late, twice
or never, and from several BFF processes that share a store. The web client is one
page in one browser tab, with an event loop of its own: its module-level stores
outlive the views that fill them and the session they were filled under.

| Part | State it keeps | Operations | What is hard |
|---|---|---|---|
| Audit service, `bff/store/audit/service.ts` | event buffer, batch on the wire, health with three write channels, single-flight handles, tick state, shutdown phase | `recordEvent`, `runTick`, `flushEvents`/`writeBatches`, `flushStats`, `flushTokenUsage`, page reads, `start`, `stop`/`drainAndClose` | tick, row-count drain and shutdown share a buffer; late answers against newer facts; a store that hangs during shutdown |
| Audit statistics, `counters.ts`, `postgres/store.ts` `writeStat` | hourly row budget, one accumulator per hour, `evictedThrough` | `admitEvent` (`reserveRow`, `rollTo`, `stat`), `takeStats`, UPDATE then INSERT | the clock steps back; a row fails in mid-pass; a statement given up by the client still runs |
| Token usage, `token-counters.ts`, `postgres/token-store.ts` | cells with `count` and `written`, table of running totals | `count`, `pending`, `markWritten`, evict, upsert, merged read | uses counted while an upsert is on the wire; lost answers; restarts |
| BanyanDB audit schema, `client/banyandb/schema-manager.ts`, `registry.ts`, `barrier.ts`, `store/audit/banyandb/store.ts` | the server's registry, what each data node has loaded, the pass of each process | `apply` (get, create, second get, update) for each resource; `awaitSchemaApplied`; `open`, `probe` | two versions of Horizon reconcile the same resources during an upgrade with no compare-and-set; calls that outlive their deadline |
| Template store sync, `logic/templates/sync.ts`, `http/admin/template-sync.ts`, boot in `server.ts` | 30 s cache, probe in flight, last good rows; OAP's records | `getSyncStatus`, `resync`, save, push, sync-all, disable, enable, `bootSeed` | OAP's `list()` lags behind its writes; storages differ in what an update does; shared in-flight reads |
| Header KPI cache, `logic/layers/header-kpi-cache.ts` | per layer: current and previous hour bucket, scan in flight, marks of empty and retried hours | `getHeaderKpis`, `beginScan`, `mergeInto`, `readCurrentHour`, eviction | scans outlive their hour and their whitelist; partial reads |
| Audit store lifecycle, `open`, `runOpen`, `close` of `store/audit/postgres/store.ts` and `store/audit/banyandb/store.ts` | pool or client, the shared `opening` promise, `closed` | open, join an open, fail at any await, close | a close overtakes an open; three callers; a connection nobody names keeps the process alive |
| PostgreSQL audit store, `store/audit/postgres/` | rows, advisory-lock migration | migrate, write, query, sweep | statements given up that run later |
| Service-layer catalog, `logic/services/service-layer-catalog.ts` | one snapshot, one flight, two lifetimes | `get` (`invalidate` is called by tests only) | - |
| Other OAP snapshots (preflight, capabilities, hierarchy, attribution, trace protocol, TraceQL availability, server time) | one cached entry each, some with a flight | read through | rejected flights that stay; a forced round next to an older one |
| Sessions, OIDC flows, LDAP health, break-glass, roles, API tokens, `bff/user/` | in-memory maps with lifetimes | create, touch, take once, sweep | expiry against use; configuration reload under a live session |
| OAuth server, `bff/oauth/` | none but a metadata cache (codes and tokens are signed) | authorize, token | - |
| Access rules, `bff/rbac/` | none (memoised per request) | decisions | completeness of the rules |
| Configuration loader, `bff/config/` | the current configuration | poll, validate, replace or keep | a bad file must keep the last good one |
| Source-map store, `logic/browser-errors/store.ts` | maps under two budgets | put, get, evict | both budgets at once |
| Paging, pools, `logic/paging/`, `util/mapPool.ts` | none | page a list, bound concurrency | off-by-one at page ends |
| Translation overlays, layer and dashboard templates, OAP queries, rules and profiling proxies, AI assistant, OAP clients, command line | cached files, or none | load, proxy, translate | mostly data and I/O |
| Refresh scheduler, `apps/ui/src/controls/autoRefresh.ts` | switch, suspensions by reason, tab visibility, traffic, one timer, the round out, one trigger behind it, waiters | `runRound`, cap and grace, `refreshNow`, `setEnabled`, `setInterval`, `suspend`, `resume`, `onVisibilityChange`, `whenIdle` | eight handlers arm or disarm one timer, each for its own gate; a subscriber that never settles |
| 3D map and session reset, `apps/ui/src/state/sessionReset.ts`, `state/auth.ts`, `features/infra-3d/` | identity epoch; configuration, pipeline latch and strip, metrics, alarms | sign in and out, 401, `ensureLoaded`, `run`, `refresh`, mount and unmount | a read of one session answered under the next; latches of superseded runs |
| Live debugger session, `apps/ui/src/features/operate/live-debug/`, `bff/http/admin/live-debug.ts` | state, session followed, records shown, poll generation, one timer, failures in a row, `pausedForHidden`; the sessions are OAP's | `start`, `resume`, `stop`, `poll`, `onVisibilityChange`, dispose | answers to superseded calls; a tab hidden and shown; sessions that end by themselves |
| Rest of the web client, `apps/ui/` | selected layer, configuration bundle, views | navigate, render | mostly rendering |

### 1.2 How the parts interact

* `server.ts` builds the audit service, starts the HTTP server, and on shutdown
  closes HTTP first and then calls `stop()` on the audit service. Sign-in routes
  call `recordEvent`; API-token middleware calls `countTokenUse`.
* The audit service owns the only timer. A tick opens the store when it is not
  reachable, writes sign-ins, then (every *n*-th tick) statistics and token
  usage, then (more rarely) runs retention. It calls an `AuditStore`, of which
  there are two: PostgreSQL and BanyanDB. Opening the latter is the
  schema reconciliation of `AuditSchema`.
* Statistics and token rows live in memory (`counters.ts`, `token-counters.ts`)
  and are written whole by the service, never as increments.
* Template routes and page renders share `getSyncStatus`. At boot, `bootSeed`
  runs next to them.
* The landing page asks `getHeaderKpis`, which answers at once from its buckets
  and starts a scan of OAP in the background when it needs one.
* `start()`, the tick and the drain call the store's `open()`; the shutdown
  deadline calls `close()` whoever is inside it.
* In the web client, a sign-in, a sign-out and a 401 all call
  `resetSessionState`, which raises the identity epoch and runs every store's
  reset; a store asks `isCurrentEpoch` before it publishes an answer. Views
  subscribe to the scheduler, whose rounds make them read again.

### 1.3 What correct means, per part

*Audit service.* Every admitted sign-in ends in the store or in the number of
rows shown to the operator as unconfirmed; memory stays under its ceiling; the health page is
green exactly when it should be; shutdown ends, never closes a store under a
write, and leaves nothing behind when it had the time.

*Statistics.* The row budget is a budget whichever way the clock goes, and a
stored figure is real, complete and does not collapse.

*Token usage.* Nothing is ever over-reported; no use is lost while its process
and hour live; a reader never sees less than was stored.

*BanyanDB schema.* Reconciliation by several versions converges without taking
anything away, `available` means that the schema is there, and the barrier never waits
for what cannot come.

*Templates.* A change reported as done is live; renders do not go back in time;
changes made elsewhere come to be seen.

*Header KPIs.* A figure shown is recent, belongs to the columns asked for, and
a re-read never loses a service; retries are bounded and waits end.

*Store lifecycle.* No connection is left that nothing can end, nobody writes to
a store whose schema is not applied, and a service that stops ends its
connection for good.

*Refresh scheduler.* Between rounds the timer is armed exactly when nothing
forbids it; nobody waits on an idle page; a watched page goes on refreshing.

*3D map.* What its stores hold was read in this session, and a latch is held by
a live call of this session or not at all.

*Live debugger.* The page shows one session, polled by one chain as long as it
captures; stop detaches; a capture that ended on OAP ends on the page.

The hazards behind these properties, each at the line where it bites, are listed in
`PROJECT.json` under `hazards`, with the properties that would catch it.

## 2. The modules and the code

| Module | Models | Instance | Proofs |
|---|---|---|---|
| `AuditLedger` | the contract of the audit service about sign-ins | through `AuditService` | `AuditService_proofs` |
| `AuditService` | `store/audit/service.ts`, shutdown order of `server.ts` | `MCAuditService` | `AuditService_proofs` |
| `AuditCounters` | `counters.ts`, `writeStats`, `postgres/store.ts` `writeStat` | `MCAuditCounters` | `AuditCounters_proofs` |
| `TokenUsage` | `token-counters.ts`, token part of `service.ts`, `postgres/token-store.ts` | `MCTokenUsage` | `TokenUsage_proofs` |
| `StoreLifecycle` | `open`, `runOpen`, `close` of both stores; start, tick and shutdown of `service.ts` around them | `MCStoreLifecycle` | `StoreLifecycle_proofs` |
| `AuditSchema` | `schema-manager.ts`, `registry.ts`, `barrier.ts`, `banyandb/store.ts`, `tryOpen` of `service.ts` | `MCAuditSchema` | `AuditSchema_proofs` |
| `TemplateSync` | `logic/templates/sync.ts`, `http/admin/template-sync.ts`, boot of `server.ts` | `MCTemplateSync` | `TemplateSync_proofs` |
| `HeaderKpiCache` | `logic/layers/header-kpi-cache.ts`, the scan of `http/query/landing.ts` | `MCHeaderKpiCache` | `HeaderKpiCache_proofs` |
| `AutoRefresh` | `apps/ui/src/controls/autoRefresh.ts` | `MCAutoRefresh` | `WebClient_proofs` |
| `InfraMap` | `state/sessionReset.ts`, `state/auth.ts`, stores and view of `features/infra-3d` | `MCInfraMap` | `WebClient_proofs` |
| `DebugSession` | `features/operate/live-debug/useDebugSession.ts`, buttons and route watch of its views, `http/admin/live-debug.ts` | `MCDebugSession` | `WebClient_proofs` |

`PROJECT.json` (`map`) names, for each definition, the lines it translates.
Definitions keep the names of the code; a handler with awaits becomes one action
per stretch (`tick`, `tickOpened`, `tickFlushed`, ...). An operator marked
"mutant" is a plausible defect of the definition below it; no specification uses
it, and section 3 says what it is for. `AutoRefresh`, `InfraMap` and
`DebugSession` share one tab and are extended together by `WebClient_proofs`, so what
each would call `Init`, `Next`, `Spec` or `TypeOK` has a prefix there: `Refresh`,
`Map`, `Capture`.

**AuditLedger.** What the audit service promises, with no batch, pass or join in
it: sign-ins are held oldest first under a ceiling, leave from the old end by
being stored or by being given up *and counted*, and a full ledger admits a new
one by giving up one it holds (`Admit`, `Store`, `GiveUp`, `Displace`). An
orderly `Close` finds it empty; `Abandon`, the close that ran out of time, counts
what was held. `AuditService` instantiates it with `held <- batch \o buffer`: the
rows on the wire and those in the buffer are one queue, so detaching a batch is
a stutter. `LedgerKept == Ledger!Spec` is the refinement, checked as a property
of `audit_live` and proved as `LedgerIsKept`.

**AuditService.** A sign-in is the number of its arrival, so it can be followed
from `buffer` to `batch` to `stored` or `dropped`. `health` is the record of the
fields `available`, `reachable`, `lastError`, the faults by channel and the
unhealthy window; the `mark...` operators are the code's private methods, one to
one. The single-flight handles (`flushing`, `statting`, `tokenFlushing`,
`tickPc`) are the promises of the code. `stopPc` walks through `stop()` and
`drainAndClose()`, including the second join. Statistic rows and token uses are
only counted here: what they hold is the matter of the next two modules. The
microtask between the end of a pass and the reset of its handle is folded into
the step that ends the pass. `recordEvent` is enabled while HTTP is served, which is what
`server.ts` guarantees by its order of shutdown. After a shutdown that ran into
its deadline the drain goes on until the process exits, and what it then writes
may have been counted as unconfirmed already; the ledger allows this, as
the service's report does. `probeWritable` is which store it is: PostgreSQL's
probe runs the writer's own statement and vouches for writes, BanyanDB's never
does. It is chosen at the start, the run has both, and what the two make of a
healed store differs: `Recovers` says where (section 5).

**AuditCounters.** One process, one row key per hour (a Horizon Node's id
ends in a boot id, so a restart writes rows of its own). The table holds a *sequence* of rows per hour,
because nothing in the database makes them unique. A failed statement may have
run, may never run, or may still be waiting on the server (`late`; `nth` tells two
such statements apart). Ghosts count attempts and admitted rows.

**TokenUsage.** A life of the process is a node. `table` is the stored running
total of each node, hour and token. An upsert in flight may be given up; it then ran,
never will, or lingers. Replies of `queryTokenUsage` are the stored rows with
this node's replaced by the running totals of the cells it holds.

**StoreLifecycle.** A connection is a `pg.Pool` or a `BanyanDBClient`: it is alive
from the moment it is made until it is ended. `held` is what `this.pool` or
`this.client` names and `building` what a `runOpen()` under way has made, each a
set of at most one connection; `live` and `ready` are the connections not ended
and those the schema was applied through. `kind` picks the store: PostgreSQL
publishes its pool after the migration, BanyanDB its client before, and the two
ask for the open connection and for the shared promise in opposite order
(`alreadyOpen`). The callers are the start, the tick (which opens a store that is
not reachable, and again to vouch for a channel after its writes) and the drain;
the deadline closes behind all of them, and the drain goes on after it.

**AuditSchema.** Each process walks through the resources in order; every call
(`get`, `create`, the second get of a lost race, `update`, the barrier) is a
step, so passes interleave call by call. A resource is its set of columns with
types; `Replaced` holds those whose update sends the declaration alone (index
rules and bindings). The registry hands out revisions; data nodes load
entries later and in any order (`propagate`). A call given up at its deadline may
leave its request behind (`stray`), which lands any time later. An operator may
drop a resource, and a process may restart on either of the two versions
deployed. `clean` (nothing was dropped since the pass began) and the health
value `dropped` are history, used by properties only.

**TemplateSync.** One bundled template name; the routes treat names
independently. Each request slot has its place in its route and the content
it wants to write. OAP is external: `oap` is the record it holds, `shown` the one `list()`
answers, and `becomesVisible` lets the second catch up. `patching` picks the
storage: BanyanDB patches a record and leaves it disabled and creates by upsert;
the others enable on update and refuse a create of an existing record. Promise
continuations run before the next event (`drained`), as microtasks do.

**HeaderKpiCache.** One layer. Each change of whitelist and each eviction makes a
new `LayerState` object, while scans and waiting requests keep the one they
started with, so objects are numbered. An hour of the server's clock has three
phases (before 5 minutes, before 10 minutes, the rest), which is all the code
distinguishes. A value is measured, not measured, or unread.

**AutoRefresh.** Every handler of the scheduler runs in one turn of the browser's
event loop, so a handler is an action, with everything it does to the timer, the
round and the trigger remembered behind it. `timer` says only that a timeout is
armed; how long it runs is left out, since no guard reads it. A round ends when
its subscribers settle, or when its cap and then its grace run out. `tickCount`
is kept modulo 2: enough to tell that rounds go on.

**InfraMap.** The identity epoch of `sessionReset.ts` and four module-level stores that
check it. A store is abstracted to the *epochs whose reads it holds*, so
"nothing of an earlier session" is `{epoch}` or less; the counter is taken modulo
`Generations`, and a value is not used again while a call that captured it is
out, which is what makes the wrap sound. The calls of earlier epochs stay
out and are answered at any later time. The pipeline is the stage its run
awaits; the strip is what the drawer shows of it. A view is one mount of
`Infra3DView.vue` with its loader: a mount that is left while it awaits the
configuration or the layer menu goes on afterwards, as the code does, so a view
may be unmounted and still have its timer.

**DebugSession.** One view in one browser tab. A request slot is a start, a poll,
a stop or the read after a stop; a start becomes `started` or `startFailed` when
OAP has served it, so its answer is a step of its own and may be lost. Records
are abstracted to the session they were read from. `gen` is `pollGeneration`, taken
modulo `PollGenerations` and not used again while a poll that captured it is out.
Sessions live on OAP (external): they fill, expire, and are replaced by the
client's next start. `history` is the set of sessions a route can resume,
`Others` those another tab started. Starts and stops do not look at the
generation, and the model does not either. `orderly` is history of the operator,
used by a property only.

## 3. Runs

All runs of a module use the same definitions; the `.cfg` gives sizes only.

| Run | Question | Instance | Distinct states |
|---|---|---|---|
| `audit_live` | is the ledger's contract kept, is health exact, do shutdown and recovery end | 3 sign-ins, ceiling 2, batches of 1, two batches a pass, two drain passes, 2 statistic rows, 1 page read, aggregates every 2nd tick, retention every tick; both stores' probes | 1.15 M |
| `counters_steady` | budget and figures, clock going both ways | 2 hours, 2 principals, 3 attempts, one failed statement, one hour held | 263 k |
| `tokens_steady` | accounting through flushes, eviction and restarts | 3 hours, 2 held, 3 uses, 2 boots | 101 k |
| `stores_steady` | opens, joins, closes of both stores | 3 callers, room for 2 connections | 312 |
| `schema_steady` | two versions reconcile | 2 processes, 1 data node, a measure and an index rule, 2 writes past the first revision, 1 stray request | 5.3 M |
| `schema_barrier` | is an opened schema on every data node? (no) | 1 process | violation |
| `templates_steady` | writes that are done are live, renders go forward | 2 concurrent requests, all 7 routes, both storages, 2 writes | 4.9 M |
| `templates_live` | changes come to be seen | 2 requests, BanyanDB, render and save, 1 write | 40 k |
| `kpi_steady` | hour buckets | 2 services, 2 whitelists, 2 requests, 4 phases, 2 layer states | 187 k |
| `refresh_steady` | every order of rounds, gates and clicks | 2 holders of a suspension, 2 waiters | 14 k |
| `debug_live` | is one session shown, polled by one chain while it captures, and does a capture that ended on OAP end on the page | 3 sessions, one of another tab, 2 requests out, 3 generations, one retry | 1.7 M |
| `map_steady` | sign-ins, sign-outs and 401s between any request and its answer | 2 mounts, 2 generations | 178 k |

What each property says, and of which code, is the comment above it. The type
invariants of `TokenUsage`, `StoreLifecycle`, `AuditSchema`, `AutoRefresh` and
`InfraMap` are theorems (section 4) and are not among the runs' properties.

**Bounds.** Every bound is a constant: `MaxEvents`, `MaxStatRows`, `MaxReads`;
`MaxAttempts`, `MaxFailures`; `MaxUses`, `MaxBoots`; `MaxWrites`; `MaxTicks`,
`MaxStates`; `MaxRev`, `MaxStray`; `Conns`; `MaxWaiters`; `Views`, `Generations`; `Ids`,
`Calls`, `PollGenerations`, `RetryBudget`.
They are chosen so that the interesting cases happen: a ceiling below the number
of sign-ins and a batch below the ceiling make overflow, a second batch in a pass
and a second pass; one more hour than is held makes eviction; two boots make a
restart over a stored row; two writes let a second writer come between a write
and its confirmation; four phases cross one hour boundary and one settling;
`MaxRev = 3`, with what exists at first at revision 1, leaves two accepted
writes: the create race with an update after it, or two updates from the same
read; the second connection is there for one that would be lost; two mounts are
a map and one left behind; two generations are a live session and a superseded
one with any of its calls out. A store of `InfraMap` distinguishes no more than
"this epoch" and "another", and `AutoRefresh` is bounded in its waiters only.
`DebugSession` has a session replaced by a start, one resumed from another tab, and
a superseded poll beside the current one; one retry of the two the code allows is a
failure that goes on and one that ends.
The safety properties of all modules are also proved without any of these sizes.

`schema_steady` has two pairs of definitions: each version adds a column of its
own, or they disagree on a type. `HeaderKpiCache` and `AuditSchema` use symmetry
over names that nothing orders. Deadlock is checked everywhere except in
`AuditService` and `StoreLifecycle`, where the process stops for good at the end
of shutdown.

**Fairness.** Stated only in the `LiveSpec`s:

* `AuditService`: the event loop runs what is ready, the interval and the
  shutdown clock fire. Store calls carry *no* fairness until the store is well
  (`healed`): a start-up still opening the store or `pool.end()` on a hung
  socket may never come back (`service.ts:313-316`), and `stop()` must return
  all the same.
* `AuditCounters`, `TokenUsage`: the tick is an interval timer; a statement is
  always settled, because `deadline.ts` settles it. `TokenUsage` asks in
  addition that the store accept one of the writes that are retried for ever.
* `StoreLifecycle`: every await of an open has a bound of its own (the connect
  deadline of `channel.ts`, the migration's deadline, the barrier's timeout), so
  an open proceeds or fails, and a tick or a drain that may go on does. Nothing
  makes the service stop.
* `TemplateSync`: calls time out and polls have deadlines, so each await ends;
  pages go on being rendered; OAP does not fail every `list()`. It is strong
  fairness because an event waits while continuations run.
* `AutoRefresh`: the browser fires the timeouts that are armed, the round's cap
  and grace included. There is *no* fairness on a subscriber: it may never settle.
  `RefreshingGoesOn` is about a page that stays watched (`<>[]Undisturbed`).
* `InfraMap`: every request is answered or fails, as the browser ends what a
  server leaves. Nothing makes a view mount, refresh or leave.
* `DebugSession`: requests are answered or fail, the timeout of a shown tab fires,
  and OAP reaps a session when its retention is over. `WatchedCapturesEnd` is
  about a tab that stays shown and an operator who stops asking; without the
  first the page may say *capturing* for ever (section 5).
* `HeaderKpiCache` and `AuditSchema` have safety properties only; what could
  hang there is stated as safety (`ScansMatchNeed`, `BarrierReachable`).

Each property was also run against a plausible defect in the code it is about
(`PROJECT.json`, `mutants`): a dropped guard, a missing reset, a swapped order.
TLC finds each of them.

## 4. What is proved

tlapm checks every leaf of the eight `_proofs` modules. The theorems hold for all
values of the constants that satisfy the named assumptions of the component
modules. In each, an inductive invariant is shown to hold initially and
to be preserved by each action, one step of the proof per action, and the
theorems follow from it. It is called `IInv`, and in `WebClient_proofs`
`RefreshIInv`, `MapIInv` and `CaptureIInv`; `TemplateSync_proofs` has `ReadInv` for what is
read and `SaveInv`, which adds the writes.

### 4.1 Audit service

Assumed: sizes are natural, a batch is smaller than the ceiling, and the drain's
passes can hold a full buffer (`SizesAssumption`, `PassesAssumption`; in the
code 10,000 rows against 1,000 passes of 20 batches of at least one row).

    IInv == TypeOK /\ WireSound /\ NoEventVanishes /\ HealthInv /\ ShutdownSound

| Theorem | States |
|---|---|
| `TypeCorrect` | `[]TypeOK` |
| `CeilingIsKept` | `[]CeilingHolds`: buffer and wire together stay under the ceiling |
| `NothingVanishes` | `[]NoEventVanishes`: each admitted sign-in is buffered, on the wire, stored or given up |
| `HealthIsExact` | `[]HealthExact` |
| `ClosesQuietly` | `[]QuietClose` |
| `OneFateEach` | `[]OneFate`: a sign-in is in memory once, or stored, or given up, never two of them |
| `FaultsLiftedByEvidence` | `FaultLiftedByEvidence`, an action property |
| `EveryDropIsReported` | `DropsAreReported`, an action property |
| `LedgerIsKept` | `Spec => LedgerKept`, the refinement of `AuditLedger`, when `DrainCovers` |

None of these is inductive as it stands. The ceiling needs that an idle wire
holds no rows and a busy one at most a batch (`WireSound`): otherwise a pass that
begins would add a batch to one that is out already. `HealthExact` needs the
cause as well as both directions, because a channel that recovers leaves the
light to the others. `QuietClose` is the longest argument: between the
first join and the second a tick that was running may still start a write, so at
`join1` the invariant says only that whatever is in flight is either among the
awaited handles or driven by an awaited tick, and from `join2` on
that only the phase the drain is in has a call out. The proof has a lemma per
group of variables (`WireStep`, `HealthStep`, `TypeStep`, `ShutdownStep`), one step
per action in each, over lemmas on the mark functions and on `Range` of a
sequence that is appended to, split or shifted.

`NoEventVanishes` says that a sign-in is *somewhere*; `OneFate` that it is nowhere
twice: no row is twice in the buffer or the batch, or in both, and what was stored,
what was given up and what is held are disjoint. The two action properties need it. A
batch whose write succeeded then shows as rows that were not stored before, which
is the evidence `FaultLiftedByEvidence` asks for; and a held row that becomes a
dropped one can only be a row of a failed batch. `EveryDropIsReported` then
rests on the order in `writeBatches`, which marks the fault before it counts the
drop, and on `WindowCounted`: no window opened at a count that was yet to
come. `HealthMoves` says once, for all actions, what a step may do to the health
record.

`LedgerIsKept` adds what the state of the drain says of the
queue: how many rows can be left after each pass, so that an orderly close finds
none. It is proved under

    DrainCovers == ShutdownMaxPasses * BatchRows >= MaxBuffered

which is stronger than what the code's constants give (section 5, remark on the
drain). Each action then maps to one step of the ledger or to a stutter, over
lemmas on a queue cut in two parts.

### 4.2 Audit statistics

Assumed: the limits are positive, and the hours of a behaviour are finitely many with
a latest one.
The clock may go both ways.

| Theorem | States |
|---|---|
| `TypeCorrect` | `[]TypeOK` |
| `OneBudgetAnHour` | `[]BudgetNotRearmed`: rows admitted fit one budget, and one share each, per hour the clock has shown |
| `FiguresAreReal` | `[]StoredIsReal`: no stored figure counts an attempt that was not made; a second row of an hour needs an INSERT given up |
| `FiguresNeverCollapse` | `FigureNeverCollapses`, an action property |

*Budget* (`BudgetInv`). The total is bounded by what the hours *before* the
window could admit plus what the window has spent, `before(budgetHour)` being the
hours already seen that are earlier. Only a later hour moves the window, so each hour is
charged once. With a bare inequality for `newWindow` the clock could go back and
forth between two hours and admit a budget each time; the step of the
proof that rolls the window (`RolledAccount`) is where that fails.

*Figures*. A figure exists in up to four places: the accumulator, the row taken for
the flush, the table, and statements given up that the server may still run. `RealInv`
bounds all of them by the attempts of the hour. `FigureInv` orders them: while an
hour is held, nothing anywhere exceeds its accumulator; an hour that is neither
held nor evicted has left no trace (`Untouched`); and what is being written is at
least what is stored or may be left behind. An evicted hour cannot start again, which is
`evictedThrough`; that is why a row written whole never lowers the stored one, unless a
statement given up earlier runs late, and the property names that case.

*Rows* (`RowsInv`). The rows of an hour, with the INSERTs the server may still
run (`pending`), are at most one more than the INSERTs given up, and
not even that while an INSERT is out: it is sent only when an UPDATE found no row.

### 4.3 Token usage

| Theorem | States |
|---|---|
| `TypeCorrect` | `[]TypeOK` |
| `UsesAreExact` | `[]UsesExact`: nothing over-reported, nothing forgotten, no reply below what the table held when it was read |
| `StoredOnlyGrows` | `StoredNeverShrinks`: only a statement given up at its deadline lowers a stored count |

The obstacle is the upsert in flight while uses arrive and while the client has
given up an earlier one. The invariant orders the figures of a key: an abandoned
upsert of this life and whatever was ever in the table (`peak`) are at most what
is in flight (`WireSound`), and that is at most what was used; a cell is its
key's whole count, and a key without a cell at the hour now or later was never
used (`CellSound`), which is where the clock's going forward enters; abandoned
upserts are of this life or a past one, and future lives counted nothing.

### 4.4 Store lifecycle

| Theorem | States |
|---|---|
| `TypeCorrect` | `[]TypeOK` |
| `ConnectionsAreKept` | `[]NoConnectionLost` |
| `OpenedIsReady` | `[]OpenedMeansReady` |
| `ClosedForGood` | when the drain ends, nothing is alive and no open is under way: the state part of `StopCloses` |

The invariant says what a `runOpen()` has made and published at each of its
awaits (`Phases`), that the callers take turns (`Turns`: the tick follows the
start, the drain follows both), and that a store being opened is used only by
the caller that waits for it (`Used`). The turns are what `OpenedIsReady` rests
on: BanyanDB's client is published before its schema is applied.

### 4.5 BanyanDB schema

Assumed: `Deployments` is a set of pairs of definitions, nothing about their
content.

| Theorem | States |
|---|---|
| `SchemaTypeCorrect` | `[]TypeOK` |
| `NoColumnIsLost` | `NothingRemoved`, an action property: no write takes a column from a stream or a measure |
| `ReadyMeansDeclared` | `[]ReadyHasSchema` |
| `BarrierCanPass` | `[]BarrierReachable` |

The registry has no compare-and-set, and an update replaces the resource with
what was computed from an older read, so it is not plain that two processes
cannot undo each other. They cannot, because with two definitions a resource
only ever has three shapes: the first, the second, or both (`LiveKnown`). A process sends an
update only if it read a shape that lacks a column of its own and clashes with
none, so it read the *other* definition, and what it sends is both (`UnionIsBoth`,
`RequestSound`). Every update on the wire or left behind therefore says the same thing, and
replacing with it loses nothing, however late it lands. The invariant says
this of the server, of what each pass read and of each stray request, and adds
for each process that what its pass has been through is still there (`PassSound`,
`ReadySound`) and that no revision it waits for is ahead of the resource
(`WaitsSound`). `Growth` is the fact all other processes need of a step: columns and
revisions of what exists only grow, unless an operator drops a resource.

The argument uses that there are *two* definitions. With three versions at once
an update from an old read can remove what the third wrote; this is
listed as a hazard (`schema-manager.ts:295`) and no property claims otherwise.

### 4.6 Template store

Assumed: `None` is not a request. Requests, routes and the number of
writes are arbitrary; both kinds of storage are covered.

| Theorem | States |
|---|---|
| `TypeCorrect` | `[]TypeOK` |
| `AnswersInOrder` | `ReadsGoForward`, an action property: the page is not answered with rows older than it was answered before |
| `ConfirmedIsLive` | `[]SavedIsLive`: a write reported as done is the record OAP holds |

Rows carry the version of `list()` they show (`seen`) and whether their read was begun
after the boot seed (`calm`). `AnswersInOrder` rests on there being one flight, which
even `resync` joins: `InOrder` says that the answer on its way is not older than
the last good rows, nor these than what the page was answered, and `Booting` that
nothing the seed read beside them counts as calm.
`OneStatus` says that the cache and a status a request has in hand are the last good rows, which is
why one comparison covers the page, the routes and the cache.

`ConfirmedIsLive` follows a write from its call to its confirmation (`SaveUnderWay`),
for the request whose visible change was the last one (`holder`): what OAP holds while
each poll waits, and what `list()` must have shown for the poll to end. The delicate
stage is the poll after an update on a storage that leaves the record disabled: it is
satisfied by the contents, so the invariant has to say that `list()` did not show
these contents before the write. A request overtaken by another writer loses `holder`, and
the property claims nothing for it: OAP has no compare-and-set either.

### 4.7 Header KPI cache

| Theorem | States |
|---|---|
| `TypeCorrect` | `[]TypeOK` |
| `HitsFit` | `[]HitFitsRequest`: a reading is recent and of the caller's columns |
| `ScansAreNeeded` | `[]ScansMatchNeed`: each wait has a scan, no hour is read three times |
| `ServedOnlyImproves` | `CurrentOnlyImproves`, an action property |

Scans outlive their hour and their object, so the invariant speaks of each
layer-state object with the scans that run for it: the scan marked in flight is
the newest of them (`ScansSound`); readings are of the object's whitelist and of
no hour that has not settled (`ReadingsSound`); and an hour that was found to hold values is held, or
superseded, or was read again under its mark (`CountsSound`). The last is what bounds the
re-reads, and what keeps a scan that lands late from walking the header back.

### 4.8 Web client

| Component | Theorems of `WebClient_proofs` |
|---|---|
| `AutoRefresh` | `RefreshTypeCorrect`, `TimerIsExact` (`[]TimerExact`), `NothingIsForgotten` (`[]NothingForgotten`) |
| `InfraMap` | `MapTypeCorrect`, `NoEarlierSession` (`[]ThisSessionOnly`), `LatchesAreExact` (`[]LatchExact`) |
| `DebugSession` | `CaptureTypeCorrect` (`[]CaptureTypeOK`), `OrderlyPageSeesOneSession` (`[]OrderlyPage`), `PollingGoesOn` (`PollingKept`, an action property) |

The invariants of the first two are inductive together: the timer is exact because a round
stops it and every handler that ends a round, or opens a gate between rounds,
arms it again; the stores hold one session's reads because a call's epoch and
the latch it holds agree. The proofs are for any set of suspension reasons, any
number of waiters, mounts and generations.

The live debugger does not check what a start or a stop answers, so the page is
orderly only while the operator waits for the answer before asking again; `orderly` records
whether that was so, and `Orderly` holds under it. At most one start or stop is then
out, and while it is, nothing is polled and no timer is armed. Otherwise at most one
poll is out *or* due, never both, of the session followed and the current
generation. Polls of earlier generations may still be out in any number: they
are left out of `pollsOut`, and each answer compares its generation before it touches the
page. `PollingGoesOn` needs no orderliness: a step that leaves the page
capturing leaves it polled, unless the operator asked for something else, and except
in the case of section 5, a tab hidden while a poll is due.

### 4.9 What is only model-checked

Every safety property of a passing run is a theorem above. Left to TLC is
liveness (`StopReturns`, `Recovers`, `FiguresReachTheTable`, `UsesReachTheStore`,
`StopCloses`, `ChangesAreSeen`, `RefreshingGoesOn`, `LatchReleased`,
`WatchedCapturesEnd`): these need fairness and `ENABLED`, which the prover cannot
handle. `schema_barrier` is a counterexample, and needs no proof.

## 5. Where code and comments disagree

One run ends in a counterexample. `schema_barrier`: a pass waits for the data nodes
only for what it wrote itself (`banyandb/store.ts:207`). The retry of a pass whose
barrier timed out finds everything unchanged and opens the store without waiting.

Others, met while reading and modelling. Of the audit trail:

* The drain gives each pass one failed batch: a store that refuses every write
  loses `eventBatchRows` rows per pass and counts them. With ten rows or more to
  a batch the 1,000 passes of `service.ts:374` cover the 10,000 of the buffer;
  with fewer, the loop ("Drain to EMPTY", l. 370-373) can end with rows neither
  written nor counted. `LedgerIsKept` therefore assumes `DrainCovers`; a ceiling of
  3 with batches of 1 and 2 passes violates `LedgerKept`.
* `postgres/store.ts:384-385` says nothing races for a row. An INSERT the client
  gave up at its deadline can run next to the next pass's UPDATE and INSERT, and
  the hour then has two rows, which every later UPDATE sets and the reader sums.
  `StoredIsReal` bounds the rows of an hour by one more for each such INSERT.
* `service.ts:463-468` has the tick probe for a failed channel, so that a quiet
  system does not stay red, "however healthy the store was", and names BanyanDB
  among the stores whose probe vouches for writes. BanyanDB's returns
  `writable: false` (`banyandb/store.ts:241-245`: a write fault "stands until one
  of this store's OWN writes succeeds"). Statistics and token uses are written
  again by themselves, but a batch of sign-ins is given up: the page then stays
  red until the next sign-in is written. `Recovers` excepts exactly this state
  (`redUntilNextSignIn`); without the exception the same run finds it violated.
* `service.ts:563` calls a token reply exact; a flush and an eviction between the
  store's answer and the sampling make it lag.
* `service.ts:488` says a failed batch stays buffered; `writeBatches` (l. 518)
  drops it and counts it. The comments at `service.ts:623-629` and `:184-188`
  describe an earlier way of writing statistics.
* `counters.ts:180-182`: ten principals with a tenth of the hour's rows each can
  spend the whole allowance, and fewer can when the minimum of 20 applies.
* A clock set back past the hours held makes `TokenCounters.count` (l. 82) start
  a cell whose total overwrites a stored one; `counters.ts:208-218` refuses the same case.
* The callers of `open()` take turns, so the overlap its comments prepare for is
  the deadline's `close()` during an open; that one is handled.

Of templates and the other snapshots:

* `beginScan` merges a re-read only into `current` (`header-kpi-cache.ts:411`). If
  the hour rolls while the re-read is out, the first request of the new hour has
  moved the fuller bucket to `previous`, and the re-read replaces it, where l. 407-410
  say that it merges: a service the first read measured is ranked as idle.
* `resync()` empties the cache, and `getSyncStatus` then joins the probe in flight
  (`sync.ts:333`), which OAP may have answered before the call. The comments at
  `template-sync.ts:202-206`, `:531`, `:646`, `:769` count on a fresh read. A probe
  begun before a write can so refill the cache with the state before it, until
  the cache expires (`ChangesAreSeen`: not for longer).
* `sync.ts:30-31`, `:349` and `:467` say renders fall back to the bundle when OAP is
  away; they fall back to the last rows read, when there are any.
* `logic/inspect/attribution.ts:282` computes the fingerprint after the contents
  were read, so contents changed in between are kept under the newer
  fingerprint (the comment at l. 61-63 rules this out).
* `ServiceLayerCatalog.invalidate()` is called by tests only.

Of the web client:

* An operator's trigger behind a round is overwritten by `visibility` or `resume`,
  which is then dropped if the gate has closed again (`autoRefresh.ts:370`: "An
  operator ACTION is always still wanted"). `resume()` starts a round in a hidden
  tab (compare l. 112-115), and the comment at l. 278-281 is out of date.
* `Infra3DView`'s `onMounted` awaits and then starts the loader without asking
  whether it is still mounted: the refresh timer of a view left early is never
  cleared (`useInfra3dLoader.ts:24` says it is). A remount while a run is out
  makes the landing full run a no-op, and the map waits for the light run a
  minute later.
* Of the live debugger (`useDebugSession.ts`), each a behaviour of `DebugSession`:
  hiding the tab while a poll is due clears the timer (l. 278), but only
  `schedulePoll` sets `pausedForHidden`, so showing the tab again polls nothing and the
  page says *capturing* for ever (l. 87-89: "The first visibilitychange on resume
  snaps an immediate poll"; `docs/operate/live-debugger.md:42`). A stop pressed
  while the start is out finds no session id; the start's answer (l. 211-219) is
  not compared with the generation and captures all the same
  (`live-debugger.md:43`: "Stop at any time to detach the recorder early"). The read
  after a stop (l. 262-263) is not compared either, and puts the old records on the
  page of the next start (l. 74: "Discards any prior local state").
* Also of the live debugger: a view left during a start goes on polling after it is
  gone (l. 219); two chains of polls can run at once after a
  resume during a start, and then count failures together. When old records come
  back, the history entry of the old session is saved again under the
  rule picked since (`useDebugReplay.ts`, `persistCapture`). Two tabs overwrite each other's
  history list (`useDebugHistory.ts:104`).
* A 401 that answers a request of an earlier session ends the new one
  (`main.ts:78`).
* `startConfigBundleSync`'s timer is never stopped; the bundle is seeded from
  `localStorage` again after a reset (`controls/configBundle.ts:147-149`);
  `refreshConfigBundle` (l. 221-233) does not order its answers.

## 6. What is not modelled, and why

* *Data*: GraphQL and gRPC encoding, row formats, the merging of translations and
  templates, rendering. Nothing in it depends on order.
* *Audit service*: the wording and rate of log lines; the no-op service used when audit is
  switched off.
* *StoreLifecycle*: what the statements of an open do to rows, and the pages that
  read through an open store.
* *AuditSchema*: group options (two versions with different retention re-assert
  theirs on every pass), removals on demand (nothing turns them on), `close()`
  in the middle of `open()` (this is in `StoreLifecycle`).
* *TemplateSync*: duplicate rows of older OAP servers, overlays, read-only mode,
  names that are not in the bundle, access checks.
* *TokenUsage*: a clock that steps back past the hours held (section 5).
* *HeaderKpiCache*: a roster that changes between two scans; the ranking itself.
* *DebugSession*: the pickers, replay of a frozen capture, the contents and the
  trimming of the capture history, degraded browsers without `sessionStorage`.
* *InfraMap*: the per-layer reads of `useLiveTopology.ts`, which write into the
  same stage; the configuration bundle of the other pages
  (`controls/configBundle.ts`); the 3D scene.
* The components marked `not_modelled` in `PROJECT.json`, each with its reason. Most
  of the repository's lines are the web client's views, which render what they
  are given, and requests translated for OAP: they keep no state whose
  correctness depends on an order of events, and a model of them would say
  nothing their code does not.

## 7. Plan

The core came first because it is where data is lost or a page lies when an
order is wrong. What is left, in order:

1. **`SnapshotCache`**: one module for the single-entry caches over OAP (preflight,
   hierarchy, attribution, trace protocol, service-layer catalog), parameterised
   by whether a flight is shared and whether it is kept on failure.
2. **`Sessions`** with the single-use OIDC flows and the configuration reload; the
   **configuration bundle** of the web client next to `InfraMap`.
3. **Proofs**: that the invariants behind each liveness property leave no state
   from which its goal is out of reach (the part of those arguments that needs no fairness).
4. **Abstract specifications**: a register with stale reads bounded by the cache
   lifetime that `TemplateSync` refines; a growing set of columns that
   `AuditSchema` refines.
5. **Composition** of `StoreLifecycle` with `AuditService`, whose store calls would
   then fail exactly when the connection is not there.
6. **Pure algorithms** against reference definitions: paging, `mapPool`, the
   access rules, the two-budget eviction of the source-map store.
