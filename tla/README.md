# Vertz in TLA+

TLA+ models of the parts of Vertz where several things happen at once, with TLC runs
on small instances and TLAPS proofs for all of them.

- [1 The system](#1-the-system): inventory, state, operations, interactions
- [2 The modules](#2-the-modules): what each models and how it corresponds to the code
- [3 The runs](#3-the-runs): what each checks, bounds, fairness
- [4 The proofs](#4-the-proofs)
- [5 Where code and documents disagree](#5-where-code-and-documents-disagree)
- [6 Not modelled](#6-not-modelled)
- [7 Plan](#7-plan)

Paths are relative to the repository; `packages/` is `src/packages/` and `native/` is
`src/native/`. Run a model with `tlc -config <cfg> <module>`, a proof with `tlapm <module>`.

## 1 The system

Vertz is a full-stack TypeScript framework with its own runtime in Rust. The components in
bold are modelled.

| Component | State it keeps | Operations | Hard behaviour | Correct when |
|---|---|---|---|---|
| **agents: durable runs** (`packages/agents`: `run.ts`, `loop/react-loop.ts`, `stores/`) | session row and message rows in sqlite or D1; locals of a run | `run()`: load, resume an orphan, ReAct loop (LLM call, persist request, tool handlers, persist results), end of turn, prune | the process dies at any await; tool handlers have effects outside; concurrent handlers; pruning and compression | unsafe effects happen at most once, the LLM sees sound conversations, nothing said is lost, ownership is stable, runs end |
| agents: workflows (`workflow.ts`) | results of steps | run steps, stop at an approval, resume after a step | values handed on by a resume | a resumed workflow computes what an uninterrupted one would |
| agents: providers, tools | none | one HTTP call each | | |
| **server auth: metered entitlements** (`auth/access-context.ts`, `wallet-store.ts`, `billing-period.ts`) | a counter per tenant, limit and billing period | `canAndConsume`, `unconsume`, `can` | concurrent requests on a tree of tenants, compensation, store failures, period changes | no limit exceeded, all or nothing, nothing charged that nobody holds |
| server auth: cloud wallet (`auth/cloud/`) | TTL cache of counters | read, write through | staleness, outage | |
| **server auth: sessions** (`auth/index.ts`, `db-session-store.ts`, `session-store.ts`) | sessions with refresh-token hashes, current tokens in them | sign in, refresh with rotation and grace period, switch tenant, sign out, revoke | overlapping requests, lost answers, revocation under way, cap on sessions | a client that follows the protocol stays signed in and in its tenant; a revoked session gets no tokens; the cap holds |
| server auth: plans and billing (`auth/billing/`, `plan-manager.ts`) | subscriptions, plan versions, overrides | webhooks, migrations of plans | order of deliveries | the subscription follows the last event |
| server: entities, services (`packages/server/src/entity`, `service`) | none between requests | request pipeline | | |
| db (`packages/db`) | schema history | queries, migrations | crash between a migration and its record | each migration applied once |
| **ui: reactivity** (`packages/ui/src/runtime`: `signal.ts`, `scheduler.ts`, `tracking.ts`) | subscription graph, dirty flags, pending effects, the call stack | read, write, batch, create and dispose effects, flush | calls nest without limit; dynamic dependencies; disposal and exceptions in mid-flush | no stale value, no lost update, disposed effects stay quiet, calls return |
| **ui: entity store** (`packages/ui/src/store`) | base entities, optimistic layers, query indices, reference counts | merge, optimistic update and delete, commit, rollback, evict | concurrent mutations that end in any order | after all ended, the store shows what the server holds |
| **ui: queries** (`packages/ui/src/query`) | fetch ids, in-flight table, cache with reference counts | fetch, deduplicate, refetch, dispose | late answers, shared requests | the data shown belongs to the current key and the newest fetch |
| **ui: router** (`packages/ui/src/router`) | location and history, current route, loader data, the rendered page, four generation counters | navigate, step back, revalidate, write a search parameter, prefetch | waits for prefetches, view transitions, loaders and imports that answer late | the last navigation wins; page and data are those of the current route |
| ui: forms, dialogs, hydration, css, components | DOM | | | |
| ui-server, cloudflare | per-request render context; KV cache | render, serve stale, revalidate | late writes to the cache | |
| fetch | none | request with retries | | |
| **vtz CI scheduler** (`native/vtz/src/ci`) | task graph, ready queue, results, running pids | seed, run, skip dependents, cancel | worker tasks, signals | each task ends with one result, dependents only run as their edges say, cancelling ends |
| vtz dev server (`native/vtz/src/server`, `ssr`, `runtime`) | isolates, admission permits, message bus | admit, render, time out, recycle | timeouts against late answers | |
| compilers, codegen, schema, cli, kits, docs | none at run time | pure transformations and file I/O | | |

The parts meet like this. The UI's queries call the server through `fetch`, put what they
get into the entity store, and the store's signals run effects through the reactive runtime.
A server request passes the access context, which asks the wallet store for every metered
entitlement, and may run an agent, which persists each step in the agent store and calls an
LLM provider and tools. The vtz runtime hosts the server and its rendering; the CI scheduler
runs on its own.

## 2 The modules

Eight components are modelled.

| Component | Model | Abstract specification | Proofs |
|---|---|---|---|
| durable runs | `DurableRun` | `ToolJournal` | `DurableRunProofs` |
| metered entitlements | `QuotaWallet` | `QuotaLedger` | `QuotaWalletProofs` |
| reactive runtime | `SignalGraph` | | `SignalGraphProofs` |
| CI scheduler | `CiScheduler` | `TaskRun` | `CiSchedulerProofs` |
| queries | `QueryFetch` | | `QueryFetchProofs` |
| entity store | `EntityStore` | | `EntityStoreProofs` |
| sessions | `SessionRotation` | | `SessionRotationProofs` |
| router | `Router` | | `RouterProofs` |

Each has an instance `MC<model>` and its `.cfg` files. A model composes what meets in it: the run
with its store and its resume, requests with the wallet and each other, the program with the runtime
it calls, the coordinator with workers, children and signals, queries with the cache, the table of
shared requests and the mutation bus, mutations with the store and the list that shows it, tabs with
the session store and the cookie jar, navigations with the browser's history, the prefetch streams
and the view that renders the route. No module joins two of these models: the components share no
state, and each uses of the other only what that other's properties say. `EntityStore` relies on a
computed running again when, and only when, a signal it read changes (`CleanIsFresh`,
`EffectsSettled` of `SignalGraph`) and on a query that ignores all but the newest answer (`Takers`
of `QueryFetch`); `QueryFetch` relies on an effect running when its thunk's key changes, and
`Router` on the view's effect running at each write of the current route.

Definitions that differ from a neighbour in one guard or offset (`FreedEarly`, `Update` and
`UpdateRevives`) are the mutated forms that `PROJECT.json` lists under `mutants`; no
specification uses them.

### 2.1 Durable agent runs

`DurableRun.tla` is one session of `run()` with a durable store. `ToolJournal.tla` is the
abstract specification it implements, `DurableRunInv.tla` its inductive invariant,
`DurableRunProofs.tla` the proofs, first about tool calls and then about the conversation,
`MCDurableRun.tla` the instance.

| Code | Model |
|---|---|
| `agent_sessions`, `agent_messages` (`sqlite-store.ts:9-41`) | `owner`, `rows`: all that survives `Crash` |
| each `await` of `run()` and `reactLoop()` | a value of `pc` |
| `previousMessages.length`, `writtenByLoop`, `userPersisted`, `consecutiveNoProgress` | `prevLen`, `written`, `userPersisted`, `noProgress` |
| load, ownership check, orphan scan (`run.ts:198-253`, `112-140`) | `StartRun`, `MayAccess`, `Missing` |
| resume: replay or `ToolDurabilityError` (`run.ts:339-369`) | `ResumeCall`, `ResumePersist` |
| `persistStep`: `appendMessagesAtomic` of request, then of results | `PersistRequest` (phase A), `PersistResults` (phase B) |
| `partitionToolCalls`, `runConcurrentBatch` | `LaunchChunk`, `HandlerReturns`: handlers of a batch return in any order |
| `executeToolCall` (unknown tool, invalid input, throws, bad output) | `Executes`: "error" with or without the effect |
| end of turn (`run.ts:451-481`) | `FinishRejectsOutput`, `Finish`, `Prune` |
| process death, a rejected store call, a throwing hook | `Crash`, enabled at every await |

Abstractions. A message is its role and the calls it is about. The provider answers
anything, with calls it has not issued before; a call without an id is in `Anonymous`, which
the orphan scan skips (`run.ts:127-130`). A class of tool is an attribute of its calls.
`compress()` keeps some newest part of the conversation. One user stands for a user and
tenant. `Crash` loses locals but no effect: that a handler's effect and the return of its
outcome are one step is no loss, as a crash between the two leads to the state that a crash
after both does.

`ToolJournal` says: a request is durable before the handler acts, effects lie between request
and answer, all open calls are answered together, and no new request is made while one is open.

### 2.2 Metered entitlements

`QuotaWallet.tla` is any number of concurrent `canAndConsume()` and `unconsume()` calls over
one wallet store. `QuotaLedger.tla` is the abstract specification: a request is granted with
all its charges in one step, or not at all.

| Code | Model |
|---|---|
| `InMemoryWalletStore.entries` (`wallet-store.ts`) | `used[wallet][period]`, a wallet being a tenant and a limit key |
| `buildConsumptionChain` and `resolveAllLimitConsumptions` | `Route[r]`: all limits, root tenant first |
| `calculateBillingPeriod(now)` at each tenant | `Resolve` reads `now` into `due[r]` |
| the two loops (`access-context.ts:822-885`) | `Check`, `Consume` and the next position by `Advance` |
| `rollbackCascadedConsumptions` | `Rollback`, one entry per step, then `Deny` |
| the catch block (`access-context.ts:888-892`) | `StoreThrows`; the call may have taken effect |
| `unconsume()` | `Unconsume`, `Reresolve`, `Refund`, `RefundThrows` |

Abstractions. Layers 1 to 3 allow the request. Limits do not change during a run. Overage
costs one per unit. `MaxFaults = 0` is the store in memory, a positive bound is the one behind
HTTP, whose calls time out. In the run that checks `Accounted`, the request that may be
refunded is charged to limits that do not renew: with renewing ones `Accounted` fails by the
disagreement of `MCQuotaWalletRollover.cfg` (section 5). The theorems about it state the same
condition (section 4). `Resolve` reads the clock once per tenant, where the code reads it once per
limit key, after an await (`access-context.ts:1295-1308`): keys of one tenant in different periods are
left out. Of the awaits inside the `try`, only calls of the wallet store fail (`StoreThrows`), not those
that look up plans. The model assumes that tenants form a tree (the ancestors of an ancestor are the rest of
the list) and that a limit key is listed once per entitlement (`define-access.ts:480`).

### 2.3 The reactive runtime

`SignalGraph.tla` is the call stack of the runtime: a frame per running body, flush and batch.
`SignalGraphProofs.tla` holds the proofs, `MCSignalGraph.tla` the instance. Its assumption is that
computeds are finitely many and do not read each other in a circle.

| Code | Model |
|---|---|
| `_value`, `_cachedValue`, `_state` | `value`, `cached`, `state` |
| `_subscribers` and `_sources`, which mirror each other | `subs`, a set of pairs |
| `pendingEffects`, `batchDepth` | `pending`, `InBatch` |
| `currentSubscriber` | the body on top of the stack (`Running`) |
| `scheduleNotify`, `_notify` through computeds, up to dirty ones | `Reached`: the least set that is `Closed` |
| `batch()` around each notification, and its flush | `Notify` |
| getters | `ReadValue`, and `ReadComputes` then `ComputeReturns` when not clean |
| `flush()` | `FlushNext`, `FlushAgain` |
| `domEffect`, `lifecycleEffect`, the dispose function | `Create`, `Dispose`, also from inside effects |
| an exception and the `finally` blocks it passes | `Throw(k)`: caught by the program in its k-th batch or outside |

Abstractions. Values are Booleans. A body reads its sources in order up to the first FALSE,
like `a && b`, so that dependencies come and go. A flush runs its queue in any order, where
the code has the order of scheduling: the properties hold for all of them. Batches are opened
by the program, not inside effects; bodies do not catch exceptions.

`seen`, `excused` and `broken` are history for the properties. `EffectsSettled` excuses an
effect that ran anew inside its own run (its body creates an effect that writes what it read:
the outer run then ends with old values after the inner one), disposed ones, and those present
when an exception was thrown. `Tainted` excepts a computed whose body threw: the code marks it
clean with its old value (`signal.ts:166-169`).

### 2.4 The CI scheduler

`CiScheduler.tla` is `Scheduler::execute()`; `TaskRun.tla` is what one run of a task graph
promises and what it implements.

| Code (`native/vtz/src/ci/scheduler.rs`) | Model |
|---|---|
| `node_results`, `in_degree`, `remaining`, the counts of the summary | `results`, `degree`, `remaining`, `tally` |
| `seed_queue` and `ready_queue` (`717-782`) | `queue`, `Examine`: skip and release dependents, or send |
| ready and result channels | `ready`, `outcomes`, sets: any order of receiving |
| `should_run_dependent`, `should_skip_node` (`graph.rs:496`, `813-841`) | `RunsOn`, `ShouldSkip`; a callback answers anything |
| spawn of the workers (`269-286`) | `SpawnWorkers` |
| receive loop (`636-713`), cancelled (`674-701`), end (`632-640`) | `TakeResult`, `TakeLastResult`, `Return` |
| a worker: flag, receive, flag, cache, steps, report (`285-629`) | `Loop`, `Receive`, `Recheck`, `Lookup`, `NextStep`, `Finish` |
| `execute_command`: spawn, register the pid, wait (`917-1015`) | `Begin`, `RegisterPid`, `ChildEnds` |
| the signal task (`159-177`), aborted at `785-789` | `Cancel`, `Terminate`, `Kill`, `AbortSignal` |

Abstractions. A command ends with success or failure; a timeout is a failure. A cache lookup
hits or not, for tasks that may be cached; restoring outputs and writing the cache are not
visible to the scheduler. A node without a task definition (`scheduler.rs:325-341`) is a task whose first
command fails: both are reported alike. Two nodes are joined by one edge at most, where `graph.edges` may hold
several (`graph.rs:199`). A task is `Stubborn` when its commands ignore SIGTERM; no timeout is
configured for it.

`TaskRun` says: a task is dispatched at most once, when all its dependencies have results and
every edge lets it run; it is skipped only when an edge or its own condition says so, or after
an interrupt; a result never changes.

### 2.5 Queries

`QueryFetch.tla` is any number of `query()` instances of one tenant-scoped entity type, with
thunks that return a descriptor.

| Code (`packages/ui/src/query/query.ts` unless named) | Model |
|---|---|
| `fetchId`, `loading` and `revalidating`, `rawData`, `error`, `inflightKeys` | `fetchId`, `busy`, `shown`, `failed`, `owned` |
| the table of requests in flight, the shared cache | `inflight`, `cache` |
| the effect (`1296-1436`): null thunk, hit, join, send | the disjuncts of `RunEffect`, run by `Mount` and `ChangeKey` |
| `refetch()` (`922-942`) | `Refetch` |
| `emit()` of `mutation-event-bus.ts`, subscribers in turn | `Emit`, after a `Change` of the server |
| `invalidateTenantQueries()` (`invalidate.ts:78-86`) | `SwitchTenant` |
| `handleFetchPromise` (`856-880`) | `Answer`, `Fail`: one step for all who wait for the request |
| `dispose()` (`1446-1494`) | `Dispose` |

Abstractions. Each callback of the event loop is one action. What the server holds is a
number that every change raises; data is the number it was read at, some time between sending
and answer. Refetches of several queries happen one after the other in one callback, so that the
last of those with one key is the one whose request is shared (`RefetchAll`). `Patient` says
that a thunk does not return another key during a fetch; without it `Current` fails (section 5).

### 2.6 The entity store

`EntityStore.tla` is the normalized store under concurrent optimistic mutations, and one list
query over it.

| Code (`packages/ui/src/store` unless named) | Model |
|---|---|
| `EntityEntry`: base, layers, visible signal, references | `entry[e]`, `Visible` |
| `QueryResultIndex` | `index` |
| `apply()` of the optimistic handler, the request (`fetch/src/descriptor.ts:148-170`) | `SendUpdate`, `SendDelete`, `SendCreate` |
| the server | `Serve`, `Refuse` |
| `commit()` and the event that follows, the rollback | `Commit`, `Rollback` |
| `merge()` with `evictOrphans()` before it (`entity-store.ts:97-123`, `325-347`) | `Merge`: any of the evictable entries may be old enough |
| refetch, answer and `normalizeToEntityStore` (`query/query.ts:498-520`) | `Poll`, `ServeList`, `FailList`, `AcceptList` |
| a mutation's id, `m_<counter>_<Date.now()>` (`fetch/src/descriptor.ts:134`, `149`) | `id[m]`, the first update that has this id, given by `Name`; `moment`, the updates of this millisecond, which `Tick` ends |
| `layers.set`, `layers.delete`, by id | `Stacked`, `Without` |
| the computed behind `data` (`query/query.ts:531-582`) | `Render`: runs when a signal in `watch` changes, or `rawData` is written |

Abstractions. The value of a field is the mutation that wrote it. A row has all its fields.
`m` is the `Counter[m]`-th send of its descriptor: updates share an id when their counters
are equal and no millisecond passes between them. Only ids of updates are modelled, since creates and
deletes put nothing under theirs. The order of a list is left out. Only the newest answer to the
list is accepted, which is what `QueryFetch` models.

### 2.7 Sessions

`SessionRotation.tla` is one session: requests of a browser's tabs over a session store in a
database. Each call of the store is one query, so requests interleave between queries.

| Code (`packages/server/src/auth`) | Model |
|---|---|
| the row of `auth_sessions` (`db-session-store.ts`) | `row`; `recent` is the ten seconds of grace |
| tenant in a JWT, cookies of the browser | `tenantOf`, `jar` |
| expiry of JWTs, `verifyJWT` (`jwt.ts:68-94`) | `expired`, up to which JWTs have expired, `JwtExpires`, `Verified` |
| `getSession` (`index.ts:716-757`) | `Authenticated` |
| `refreshSession` (`index.ts:775-873`), query by query | `Find`, `FindPrevious`, `Grace`, `ReadClaims`, `RotateRefresh` |
| `POST /switch-tenant` (`index.ts:2609-2704`) | `AuthenticateSwitch`, `ReadActive`, `RotateSwitch` |
| sign-out (`index.ts:703-713`, `1195-1215`) | `AuthenticateSignOut`, `Revoke` |
| `revokeSessionById`, `revokeAllSessions` | `RevokedElsewhere` |
| network and cookie jar | `Send`, `Arrive` in any order, `Lose` |

Abstractions. A token stands for a refresh token, its hash and the JWT issued with it. JWTs
expire at any time, in the order in which they were issued. The browser retries within the grace period
(`GraceEnds` waits for a quiet browser that holds the current token). History: `chosen` is the tenant
that the last switch took effect with, `late` that a refresh since then found the JWT expired,
`crossed` that requests have overlapped, `signedOut` that a sign-out was answered.

### 2.8 The router

`Router.tla` is `createRouter()` in the browser with server prefetch on, and the `RouterView` that
renders its current route.

| Code (`packages/ui/src/router`) | Model |
|---|---|
| `window.history`, `lastPathname`, `visitedUrls` | `entries` and `pos`, `lastPath`, `visited` |
| `navigateGen`, a `navigate()` at `awaitPrefetch` | `navigateGen`, `waiting` |
| `activePrefetchUrl`, the streams of `server-nav.ts`, the flag that defers queries | `prefetchUrl`, `prefetchGen` and `streams`, `deferring` |
| the signals `current` with `searchParams`, `loaderData`, `loaderError`; `navigationGen` | `current`, `data`, `error`; `navigationGen`, `loading` |
| `renderGen`, `prevLevels`, the container of `RouterView`, imports of lazy pages | `renderGen`, `shown`, `page`, `importing` |
| `navigate()` up to its await, and after it (`navigate.ts:611-667`) | `Navigate`, `Resume` |
| `onPopState`, `revalidate` (`navigate.ts:669-702`) | `PopState`, `Revalidate` |
| `applyNavigation` with `withViewTransition` (`view-transitions.ts:46-102`) | `applyNavigation`, then `RunTransition` and `FinishTransition` |
| `runLoaders` (`navigate.ts:542-559`) | `Load`, `Loaded`, `LoadFails` |
| the effect of `RouterView` (`router-view.ts:71-310`) | `Show`, `Imported`, `ImportFails` |
| `finishIfCurrent` at the end of a stream (`server-nav.ts:159-218`) | `StreamEnds` |
| writes to `useSearchParams()`, its microtask, its `navigate()` (`reactive-search-params.ts`) | `WriteParam`, `Flush`, `NavigateParams` |

Abstractions. Routes are flat: a path stands for a route with its parameters, and the search for at
most one parameter. A route without a loader is one whose loader answers at once. A transition is
asked for by the route. The browser runs update callbacks of transitions in order, also of those it
skips. An error fallback is configured. `asked` is the URL of the newest call of `navigate()` or
step in the history. A step leaves a waiting `navigate()` alone, which then goes on: `overruling` is
its URL, and `Winner` the URL at which the router ends; `BackWins` says that this is `asked`, and is
violated (`MCRouterBack`, section 5). `hasty` is history too: it becomes true when a navigation cuts
another short, which is by overtaking a view transition that is under way, by aborting loaders
without running them anew, or by dropping the import of the page; `Cuts` and `CutsImport` name the
cases. What is promised without that exception is violated, see `MCRouterData` and `MCRouterPage` in
section 5.

## 3 The runs

| Run | Checks | Instance |
|---|---|---|
| `durable_run` | types; `AtMostOnce`; `LLMSeesSoundHistory`; `StoreMirrorsHistory`; `TurnStored`; `OwnerFixed`; `RunEnds`; `ImplementsJournal` | 3 turns, 2 iterations, 3 calls: one safe and parallel, one unsafe and parallel, one without an id |
| `durable_run_pruned` | `ImplementsJournal`, and so at most once, although rows are pruned and the context is compressed | 3 turns, 2 calls, 2 rows kept |
| `quota_wallet` | `WithinLimit`; `Accounted`; `NoMutualDenial`; `CallsReturn`; `ImplementsLedger` | account over team over user, 2 limits, 3 requests of 1 or 2 units, 2 periods, 1 fault |
| `signal_graph` | `CleanIsFresh`; `EffectsSettled`; `ToldUntilThrow`; `DisposedStaysQuiet`; `ControlReturns` | `both = a && b`, `again = both && a`, an effect on both, an effect that copies `a` to `b`; batches 2 deep, 1 exception |
| `ci_scheduler` | `OnePlace`; `NothingLost`; `StopsScheduling`; `Returns`; `ImplementsTaskRun` | 6 tasks with an edge of every kind, one with an unmet condition, one cacheable, one of several steps; 2 workers; an interrupt at any time |
| `query_fetch` | `Awaited`; `Current`; `Fresh`; `NoLateTenant`; `Settles` | 2 queries, 2 keys, 3 and 2 fetches, 1 change of the server, `Patient` |
| `entity_store` | `NoGhostLayer`; `LayersStay`; `InSync`; `Converged` | 2 updates, with one id or two, and a delete of one entity, a create of another; 2 fields; 1 poll |
| `session_rotation` | `SignedOutForGood`; `StaysSignedIn`; `TenantKept` | 2 requests at a time, 2 tenants, 4 tokens that expire, 1 lost answer |
| `router` | `OnScreen`; `DataOfRoute`; `PrefetchTold`; `LastWins` | an eager page with and without a parameter, a lazy one, one with a view transition, an unknown URL with one; 3 navigations, steps, writes or revalidations |
| `query_race`, `session_tabs`, `ci_kill` | each violates one property, see section 5 | as above; `query_race` without `Patient`, `ci_kill` with a stubborn child |

Why the bounds are enough.

- *Durable runs* (`MaxTurns`, `MaxCallsPerStep`): a crash can matter to the run that resumes and
  to the one that follows a crashed resume: three turns. Two calls in a step make a batch that is
  half done, and two iterations make a step after a step. `MaxIterations`, `StuckThreshold`,
  `MaxConcurrency` and `MaxStored` are options of the code.
- *Quota* (`MaxPeriod`, `MaxFaults`): two requests race; the third sees what they leave. The tree
  has a limit at each level, an unlimited one and one that renews.
- *Reactive runtime* (`MaxDepth`, `MaxThrows`): the graph has a diamond, a source read by two
  levels, a chain of computeds and an effect that triggers the other; with Booleans that flip,
  every subset of dependencies occurs.
- *CI*: nothing is bounded but the graph. It has joins of edges of different kinds, skips that
  release further tasks, one of them at an unmet condition, and work for both workers at once.
- *Queries* (`MaxFetch`, `MaxChange`): a fetch, one that supersedes it and one that follows; the
  other query shares or takes over either. One change is before or after each of them. The
  bound counts fetches and disposals of a query together.
- *Entity store* (`MaxPolls`): two updates write a field in common, each may be answered before
  the other, and the delete falls between. Each mutation has a descriptor of its own and so the
  counter 1, as in generated clients (`entity-sdk-generator.ts:196`): the updates share an id if they
  fall into one millisecond. Every commit refetches, so the list has up to six
  requests.
- *Sessions* (`MaxTokens`, `MaxLost`): two overlapping requests and one after them; four tokens
  are a rotation by each of them and the first token, and any of them may have expired. A third tab
  adds no state of the row that two do not.
  Requests and tenants are symmetric; no liveness is checked in that run.
- *Router* (`MaxMoves`): a navigation that is under way, one that meets it, and one that returns to
  where the first went. The URLs have each kind of page, and transitions with and without a match.

Fairness. `durable_run`: the event loop runs what is ready and promises of providers, handlers
and the store settle, so the steps of a started run are weakly fair; starting the next run and
crashing are not. `quota_wallet`: each await of a call settles, the HTTP store has a timeout, so
the steps of each call are weakly fair; beginning a call, asking for a refund and the clock
are not. `signal_graph`: the call stack is run by one thread that does not stop, so steps of the
runtime are weakly fair; what the program does next is not, not even leaving a batch.
`ci_scheduler`: the runtime polls its tasks and children that heed signals end, so the coordinator,
each worker and the signal task's two steps are weakly fair; nobody has to press Ctrl+C.
`query_fetch`: every request is answered or fails, so the answer to each is weakly fair; nothing
the page does is. `router`: timers fire, microtasks run, the browser ends transitions and a stream
ends or times out, so these steps (`Internal`) are weakly fair as one; loaders and imports may never
answer. `entity_store` and `session_rotation` check safety only and assume none.

Deadlock is checked in `signal_graph`, where the program can always go on. The other models stop
when their calls, turns, fetches, moves or tokens are used up, or the scheduler has returned.

Every property of a passing run is broken by a mutant of the code (`mutants` in
`PROJECT.json`): a dropped guard, a wrong offset, a swapped order.

## 4 The proofs

For all values of the constants that satisfy the named assumptions, which say what kind of value
each constant is and, besides, that computeds are finite and acyclic (`SignalGraph`), that the
task graph is finite and there is a worker (`CiScheduler`), that `Absent` is no value
(`EntityStore`), that the marks of the container are no paths (`Router`), that requests are
finitely many, tenants form a tree and keys are listed once (`QuotaWallet`):

| Theorem | States |
|---|---|
| `DurableRunProofs!TypeCorrect` | `Spec => []TypeOK` |
| `DurableRunProofs!Invariant` | `Spec => []Inv` |
| `DurableRunProofs!EffectsAtMostOnce` | `Spec => []AtMostOnce` |
| `DurableRunProofs!RunsImplementJournal` | `Spec => ImplementsJournal` |
| `DurableRunProofs!OwnerKept` | `Spec => OwnerFixed` |
| `DurableRunProofs!MirrorsHistory` | `~Compression => (Spec => []StoreMirrorsHistory)` |
| `DurableRunProofs!LLMSeesSound` | `LLMSeesSoundHistory`, without compression and pruning |
| `DurableRunProofs!TurnsAreStored` | `TurnStored`, without compression and pruning |
| `DurableRunProofs!RunNeverHangs` | `Spec => [](pc # "idle" => RunMoves)` |
| `DurableRunProofs!RunRunsOut` | `Spec => [](StepsLeft \in Nat) /\ [][pc # "idle" => StepsLeft' < StepsLeft]_vars` |
| `QuotaWalletProofs!HardLimitsHold` | `Spec => []WithinLimit` |
| `QuotaWalletProofs!TypesHold` | `Spec => []TypeOK` |
| `QuotaWalletProofs!CountersAreAccounted` | `Spec => []Accounted`, with `RefundsOfCharges` |
| `QuotaWalletProofs!GrantsNeverExceed` | `Spec => []NeverOverGrants`, with `RefundsOfCharges` |
| `QuotaWalletProofs!CallsAreAtomicGrants` | `Spec => ImplementsLedger`, with `StoreNeverPasses` and `LifetimeRefunds` |
| `QuotaWalletProofs!NoneDeniesAll` | `Spec => []NoMutualDenial`, when there is a request |
| `QuotaWalletProofs!DeniedTakeNothing` | `Spec => []AllOrNothing`, when the store never fails |
| `QuotaWalletProofs!CapHoldsUncontended` | `Spec /\ []~CapContended => []CapRespected` |
| `QuotaWalletProofs!CallsRunOut` | `Spec => [][AwaitsRunOut]_vars` |
| `SignalGraphProofs!TypeCorrect` | `Spec => []TypeOK` |
| `SignalGraphProofs!CleanValuesAreFresh` | `Spec => []CleanIsFresh` |
| `SignalGraphProofs!ComputedsNestOnce` | `Spec => []NestsOnce` |
| `SignalGraphProofs!EffectsAreSettled` | `Spec => []EffectsSettled` |
| `SignalGraphProofs!DirtyHasToldUntilThrow` | `Spec => []ToldUntilThrow` |
| `SignalGraphProofs!DisposedEffectsStayQuiet` | `Spec => DisposedStaysQuiet` |
| `CiSchedulerProofs!TypeCorrect` | `Spec => []TypeOK` |
| `CiSchedulerProofs!NodesInOnePlace` | `Spec => []OnePlace` |
| `CiSchedulerProofs!NoResultLost` | `Spec => []NothingLost` |
| `CiSchedulerProofs!SchedulingStops` | `Spec => []StopsScheduling` |
| `CiSchedulerProofs!RunsAsPromised` | `Spec => ImplementsTaskRun` |
| `CiSchedulerProofs!NobodyWaitsForEver` | `Spec => []NeverStuck`, with `Acyclic` |
| `CiSchedulerProofs!EveryStepCounts` | `Spec => [](Left \in Nat) /\ [][Left' < Left]_vars`, with finitely many workers |
| `QueryFetchProofs!TypeCorrect` | `Spec => []TypeOK` |
| `QueryFetchProofs!SpinnersAreAwaited` | `Spec => []Awaited` |
| `QueryFetchProofs!KeyIsCurrent` | `Patient => (Spec => []Current)` |
| `QueryFetchProofs!OwnKeyIsCurrent` | `Spec /\ [][KeepsKey(q)]_vars => []CurrentOf(q)`, for each query `q` |
| `QueryFetchProofs!NothingStaleAtRest` | `Patient => (Spec => []Fresh)` |
| `QueryFetchProofs!TenantIsNotMixed` | `Patient => (Spec => NoLateTenant)` |
| `EntityStoreProofs!TypeCorrect` | `Spec => []TypeOK` |
| `EntityStoreProofs!NoGhosts` | `Spec => []NoGhostLayer` |
| `EntityStoreProofs!LayersStayOn` | `Spec => LayersStay` |
| `EntityStoreProofs!OneDescriptorKeeps` | `Spec => PatchesStay`, when counters differ |
| `EntityStoreProofs!ListInSync` | `Spec => []InSync` |
| `EntityStoreProofs!ListConverges` | `Spec => []Converged` |
| `EntityStoreProofs!FailedUpdatesRevert` | `Spec => []Reverts`, when no mutation is a delete |
| `SessionRotationProofs!TypeCorrect` | `Spec => []TypeOK` |
| `SessionRotationProofs!RevokedStaysRevoked` | `Spec => []SignedOutForGood` |
| `SessionRotationProofs!TenantIsKept` | `Spec => []TenantKept` |
| `SessionRotationProofs!BrowserStaysSignedIn` | `StaysSignedIn`, with `MaxLost` at most 1 |
| `SessionRotationProofs!LossesAreSurvived` | `Spec /\ [][SwitchesUpToDate]_vars => []StaysSignedIn` |
| `RouterProofs!ScreenIsOfRoute` | `Spec => []OnScreen` |
| `RouterProofs!DataIsOfRoute` | `Spec => []DataOfRoute` |
| `RouterProofs!DeferringIsTold` | `Spec => []PrefetchTold` |
| `RouterProofs!LastAskedWins` | `Spec => [](AtRest /\ ~hasty => Location = Winner /\ current = Matched(Winner))` |
| `RouterProofs!WorkRunsOut` | `Spec => [](Work \in Nat) /\ [][Work' < Work \/ (ByUser /\ Work' <= Work + 7)]_vars` |

*Durable runs: tool calls.* `AtMostOnce` alone is not inductive: whether a handler may act depends on
whether the store shows its call as an orphan. `Inv` (in `DurableRunInv`) closes the loop. Its
core is `OrphanIsOpen`: what the orphan scan finds in `rows` is exactly what was ever requested
and is not answered, less the anonymous calls. That needs `NoOrphan` (no step begins while
another is open), `StepOnRecord` (in the act phase the request is the last row), `Dispatched`
(a call of the step without an outcome has had no effect), and, for the end of a turn, that the
tail that `Finish` stores holds no request: `Unwritten` counts the rows of the turn against
`prevLen` and `written`, and `OnlyText` covers a turn that stored nothing. Pruning is covered:
it drops rows from the front and cannot uncover or lose an orphan at the end. The refinement
proof maps each action to `Request`, `Effect`, `Answer` or a stutter.

*Durable runs: the conversation.* At each await of a run, what the LLM is or will be sent is the
stored rows followed by what the run has yet to store (`Mirrored`): the user message before the
first commit, the results of the batch that is acting, the text that ends the turn. Compression
replaces the conversation and not the rows, so the theorems assume there is none. Soundness of
the rows is proved with one exception, a request at their end, which `NoOrphan` and the resume
account for before the LLM is asked again.

*Durable runs: the end.* `RunEnds` would follow from two theorems and fairness. `RunMoves` lists the
guards of `RunStep`; that one of them holds needs `Bounded`: a chunk that is out waits for one of its
calls, the calls missing at a resume are all in the step that it answers (there is one request at
the end of the rows, not two), and a longest chunk exists wherever calls are left to launch. The measure
`StepsLeft` counts the iterations left, each with as many steps as a response and its calls can take,
then what is left of the step: two steps for a call that is not launched, one for a call that has not
returned, and at a resume one for each position whose call is still missing.

*Quota.* `CountersOK` (counters are numbers, hard limits hold) is inductive: the store adds only
what `Accepts` lets through at the moment of adding, and everything else subtracts.

What counters and requests have to do with each other is `AccountInv`, inductive without any
hypothesis: what a request holds is what it has been charged (`ChargeInv`), and the counters agree with
it as long as every refund under way is of what was charged (`RefundsMatch`). Two things break
that in the code, and only these: a refund credited to another period than the charge
(`MCQuotaWalletRollover`), and a refund of what a failing store let pass without a charge. The theorems
exclude them by the constants: `LifetimeRefunds` (requests that may be refunded are charged to limits
that do not renew) and `StoreNeverPasses` (the store fails closed or not at all); `RefundsOfCharges` asks
for the second only where something may be refunded. `NoMutualDenial` needs neither, since whoever is
being refunded was not denied, and `AllOrNothing` holds until the store fails once
(`MCQuotaWalletOutage` shows what it leaves behind then).

All rest on the routes (`RouteOrdered`): by
depth of the tenant, then by key, `Before` is one order on all wallets, and every route follows it.
Hence `ChargeInv`: what a request has been charged to is exactly the limited wallets it has passed,
each once, and during `unconsume()` exactly those it has not passed yet, so that the next wallet to
refund is the first one charged. Each step then moves a counter and the units held (a union of
disjoint sets of units, counted by its cardinality) by the same amount, or counts a fault
(`AccountStep`). For the ledger, what a request holds when it is granted is one charge per wallet that it
needs (`GrantCharges`), and the granted hold no more than the counter shows, which is within the
limit. For `NoMutualDenial`, whoever is refused although it would fit alone is refused by a counter
above zero, so somebody holds units there and has passed that wallet (`BehindSome`). That is for
good, routes go one way. If all were denied, each would be behind another one; the one with the
fewest ahead of it has somebody ahead with fewer still.

The overage cap, which `MCQuotaWalletCap` exceeds, holds while no two calls are between its check and
the charge at one wallet (`CapContended`): then what the one call there has checked still fits
(`RoomKept`). So the await at `access-context.ts:845` is the only way past the cap. `AwaitsRunOut` is
what is left of `CallsReturn` without fairness: every await of a call that settles leaves it fewer, from
the length of its route and the charges that it may have to take back.

*Reactive runtime.* `DisposedStaysQuiet` follows from what one step does to the bodies on the
stack (`StackStep`): every step keeps, drops or replaces frames, and the two that push an
effect's body require it not to be disposed of, at the moment it is taken from the queue and
not when it was queued. `ToldUntilThrow` is why a notification may stop at a computed that is
dirty already (`signal.ts:181`). The strengthening `ToldInv` adds that what a running computed has
read so far is not dirty (`ReadsFresh`), which holds because a computed runs nothing but computeds
(`ComputedsOnTop`): no write comes between its reads. `CreatesOnce` is needed for the end of a
first run, which must not bring a disposed effect back.

`CleanIsFresh` holds whatever is thrown. Its invariant `ValueInv` says that whatever a running
body has read so far, and whatever a clean value that was not cut short rests on, is clean and
subscribed to. That no computed runs inside itself needs an order of the graph (`Rank`), along
which the running ones descend. `Truth` and `Tainted` are recursive functions over the graph;
their equations (`TruthIs`, `TaintedIs`) are proved for the domain of a finite acyclic graph by
a least set closed under sources (`Reaching`), and a claim about all computeds by looking at a
first one for which it fails (`FirstOf`), since the library's induction theorems cannot be used.
`EffectsSettled` adds `SettledInv`: what an effect's frame has read is what it would read now, and
an idle effect shows what it would read now, unless it is excused or still to run (`Pardoned`). A
notification leaves what unreached effects read as it was; an effect that is not excused is on the
stack once; nothing but batches lies below a batch (`Nested`), and an effect waits in the queue
only inside one. With an empty stack nothing waits. `NestsOnce` is read off
`ValueInv`. `ControlReturns` has no theorem like those about the ends of the other models: that
flushes end depends on which effects write what other effects read, and no measure fits every graph.

*CI scheduler.* `degree[t]` is the number of unfinished dependencies of `t`; a node is queued,
sent, held or answered exactly when its degree is 0 and it has no result, and it is in one of
these places. `remaining` is the number of nodes without a result and `tally` counts the
recorded statuses, through the cancelled end of the run. From these, `OnePlace`, `NothingLost` and the
refinement follow action by action; `StopsScheduling` says that a worker that has begun a command
after the interrupt stands before a test of the flag.

`Returns` is split like the end of a run. `NeverStuck` lists the guards of the coordinator and of the
workers (TLC checked that they are the ENABLED of these actions) and the one wait that nobody ends, for a
child that ignores signals. It needs an acyclic graph, which `graph.rs:297-337` validates before
`execute()` is called: among the nodes without a result one waits for no other, so it is in one of the
places of `OnePlace`, and whoever has it moves on. `Left` counts ticks of the nodes by how far each is
from its result, the workers not yet started and not yet gone, and the states the signal task has
before it.

*Queries.* `Awaited` is inductive with two facts: no request knows a `fetchId` that its query has yet
to reach, and whoever owns a shared request knows its key. `Current`, `Fresh` and `NoLateTenant` need
`Calm`: a patient query waits for one request only, its own key's, sent after the last announcement and
switch; who sent a shared request still waits for it; and the cache serves nothing read before the version
at which it is served.

What an impatient query costs the others was found with TLC. `Fresh` and `NoLateTenant` need every query to
be patient: the request of one that left its key is still offered for sharing under that key, an
announcement or a switch forgets only the request of the key that its query has now, and a query that
comes back joins the old one. `Current` needs less, and `OwnKeyIsCurrent` says it for each query by
itself: if this one keeps its key while it fetches, it shows that key's data at rest, whatever others
do. Its invariant is about one query (`Own`) and about ids: no two requests that are out were sent
under one (`ByUnique`), so an answer meant for another never releases it.

*Entity store.* Layers are honest (`NoGhostLayer` is inductive with types). Ids
are unique in an entry since `Stacked` replaces a layer of the same id, and so what `Without` takes
away is the layer of the mutation, or of one that got its id (`Renaming`). With distinct counters every
id is its own (`OwnIds`) and the exception is void: `OneDescriptorKeeps`. `InSync` holds since the
computed watches every entry it shows, and an id enters the index only in a step that writes
`rawData`, or with a rolled-back delete. `Converged` follows from this: with no layers left, the base of
a listed entry is what the newest answer held, and every step that makes the newest answer old sends
for a new one.

*Sessions.* A revoked row stays revoked, because `updateSession` does not touch `revoked_at`; so the
three lookups refuse what is sent later, whatever requests under way write. While requests come one
at a time, the current tokens are those of the current hash and of the tenant chosen last, or of
none if a refresh found the JWT expired (`late`); the browser holds the current token, or the
previous one within the grace period after an answer was lost. With a second lost answer TLC shows
that it may fall behind: a switch of the tenant, sent with the previous token, rotates again.
`LossesAreSurvived` proves that this is the only way: if tenants are switched only with the current
token in hand (`SwitchesUpToDate`), any number of answers may be lost, since a refresh with the
previous token is answered from the grace period without a rotation.

*Router.* What the view remembers is the current route, and an import that it would accept is of that
page, which is still blank (`ScreenOK`). Transitions wait in the order of their navigations, none newer
than `navigationGen` (`GensOK`). Unless a navigation was cut short, the last transition is the newest
navigation's and has no loader yet (`NewestWaits`); without transitions the location is shown, and its
loaders are under way or have answered (`NewestShown`). The winner is the location, or the URL
of the newest waiting `navigate()` (`AskedOK`), so both agree when nothing waits.

`Work` weighs what is under way: a batch of writes may become a navigation with its prefetch, a
waiting `navigate()` a transition, a transition a rendering with its import and then a loader. Every
step but the user's lowers it.

Each invariant was checked by TLC on the small instance before it was proved.

Left to TLC: liveness, since fairness speaks of ENABLED. Of `RunEnds` and `Returns` what is
left is that an enabled step is taken in the end: that there is one until the end is reached, and that
there are only so many of them, is proved. Of `CallsReturn` and `LastWins` the second is, and of
`LastWins` what holds at rest. `Settles` has `Awaited` as
its safety part (who shows a spinner waits for a request that is out). `ControlReturns` is checked on
one graph only.

## 5 Where code and documents disagree

| Run | Code | What is said |
|---|---|---|
| `query_race` | `query.ts:1390`: a hit of the cache does not raise `fetchId`, so the late answer of the former key is shown under the new one | `query.ts:791` "Track the latest fetch id to ignore stale responses", `query.ts:853` |
| `session_tabs` | `auth/index.ts:861`: two refreshes that both find the session both rotate, and one of the new tokens is dead | `mint-docs/guides/server/auth.mdx:56` "the second request still works within the grace window" |
| `ci_kill` | `scheduler.rs:789`: the first result after an interrupt ends the run and aborts the signal task in its grace period | `scheduler.rs:134-136` "After 5 seconds (or second SIGINT): SIGKILL all children" |

Further configurations are kept beside the runs above. TLC finds the property named in each of
these violated:

| Configuration | Code | What is said |
|---|---|---|
| `MCDurableRunAnswer`: `AnswerStored` | `run.ts:465`: the tail starts one row late, the final answer of a turn with tools is not stored | `run.ts:466-467`, `mint-docs/guides/agents/durable-resume.mdx:124-125` |
| `MCDurableRunRounds`: `PruningKeepsSound` | pruning counts rows and cuts rounds in two | `plans/agent-persistence-layer.md:421-426` |
| `MCDurableRunCompressed`: `ConversationStored` | after compression rows of the turn are skipped | `plans/agents-loop-improvements.md:216` |
| `MCQuotaWalletOutage`: `AllOrNothing` | a store error leaves earlier charges | `access-context.ts:770` "All-or-nothing" |
| `MCQuotaWalletCap`: `CapRespected` | the cap is checked on a count read earlier | `define-access.ts:73` "Maximum overage charge per period" |
| `MCQuotaWalletRollover`: `NeverOverGrants` | a refund is credited to the current period | `access-context.ts:109`, `plans/archived/access-redesign.md:1074` |
| `MCSignalGraphThrow`: `DirtyHasTold` | an exception drops the rest of a flush: computeds stay dirty and effects behind them are not run again | `signal.ts:182` "Already dirty, no need to re-propagate" |
| `MCSignalGraphLeak`: `DisposedUnsubscribed` | an effect disposed of in its own run subscribes again | `signal.ts:251` "Remove from all signal/computed subscriber sets" |
| `MCEntityStoreIds`: `PatchesStay` | `fetch/src/descriptor.ts:149`: two updates in one millisecond, each with its descriptor, get one id, and one pending patch replaces the other | `entity-store.ts:13` "Supports optimistic layer stack for concurrent mutations", `:20` |
| `MCEntityStoreRevert`: `Reverts` | `entity-store.ts:410`: the rollback of a delete writes no signal that the list has read, which goes on without the entity | `mint-docs/guides/ui/data-fetching.mdx:377` "Rolls back if the server returns an error" |
| `MCRouterBack`: `BackWins` | `navigate.ts:644`: a step back does not raise `navigateGen`, so a `navigate()` that waits for its prefetch undoes it | `navigate.ts:640` "skip if a newer navigation started while we waited" |
| `MCRouterData`: `LoaderDataArrives` | `navigate.ts:568`, `602`: a search-only navigation, also a second click on the same link, aborts the loaders under way and runs none | `navigate.ts:113` "Loader data from the current route's loaders" |
| `MCRouterPage`: `PageArrives` | `router-view.ts:75`, `93`: a match of the page shown raises `renderGen` and returns; the import of a lazy page under way is dropped and the page stays blank | `router-view.ts:43` "Renders the matched route's component", `mint-docs/guides/ui/routing.mdx:74-78` |
| `MCSessionRotationTenant`: `TenantPersists` | `auth/index.ts:847`: a refresh takes the tenant from the stored JWT and finds none once that has expired | `mint-docs/guides/server/multi-tenancy.mdx:112` "preserved across token refreshes", `index.ts:841` |
| `MCSessionRotationSignOut`: `SignOutInvalidates` | `auth/index.ts:705`: a sign-out whose JWT has expired is anonymous and revokes nothing | `plans/security-auth-hardening.md:53` "invalidates the current session immediately", `packages/server/README.md:286` |
| `MCQueryFetchTenant`: `NoOldTenant` | a switch of the tenant clears the cached page of each live query, not the pages it left | `mint-docs/guides/ui/data-fetching.mdx:362` |

`MCQuotaWalletTypes` passes: it is the small instance of `TypesHold`.

Read or met on the way, without a configuration:

- Agents: `maxStoredMessages` is documented with a default of 200 (`run.ts:68`) but nothing is
  pruned unless it is given; the guide's example of `memoryStore()` with a session id
  (`workflows.mdx:286-305`) throws (`run.ts:211-213`); a resumed workflow hands later steps
  another value than the first run did (`workflow.ts:371`).
- CI: a cancellation between the coordinator's test of the flag and the workers' makes all workers
  leave, and some nodes end without a result; a child that is spawned but not registered when
  SIGTERM is sent does not get it; a cancelled run without failures returns success
  (`mod.rs:435`); the JSON "total" counts failed tasks twice (`mod.rs:404`).
- Queries: a hit of the cache sends the descriptor's request and drops its answer, so that there is
  no revalidation in the background (`data-fetching.mdx:306`); the answer to an older request
  deletes a newer one from the table of shared requests; a thunk that returns null does not raise
  `fetchId`.
- Entity store: the rollback of a delete puts an old index over newer lists, and the layers that were
  visible into the base; a mutation whose answer is lost announces nothing.
- Router: a search parameter written while a `navigate()` waits for its prefetch replaces the
  navigation; one written just before a `navigate()` to another page replaces the new entry by the
  old path (`capturedPathname`); `runLoaders` clears `loaderError` before it compares generations; a
  navigation without a transition is overwritten by the callback of an earlier one.
- Entitlements: in the fail-open mode a request granted by a failure and then refunded gives back units
  that others hold.
- Sessions: a refresh that overlaps a switch of the tenant can undo it; a failed refresh clears the
  cookies, also when it was one too many for the rate limit.

## 6 Not modelled

`PROJECT.json` lists every component with its status. Inside the modelled ones:

- durable runs: `run()` without a store; two runs of one session at once, which the design excludes
  (`plans/agents-durable-resume.md:43`); `ctx.state`;
- entitlements: plan versions, add-ons, overrides and `can()`; the wallet cache;
- reactive runtime: the server-side rendering context, effects deferred by hydration, hot-reload
  collectors, `untrack`;
- CI scheduler: construction of the graph, contents of the cache, logs;
- queries: reference counts and eviction of the cache, streams, hydration, debounce, timers, custom
  keys;
- entity store: relations, field selection, hydration, entries that `get()` makes for unknown ids,
  queries that call a thunk with a descriptor inside;
- router: nested layouts, the router during server-side rendering and hydration, a transition given to
  one navigation, schemas of search parameters, links, `dispose`;
- sessions: sign-in, the cap on sessions and the store in memory, rate limits, MFA, OAuth.

Hazards without a property, with the reason in `PROJECT.json`: the overage cap
(`access-context.ts:845`, exceeded; `CapHoldsUncontended` says when it is not) and the order of billing
webhooks (`webhook-handler.ts:117`, for which the handler has no protocol).

Most of the repository is compilers, code generation, components, sites, command lines and
templates: pure functions and file I/O without a protocol between actors, which a model checker
has nothing to say about. Parsing, formatting and rendering are out of scope.

## 7 Plan

In order of importance:

1. billing webhooks with the provider's order of events as the environment; the wallet cache;
2. the pool of isolates of the dev server: admission, timeouts against late answers, recycling;
3. the cap on sessions of the store in memory under concurrent sign-ins.
