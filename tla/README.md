# TLA+ models of yunka.io

This directory models the parts of yunka.io whose correctness depends on the
order in which things happen: the transactional outbox, the idempotent operation
executor, the policy chain of outbound calls, the life of a process from module
registration to shutdown, the event bus, service discovery and node selection, and the
supervisor of the development runtime. TLC checks the models on small instances;
TLAPS proves the safety results of the outbox, the executor, the policy chain, the life
of a process, the bus, discovery, the selector and the supervisor for all values of the
constants.

## The system

yunka.io is a Go microservice framework. `framework/` holds the runtime,
`gateway/` the HTTP and RPC entry, `pkg/` older shared libraries, `app/` the
command-line tool and its generators. Most of the code is wiring, adapters, generated
protobuf code and source-code generation. The parts with state of their own:

| Component | State | Operations | What is hard | Correct when |
|---|---|---|---|---|
| Transactional outbox, `framework/event/outbox` | outbox table; per dispatcher: running flag, cancel function, failure counter, loops, one goroutine per claimed record | Enqueue, Claim, MarkPublished, Retry, DeadLetter, PurgePublished; Start, Shutdown, loop, RunOnce, Health | workers in several processes with clocks of their own, leases that expire under work, crashes between broker and store, lost answers, a second loop after a hurried restart | at-least-once: no event lost, nothing marked published untaken, stale workers fenced, everything settled in the end |
| Operation executor and idempotency, `framework/operation`, `framework/execution` | idempotency row per key, open transactions, the call's position | Execute, Claim, MarkTx, Commit, Complete, Fail | takeover of an expired claim while its owner still works, a commit whose answer is lost, marks that fail | an operation is performed at most once per key, and callers are told the truth |
| Outbound policy, `framework/core/resilience`: timeout budget, retry, rate limiter, load shedder, circuit breaker | tokens; limit, in-flight and success counters; circuit state, counters, half-open slots; attempts of each call | Execute of each layer, allow, complete, acquire, release | calls that outlive the state in which they were let through, attempts that one layer admits and the next turns away, panics | exact counters, bounded probing, every call returns, recovery after an outage |
| Module catalog, `framework/core/modulecatalog` | descriptors, sealed flag, plan | Register, Seal, Requirements | cycles, missing modules, determinism | the plan is an order, always the same one |
| Platform provider, `framework/platform` | prepared, started, stopped; databases and connections it owns | Prepare, Start, Shutdown | a resource that does not open or start | each resource closed once |
| Application lifecycle, `framework/core`, `framework/kernel` | App state, modules, components, the lifecycle lock | NewApp, Start, Shutdown, Run, Health | construction or start failing half way, Stop racing Run, deadlines | dependencies outlive dependents, nothing left behind |
| Runtime components and host, `framework/runtimecomponent`, `framework/runtimehost` | listeners, started, stopping, exited, requests in flight | Bootstrap, start, shutdown, health | graceful stop against its deadline, servers that die | drained requests, honest health |
| Event bus and local broker, `framework/core/eventBus`, `framework/event/local.go` | handlers per topic, closed flags, delayed publications, subscriptions | CreateTopic, DestroyTopic, Subscribe, UnSubscribe, Publish, DelayPublish, Close | handlers run after the locks are released, check-then-use in the broker | no delayed handler after Close, no handler left by a closed broker |
| Development runtime, `pkg/devruntime` | plan, commands, exit channel, report on disk | BuildPlan, Run, readiness, shutdown, closure validation | commands that exit, hang or leave children behind at any point | start and stop order, reports that tell the truth, a Run that returns |
| Registry and cache, `pkg/registry/etcdv3`, `pkg/registry/cache` | keys under leases; cached entry and its expiry, watch loops | Register, Deregister, GetService, Watch, Next; get, update, run, Stop | lost and doubled events, late answers | the cache comes to agree with the registry |
| Adaptive selector, `pkg/selector` | in-flight and failure counters and ejection per node | Pick, Done, Mark, Reset | states dropped and made anew under calls | counts that follow the calls, not everything ejected |
| Saga planning, `framework/workflow/saga` | none; envelopes with deterministic IDs | Plan, Stage | | a retried operation stages the same events |
| Shared calls, gRPC pool, MapReduce, Snowflake IDs, `pkg/` | small, one critical section each | | panics, clocks that go back | |
| CLI and generators, gateway routing, infrastructure adapters, CI | none or external | | | |

How they interact: the executor runs an application operation in one database
transaction, in which the operation may also stage outbox rows (`EnqueueTx`, directly
or through a saga) and the idempotency marker. The outbox dispatcher publishes those
rows to an `event.Broker` (local bus or an adapter). It is started and stopped by the
`outboxruntime` module under the application lifecycle, which also owns the event bus
and the transport components. Outbound RPC finds a node through the selector, which
asks the registry cache, and passes the policy chain of
`framework/core/resilience/policy.go`. Components share no memory except through the
mutexes of the objects above. Processes share only the database and etcd.

`PROJECT.json` lists the components again with their sources, the hazards at the lines
where they bite, and the correspondence of every definition to source lines.

## Modules

| Module | Models | Role |
|---|---|---|
| `OutboxStore` | `model.go`, `gorm_store.go`, `memory.go` of the outbox | operators on the outbox table |
| `OutboxDispatcher` | `dispatcher.go` over `OutboxStore` | state machine of producers, dispatchers, loops, tasks, purgers and time |
| `OutboxDelivery` | the delivery promise of `docs/waves/W08-event-broker-outbox.md` | abstract specification |
| `OperationExecutor` | `operation/executor.go`, `execution/scope.go`, both idempotency stores | state machine of concurrent `Execute` calls |
| `OncePerKey` | the promise of required idempotency | abstract specification |
| `CircuitBreaker`, `LoadShedder` | `breaker.go`, `loadshed.go` | state machines over the same `Callers` |
| `RPCPolicy` | `policy.go`, `retry.go`, `timeout.go`, `ratelimit.go` | composes the two with retry and token bucket |
| `ModuleCatalog` | `modulecatalog` | registration and the topological order |
| `PlatformProvider` | `platform/provider.go` | resources an application owns; extends the catalog |
| `Transports` | `runtimecomponent` | servers, listeners and requests |
| `DelayedWork` | what closing the bus promises | abstract specification of the bus, used by the lifecycle |
| `AppLifecycle` | `core/application*.go`, `core/runtime_component.go` | composes the four above under the lifecycle lock |
| `RuntimeHost` | `runtimehost/host.go`, `kernel/bootstrap.go`, `App.Run`, `App.Health` | the whole process |
| `EventBus` | `trie_event_bus.go`, `event/local.go` | bus and broker; shown to implement `DelayedWork` |
| `DevPlan`, `DevRuntime` | `pkg/devruntime` | the plan as a function, the supervisor as a state machine |
| `EtcdRegistry`, `RegistryCache` | `pkg/registry/etcdv3`, `pkg/registry/cache` | registrations and watchers; the cache over them |
| `AdaptiveSelector` | `pkg/selector` | picks, reports and ejections |
| `OutboxProofs`, `ExecutorProofs`, `PolicyProofs`, `BusProofs`, `SelectorProofs`, `DevProofs`, `HostProofs`, `DiscoveryProofs` | | theorems |
| `MC...` | | instances for TLC |

Operators named `X_Something` that stand before an operator `X` and are marked
"Mutant" are variants of `X` with a plausible mistake. They belong to no
specification. Each one is listed in `PROJECT.json` with the property that breaks
when it takes the place of `X`.

### Outbox

`records` is the table, with the columns that decide anything: status, attempts,
next attempt, lease owner, lease end, publication time. Envelopes are opaque, so a
row that cannot be decoded is not modelled. `accepted` is a history variable: the
attempts the broker has taken since the row was inserted.

A dispatcher is a process with a worker ID and a clock that may run ahead (`Skew`). A
loop is a dispatcher and a generation. `Shutdown` takes the running flag away and unlocks,
and cancels the loop's context in a step of its own (`ShutdownCancels`); it may also give up
waiting. So a `Start` in between, or afterwards, runs a second loop beside the first one,
under the same worker ID, and for a while both may be live. A loop reads
`now` (`RunOnce`), claims a batch in one transaction (`ClaimOK`, or `ClaimFails`, which
may have committed all the same), runs a task per record, and waits for all of them
(`RunOnceReturns`). A task takes one of `Concurrency` slots (`Acquire`) or gives up
because the context is done (`Abandon`), calls the broker (`Publish`: taken or not,
answered or not, panic included), and reports: it reads the clock and passes the context
check of the store (`Report`), and later the row is updated (`Settle`, or `SettleFails`) with the
`UPDATE ... WHERE id AND status AND lease_owner` of `updateOwned` (`UpdateOwned`), whatever
became of the context in between. A cancelled loop can therefore still report, and of two loops
under one worker ID the old one may settle the row that the new one has claimed.
`Crash` ends a process at any point. A statement that was under way when its process died is
taken to have been carried out before or not at all.

The two stores differ in four ways. The memory store is part of its process, so it neither errs
nor outlives a crash (`Fault`). They order the claimed records differently. GORM
may skip rows locked by others (`LockedRows`). GORM purges in two statements
(`PurgeSelect`, `PurgeDelete`), the memory store in one (`PurgeMemory`).

Time is discrete. With `Timely = FALSE` it passes at any point, so a store call or
a broker may take arbitrarily long. With `Timely = TRUE` only publishing and waiting
take time (`Prompt`), and the lease arithmetic can be checked.

### Operation executor

A call of `Execute` is a program counter over the steps of the code: `insert`,
`lookup`, `takeover` (the three statements of `Claim`), `scope`, `invoke`, `stage`,
`commit`, `finalize`, `fail`. `row` is the committed idempotency row of each key,
`lock` the row lock that an open transaction took with its `UPDATE`, `applied` a
history of committed business transactions. A call's attempt token is the call
itself, as the code draws a fresh random token for each. `Commit` has three outcomes:
committed, committed with the answer lost, aborted. `Crash` loses the process;
its transaction is rolled back by the database.

`Store = "gorm"` is the durable store with leases and `MarkTx`; `Store = "memory"` is
the in-process one, which has no lease and marks success after the commit.
`BeginRoot` stands for a root scope. Child scopes (`JoinChild`) commit nothing and are
left out.

### Outbound policy

`CircuitBreaker` and `LoadShedder` are state machines of their own, over callers that
are inside the next handler or not. `RPCPolicy` extends both and adds where each call
is: waiting for an attempt, past the token bucket, inside the shedder, running,
reported, backing off. Each layer has its own mutex, so a call passes them in separate
steps with other calls in between. Each action of the policy conjoins an action of one
layer with the call's move; a shedder's caller whose attempt the circuit turns away
releases its place as a failed call, as in the code.

`probes` and `stale` are history variables: the calls let through since the circuit
last half-opened, and how many other calls have reported since then. `healthy` says that
the downstream service has stopped failing for good; it is only used to state
liveness. Which errors count as failure or overload is configuration in the code and a
free choice in the model. The decrease factor is a fraction; `limit` is the floor of the
product, as in the code. Deadlines are not values: a call of an unhealthy service may
find its context done at every point at which the code asks.

### A process

`RuntimeHost` is one process. Packages register descriptors (`ModuleCatalog`), main
listens, constructs an App (seal, prepare the factory, build each module, collect
capabilities), wires it and starts it; or it calls `App.Run`, whose state is stored
without the lock. `AppLifecycle` models Start and Shutdown as work on a list `todo` of
parts, done under `lifecycleMu`, because that is how the code is made: each rollback and
each shutdown is a list of parts that are visited whatever the others answer. A server's
shutdown takes two steps (no more connections, then drained or expired), as does closing
the bus, so that requests, timers and deadlines come in between. Requests arrive and
may never be answered. A health probe reads the App's state first and asks the servers
one by one. Whatever fails in the code may fail here: listening, opening resources,
building, starting, wiring, diagnostics, `Serve`.

The bus inside `RuntimeHost` is `DelayedWork`, an abstract specification. `EventBus`
models the code of bus and broker, and `BusContract` states that it implements
`DelayedWork`; `BusProofs` proves it. So the lifecycle result holds with the real bus.

### Development runtime

`DevPlan` translates validation and the depth-first search of `BuildPlanWithOptions`
as a recursive function, and states independently what a plan is (`IsPlanOf`).
`DevRuntime` is the supervisor: one program counter for `Run`, for each command a
leader, possibly a helper in its process group, and a goroutine whose `Wait` returns when
both are gone. The recorder has what is in memory (`report`) and what was written last
(`saved`); a write may fail. The goroutine closes the handle's channel (`WaitReturns`) before it
sends the exit (`SendsExit`), and Run takes an exit (`TakesExit`) before it writes it down
(`ActsOnExit`): the report on disk is behind in both windows. Signals and kills may err, which
is an error of the shutdown. `ClosureComplete` is what `ValidateRuntimeClosure` asks of
the report on disk.

### Discovery and selection

`EtcdRegistry` has one key per process of a service, its lease known or not, and for each
watcher the events it has not taken; `Next` takes one response of several events and
returns only the first, as `watcher.go` does. `RegistryCache` has the entry, its age, the
watch loops and the lookups; a lookup asks and stores in two steps, or asks in vain.
`AdaptiveSelector` has per node the counters and whether it is ejected, and per client a
pick in its critical sections. A candidate whose state was dropped in between is void, as
the pointer comparison in `choose` makes it. `mixed` is a history variable: the nodes whose
state was dropped under a call, until none is under way on them. Scores decide which of the available nodes is
taken; any of them may be.

## Runs

Deadlock checking is off where the system may come to rest (nothing left to publish,
all calls returned, the process ended, the bounds on time and faults used up). It is on
in `policy`, `discovery` and `selector`, where somebody can always go on.

| Run | States | Shows |
|---|---|---|
| `outbox_fencing` | 3,203,000 | Two workers, one with a fast clock, SKIP LOCKED, a purger, a fault, a shutdown, a cancelled context, events enqueued twice, arbitrary delays. `PublishedWasAccepted`, `DeadLetterExhausted`, `FreshDeliveryAttempt`, `StaleWorkerFenced`, and the refinement `DeliveryContract`. |
| `outbox_restart` | 4,000,000 | Two loops of one dispatcher under one worker ID, both live for a while, memory store, a cancelled context of Start. The owner test does not tell the loops apart (`StaleWorkerFenced` is false here); the event's fate is that of the contract all the same: `DeliveryContract`. The late cancel of a Shutdown spares the new loop: `HealthMeansLoopAlive`, whose one exception is a caller that cancels the context it gave to `Start`. |
| `outbox_purge_race` | violation | Two overlapping purges: `OnlyPublishedIsPurged` fails (see Findings). |
| `outbox_liveness` | 1,092,000 | Two records through one slot, lease one tick longer than `validateDispatcherConfig` asks for (with the shortest lease TLC finds no error either, among 1,900,000 states, but it takes twice as long): `QueuedKeepsLease`, `OnePublisher`, and under fairness `EventuallySettled`. |
| `executor_once` | 171,400 | Three retries of one request, durable store, three faults: `PerformedOnce`, under fairness `EveryCallReturns`. By the contract of `PerformedOnce` an answer is only given when it is true, so that `AnswersAreTrue` is not checked a second time. |
| `executor_memory` | 2,100 | Memory store, two keys: `AnswersAreTrue`, `RepeatedOnlyAfterFaults`. At-most-once is not claimed: a commit whose answer is lost is followed by `Fail`, and a retry performs the operation again; but at most once more for every fault. |
| `policy` | 228,000 | Three callers, two of which retry: `NoLeakedSlot`, `ProbesBounded`, `OpenIgnoresReports`, `InFlightExact`, `AdmitsWithinLimit`; under fairness `EveryCallReturns`, `RecoversAfterOutage`, `Regrows`. |
| `host` | 517,000 | Three modules in several dependency shapes, two resources, two servers and another component, Bootstrap and Run: `PlanIsFirstOrder`, `DependenciesOutlive`, `NothingLeftBehind`, `RequestsFindModules`, `ReadyMeansServing`, `NoSecondStart`; under fairness `ShutdownReturns`. |
| `devruntime` | 298,000 | Every manifest over three names planned, one run, with exits on their way and signals that err: `PlanClosesTargets`, `DependencyOrder`, `NothingOutlivesRun`, `ClosureIsUp`; under fairness `RunReturns`. |
| `bus` | 461,000 | Two delayed publications, two subscriptions, two closers: the refinement `BusContract`; under fairness `BrokerDetaches`. |
| `discovery` | 668,000 | Two nodes, two versions, two watch loops, three changes: under fairness `CacheConverges`, `LoopsEnd`. |
| `selector` | 852,000 | Three nodes, three clients, symmetric: `InflightCountsCalls`, `EjectionLeavesOne`. |

### Bounds

* Outbox: one event suffices for fencing, restart and purge, because rows share nothing but
  the batch; two are needed where records compete for a slot or a batch
  (`outbox_liveness`). `MaxAttempts = 2` gives a first attempt, a retry and, through
  claims without a publication, an exhausted one. A clock of 4 or 5 ticks with a lease
  of 2 lets a lease expire, be taken over, and expire again. One fault is enough for a
  lost answer or a crash at every point; leases expiring without a fault come on top.
  `outbox_liveness` needs `MaxClock = 8`: the worst path through a crash, an expired lease
  and a retry for both events, one after the other, ends by then. With 7 the bound cuts that
  path short and TLC reports a violation. `outbox_restart` enqueues at the first tick only, so no
  purged ID comes back: with that, and two loops under one worker ID, a report of the old loop
  about the purged row could settle the new one.
* Executor: three calls are an owner, a call that takes over, and one that sees the
  result of both; three faults and three ticks with `Lease = 1` let every claim expire
  and every kind of failure be combined with it.
* Policy: thresholds of 2 with three callers open the circuit with one call still inside,
  which reports when it is half-open; one probe slot is contended for; limits 1 to 3 start
  at 2, so that they can fall under calls inside, and grow. Callers call again for ever.
* Host: three modules give chains, a diamond, a cycle and a missing dependency. One request,
  one delayed publication and one goroutine that stops beside the one that boots are
  enough, as each is the first of its kind to be in the way; two servers and a component
  without requests give every order of a partial start.
* Development runtime: three processes with dependencies among all of them, one without an
  endpoint; one failing write at any point. Planning covers all manifests over two and
  three names.
* Bus: two of each actor race with each other; one destroyed topic restarts the counter of
  subscription indexes once.
* Discovery: three changes (starts, stops, crashes, broken watches, late heartbeats) are a
  node that comes, goes, and something going wrong on the way; the repair by expiry does not
  depend on how many changes came before.
* Selector: three nodes at 60 per cent can lose one at a time; with two known none more.
  Failure counters go no further than the threshold, beyond which the code does the same.

### Fairness

* `OutboxDispatcher!FairSpec`: the steps of loops and tasks are weakly fair (goroutines
  are scheduled, a publish call ends by its deadline), time passes, and a
  dispatcher that is down is started again (a supervisor restarts the process). Faults,
  shutdowns and cancellations are not fair. Nothing is assumed of the broker's answer:
  an event whose every publication fails ends as a dead letter.
* `OperationExecutor!FairSpec`: every started call keeps taking steps; a call that waits
  for a row lock needs the holder to commit or abort, which the holder's own fairness
  gives. There is no fairness on clients.
* `PolicyFair`: a call that has begun takes its steps (timers fire, handlers return by their
  deadline), somebody keeps calling, time passes. The conclusions about recovery start from
  the service being well.
* `RuntimeHost!FairSpec`: the goroutine that boots and the holder of the lock go on, the timeout
  of a Shutdown passes (every caller sets one), `Serve` returns once its listener is closed, delayed
  handlers return. Request handlers owe nothing, and servers need not be asked.
  Nothing ends the context of a Start: `Bootstrap` passes its caller's on, which may end
  (`DeadlinePasses`) and need not, and `Run` uses `context.Background()`, which never does. A
  rollback of a failed start may therefore wait for a request for ever (`RollbackWaits`), the
  exception in `ShutdownReturns`.
  The bus is closed without a deadline, which is why handlers of delayed
  publications have to return for `ShutdownReturns`.
* `DevRuntime!FairSpec`: Run takes its steps, its timers go off, and a `Wait` whose command is
  gone returns. No command has to exit, be ready or obey a signal.
* `EventBus!FairSpec`: goroutines run, timers go off, handlers return.
* `RegistryCache!FairSpec`: lookups and loops go on, time passes, running processes register
  (their heartbeat), leases of dead ones expire.

## Proofs

All theorems hold for arbitrary sets of events, dispatchers, calls, keys, nodes and so on
and for every configuration that satisfies the named assumptions of the modules.

* `OutboxProofs`. `FencingHolds` proves `FencingInv` under `DistinctWorkerIDs`: no two loops
  share a worker ID, that is, processes are configured with different ones and Start is called
  again only when the loop has ended. The safety properties are not inductive: that a report is
  turned away rests on `TaskHoldsItsClaim` (a task whose worker ID is on the row is the task
  of the row's last claim), which needs `TasksInBatch` (a loop that claims has no tasks left).
  It holds for cancelled tasks and reports under way too, since only the row decides.
  `StaleWorkersAreFenced` follows. It is false for loops that share an ID; what is left then is
  `UnpurgedInv`, the second way to `NothingPublishedUntaken`, `NothingDeadTooEarly` and
  `ContractHolds`: what a task says of the broker and of its attempts is so (`TasksHonest`), and as
  long as nothing is purged it is said of the same row, whichever task is believed. `PurgersAreSafe` proves `PurgeInv` under `OnePurger`: a
  published row stays published until the one purger deletes it. `ContractHolds` (loops that share
  no ID and one purger, or no purger) shows every step to be one of `OutboxDelivery` or a stutter.
  `SettledStaysSettled` and `PurgeTakesPublished` are the action properties that go with it.
  `HealthIsHonest` has no assumption. `HealthInv` says that a running dispatcher has a live
  current loop unless it is orphaned (`RunningHasLoop`), and that the loops yet to be cancelled
  are none of a running dispatcher's current ones (`CancelsLeftBehind`).
  `AttemptsAreFresh` needs no assumption on
  worker IDs or clocks, since a claim raises the attempt number in the transaction that hands
  it out (`AttemptsInv`: no two tasks of an event have the same number, none is above the
  row's), but it needs that nothing is purged (`Purgers = {}`): a purged ID that is enqueued
  again starts at one.
  The second part is about the lease arithmetic of `validateDispatcherConfig`, where only
  publishing and waiting take time (`Timely`). `BatchesKeepPace` proves `WaveInv`: when `k` publish
  timeouts have passed since the claim, `k * Concurrency` records of the batch have left the
  queue, so it is empty after `Waves = ceil(BatchSize / Concurrency)` of them. With
  `TaskLease` (a task whose worker still owns the row has the lease of its own claim)
  `LeaseOutlastsQueue` follows with the lease of `Waves * PublishTimeout` that the code asks
  for. `OnePublisherAtATime` is about that lease too: at its end another dispatcher may claim at
  the instant at which the last call is due, but not before. It assumes `SkewCovered`, that the
  lease beyond the waves covers the skew of the clocks, which with equal clocks is what
  validation asks for (`EqualClocksSuffice`); one purger; and worker IDs that differ. `HoldInv`
  says that every task that waits, or whose call is not yet due, holds its row alone, under
  the unexpired lease of its own claim.
* `ExecutorProofs`. `OnceInvariant` proves `OnceInv` for the durable store
  (`Atomic`): the marker and the effect are one commit (`MarkerIsEffect`), made while
  the call holds the row lock on a running row of its own attempt (`CommitHoldsRow`); a
  takeover only replaces a row that was not succeeded when it was looked up and has
  not changed since (`TakesOverOpenRow`). `PerformedAtMostOnce`, `AnswersHold`,
  `CompletionIsFinal` and the refinement `ContractHolds` follow from it. The memory store
  has neither leases nor a marker in the transaction, and needs an argument of its own.
  `MemoryInvariant` proves `MemoryInv`: one call per key is at work, since its claim is never
  taken over (`OneAtWork`), and a row is marked by the call whose commit it stands for
  (`MarkFollowsCommit`). With it `AnswersHoldForEitherStore` and
  `CompletionIsFinalForEitherStore` need no assumption on the store. `RepeatsAreFaults` bounds
  what the memory store does not prevent: every commit of a key but a confirmed one cost a fault
  (`CommitsCounted`), since a call that commits finds no other commit of its key confirmed.
* `PolicyProofs`, about the breaker: `SlotsMatchProbes` proves `ProbeInv`: slots taken and
  probes under way differ by the late reports at most; `SlotsAreNotLeaked` and
  `ProbesAreBounded` are its consequences. `OpenCircuitWaits` is the action property. About
  the shedder: `CounterIsExact` needs the finiteness of the set of running calls;
  `LimitIsRespected` follows from it; `ShedTypeCorrect` contains the range of the limit.
  `PolicyRunsBreaker` and `PolicyRunsShedder` show that the policy
  implements the specification of each layer: every step of the chain is a step of the layer
  or leaves its variables alone. With them the theorems about breaker and shedder carry
  over to the composition (`PolicyProbes`, `PolicyOpenWaits`, `PolicyLoad`) without being
  proved again. `PolicyTypeCorrect` adds that no call makes more than `MaxAttempts`
  attempts; it needs that a call in its backoff has an attempt left.
* `BusProofs`. `BusKeepsContract` is the refinement: every step of bus and broker is a step
  of `DelayedWork` or a stutter. It needs `ClosingInv` (`OneCloserWaits`): a single goroutine
  finds the bus open and waits, so that its return is the step from closing to closed;
  and a delayed publication is never in the position between check and copy that only the
  broker's `Publish` has. The types of handlers and calls play no role.
* `SelectorProofs`. `LoadIsReal` proves `InflightCountsCalls`, one conjunct of `LoadInv`: a node
  without a state counts as idle (`UnknownIsIdle`), so a report that finds no state loses no
  count, and a candidate that counts has a state (`CandidatesKnown`), so no call is counted on a
  state that is gone. The count is exact on nodes that are not `mixed`; a report whose state was
  made anew takes off a call of others, and only a node without calls is sure to count right again. `EjectionsLeaveOne` assumes `MaxEjectionPercent < 100`: at 100, which the
  configuration allows, the last node may be ejected.
* `DevProofs`. `SupervisorSound` proves `DevInv` for every manifest, set of targets and number
  of processes, failed writes and early exits. It says where Run is in its plan
  (`Positions`), which commands exist there (`CommandsSound`), what the report says of the run
  and of each command at every place (`RunReported`, `CommandsReported`), that stopping
  goes backwards through the plan (`StopsInOrder`), that an endpoint is waited for before the
  next start (`EndpointsAnswered`), that without failed writes disk and memory agree
  (`SavedIsCurrent`), and that an exit that was sent is in the channel, just taken from it, or
  acted upon (`ExitsHeard`). `RunLeavesNothing`, `ClosureIsTrue` and `StartAndStopInOrder` follow.
  `DevInv` was an invariant of the run `devruntime` before it was proved. `PlanClosed` is
  about the planner, a recursive function over a record of name, list and path. `VisitsExist`
  shows that the recursion ends, since each call has one more name on its path, and
  `VisitsAnswer` that every visit that is asked well (`Asked`: the list so far is in order,
  and whoever is on the path waits for another one there or for the name) answers well
  (`Answers`: a longer list in order with the name and nothing of the path, or an error
  where there is a cycle). Both are proved by the least number of names off the path for
  which they would fail; `LoopAnswers` does the same for the rounds of a loop. What is
  planned is then closed under dependencies, hence all that is needed.
* `HostProofs`. `PlanComesFirst` is about the loop of `resolvePlan`, a recursive function:
  `RoundsExist` shows that the function exists, `RoundsWell` that every round keeps
  `RoundInv` (the names found so far are in order, each the least that could follow, and the
  in-degrees count what is missing), both by the least round for which it would not hold
  (`NoLeast`, from the library's theorem on well-founded relations). A full order is then
  the first of all orders, and without a full one there is a cycle. `ProcessSound` proves
  `HostInv` about the rest. The properties of the process are not inductive, since they say
  nothing of a Start or Shutdown that is half done. `Stages` says who holds `lifecycleMu` and
  what Boot may be doing meanwhile; `StartList` and `StopList` say of the list through which
  the holder works that what is not on it any more is started or stopped, and in which order
  the rest stands; `BuiltAlongPlan` ties modules to the plan, `ResourcesOwned` the
  resources to the provider's state, `ServersBehind` the servers and their requests to
  the modules; `UpInOrder`, `BusQuiet` and `Clean` are what remains of them between two calls;
  `ProbeHonest` says which server a probe has yet to ask. `ModulesOutlived` needs the plan's
  order and `HostInv` together; `ShutdownIsComplete`, `RequestsServed`, `ReadyIsTrue`,
  `StartedOnce` and the types (`HostTyped`) follow from `HostInv`. Only the named assumptions
  on the constants are used. `HostInv` was an invariant of the instance of run `host` before it
  was proved.
* `DiscoveryProofs`. The convergence of the cache is liveness and stays with TLC; these are the
  safety facts under it, for any number of nodes, versions, watchers and lookups. `KeptKeys`:
  a process that takes its lease for alive, so that its heartbeat puts nothing, has its key in
  etcd in the version it runs (`KeptKeysAreTheirs`). `StreamsAreTrue`: the last event about a node
  that a watcher has not taken yet is the truth about the node (`StreamsEndInTruth`); it
  holds although `Next` drops the rest of a response, because what is dropped is a beginning
  of the stream (`LastAfterTake`). `LoopsAndWatchers`: no watcher outlives its
  loop (`WatchersAreLoops`), and a service that lookups take for watched has a loop, although
  each of several loops sets and clears the one mark (`WatchedHasLoop`: the loop that set it
  last has not quit). TLC checked all of them on the instance of run `discovery` first.

Only model-checked: all liveness (`EventuallySettled`, `EveryCallReturns`,
`RecoversAfterOutage`, `Regrows`, `ShutdownReturns`, `RunReturns`, `BrokerDetaches`,
`CacheConverges`, `LoopsEnd`), which is out of the prover's reach. Every safety property of a
passing run is stated by a theorem, `DeliveryContract` with loops that share a worker ID and a
purger only for the instance of `outbox_restart`. `OnlyPublishedIsPurged`, which `outbox_purge_race` shows
to be violated by two purgers, is proved for one.

## Findings

`outbox_purge_race`: the documentation describes a maintenance job that deletes published
rows (`docs/waves/W08-event-broker-outbox.md:127-129`), but `PurgePublished` of the GORM store
selects IDs and then deletes by ID without testing the status again
(`gorm_store.go:343`). With two overlapping purges, and an ID enqueued again between
them, the second one deletes a pending row. `PurgersAreSafe` shows that one purger at a
time is safe.

The models also show behaviour about which the documents say little. It is kept in the
models, and the properties are stated around it:

* a cancelled context of `Start` leaves the dispatcher's `running` set with no loop
  (`ParentCancel`), which is the exception `HealthMeansLoopAlive` names;
* `Shutdown` of a dispatcher unlocks before it cancels (`dispatcher.go:184-186`), and a report passes
  its context check before it reaches the row (`memory.go:88`, `134`): after a quick restart the old
  loop may settle a row the new one has claimed. Delivery stays at least once; that the report
  belongs to the claim (`StaleWorkerFenced`) does not;
* `App.Run` starts with `context.Background()` (`application.go:63`), so the rollback of a start that
  failed waits without limit for a request on a server it had started, and so does a `Stop`
  that waits for `lifecycleMu` (`RollbackWaits`);
* the development runtime's report says running for a moment after a command is gone: until its
  exit is sent (`runner.go:160-161`), and from its receipt to its record (`195-197`);
* a late report to the selector takes a call of others off a state made anew (`adaptive.go:265`): the
  count is then too low until the node is without calls;
* late reports give back half-open slots they never took, so more probes run than configured
  (`ProbesBounded` states how many);
* `App.Run` after a `Stop` stores over the stopped state; with a platform provider its start
  is refused, with a static factory modules are started a second time (`NoSecondStart`
  speaks of the first case);
* `Next` of the etcd watcher drops all events of a response but the first, and a cache entry
  lives for twice its TTL, renewed as a whole by any event: the cache is repaired by
  expiry, after changes have ceased;
* the maximal share of ejected nodes is kept by ejections, not by nodes that leave the
  registry afterwards;
* helpers of a development process whose leader was reaped are not signalled; the run
  is then reported as failed.

Hazards seen in the code that no property covers, beyond the one in `PROJECT.json`: `Stop` of the
etcd watcher tests and closes its channel without a lock, and has two callers
(`watcher.go:86-91`, `rcache.go:328` and `334`), so a second close may panic; the
default dispatcher configuration does not pass its own validation (13 waves of 10 s
against a lease of 30 s, `dispatcher.go:125`); `RetryBase * 2^30` leaves the range of int64
before it is capped (`dispatcher.go:325`); one undecodable row blocks every claim
(`gorm_store.go:217`); a cancelled probe counts as a success of the breaker
(`breaker.go:68`); subscription indexes start again after `DestroyTopic`, so an old
subscription closes a new one (`trie_event_bus.go:118`); Snowflake IDs repeat when the
clock is set back (`snowflake.go:66`).

## Not modelled

* Of the modelled components: JSON encoding of envelopes, schema migration, metrics and
  logs, `Snapshot` calls, the width of durations, deadlines as values, child scopes of the
  executor, brokers that own their bus, the memory and mdns registries, strategies that are
  not adaptive, graph ownership and the doctor of the development runtime, Windows signals.
* Command-line tool and generators, `app/`, `pkg/contract*`, `pkg/assemblyplan`,
  documentation and review tools: sequential programs about text and syntax trees. They
  are most of the source lines of the repository. What they get wrong shows in one call,
  and tests with golden files reach it.
* Generated protobuf code, gateway routing, `pkg/memstore` and infrastructure adapters: I/O
  around libraries, or data structures without concurrent protocols of their own.
* Saga planning is a pure function into the outbox. Shared calls, gRPC pool, MapReduce,
  Snowflake IDs and cron are one critical section each, or libraries.

Left for later: executor and outbox in one transaction (an event is owed exactly if its
operation was performed), a run with two processes that share a worker ID, child scopes
and shared calls.
