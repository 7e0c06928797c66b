# go-health: TLA+ models, checks and proofs

`go-health` is a Go library that a service uses to answer health probes. A
service registers checks with an `Engine`; a transport adapter calls
`RunLivez`, `RunReadyz` or `RunHealthz` for every probe; the Engine runs the
checks concurrently, merges what they report into one document and reduces it to
one status, which becomes a 200 or a 503. Kubernetes restarts a pod on a failed
liveness probe and takes it out of service on a failed readiness probe, so a
wrong verdict is an outage, and a missing one hides an outage.

This directory holds TLA+ modules translated from the source, TLC configurations
that check them on small instances, and TLAPS proofs that lift the safety
properties to every number of requests, checks, nodes and results. All paths and
line numbers refer to `src/`.

## Inventory

| component | source | state | operations |
|---|---|---|---|
| registration | `core/engine.go` 90-144 | the slices `livez`, `readyz`, `healthz` | `RegisterHealthCheck`, `RegisterReadinessCheck`, `RegisterLivenessCheck`; each panics on the reserved name `system:time` |
| execution | `core/engine.go` 163-173, 211-294, 341-374 | per call: WaitGroup, `results` slice, one derived context per check, the response map | `RunLivez/Readyz/Healthz`, `runChecks` (launch loop, `wg.Wait`, merge loop), `runOne` |
| verdict | `core/engine.go` 307-320, `core/status.go` | none | `aggregate`, `HTTPStatusCode` |
| alarm log | `core/engine.go` 384-393 | lines written | `emitLog` |
| data model | `core/check.go` | none | `Check`, `Result`, `ComponentStatus`, `HealthResponse` |
| HTTP adapter | `adapters/http/handlers.go` | per reply: what is on the wire | three handlers, `write` |
| httprouter adapter | `adapters/httprouter/mount.go` | the router's table | `Mount` |
| options | `core/options.go`, `core/engine.go` 55-65 | `e.logger` | `NewEngine`, `WithLogger` |
| redis cluster check | `checks/redischeck/redischeck.go` | per run: mutex, shared slice | `newWithIterator`'s Run, `pingNode` |
| single-component checks | `checks/httpcheck`, `tcpcheck`, `dbcheck`, `s3check`, `redischeck.New` | connections held or pooled | one Run function each |

**Interaction.** The service calls the Register methods while it starts. After
that an adapter's goroutine (one per HTTP request) calls a Run method, which
starts one goroutine per check; each calls the `Run` function of its check with
a context derived from the request's. The cluster check fans out a second time,
inside its `Run`, into one callback per node. The Engine has no lock: requests
share only the three slices, which nobody changes after startup. The owner of the
service chooses the loggers and the paths, and calls `Mount` before, between or
after the Register calls: the handlers hold the Engine, not its checks.

**What is hard.** Goroutines write a shared slice while the launch loop still
runs, and only the WaitGroup separates the last write from the first read.
Checks may share a name, report nothing, report several entries, or hang. A
deadline may pass while the answer is on its way. Go's map order is open. A
response may turn out not to be encodable after all the work is done, and a
client may be gone half way through the reply. `PROJECT.json` lists each of
these hazards at its line with the properties that would catch it.

**What makes it correct.** A response says exactly what the checks of its own
endpoint observed during this very request; the heartbeat entry is the
framework's own; the verdict does not depend on any scheduling or iteration
order; every alarm is logged; every derived context is released; a request with
bounded checks is answered within the largest of their timeouts, and so is one
whose caller gives up, at once. All of this holds at the path the owner chose
for the endpoint, and alarms go to the logger the owner chose.

## Modules

| module | models | extends |
|---|---|---|
| `Health` | data types; `merge`, `convert`, `aggregate`, `HTTPStatusCode` as operators | |
| `HealthProofs` | lemmas on those operators | `Health` |
| `Engine` | registration, the Run methods, `runChecks`, `runOne`, `emitLog` | `Health` |
| `EngineInv` | the inductive invariant `IInv` | `Engine` |
| `EngineProofs` | theorems about `Engine` | `EngineInv`, `HealthProofs` |
| `HealthService` | abstract: what the service promises, without goroutines | `Health` |
| `EngineService`, `EngineServiceProofs` | the refinement mapping from `Engine` to `HealthService`, and its proof | `EngineInv` |
| `TimedEngine`, `TimedEngineProofs` | `Engine` with a clock | `EngineInv` |
| `Aggregate`, `AggregateProofs` | the loop of `aggregate`, in any map order | `Health` |
| `Handlers` | `adapters/http` composed with the Engine | `EngineInv` |
| `Service` | `NewEngine` with options, `Mount`, dispatch by path, composed with `Handlers` | `Handlers` |
| `HandlersProofs` | theorems about `Handlers` and `Service` | `Service`, `EngineServiceProofs` |
| `CheckRun` | abstract: what `Check.Run` asks of a check | `Health` |
| `ClusterCheck`, `ClusterCheckProofs` | the Run function of `redischeck.NewCluster` | `Health` |
| `Producers`, `ProducersProofs` | the Run functions of the five single-component checks, over consecutive probes | `Health` |

`MCEngine`, `MCTimedEngine`, `MCAggregate`, `MCHandlers`, `MCService`,
`MCClusterCheck` and `MCProducers` give the constants values for TLC. Operators
whose comment begins with "Mutation" are faulty variants of the definition that
follows them; no specification uses them. They document which mistake each
property would catch.

### Engine

`phase` is the life of the service: `startup`, then `serving`, or `panicked` when
a Register call met the reserved name. Every request `r` has a program counter
`pc[r]` and its own copy of the locals of `runChecks`:

| variable | in the code |
|---|---|
| `checks[r]`, `results[r]`, `out[r]`, `wg[r]` | the parameter and the locals of `runChecks` with these names |
| `spawned[r]`, `merged[r]` | the loop indices of the launch loop and the merge loop |
| `gor[r][i]` | goroutine `i`: `none`, `ready`, `running` (inside Run), `stored`, `finished` |
| `timer[r][i]` | the context `runOne` derives: `armed`, `expired`, `released` by the deferred `cancel()` |
| `runResults[r][i]` | `runOne`'s local `results` |
| `ctx[r]` | the caller's context |
| `status[r]`, `log[r]` | the response's `Status`, the lines of `emitLog` |

Each iteration of the launch loop (`Launch`) and of the merge loop (`Merge`) is
an action, as are `Wait`, `Respond`, the call of Run (`RunOneCall`), its return
(`RunReturns`) and `WgDone`. What `runOne` does after Run returns touches only
data of its goroutine until `wg.Done()`, so conversion, `cancel()` and the store
are one step with the return. `DeadlineExceeded`, `Cancel`, `Serve` and the
choice of what Run returns are the environment's.

A `time.Duration` is an integer, of which only the sign matters here. `Output` and
`AffectedEndpoints` are kept as "non-empty or not", which is what the
suppression for passing observations looks at. `StatusOther` stands for every
string that is none of the three constants, the empty one included.

### HealthService and EngineService

`HealthService` has no goroutine, WaitGroup, timer, merge loop or context. A
request asks for an endpoint (`Ask`), each check of the endpoint's scope is
observed exactly once for it, in any order (`Observe`), and one document answers
it after the last observation (`Answer`): its status is the strict verdict of the
observations, and it shows them by name in registration order. Registration is
one action over the set of endpoints a check cascades to. It is a statement of
what is promised, not a translation of code, so `PROJECT.json` maps none of it.

`EngineService` maps the Engine to it: a check has been observed once its
goroutine has stored what Run returned (`seenBar`), and a request has been
answered once its Run method has returned (`replyBar`). Launching, waiting,
merging, timers and cancellation are stuttering steps. The refinement covers
safety; the liveness promises are stated and checked on the Engine itself.

### TimedEngine

A clock over the same actions. The steps of the framework take no time and are
taken before time passes; `Tick` is possible only while every open request waits
for a Run function that is entitled to go on. A Run function may return at any
time and does return at the instant its context is done, which is the contract of
`Check.Run`. Timers do not fire early. A caller may put a deadline of its own on
its context (`Caps`, 0 for none). So the model says how much waiting the
framework adds to the checks, which is none, and leaves out the time its own
instructions take.

### Aggregate

The Engine uses the operator `aggregate`. The loop itself, which ranges over a
map in an order Go leaves open and returns from the middle on a fail, is a state
machine of its own, and is proved to return the operator's value.

### Handlers

Every request of `Engine` is an HTTP request here. `write` is `WriteError` (the
encoder failed: 500 and plain text), `WritePanics` (a custom marshaler panicked:
`encoding/json` passes a panic that is not its own on, `write` does not recover,
and net/http closes the connection), or `WriteHeader` followed by `WriteBody`,
which may fail and then logs. The encoder can only fail on a value some check put
into its own entry, so a response with nothing but the heartbeat always encodes.
A reply is `written` when `w.Write` returned nil, or when `http.Error` returned,
which does not look at errors. That is what `write` knows, and not that the client
got it: net/http buffers the body, and a loss at its flush after the handler
returned is neither an error at line 103 nor logged. The model ends at the
handler's return and claims nothing about delivery.

### Service

What the owner writes around the library. The options of `NewEngine` are applied
in order over `slog.Default()`, which is asked once, at construction, while `write`
asks for it whenever it logs; the owner may replace it in between (`SetDefault`,
external, once and during startup), after which the two differ. `Mount` makes its
three calls of `router.Handler`, which panics on a path that does not begin with
"/" (`Rooted`) and on one that is taken, and leaves what was mounted before (the
router is external). Checks are registered before or after
`Mount`; serving begins after a `Mount` that did not panic. `Get` dispatches a
path to the Run method mounted there, `Work` is everything inside the Run method,
`Return` adds which logger `emitLog` wrote to, `Reply` which one `write` did.

### CheckRun

What the comments on `Result` and `Check.Run` ask of a check, as its caller sees it:
a call returns one slice, which nobody touches afterwards, in which every Result
has one of the three statuses, a text unless it passes, and a ComponentId of its
own, which a check of a single instance leaves empty (`core/check.go` 34-37). The
last rule is not followed by all checks that ship with the library, so `instances`
says of each whether it is held to it: `one` for dbcheck and s3check, `named` for
the cluster check, which has several instances, and for tcpcheck, httpcheck and
redischeck.New, which have one and name it all the same (see Findings). The Engine
does not verify any of this; `ClusterCheck` and `Producers` are shown to implement
it. Like `HealthService` it is a promise, not a translation of
code.

### ClusterCheck

The iterator either fails to discover the topology, or calls back once per node it
yields, all concurrently, waits for the callbacks, and then returns nil or an error.
An error after a node was observed is what `newWithIterator` provides for and
`TestCluster_partialResultsDropError` exercises: it is dropped, and a cluster whose
yielded nodes all answered passes in spite of it. `append` is a read of the slice header
(`ReadSlice`) and a write (`WriteSlice`); that no Result is lost between them is
the mutex's doing, not the model's.

### Producers

One check, chosen at the start, is probed again and again. dbcheck, s3check and
redischeck.New make one call and report whether it failed. tcpcheck dials and
closes. httpcheck builds a request, sends it, drains the body, drops the error of
draining, and judges by the status code; the deferred `Close` is part of the
return. `inUse` and `pooled` count connections across probes: the transport takes
a connection back at the end of a drained body and closes it when a body that was
not drained is closed. Each Run is finished before the next begins, so what is
said of the pool is said of consecutive probes; probes that overlap may leave one
idle connection each. One `Do` is taken to need one connection: a redirect to
another host, or a dial that completes after its `Do` has timed out, may leave
another idle in the client's pool. `Response` composes a finished Run with the Engine's
`convert`, `merge` and `aggregate`.

## Runs

| run | states | shows |
|---|---|---|
| `engine_merge` | 1 790 000 | one request, every registration of up to three checks out of a bounded and an unbounded namesake, a nil Run and the reserved name, every outcome out of nothing, a pass with stale diagnostics, a fail, a warn followed by a pass, an unknown status, in every order of finishing |
| `engine_concurrent` | 436 000 | two requests on any endpoints side by side; the Engine implements `HealthService`, waits for nobody in vain and never repeats itself |
| `engine_live` | 24 000 | a caller that gives up; a hanging check beside a bounded one; bounded checks whose dependencies never answer |
| `engine_timed` | 380 000 | one request begun at any instant, checks with timeouts 1, 2 and none and a nil Run, callers with deadline 1, 3 or none, the clock up to 5; both bounds on a request and the instant at which a check is cut off |
| `aggregate_order` | 14 000 | every map over two names with up to two entries each, in every order |
| `service` | 1 287 000 | two GET requests on three paths, on paths that clash, with a path left out and with a relative one, with and without `WithLogger` options, with a default logger that is replaced or not, encoder failures, panics and broken connections |
| `cluster` | 2 700 | up to three nodes, any of them down, discovery failing, an error after the callbacks, the context done at any time; the check implements `CheckRun` |
| `producers` | 131 | each built-in check against a dependency that answers with codes on both sides of each boundary, refuses, breaks off in the body, or hangs; each implements `CheckRun` as far as `instances` says |
| `engine_unknown_status` | violation | a status outside the three constants passes the response |
| `handlers_panic` | violation | a panic while encoding leaves a request without a reply |
| `producers_drain` | violation | an HTTP exchange that fails after its header passes |
| `producers_named` | violation | checks of one instance fill in ComponentId |

**Properties.** `VerdictExact`: the status is decided by exactly the observations
of this request's checks. `ResponseExact`: the whole document, key by key and in
registration order, is the concatenation of what namesakes observed, said with
offsets into the list and without the code's `merge` and `convert`.
`ImplementsService`: the refinement. `WallTimeBounded`, `CallerCaps`: the two
sentences of the comment on `runChecks` about wall time. `RouteVerdict`: the code
read at a path is the verdict of the checks registered for its endpoint in this
request. `LinesReachOwner`: which logger is told what, however the request ends, with
a body, an encode error or a panic.
`HeartbeatIntact`, `ScopesNested`, `AlarmLogged`, `NoContextLeak`: as their
comments say. `ResultsFrozen` (an action property): nothing writes the results
slice once `wg.Wait()` has returned. `BoundedRequestReturns`,
`CancelledRequestReturns`, `SiblingsIndependent` (liveness): the three promises
about hanging checks. `OrderIrrelevant`: the verdict is independent of the map
order. `ProbeVerdict`: what kubelet reads is the verdict of the very request it
made.
`EveryNodeOnce`, `UnreachableVisible`: the cluster check loses no node, and tells a
cluster it cannot reach from one without nodes and from one whose nodes answered
before an error came. `RunReturnsInTime`: it returns once its context is done.
`ReportHonest`, `NoConnectionLeak`, `RunReturns`: the verdict of a built-in check is
its dependency's, connections do not add up, and Run returns within its Timeout.
`PassMeansAllPass`: with checks that keep to the three statuses, a response passes
exactly when every component it shows passes. `NeverStuck`: `wg.Wait()` never
blocks without a goroutine on its way to `wg.Done()`, and a bounded Run never goes
on without a timer. `WorkShrinks` (an action property): every step that changes
anything of a request leaves it strictly less to do (`Todo`), so no timeout,
cancellation or sibling ever sends it back. `CutOnTime`: a check that is cut off has
had exactly its own Timeout. `ReplyOnce` (an action property): from its first byte
on a reply and the response behind it no longer change. `AppendsOne` (an action
property) and `MutexNotAbandoned`: the mutex of the cluster check does its work and
is not left locked. `ClusterImplementsRun`, `BuiltinsImplementRun`: the checks that
ship with the library keep the contract the Engine relies on, but for the rule on
ComponentId that `SingleInstanceUnnamed` states.
`IInv`, `TInv`, `HInv`, `RouteInv`, `LoopInv`, `ClusterInv`, `ProducersInv` are the
inductive invariants, the type invariant of each module among their conjuncts.

**Bounds.** `MaxChecks` bounds the Register calls, `Requests` the calls of Run
methods, `Horizon` the clock. Two checks are enough for namesakes, for an empty
sibling and for one goroutine finishing before the next is launched; three are
used in `engine_merge`, where two must finish out of order while a third is being
launched. Two requests are enough for interference, which is pairwise because a
step writes the data of one request; the runs about time and liveness have one,
and the theorems about time any number. In `engine_timed` the sum of two timeouts
(4) fits under the horizon, so running the checks in turn would show. Three nodes
let two callbacks contend for the mutex while a third holds it. The theorems
remove these bounds for every safety property. Symmetry between requests is used
only in runs without liveness properties.

**Fairness.** Weak fairness for each request's own goroutine and for each launched
goroutine (the Go scheduler runs what is runnable), for `DeadlineExceeded`
(timers fire), and for `RunGivesUp`: a Run function whose context is done
returns, because "`Run` must not block past `ctx.Done()`" is the contract of
`Check.Run` (`core/check.go` 126-145). There is none for a dependency to answer,
for a client to give up or for startup to end. In `ClusterCheck`, go-redis
honours its context, and a waiter gets the mutex: weak fairness is enough there
because each callback takes it once. In `Producers`, the Timeout every constructor
sets fires, and a call whose context is done returns.

## Findings

Four places where a comment and the code disagree; a run exhibits each.

- `core/engine.go` 299-300 says "only when every component passes does the overall
  response pass". The switch of `aggregate` has no default, so a component with
  any other status string, such as the zero value of a Result whose Status was
  never set, leaves the response at `pass` (`engine_unknown_status`). For the HTTP
  code, `core/status.go` 78-80 wants it so: "Unknown statuses are treated as
  non-critical".
- `checks/httpcheck/httpcheck.go` 4-6 counts any transport-level error, a timeout
  included, as a failure. The error of draining the body (line 116) is dropped,
  so an exchange that breaks off or times out after a 2xx or 3xx header passes
  (`producers_drain`; its trace shows a break-off). The comment on `New` is
  narrower: errors from `client.Do`.
- `adapters/http/handlers.go` 83-87 says that a response that cannot be encoded,
  "a panic in a custom ObservedValue implementation" included, is answered with
  500. An error of a marshaler is; a panic is not an error to `encoding/json`,
  which passes it on, and `write` has no `recover`, so the connection is closed
  without a reply (`handlers_panic`).
- `core/check.go` 34-37 says of ComponentId "Leave empty for single-instance
  checks", and 159-162 the same of the response. tcpcheck (line 86), httpcheck
  (line 100) and redischeck.New (line 247) set it to their one address or url, as
  their own comments announce (`producers_named`). dbcheck and s3check leave it
  empty.

Two more need no run of their own. `adapters/http/handlers.go` 43-44 says
`LivezHandler` writes its result with status code 200; it goes through `write` like
the others and answers 503 when a liveness check fails, which `RouteVerdict` states
and the architecture document describes. `core/check.go` 236-237 says "current
built-in checks produce a single entry each", while `redischeck.NewCluster` produces
one per node, which `EveryNodeOnce` states.

## Proofs

All of these hold for every value of the constants that satisfies
`EngineAssumption`, `TimedAssumption`, `ServiceAssumption`, `MapsAssumption`,
`NodeAssumption` and `ProducersAssumption`, which only say that the constants have
their types (and that a node's address is neither empty nor the marker of the
free mutex, and 0 is no status code).

**Engine.** `TypeOK` is not inductive: that `wg[r]` stays a natural number needs to
know that it counts the goroutines still at work, and that the merge loop stays
inside its slice needs to know that it starts at the right place. `IInv` adds for
every request:

- `SnapshotInv`: it works on the slice of its endpoint, which no longer grows;
- `SpawnInv`: goroutine `i` exists exactly when the launch loop has passed `i`;
- `BarrierInv`: `wg` is the number of active goroutines, and there is none after
  the wait;
- `StoreInv`: a goroutine past Run has stored the conversion of what Run returned
  (or of what stands in for a nil Run), only a goroutine inside Run has an
  unreleased context, and it has one if its check has a Timeout;
- `MergeInv`, `OutInv`: the map holds the heartbeat, every entry of the results
  merged so far (`Complete`), nothing else (`Sound`), and each list is the
  concatenation of the results merged so far, in order (`Ordered`);
- `StatusInv`: status and log are those of the finished map.

The induction has one lemma per action. The request that moves is treated there;
the others are framed by one lemma (`FrameKeeps`, `OthersKeep`). `BarrierInv`
rests on the cardinality facts of `FiniteSetTheorems`, `OutInv` on `MergeFacts`
of `HealthProofs`. From `IInv` follow `TypeCorrect`, `ScopesStayNested`,
`HeartbeatStays`, `ContextsReleased`, `VerdictIsExact`, `ResponsesAreExact`,
`AlarmsAreLogged` and, as a statement about steps, `ResultsStayFrozen`. What a
loop has concatenated is said with a function of offsets, which one iteration
extends by one entry: no recursion, hence no induction over data.

`PassIsAllPass` says what a pass means to a reader of the document. It needs the
statuses to be known; `StrictUnderContract` turns that into a condition on the checks
alone and obtains `OnlyAllPassPasses`, the very property the run
`engine_unknown_status` refutes without it.

**Progress without fairness.** Two theorems carry the part of the liveness argument
that needs no fairness. `NobodyIsStuck`: whoever waits has somebody to wait for
(`BarrierInv`: a positive `wg` counts a goroutine that exists). `WorkAlwaysShrinks`:
the number of steps a request has before it, the cardinality of `Todo(r)`, is a
natural number that each of its steps decreases. Each action strikes one entry
off the list and adds none (`RequestShrinks`, `GoroutineShrinks`), and the rest is
`FS_Subset`. What fairness then has to add is only that somebody moves.

**Refinement.** `Implementation`: `Spec => HS!Spec`. `Init` maps to the abstract `Init`,
and under `IInv` each action maps to one abstract step or to a stutter. The two
steps with content are `Store` (an observation that was not there before, of a
check of the scope: `SpawnInv` and `SnapshotInv`) and `Respond` (every check has
been observed, by `BarrierInv`; the document is the one promised, by `OutInv`
through the lemmas behind `VerdictIsExact` and `ResponsesAreExact`).
`HandlersImplementEngine`, `TimedImplementsEngine` and `ServiceImplementsHandlers` show
that the larger systems do nothing the Engine does not do; `ServiceImplementsService`
follows: router, handlers and Engine together are a health service.

**Time.** `TInv` adds to `IInv`, for every check inside Run with a Timeout, that its
timer is armed or expired, that its deadline counts from the beginning of the
request, that it is not overdue, and that it has not expired early (`TimerInv`). The third needs the first (`Tick`
waits for a due timer and for a Run whose context is done), the second that
launching takes no time. `SlowestCheckBounds`, `CallerDeadlineCaps` and
`TimeoutIsTheChecksOwn` follow. That the
clock is not simply held up is not a theorem: TLC's check of `engine_timed` for
deadlock shows that some step is always possible there, and by `TimedImplementsEngine`
and `WorkAlwaysShrinks` a request has only finitely many steps besides the ticks.

**Aggregate.** `LoopInv` says that the loop has met no fail until it returns and that
its variable says whether it has met a warning; `AnyOrder` follows.

**Handlers.** `HInv` is `IInv` and, per request, `WireInv`: a reply exists only for a
finished response and is either the text of `http.Error` or the document under
the code of its own status, or nothing after a panic. `ProbeVerdictHolds` combines
it with `VerdictExact`; `RepliesAreFinal` says that no later step touches a reply.

**Service.** `ServiceImplementsHandlers` (`SSpec => HSpec`) carries all of this over to
the wired-up service. `RouteInv` says that a service that serves has mounted each
endpoint at its own path, and that a request runs the endpoint its path was given
for; it rests on what three `router.Handler` calls in a row leave behind. With
`ProbeVerdict` it gives `RouteVerdictHolds`. `LinesReachTheOwner` follows the
loggers through `Return` and `Reply` (`SinkInv`), and uses that no request has begun
while the default logger may still be replaced.

**ClusterCheck.** `ClusterInv`: the mutex is held exactly by the callback between
`Lock` and `Unlock`, so the header it read is still the shared slice
(`MutexInv`), and the slice holds one Result per callback past its append
(`SliceInv`), or the one synthesised failure once Run has returned after an error
without nodes. `NoNodeLost`, `UnreachableIsVisible`, `MutexIsNotAbandoned` and, for
each step, `AppendsAreAtomic` follow for any number of nodes. `ClusterImplements` maps
a Run to `CheckRun`: everything before the return is a stutter, and by `SliceInv` the
slice that is returned names each node once.

**Producers.** `ProducersInv`: a connection is in use exactly in the steps that hold
one, at most one exists (`ConnInv`; it needs to know that only httpcheck has a
pool), each step knows which errors it has passed (`PathInv`), and a finished Run
has told the truth. `ReportsAreHonest` goes through `VerdictOfOne`: merging one
observation into a map that passes gives that observation's verdict.
`BuiltinsImplement` maps each of the five checks to `CheckRun`, where a new probe is a
new call; dbcheck and s3check keep the whole of it, the other three all but the
rule on ComponentId.

**Only model-checked.** The liveness properties (`CancelledRequestReturns`,
`SiblingsIndependent`, `BoundedRequestReturns`, `RunReturnsInTime`, `RunReturns`):
fairness and `ENABLED` are outside the prover. For the same reason the
refinements are of the safety parts. `NobodyIsStuck` and `WorkAlwaysShrinks` are as
far as the proofs go towards them.

## Not modelled

- A panic inside a Run function, excluded by the contract of `Check.Run`: it
  happens in a goroutine where nothing recovers and ends the process, so there is
  no later state to speak about.
- Registration while requests run, excluded by the documented contract of
  `Engine`, whose slices have no lock.
- `WithLogger(nil)`, which panics at the first degraded response: a precondition.
- Paths with wildcards, which the router matches by pattern and may refuse as
  conflicting: `Routes` are fixed paths here, as the adapter's examples have them.
- What net/http does with a reply after the handler has returned.
- What the router answers to paths and methods that were not mounted (404, 405,
  redirects): the router's own behaviour.
- Fields the framework copies without looking at them (`ObservedValue`,
  `ObservedUnit`, `Links`, `Time`, `ServiceId`, `Description`), and the wording of
  `Output` and of log lines.
- Probes of one `httpcheck` that overlap: the pool they share belongs to
  `http.Client`, and each Run on its own is in `Producers`.
- The tests.
