------------------------------- MODULE Service -------------------------------
(***************************************************************************)
(* A service as its owner wires it up: NewEngine with its options, the     *)
(* Register methods and Mount of adapters/httprouter in any order during   *)
(* startup, then GET requests that the router dispatches by path to the    *)
(* handlers of adapters/http.                                              *)
(***************************************************************************)
EXTENDS Handlers

CONSTANTS
  RoutesPool,   \* the Routes values the owner may pass to Mount
  OptionsPool,  \* the lists of loggers the owner may pass with WithLogger
  Rooted        \* the paths that begin with "/"; none of them has a wildcard

\* A path for each endpoint.
Routes == [Endpoint -> STRING]

ASSUME ServiceAssumption == RoutesPool \subseteq Routes /\ "" \notin Rooted

VARIABLES
  options,      \* the loggers of the WithLogger options, in order
  logger,       \* e.logger
  slogDefault,  \* what slog.Default() returns
  routes,       \* the Routes value; a path is "" if not set
  table,        \* the router's GET routes: the endpoint mounted at each path
  mount,        \* "no", "done", or "panicked"
  target,       \* the path each request asked for, or "none"
  sink          \* the loggers that got a line about each request

wiring      == <<options, logger, slogDefault, routes, table, mount>>
serviceVars == <<wiring, target, sink>>
svars       == <<hvars, serviceVars>>

\* The default logger when the Engine is constructed, and one the owner may set
\* in its place afterwards.
bootDefault  == "default at construction"
laterDefault == "default set later"

\* Mutation: the first option wins.
NewEngineFirst(opts) == IF opts = <<>> THEN slogDefault ELSE opts[1]

\* The options are applied in order over slog.Default(), which is asked now and
\* not when a line is logged.
NewEngine(opts) == IF opts = <<>> THEN slogDefault ELSE opts[Len(opts)]

SInit ==
  /\ HInit
  /\ slogDefault = bootDefault
  /\ options \in OptionsPool /\ logger = NewEngine(options)
  /\ routes \in RoutesPool /\ table = [p \in {} |-> "none"] /\ mount = "no"
  /\ target = [r \in Requests |-> "none"]
  /\ sink = [r \in Requests |-> {}]

-----------------------------------------------------------------------------
\* router.Handler (external) panics on a path that does not begin with "/", the
\* empty one included, and on one that is taken; what was mounted before the
\* panic stays.
Handler(t, path, ep) ==
  IF t.mount = "panicked" \/ path \notin Rooted \/ path \in DOMAIN t.table
  THEN [table |-> t.table, mount |-> "panicked"]
  ELSE [table |-> Assign(t.table, path, ep), mount |-> "done"]

emptyRouter == [table |-> [p \in {} |-> "none"], mount |-> "no"]

\* Mutation: the liveness and the readiness handler are swapped.
MountedSwapped(rt) ==
  Handler(Handler(Handler(emptyRouter, rt["livez"], "readyz"), rt["readyz"], "livez"),
          rt["healthz"], "healthz")

Mounted(rt) ==
  Handler(Handler(Handler(emptyRouter, rt["livez"], "livez"), rt["readyz"], "readyz"),
          rt["healthz"], "healthz")

Mount ==
  /\ phase = "startup" /\ mount = "no"
  /\ table' = Mounted(routes).table
  /\ mount' = Mounted(routes).mount
  /\ UNCHANGED <<hvars, options, logger, slogDefault, routes, target, sink>>

\* The owner's slog.SetDefault (external): it does not reach an Engine that is
\* constructed already.
SetDefault ==
  /\ phase = "startup" /\ mount # "panicked" /\ slogDefault = bootDefault
  /\ slogDefault' = laterDefault
  /\ UNCHANGED <<hvars, options, logger, routes, table, mount, target, sink>>

\* Checks may be registered before or after Mount: the handlers hold the Engine.
Startup ==
  /\ mount # "panicked"
  /\ Register \/ (mount = "done" /\ Serve)
  /\ UNCHANGED <<wire, slogWarn, serviceVars>>

-----------------------------------------------------------------------------
\* The router calls the handler mounted at the path.
Get(r, path) ==
  /\ path \in DOMAIN table
  /\ \/ table[path] = "livez"   /\ RunLivez(r)
     \/ table[path] = "readyz"  /\ RunReadyz(r)
     \/ table[path] = "healthz" /\ RunHealthz(r)
  /\ target' = [target EXCEPT ![r] = path]
  /\ UNCHANGED <<wire, slogWarn, wiring, sink>>

\* What goes on inside the Run method until it is about to return.
Work(r) ==
  /\ \/ Launch(r) \/ Wait(r) \/ Merge(r) \/ Cancel(r)
     \/ \E i \in Slots : Goroutine(r, i)
  /\ UNCHANGED <<wire, slogWarn, serviceVars>>

\* emitLog writes to e.logger.
Return(r) ==
  /\ Respond(r)
  /\ sink' = [sink EXCEPT ![r] = IF log'[r] = <<>> THEN @ ELSE @ \cup {logger}]
  /\ UNCHANGED <<wire, slogWarn, wiring, target>>

\* write asks for slog.Default() when it has a line to log, whatever the Engine's
\* logger is.
Reply(r) ==
  /\ Write(r)
  /\ sink' = [sink EXCEPT ![r] = IF slogWarn' = slogWarn THEN @ ELSE @ \cup {slogDefault}]
  /\ UNCHANGED <<wiring, target>>

STerminated ==
  /\ phase = "panicked" \/ mount = "panicked" \/ \A r \in Requests : Ended(r)
  /\ UNCHANGED svars

SNext ==
  \/ Mount \/ SetDefault \/ Startup
  \/ \E r \in Requests : \/ \E path \in DOMAIN table : Get(r, path)
                         \/ Work(r) \/ Return(r) \/ Reply(r)
  \/ STerminated

SSpec == SInit /\ [][SNext]_svars

-----------------------------------------------------------------------------
\* A check registered for endpoint e failed during request r.
FailedIn(r, e) ==
  \E i \in 1..Len(Scope(e)) : \E k \in 1..Len(runResults[r][i]) :
    runResults[r][i][k].status = StatusFail

\* What the owner wired up is what a prober gets: a GET of the path the owner
\* chose for an endpoint is answered 503 exactly when a check registered for
\* that endpoint, before or after Mount, failed during this request; the paths
\* are told apart however they were chosen (Mount, the handlers).
RouteVerdict ==
  \A r \in Requests, e \in Endpoint :
    (target[r] = routes[e] /\ wire[r].body = contentType) =>
      (wire[r].code = 503 <=> FailedIn(r, e))

\* Who is told, however the request ends: a failure or a warning that a check
\* reported shows at the logger the owner chose last, or at the default of the
\* time of construction if none was chosen; a body that w.Write refused shows at
\* the default of the time of the write; nothing else shows anywhere (NewEngine,
\* WithLogger, emitLog, write).
LinesReachOwner ==
  \A r \in Requests : Ended(r) =>
    LET chosen   == IF options = <<>> THEN bootDefault ELSE options[Len(options)]
        degraded == Observed(r, StatusFail) \/ Observed(r, StatusWarn)
    IN  sink[r] = (IF degraded THEN {chosen} ELSE {})
                    \cup (IF wire[r].stage = "broken" THEN {slogDefault} ELSE {})

\* Before it is served, every endpoint has a path of its own; a request runs
\* the endpoint its path was given for (Mount).
RouteInv ==
  /\ DOMAIN target = Requests /\ DOMAIN sink = Requests
  /\ phase = "serving" => mount = "done"
  /\ mount = "done" => \A e \in Endpoint : routes[e] \in DOMAIN table /\ table[routes[e]] = e
  /\ \A r \in Requests : pc[r] # "idle" =>
       target[r] \in DOMAIN table /\ table[target[r]] = endpoint[r]
=============================================================================
