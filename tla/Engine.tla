------------------------------- MODULE Engine -------------------------------
(***************************************************************************)
(* core.Engine: registration of checks during startup, and concurrent      *)
(* RunLivez / RunReadyz / RunHealthz calls, each of which fans out one     *)
(* goroutine per check, waits for all of them on a WaitGroup, merges their *)
(* results by check name and aggregates them to one Status.                *)
(*                                                                         *)
(* One request is one call of a Run method by a transport.  Its own        *)
(* goroutine and the goroutines it launches interleave freely with each    *)
(* other and with those of the other requests.  Steps that touch only data *)
(* of one goroutine are one action.                                        *)
(*                                                                         *)
(* Registration is complete before the first Run method is called: the     *)
(* documented contract of Engine, which has no locks.                      *)
(***************************************************************************)
EXTENDS Health, FiniteSets

CONSTANTS
  Requests,   \* calls of the Run methods
  CheckPool,  \* the Check values the service may register
  Outcomes,   \* the []Result values a Run function may return
  MaxChecks   \* bound: number of Register calls during startup

ASSUME EngineAssumption ==
  /\ CheckPool \subseteq Check
  /\ Outcomes \subseteq Seq(Result)
  /\ MaxChecks \in Nat

VARIABLES
  phase,       \* "startup", "serving", or "panicked" (Register panicked)
  livez,       \* e.livez, e.readyz, e.healthz: slices of registered checks
  readyz,
  healthz,
  pc,          \* where each request is
  endpoint,    \* the Run method the request called
  ctx,         \* the request's context: "live" or "cancelled"
  checks,      \* the slice passed to runChecks
  spawned,     \* launch loop: number of goroutines started
  wg,          \* counter of the WaitGroup
  gor,         \* state of goroutine i of a request
  timer,       \* the context runOne derives with WithTimeout
  runResults,  \* runOne's results: what Run returned
  results,     \* runChecks' results slice
  merged,      \* merge loop: number of entries of results handled
  out,         \* the map runChecks builds; HealthResponse.Checks
  status,      \* HealthResponse.Status
  log          \* lines emitLog wrote for the request

engineVars  == <<phase, livez, readyz, healthz>>
goVars      == <<gor, timer, runResults, results>>
requestVars == <<pc, endpoint, ctx, checks, spawned, wg, goVars, merged, out,
                 status, log>>
vars        == <<engineVars, requestVars>>

Slots    == 1..MaxChecks
Endpoint == {"livez", "readyz", "healthz"}

Init ==
  /\ phase = "startup"
  /\ livez = <<>> /\ readyz = <<>> /\ healthz = <<>>
  /\ pc         = [r \in Requests |-> "idle"]
  /\ endpoint   = [r \in Requests |-> "none"]
  /\ ctx        = [r \in Requests |-> "live"]
  /\ checks     = [r \in Requests |-> <<>>]
  /\ spawned    = [r \in Requests |-> 0]
  /\ wg         = [r \in Requests |-> 0]
  /\ gor        = [r \in Requests |-> [i \in Slots |-> "none"]]
  /\ timer      = [r \in Requests |-> [i \in Slots |-> "none"]]
  /\ runResults = [r \in Requests |-> [i \in Slots |-> <<>>]]
  /\ results    = [r \in Requests |-> [i \in Slots |-> <<>>]]
  /\ merged     = [r \in Requests |-> 0]
  /\ out        = [r \in Requests |-> [k \in {} |-> <<>>]]
  /\ status     = [r \in Requests |-> "none"]
  /\ log        = [r \in Requests |-> <<>>]

-----------------------------------------------------------------------------
(***************************************************************************)
(* Registration.  A reserved name panics before any slice is touched; the  *)
(* panic ends the startup.                                                 *)
(***************************************************************************)
\* Mutation: no name is reserved.
ReservedNone(c) == FALSE

Reserved(c) == c.name = systemTimeCheckName

\* The body the three methods share; h, rd and l are the slices after it.
RegisterWith(c, h, rd, l) ==
  /\ phase = "startup" /\ Len(healthz) < MaxChecks
  /\ \/ Reserved(c) /\ phase' = "panicked" /\ UNCHANGED <<livez, readyz, healthz>>
     \/ ~Reserved(c) /\ healthz' = h /\ readyz' = rd /\ livez' = l /\ UNCHANGED phase
  /\ UNCHANGED requestVars

\* Mutation: a liveness check does not cascade to readiness.
RegisterLivenessCheckNoCascade(c) ==
  RegisterWith(c, Append(healthz, c), readyz, Append(livez, c))

RegisterHealthCheck(c)    == RegisterWith(c, Append(healthz, c), readyz, livez)
RegisterReadinessCheck(c) == RegisterWith(c, Append(healthz, c), Append(readyz, c), livez)
RegisterLivenessCheck(c)  ==
  RegisterWith(c, Append(healthz, c), Append(readyz, c), Append(livez, c))

\* The service begins to accept requests (external).
Serve ==
  /\ phase = "startup"
  /\ phase' = "serving"
  /\ UNCHANGED <<livez, readyz, healthz, requestVars>>

-----------------------------------------------------------------------------
(***************************************************************************)
(* A Run method, up to the launch loop of runChecks: the map starts with   *)
(* the heartbeat, and without checks it is returned at once.               *)
(***************************************************************************)
Begin(r, ep, slice) ==
  /\ phase = "serving" /\ pc[r] = "idle"
  /\ endpoint' = [endpoint EXCEPT ![r] = ep]
  /\ checks'   = [checks EXCEPT ![r] = slice]
  /\ out'      = [out EXCEPT ![r] =
                    [k \in {systemTimeCheckName} |-> <<systemTimeStatus>>]]
  /\ pc'       = [pc EXCEPT ![r] = IF slice = <<>> THEN "merged" ELSE "launching"]
  /\ UNCHANGED <<engineVars, ctx, spawned, wg, goVars, merged, status, log>>

\* Mutation: the liveness probe runs the readiness checks.
RunLivezWrongScope(r) == Begin(r, "livez", readyz)

RunLivez(r)   == Begin(r, "livez", livez)
RunReadyz(r)  == Begin(r, "readyz", readyz)
RunHealthz(r) == Begin(r, "healthz", healthz)

\* Mutation: the loop does not end at the last check.
LaunchesPastEnd(r) == pc[r] \in {"launching", "waiting"}

\* Mutation: the checks run one after the other.
LaunchesInTurn(r) ==
  pc[r] = "launching" /\ (spawned[r] > 0 => gor[r][spawned[r]] = "finished")

\* The launch loop goes on, whatever the goroutines it started are doing.
Launches(r) == pc[r] = "launching"

\* One iteration of the launch loop: wg.Add(1), then the go statement.
Launch(r) ==
  /\ Launches(r)
  /\ spawned' = [spawned EXCEPT ![r] = @ + 1]
  /\ wg'      = [wg EXCEPT ![r] = @ + 1]
  /\ gor'     = [gor EXCEPT ![r][spawned[r] + 1] = "ready"]
  /\ pc'      = [pc EXCEPT ![r] =
                   IF spawned[r] + 1 = Len(checks[r]) THEN "waiting" ELSE @]
  /\ UNCHANGED <<engineVars, endpoint, ctx, checks, timer, runResults, results,
                 merged, out, status, log>>

-----------------------------------------------------------------------------
(***************************************************************************)
(* Goroutine i of request r: results[i] = e.runOne(ctx, c), then the       *)
(* deferred wg.Done().  What it writes before wg.Done() nobody else reads, *)
(* so runOne's conversion, its deferred cancel() and the store of          *)
(* results[i] are one step with the return of Run.                         *)
(***************************************************************************)
\* Mutation: the deferred cancel() is missing.
cancelForgotten(t) == t

\* The deferred cancel(), if runOne derived a context at all.
cancel(t) == IF t = "none" THEN t ELSE "released"

Store(r, i, rs) ==
  /\ runResults' = [runResults EXCEPT ![r][i] = rs]
  /\ results'    = [results EXCEPT ![r][i] = convert(checks[r][i], rs)]
  /\ gor'        = [gor EXCEPT ![r][i] = "stored"]
  /\ timer'      = [timer EXCEPT ![r][i] = cancel(@)]

goFrame == <<engineVars, pc, endpoint, ctx, checks, spawned, merged, out, status, log>>

\* A nil Run is not called; the context runOne derived for it reaches nobody.
RunOneNil(r, i) ==
  /\ gor[r][i] = "ready" /\ ~checks[r][i].run
  /\ Store(r, i, nilRunResults)
  /\ UNCHANGED <<goFrame, wg>>

\* Mutation: the check's Timeout is not applied.
WithTimeoutNever(c) == "none"

\* The context runOne derives, if the Timeout is positive.
WithTimeout(c) == IF c.timeout > 0 THEN "armed" ELSE "none"

\* runOne derives the bounded context and calls Run.
RunOneCall(r, i) ==
  /\ gor[r][i] = "ready" /\ checks[r][i].run
  /\ gor'   = [gor EXCEPT ![r][i] = "running"]
  /\ timer' = [timer EXCEPT ![r][i] = WithTimeout(checks[r][i])]
  /\ UNCHANGED <<goFrame, wg, runResults, results>>

\* The deadline of the derived context passes (external: package context).
DeadlineExceeded(r, i) ==
  /\ timer[r][i] = "armed"
  /\ timer' = [timer EXCEPT ![r][i] = "expired"]
  /\ UNCHANGED <<goFrame, wg, gor, runResults, results>>

\* Mutation: runOne derives its context from context.Background().
CtxDoneIgnoresParent(r, i) == timer[r][i] = "expired"

\* ctx.Done() of the context Run received is closed.
CtxDone(r, i) == ctx[r] = "cancelled" \/ timer[r][i] = "expired"

\* Run returns, before or after its context is done (external: the check).
RunReturns(r, i) ==
  /\ gor[r][i] = "running"
  /\ \E rs \in Outcomes : Store(r, i, rs)
  /\ UNCHANGED <<goFrame, wg>>

\* Run observes ctx.Done() and gives up.
RunGivesUp(r, i) == CtxDone(r, i) /\ RunReturns(r, i)

\* Mutation: a goroutine with nothing to report leaves without wg.Done().
DoneUnlessEmpty(r, i) == IF results[r][i] = <<>> THEN wg[r] ELSE wg[r] - 1

Done(r, i) == wg[r] - 1

\* The deferred wg.Done().
WgDone(r, i) ==
  /\ gor[r][i] = "stored"
  /\ gor' = [gor EXCEPT ![r][i] = "finished"]
  /\ wg'  = [wg EXCEPT ![r] = Done(r, i)]
  /\ UNCHANGED <<goFrame, timer, runResults, results>>

-----------------------------------------------------------------------------
(***************************************************************************)
(* The rest of runChecks and of the Run method, in the request's own       *)
(* goroutine.                                                              *)
(***************************************************************************)
\* Mutation: wg.Wait() is missing.
WaitedNot(r) == pc[r] = "waiting"

\* wg.Wait() returns.
Waited(r) == pc[r] = "waiting" /\ wg[r] = 0

Wait(r) ==
  /\ Waited(r)
  /\ pc' = [pc EXCEPT ![r] = "merging"]
  /\ UNCHANGED <<engineVars, endpoint, ctx, checks, spawned, wg, goVars, merged,
                 out, status, log>>

\* One iteration of the merge loop, in the order of the slice.
Merge(r) ==
  LET i == merged[r] + 1 IN
  /\ pc[r] = "merging"
  /\ out'    = [out EXCEPT ![r] = merge(@, checks[r][i].name, results[r][i])]
  /\ merged' = [merged EXCEPT ![r] = i]
  /\ pc'     = [pc EXCEPT ![r] = IF i = Len(checks[r]) THEN "merged" ELSE @]
  /\ UNCHANGED <<engineVars, endpoint, ctx, checks, spawned, wg, goVars, status, log>>

Kind(ep)  == CASE ep = "livez" -> "liveness" [] ep = "readyz" -> "readiness"
               [] ep = "healthz" -> "health"
Scope(ep) == CASE ep = "livez" -> livez [] ep = "readyz" -> readyz
               [] ep = "healthz" -> healthz

LogLine(level, ep) == [level |-> level, kind |-> Kind(ep), count |-> Len(Scope(ep))]

\* Mutation: a warning is not logged.
emitLogNoWarn(ep, s) == IF s = StatusFail THEN <<LogLine("error", ep)>> ELSE <<>>

emitLog(ep, s) ==
  IF s = StatusWarn THEN <<LogLine("warn", ep)>>
  ELSE IF s = StatusFail THEN <<LogLine("error", ep)>>
  ELSE <<>>

\* aggregate, emitLog, and the return of the HealthResponse.
Respond(r) ==
  /\ pc[r] = "merged"
  /\ status' = [status EXCEPT ![r] = aggregate(out[r])]
  /\ log'    = [log EXCEPT ![r] = emitLog(endpoint[r], aggregate(out[r]))]
  /\ pc'     = [pc EXCEPT ![r] = "done"]
  /\ UNCHANGED <<engineVars, endpoint, ctx, checks, spawned, wg, goVars, merged, out>>

\* The caller's context is cancelled: a client that went away, or a deadline
\* of its own (external: net/http).
Cancel(r) ==
  /\ pc[r] \notin {"idle", "done"} /\ ctx[r] = "live"
  /\ ctx' = [ctx EXCEPT ![r] = "cancelled"]
  /\ UNCHANGED <<engineVars, pc, endpoint, checks, spawned, wg, goVars, merged,
                 out, status, log>>

-----------------------------------------------------------------------------
Register ==
  \E c \in CheckPool : \/ RegisterHealthCheck(c)
                       \/ RegisterReadinessCheck(c)
                       \/ RegisterLivenessCheck(c)

Request(r) ==
  \/ RunLivez(r) \/ RunReadyz(r) \/ RunHealthz(r)
  \/ Launch(r) \/ Wait(r) \/ Merge(r) \/ Respond(r)
  \/ Cancel(r)

Goroutine(r, i) ==
  \/ RunOneNil(r, i) \/ RunOneCall(r, i)
  \/ DeadlineExceeded(r, i)
  \/ RunReturns(r, i)
  \/ WgDone(r, i)

\* All work is done, or startup ended in a panic: the model may stop here.
Terminated ==
  /\ phase = "panicked" \/ \A r \in Requests : pc[r] = "done"
  /\ UNCHANGED vars

Next ==
  \/ Register \/ Serve
  \/ \E r \in Requests : Request(r)
  \/ \E r \in Requests, i \in Slots : Goroutine(r, i)
  \/ Terminated

Spec == Init /\ [][Next]_vars

(***************************************************************************)
(* The Go scheduler runs every runnable goroutine, timers fire, and a Run  *)
(* function "must not block past ctx.Done()" (Check.Run).  A dependency    *)
(* need not ever answer, a client need not ever give up, and startup need  *)
(* not ever end.                                                           *)
(***************************************************************************)
Fairness ==
  /\ \A r \in Requests :
       WF_vars(Launch(r) \/ Wait(r) \/ Merge(r) \/ Respond(r))
  /\ \A r \in Requests, i \in Slots :
       /\ WF_vars(RunOneNil(r, i) \/ RunOneCall(r, i) \/ WgDone(r, i))
       /\ WF_vars(DeadlineExceeded(r, i))
       /\ WF_vars(RunGivesUp(r, i))

FairSpec == Spec /\ Fairness

-----------------------------------------------------------------------------
(***************************************************************************)
(* Properties.                                                             *)
(***************************************************************************)
Pc      == {"idle", "launching", "waiting", "merging", "merged", "done"}
Gor     == {"none", "ready", "running", "stored", "finished"}
Timer   == {"none", "armed", "expired", "released"}
LogText == [level : {"warn", "error"}, kind : {"liveness", "readiness", "health"},
            count : Nat]

IsSlice(s) ==
  /\ s \in Seq(Check)
  /\ \A i \in 1..Len(s) : s[i].name \in Name \ {systemTimeCheckName}

\* Every variable has its Go type; a registered check never has the reserved
\* name, and a slice never outgrows the number of Register calls.
TypeOK ==
  /\ phase \in {"startup", "serving", "panicked"}
  /\ IsSlice(livez) /\ IsSlice(readyz) /\ IsSlice(healthz)
  /\ Len(livez) <= Len(healthz) /\ Len(readyz) <= Len(healthz)
  /\ Len(healthz) <= MaxChecks
  /\ pc         \in [Requests -> Pc]
  /\ endpoint   \in [Requests -> Endpoint \cup {"none"}]
  /\ ctx        \in [Requests -> {"live", "cancelled"}]
  /\ checks     \in [Requests -> Seq(Check)]
  /\ spawned    \in [Requests -> 0..MaxChecks]
  /\ wg         \in [Requests -> Nat]
  /\ gor        \in [Requests -> [Slots -> Gor]]
  /\ timer      \in [Requests -> [Slots -> Timer]]
  /\ runResults \in [Requests -> [Slots -> Seq(Result)]]
  /\ results    \in [Requests -> [Slots -> Seq(ComponentStatus)]]
  /\ merged     \in [Requests -> 0..MaxChecks]
  /\ DOMAIN out = Requests /\ \A r \in Requests : IsChecksMap(out[r])
  /\ status     \in [Requests -> Status \cup {"none"}]
  /\ log        \in [Requests -> Seq(LogText)]

Covered(s, t) == \A i \in 1..Len(s) : \E j \in 1..Len(t) : t[j] = s[i]

\* A liveness check gates readiness, and whatever gates readiness is on the
\* dashboard: the three slices are nested after any sequence of Register calls,
\* including one cut short by a panic (the cascade of RegisterLivenessCheck).
ScopesNested ==
  Covered(livez, readyz) /\ Covered(readyz, healthz)

\* The heartbeat entry of a response is the framework's own and the only one
\* under its key, whatever was registered and whatever the checks report.
HeartbeatIntact ==
  \A r \in Requests : pc[r] # "idle" =>
    /\ systemTimeCheckName \in DOMAIN out[r]
    /\ out[r][systemTimeCheckName] = <<systemTimeStatus>>

\* What the Run functions of the checks registered for the endpoint reported.
Observed(r, s) ==
  \E i \in 1..Len(Scope(endpoint[r])) : \E k \in 1..Len(runResults[r][i]) :
    runResults[r][i][k].status = s

\* The status of a response is decided by exactly the observations that the
\* checks of its endpoint made during this request: no result is lost to the
\* fan-out, to a namesake or to an empty sibling, none is left over from
\* another request, and no check of another scope has a say (runChecks,
\* aggregate).
VerdictExact ==
  \A r \in Requests : pc[r] = "done" =>
    status[r] = IF Observed(r, StatusFail) THEN StatusFail
                ELSE IF Observed(r, StatusWarn) THEN StatusWarn
                ELSE StatusPass

\* A finished response, key by key, is the concatenation in registration order
\* of what the checks with that name reported, without the diagnostics of a
\* pass; a key is present exactly when there is something under it.  The order
\* in which the goroutines finished does not show (runOne, runChecks).
ResponseExact ==
  \A r \in Requests : pc[r] = "done" =>
    LET cs    == Scope(endpoint[r])
        shown == [i \in 1..Len(cs) |-> Shown(cs[i], runResults[r][i])]
    IN  \A n \in Name \ {systemTimeCheckName} :
          /\ Concatenates(Lookup(out[r], n), n, cs, shown, Len(cs))
          /\ n \in DOMAIN out[r] => out[r][n] # <<>>

\* A request during which a check failed leaves exactly one line, at level error;
\* one whose worst observation was a warning exactly one, at level warn; any
\* other leaves none.  The line counts the checks that were executed (emitLog).
AlarmLogged ==
  \A r \in Requests : pc[r] = "done" =>
    LET level == IF Observed(r, StatusFail) THEN "error"
                 ELSE IF Observed(r, StatusWarn) THEN "warn" ELSE "none"
    IN  IF level = "none" THEN log[r] = <<>>
        ELSE /\ Len(log[r]) = 1 /\ log[r][1].level = level
             /\ log[r][1].count = Cardinality({i \in Slots : gor[r][i] = "finished"})

\* Once a request is answered, no context derived for its checks is left
\* uncancelled, whether its deadline passed or not (defer cancel() in runOne).
NoContextLeak ==
  \A r \in Requests : pc[r] = "done" =>
    \A i \in Slots : timer[r][i] \in {"none", "released"}

\* The results slice is not written once wg.Wait() has returned, so the merge
\* loop reads it without a race: no goroutine outlives the wait.
ResultsFrozen ==
  [][\A r \in Requests : pc[r] \in {"merging", "merged", "done"} =>
       results'[r] = results[r]]_vars

\* While wg.Wait() blocks, some goroutine of the request is still on its way to
\* wg.Done(), and a goroutine inside a Run whose check has a Timeout has a timer
\* that runs or has fired: nobody waits for a signal that will not come, however
\* the requests interleave (runChecks, runOne).
NeverStuck ==
  \A r \in Requests :
    /\ pc[r] = "waiting" /\ wg[r] > 0 =>
         \E i \in 1..Len(checks[r]) : gor[r][i] \in {"ready", "running", "stored"}
    /\ \A i \in 1..Len(checks[r]) :
         gor[r][i] = "running" /\ checks[r][i].timeout > 0 =>
           timer[r][i] \in {"armed", "expired"}

RequestState(r) ==
  <<pc[r], endpoint[r], ctx[r], checks[r], spawned[r], wg[r], gor[r], timer[r],
    runResults[r], results[r], merged[r], out[r], status[r], log[r]>>

\* The steps a request and its goroutines have still before them.
Todo(r) ==
  LET all    == 1..Len(checks[r])
      at(ss) == {i \in all : gor[r][i] \in ss}
  IN  ({"launch"} \X at({"none"}))
      \cup ({"run"} \X at({"none", "ready"}))
      \cup ({"expire"} \X (at({"none", "ready"}) \cup {i \in all : timer[r][i] = "armed"}))
      \cup ({"return"} \X at({"none", "ready", "running"}))
      \cup ({"done"} \X at({"none", "ready", "running", "stored"}))
      \cup ({"wait"} \X {i \in {0} : pc[r] \in {"launching", "waiting"}})
      \cup ({"merge"} \X {i \in all : i > merged[r]})
      \cup ({"respond"} \X {i \in {0} : pc[r] # "done"})
      \cup ({"cancel"} \X {i \in {0} : ctx[r] = "live"})

Remaining(r) == Cardinality(Todo(r))

\* A request that has begun never repeats itself: whatever the interleaving,
\* every step that changes anything of it leaves it strictly less to do, so it
\* ends within a number of steps that its slice determines, and neither a
\* timeout, a cancellation nor another request sends it back (runChecks, runOne).
WorkShrinks ==
  [][\A r \in Requests : pc[r] # "idle" =>
       UNCHANGED RequestState(r) \/ Remaining(r)' < Remaining(r)]_vars

\* When the Run functions keep to the three statuses, as Result.Status demands,
\* a response passes exactly when every component shown in it passes: a problem
\* on display is never answered with pass, and no alarm is without a component.
PassMeansAllPass ==
  \A r \in Requests :
    (pc[r] = "done" /\ \A i \in 1..Len(checks[r]) : Known(runResults[r][i])) =>
      (status[r] = StatusPass <=>
         \A k \in DOMAIN out[r] : \A j \in 1..Len(out[r][k]) :
           out[r][k][j].status = StatusPass)

\* What the comment on aggregate says: the response passes only when every
\* component passes.  The code lets a status that is none of the three pass.
OnlyAllPassPasses ==
  \A r \in Requests : pc[r] = "done" /\ status[r] = StatusPass =>
    \A k \in DOMAIN out[r] : \A j \in 1..Len(out[r][k]) :
      out[r][k][j].status = StatusPass

Bounded(c) == ~c.run \/ c.timeout > 0

\* A request all of whose checks have a Timeout is answered, although none of
\* the dependencies need ever answer (runChecks, runOne).
BoundedRequestReturns ==
  \A r \in Requests :
    (pc[r] # "idle" /\ \A i \in 1..Len(checks[r]) : Bounded(checks[r][i]))
      ~> pc[r] = "done"

\* A request whose caller gives up is answered, whatever timeouts its checks
\* have: cancellation reaches every Run (runOne derives from the parent).
CancelledRequestReturns ==
  \A r \in Requests : ctx[r] = "cancelled" ~> pc[r] = "done"

\* A check that hangs cannot keep a sibling of the same request from running to
\* its end: "a single slow check cannot block faster siblings" (runChecks).
SiblingsIndependent ==
  \A r \in Requests, i \in Slots :
    (pc[r] # "idle" /\ i <= Len(checks[r]) /\ Bounded(checks[r][i]))
      ~> gor[r][i] = "finished"
=============================================================================
