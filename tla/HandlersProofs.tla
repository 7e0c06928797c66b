--------------------------- MODULE HandlersProofs ---------------------------
(***************************************************************************)
(* What a probe reads is the verdict of its own request: proofs for the    *)
(* composition of adapters/http with the Engine, resting on the inductive  *)
(* invariant of the Engine.                                                *)
(***************************************************************************)
EXTENDS Service, EngineServiceProofs

LEMMA HInitHolds == HInit => HInv
<1> SUFFICES ASSUME HInit PROVE HInv
  OBVIOUS
<1>1. IInv
  BY InitHolds DEF HInit
<1> QED
  BY <1>1 DEF HInit, HInv, HTypeOK, WireInv, nothing

\* No step of the Engine touches a response that has been returned.
LEMMA DoneStable ==
  ASSUME IInv, EngineStep, NEW r \in Requests, pc[r] = "done"
  PROVE  pc'[r] = "done" /\ out'[r] = out[r] /\ status'[r] = status[r]
<1>1. CASE Register \/ Serve
  BY <1>1 DEF Register, RegisterHealthCheck, RegisterReadinessCheck,
    RegisterLivenessCheck, RegisterWith, Serve, requestVars
<1>2. ASSUME NEW q \in Requests, Request(q)
      PROVE  pc'[r] = "done" /\ out'[r] = out[r] /\ status'[r] = status[r]
  BY <1>2 DEF Request, RunLivez, RunReadyz, RunHealthz, Begin, Launch, Launches, Wait, Waited, Merge,
    Respond, Cancel, IInv, TypeOK
<1>3. ASSUME NEW q \in Requests, NEW i \in Slots, Goroutine(q, i)
      PROVE  pc'[r] = "done" /\ out'[r] = out[r] /\ status'[r] = status[r]
  BY <1>3 DEF Goroutine, RunOneNil, RunOneCall, DeadlineExceeded, RunReturns, WgDone,
    goFrame
<1> QED
  BY <1>1, <1>2, <1>3 DEF EngineStep

LEMMA EngineStepKeeps == ASSUME HInv, EngineStep PROVE HInv'
<1>1. IInv'
  BY NextKeeps DEF HInv, EngineStep, Next
<1>2. HTypeOK'
  BY DEF HInv, HTypeOK, EngineStep
<1>3. ASSUME NEW r \in Requests PROVE WireInv(r)'
  <2>1. wire'[r] = wire[r] /\ slogWarn'[r] = slogWarn[r] /\ WireInv(r)
    BY DEF EngineStep, HInv
  <2>2. CASE wire[r] = nothing /\ slogWarn[r] = 0
    BY <2>1, <2>2 DEF WireInv, nothing
  <2>3. CASE pc[r] = "done"
    BY <2>1, <2>3, DoneStable DEF HInv, WireInv, CanFailToEncode, aborted
  <2> QED
    BY <2>1, <2>2, <2>3 DEF WireInv
<1> QED
  BY <1>1, <1>2, <1>3 DEF HInv

\* The three steps of write.
LEMMA WriteKeeps ==
  ASSUME HInv, NEW r \in Requests, Write(r)
  PROVE  HInv'
<1>1. UNCHANGED vars
  BY DEF Write, WriteError, WritePanics, WriteHeader, WriteBody
<1>2. IInv' /\ pc' = pc /\ status' = status /\ out' = out
  BY <1>1, StutterKeeps DEF HInv, vars, requestVars
<1>3. wire[r] \in [code  : {0, 200, 500, 503},
                   body  : {"none", contentType, plainText},
                   stage : {"none", "header", "written", "broken", "aborted"}]
  BY DEF HInv, HTypeOK
<1>4. HTypeOK'
  BY <1>3 DEF Write, WriteError, WritePanics, WriteHeader, WriteBody, HInv, HTypeOK,
    HTTPStatusCode, ErrorCode, aborted
<1>5. ASSUME NEW q \in Requests \ {r} PROVE WireInv(q)'
  <2>1. wire'[q] = wire[q] /\ slogWarn'[q] = slogWarn[q] /\ WireInv(q)
    BY DEF Write, WriteError, WritePanics, WriteHeader, WriteBody, HInv, HTypeOK
  <2> QED
    BY <1>2, <2>1 DEF WireInv, CanFailToEncode, nothing, aborted
<1>6. WireInv(r)'
  <2>1. WireInv(r) /\ wire \in [Requests -> [code  : {0, 200, 500, 503},
                                   body  : {"none", contentType, plainText},
                                   stage : {"none", "header", "written", "broken", "aborted"}]]
        /\ slogWarn \in [Requests -> Nat]
    BY DEF HInv, HTypeOK
  <2>2. CASE WriteError(r)
    BY <1>2, <2>1, <2>2 DEF WriteError, Unwritten, ErrorCode, WireInv, CanFailToEncode,
      nothing, aborted, plainText, contentType
  <2>3. CASE WriteHeader(r)
    BY <1>2, <2>1, <2>3 DEF WriteHeader, Unwritten, WireInv, nothing, aborted, plainText,
      contentType
  <2>4. CASE WriteBody(r)
    BY <1>2, <2>1, <2>4 DEF WriteBody, WireInv, nothing, aborted, plainText,
      contentType
  <2>5. CASE WritePanics(r)
    BY <1>2, <2>1, <2>5 DEF WritePanics, Unwritten, WireInv, CanFailToEncode, nothing, aborted
  <2> QED
    BY <2>2, <2>3, <2>4, <2>5 DEF Write
<1> QED
  BY <1>2, <1>4, <1>5, <1>6 DEF HInv

LEMMA HStutterKeeps == ASSUME HInv, UNCHANGED hvars PROVE HInv'
<1>1. IInv' /\ pc' = pc /\ status' = status /\ out' = out
  BY StutterKeeps DEF HInv, hvars, vars, requestVars
<1>2. wire' = wire /\ slogWarn' = slogWarn
  BY DEF hvars
<1> QED
  BY <1>1, <1>2 DEF HInv, HTypeOK, WireInv, CanFailToEncode, nothing, aborted

\* Whatever is on the wire for a request belongs to a response that is complete
\* (write), for any number of requests.
THEOREM HInvInvariant == HSpec => []HInv
<1>1. HInit => HInv
  BY HInitHolds
<1>2. HInv /\ [HNext]_hvars => HInv'
  BY EngineStepKeeps, WriteKeeps, HStutterKeeps DEF HNext, HTerminated
<1> QED
  BY <1>1, <1>2, PTL DEF HSpec

-----------------------------------------------------------------------------
\* A response with a key of a check's own has an entry under it, so some check
\* of the endpoint reported something.
LEMMA EntryObserved ==
  ASSUME IInv, NEW r \in Requests, pc[r] = "done", CanFailToEncode(r)
  PROVE  \E i \in 1..Len(Scope(endpoint[r])) : runResults[r][i] # <<>>
<1>1. /\ checks[r] = Scope(endpoint[r]) /\ merged[r] = Len(checks[r])
      /\ Sound(out[r], checks[r], results[r], Len(checks[r]))
      /\ systemTimeCheckName \in DOMAIN out[r] /\ IsChecksMap(out[r])
  BY DEF IInv, TypeOK, RequestInv, SnapshotInv, MergeInv, OutInv
<1>2. PICK n \in DOMAIN out[r] \ {systemTimeCheckName} : TRUE
  BY <1>1 DEF CanFailToEncode
<1>3. out[r][n] # <<>> /\ out[r][n] \in Seq(ComponentStatus)
  BY <1>1, <1>2 DEF Sound, IsChecksMap
<1>4. 1 \in 1..Len(out[r][n])
  BY <1>3
<1>5. PICK i \in 1..Len(checks[r]) :
        \E k \in 1..Len(results[r][i]) : out[r][n][1] = results[r][i][k]
  BY <1>1, <1>2, <1>4 DEF Sound
<1>6. Len(results[r][i]) = Len(runResults[r][i])
  BY ResultsConverted
<1>7. runResults[r][i] # <<>>
  BY <1>5, <1>6
<1> QED
  BY <1>1, <1>7

\* A probe reads 503 only when a check of its endpoint failed in this request,
\* 200 only when none did, and 500 only when a check had an entry (write).
THEOREM ProbeVerdictHolds == HSpec => []ProbeVerdict
<1>1. HInv => ProbeVerdict
  <2> SUFFICES ASSUME HInv, NEW r \in Requests
               PROVE  /\ wire[r].code = 503 => Observed(r, StatusFail)
                      /\ wire[r].code = 200 => ~Observed(r, StatusFail)
                      /\ wire[r].code = 500 =>
                           \E i \in 1..Len(Scope(endpoint[r])) : runResults[r][i] # <<>>
                      /\ wire[r].code # 0 => pc[r] = "done"
    BY DEF ProbeVerdict
  <2>1. CASE wire[r] = nothing \/ wire[r] = aborted
    BY <2>1 DEF nothing, aborted
  <2>2. CASE wire[r].code = 500 /\ pc[r] = "done" /\ CanFailToEncode(r)
    BY <2>2, EntryObserved DEF HInv
  <2>3. CASE pc[r] = "done" /\ wire[r].code = HTTPStatusCode(status[r])
    <3>1. Reports(out[r], StatusFail) <=> Observed(r, StatusFail)
      BY <2>3, ReportsObserved DEF HInv
    <3>2. status[r] = aggregate(out[r])
      BY <2>3 DEF HInv, IInv, RequestInv, StatusInv
    <3>3. status[r] = StatusFail <=> Observed(r, StatusFail)
      BY <3>1, <3>2 DEF aggregate, StatusFail, StatusWarn, StatusPass
    <3> QED
      BY <2>3, <3>3 DEF HTTPStatusCode
  <2> QED
    BY <2>1, <2>2, <2>3 DEF HInv, WireInv
<1> QED
  BY <1>1, HInvInvariant, PTL

\* Once something is on the wire for a request, neither the reply nor the
\* response it comes from changes any more (write).
THEOREM RepliesAreFinal == HSpec => ReplyOnce
<1> DEFINE Final(r) == wire[r] # nothing =>
                         /\ wire'[r].code = wire[r].code /\ wire'[r].body = wire[r].body
                         /\ status'[r] = status[r] /\ out'[r] = out[r]
                         /\ Ended(r) => wire'[r] = wire[r]
<1>1. HInv /\ [HNext]_hvars => [\A r \in Requests : Final(r)]_hvars
  <2> SUFFICES ASSUME HInv, HNext, NEW r \in Requests, wire[r] # nothing PROVE Final(r)
    OBVIOUS
  <2>1. pc[r] = "done"
    BY DEF HInv, WireInv
  <2>2. CASE EngineStep
    <3>1. wire' = wire
      BY <2>2 DEF EngineStep
    <3> QED
      BY <2>1, <2>2, <3>1, DoneStable DEF HInv
  <2>3. ASSUME NEW q \in Requests, Write(q) PROVE Final(r)
    <3>1. status' = status /\ out' = out
      BY <2>3 DEF Write, WriteError, WritePanics, WriteHeader, WriteBody, vars, requestVars
    <3>2. CASE q # r
      <4>1. wire'[r] = wire[r]
        BY <2>3, <3>2 DEF Write, WriteError, WritePanics, WriteHeader, WriteBody, HInv, HTypeOK
      <4> QED
        BY <3>1, <4>1
    <3>3. CASE q = r
      <4>1. WriteBody(r)
        BY <2>3, <3>3 DEF Write, WriteError, WritePanics, WriteHeader, Unwritten
      <4>2. ~Ended(r)
        BY <4>1 DEF WriteBody, Ended
      <4>3. wire'[r].code = wire[r].code /\ wire'[r].body = wire[r].body
        BY <4>1 DEF WriteBody, HInv, HTypeOK
      <4> QED
        BY <3>1, <4>2, <4>3
    <3> QED
      BY <3>2, <3>3
  <2>4. CASE HTerminated
    BY <2>4 DEF HTerminated, hvars, vars, requestVars
  <2> QED
    BY <2>2, <2>3, <2>4 DEF HNext
<1> QED
  BY <1>1, HInvInvariant, PTL DEF HSpec, ReplyOnce

-----------------------------------------------------------------------------
(***************************************************************************)
(* The service as its owner wires it up.                                   *)
(***************************************************************************)
LEMMA ServiceStep == [SNext]_svars => [HNext]_hvars
<1> SUFFICES ASSUME [SNext]_svars PROVE [HNext]_hvars
  OBVIOUS
<1>1. CASE Mount \/ SetDefault
  BY <1>1 DEF Mount, SetDefault
<1>2. CASE Startup
  BY <1>2 DEF Startup, HNext, EngineStep
<1>3. ASSUME NEW r \in Requests, NEW path, Get(r, path) PROVE HNext
  BY <1>3 DEF Get, HNext, EngineStep, Request
<1>4. ASSUME NEW r \in Requests, Work(r) PROVE HNext
  BY <1>4 DEF Work, HNext, EngineStep, Request
<1>5. ASSUME NEW r \in Requests, Return(r) PROVE HNext
  BY <1>5 DEF Return, HNext, EngineStep, Request
<1>6. ASSUME NEW r \in Requests, Reply(r) PROVE HNext
  BY <1>6 DEF Reply, HNext
<1>7. CASE UNCHANGED svars
  BY <1>7 DEF svars
<1> QED
  BY <1>1, <1>2, <1>3, <1>4, <1>5, <1>6, <1>7 DEF SNext, STerminated

\* Every run of a wired-up service is one of the handlers over the Engine, so
\* all that holds of these holds of it, whatever the routes and the options.
THEOREM ServiceImplementsHandlers == SSpec => HSpec
<1>1. SInit => HInit
  BY DEF SInit
<1> QED
  BY <1>1, ServiceStep, PTL DEF SSpec, HSpec

\* Behind the handlers runs the Engine, and writing a reply does not touch its
\* state: whatever is proved of the Engine holds behind HTTP (adapters/http).
THEOREM HandlersImplementEngine == HSpec => Spec
<1>1. HInit => Init
  BY DEF HInit
<1>2. [HNext]_hvars => [Next]_vars
  <2>1. EngineStep => Next
    BY DEF EngineStep, Next
  <2>2. ASSUME NEW r \in Requests, Write(r) PROVE UNCHANGED vars
    BY <2>2 DEF Write, WriteError, WritePanics, WriteHeader, WriteBody
  <2> QED
    BY <2>1, <2>2 DEF HNext, HTerminated, hvars
<1> QED
  BY <1>1, <1>2, PTL DEF HSpec, Spec

\* A service wired up with any routes and options gives its callers what the
\* abstract service promises (Mount, the handlers, core.Engine).
THEOREM ServiceImplementsService == SSpec => ImplementsService
  BY ServiceImplementsHandlers, HandlersImplementEngine, Implementation, PTL

\* The router after one router.Handler call that does not panic.
LEMMA HandlerStep ==
  ASSUME NEW t, NEW path, NEW ep, Handler(t, path, ep).mount # "panicked"
  PROVE  /\ t.mount # "panicked" /\ path \notin DOMAIN t.table
         /\ Handler(t, path, ep).table = Assign(t.table, path, ep)
  BY DEF Handler

\* Mount either panics or gives each endpoint a path of its own.
LEMMA MountFacts ==
  ASSUME NEW rt
  PROVE  /\ Mounted(rt).mount # "no"
         /\ Mounted(rt).mount # "panicked" => \A e \in Endpoint :
              rt[e] \in DOMAIN Mounted(rt).table /\ Mounted(rt).table[rt[e]] = e
<1> DEFINE t1 == Handler(emptyRouter, rt["livez"], "livez")
           t2 == Handler(t1, rt["readyz"], "readyz")
           t3 == Handler(t2, rt["healthz"], "healthz")
<1>1. t3 = Mounted(rt)
  BY DEF Mounted
<1>2. t3.mount # "no"
  BY DEF Handler
<1>3. ASSUME t3.mount # "panicked"
      PROVE  \A e \in Endpoint : rt[e] \in DOMAIN t3.table /\ t3.table[rt[e]] = e
  <2>1. /\ t2.mount # "panicked" /\ rt["healthz"] \notin DOMAIN t2.table
        /\ t3.table = Assign(t2.table, rt["healthz"], "healthz")
    BY <1>3, HandlerStep
  <2>2. /\ t1.mount # "panicked" /\ rt["readyz"] \notin DOMAIN t1.table
        /\ t2.table = Assign(t1.table, rt["readyz"], "readyz")
    BY <2>1, HandlerStep
  <2>3. t1.table = Assign(emptyRouter.table, rt["livez"], "livez")
    BY <2>2, HandlerStep
  <2> HIDE DEF t1, t2, t3
  <2>4. rt["livez"] \in DOMAIN t1.table /\ t1.table[rt["livez"]] = "livez"
    BY <2>3 DEF Assign
  <2>5. /\ rt["livez"] \in DOMAIN t2.table /\ t2.table[rt["livez"]] = "livez"
        /\ rt["readyz"] \in DOMAIN t2.table /\ t2.table[rt["readyz"]] = "readyz"
    BY <2>2, <2>4 DEF Assign
  <2>6. /\ rt["livez"] \in DOMAIN t3.table /\ t3.table[rt["livez"]] = "livez"
        /\ rt["readyz"] \in DOMAIN t3.table /\ t3.table[rt["readyz"]] = "readyz"
        /\ rt["healthz"] \in DOMAIN t3.table /\ t3.table[rt["healthz"]] = "healthz"
    BY <2>1, <2>5 DEF Assign
  <2> QED
    BY <2>6 DEF Endpoint
<1> HIDE DEF t3
<1> QED
  BY <1>1, <1>2, <1>3

LEMMA RouteInit == SInit => RouteInv
  BY DEF SInit, HInit, Init, RouteInv

LEMMA RouteKeeps == HInv /\ RouteInv /\ [SNext]_svars => RouteInv'
<1> SUFFICES ASSUME HInv, RouteInv, [SNext]_svars PROVE RouteInv'
  OBVIOUS
<1>1. CASE Mount
  <2>1. /\ phase = "startup" /\ mount' = Mounted(routes).mount /\ table' = Mounted(routes).table
        /\ UNCHANGED <<routes, target, sink, phase, pc, endpoint>>
    BY <1>1 DEF Mount, hvars, vars, engineVars, requestVars
  <2>2. \A r \in Requests : pc[r] = "idle"
    BY <2>1 DEF HInv, IInv, RequestInv, SnapshotInv
  <2>3. mount' = "done" => \A e \in Endpoint : routes[e] \in DOMAIN table' /\ table'[routes[e]] = e
    BY <2>1, MountFacts
  <2> QED
    BY <2>1, <2>2, <2>3 DEF RouteInv
<1>2. CASE Startup
  <2>1. /\ UNCHANGED <<routes, table, mount, target, sink, pc, endpoint>>
        /\ phase' = "serving" => phase = "serving" \/ mount = "done"
    BY <1>2 DEF Startup, Register, RegisterHealthCheck, RegisterReadinessCheck,
      RegisterLivenessCheck, RegisterWith, Serve, requestVars, serviceVars, wiring
  <2> QED
    BY <2>1 DEF RouteInv
<1>3. ASSUME NEW r \in Requests, NEW path, Get(r, path) PROVE RouteInv'
  <2>1. PICK ep : Begin(r, ep, Scope(ep)) /\ ep = table[path]
    BY <1>3 DEF Get, RunLivez, RunReadyz, RunHealthz, Scope
  <2>2. /\ path \in DOMAIN table /\ target' = [target EXCEPT ![r] = path]
        /\ endpoint' = [endpoint EXCEPT ![r] = table[path]]
        /\ \A q \in Requests \ {r} : pc'[q] = pc[q]
        /\ UNCHANGED <<phase, routes, table, mount, sink>>
    BY <1>3, <2>1 DEF Get, Begin, engineVars, wiring, HInv, IInv, TypeOK
  <2>3. /\ target'[r] = path /\ endpoint'[r] = table[path] /\ DOMAIN target' = Requests
        /\ \A q \in Requests \ {r} : target'[q] = target[q] /\ endpoint'[q] = endpoint[q]
    BY <2>2 DEF RouteInv, HInv, IInv, TypeOK
  <2> QED
    BY <2>2, <2>3 DEF RouteInv
<1>4. ASSUME NEW r \in Requests, Work(r) \/ Return(r) \/ Reply(r) PROVE RouteInv'
  <2>0. DOMAIN sink' = DOMAIN sink
    BY <1>4 DEF Work, Return, Reply, serviceVars
  <2>1. UNCHANGED <<phase, routes, table, mount, target, endpoint>>
    BY <1>4 DEF Work, Return, Reply, Launch, Wait, Merge, Cancel, Goroutine, RunOneNil,
      RunOneCall, DeadlineExceeded, RunReturns, WgDone, goFrame, Respond, Write, WriteError,
      WritePanics, WriteHeader, WriteBody, vars, requestVars, engineVars, serviceVars, wiring
  <2>2. \A q \in Requests : pc'[q] # "idle" => pc[q] # "idle"
    BY <1>4 DEF Work, Return, Reply, Launch, Launches, Wait, Waited, Merge, Cancel, Goroutine,
      RunOneNil, RunOneCall, DeadlineExceeded, RunReturns, WgDone, goFrame, Respond, Write,
      WriteError, WritePanics, WriteHeader, WriteBody, vars, requestVars, HInv, IInv, TypeOK
  <2> QED
    BY <2>0, <2>1, <2>2 DEF RouteInv
<1>5. CASE SetDefault \/ UNCHANGED svars
  BY <1>5 DEF SetDefault, RouteInv, svars, hvars, vars, engineVars, requestVars, serviceVars, wiring
<1> QED
  BY <1>1, <1>2, <1>3, <1>4, <1>5 DEF SNext, STerminated

\* Every endpoint is served at a path of its own, and a request runs the
\* endpoint its path was chosen for, for any Routes (Mount).
THEOREM RoutesHold == SSpec => []RouteInv
  BY RouteInit, RouteKeeps, ServiceImplementsHandlers, HInvInvariant, PTL DEF SSpec

\* A GET of the path chosen for an endpoint is answered 503 exactly when a check
\* of that endpoint failed in this request (Mount, the handlers, write).
THEOREM RouteVerdictHolds == SSpec => []RouteVerdict
<1>1. ASSUME HInv, ProbeVerdict, RouteInv, NEW r \in Requests, NEW e \in Endpoint,
             target[r] = routes[e], wire[r].body = contentType
      PROVE  wire[r].code = 503 <=> FailedIn(r, e)
  <2>1. pc[r] = "done" /\ wire[r].code = HTTPStatusCode(status[r])
    BY <1>1 DEF HInv, WireInv, nothing, aborted, contentType, plainText
  <2>2. wire[r].code = 503 \/ wire[r].code = 200
    BY <2>1 DEF HTTPStatusCode
  <2>3. mount = "done"
    BY <1>1, <2>1 DEF RouteInv, HInv, IInv, RequestInv, SnapshotInv
  <2>4. endpoint[r] = e
    BY <1>1, <2>1, <2>3 DEF RouteInv
  <2>5. wire[r].code = 503 <=> Observed(r, StatusFail)
    BY <1>1, <2>2 DEF ProbeVerdict
  <2>6. Observed(r, StatusFail) <=> FailedIn(r, e)
    BY <2>4 DEF Observed, FailedIn
  <2> QED
    BY <2>5, <2>6
<1>2. HInv /\ ProbeVerdict /\ RouteInv => RouteVerdict
  BY <1>1 DEF RouteVerdict
<1> QED
  BY <1>2, RoutesHold, ServiceImplementsHandlers, HInvInvariant, ProbeVerdictHolds, PTL

-----------------------------------------------------------------------------
\* The loggers that have a line about a request, from what was logged so far.
SinkOf(r) ==
  IF pc[r] # "done" THEN {}
  ELSE (IF status[r] = StatusPass THEN {} ELSE {logger})
         \cup (IF slogWarn[r] = 0 THEN {} ELSE {slogDefault})

\* The logger the options choose over the default at construction.
Chosen == IF options = <<>> THEN bootDefault ELSE options[Len(options)]

SinkInv == logger = Chosen /\ \A r \in Requests : sink[r] = SinkOf(r)

LEMMA SinkFrame ==
  ASSUME SinkInv, UNCHANGED <<options, logger, slogDefault>>, NEW r \in Requests,
         sink'[r] = sink[r], slogWarn'[r] = slogWarn[r],
         pc'[r] = "done" <=> pc[r] = "done", pc[r] = "done" => status'[r] = status[r]
  PROVE  sink'[r] = SinkOf(r)'
  BY DEF SinkInv, SinkOf

\* No request has begun when the owner may still set the default logger.
LEMMA SetDefaultSinks ==
  ASSUME HInv, SinkInv, SetDefault
  PROVE  SinkInv'
<1>1. /\ UNCHANGED <<options, logger, sink, pc>> /\ phase = "startup"
  BY DEF SetDefault, hvars, vars, requestVars
<1>2. \A r \in Requests : pc[r] = "idle"
  BY <1>1 DEF HInv, IInv, RequestInv, SnapshotInv
<1> QED
  BY <1>1, <1>2 DEF SinkInv, SinkOf, Chosen

LEMMA ReturnSinks ==
  ASSUME HInv, RouteInv, SinkInv, NEW r \in Requests, Return(r)
  PROVE  SinkInv'
<1>1. /\ UNCHANGED <<options, logger, slogDefault, slogWarn>> /\ pc[r] = "merged"
      /\ pc' = [pc EXCEPT ![r] = "done"] /\ status' = [status EXCEPT ![r] = aggregate(out[r])]
      /\ log' = [log EXCEPT ![r] = emitLog(endpoint[r], aggregate(out[r]))]
      /\ sink' = [sink EXCEPT ![r] = IF log'[r] = <<>> THEN @ ELSE @ \cup {logger}]
  BY DEF Return, Respond, wiring
<1>2. /\ pc \in [Requests -> Pc] /\ DOMAIN status = Requests /\ DOMAIN log = Requests
      /\ DOMAIN sink = Requests
  BY DEF HInv, IInv, TypeOK, RouteInv
<1>3. ASSUME NEW q \in Requests \ {r} PROVE sink'[q] = SinkOf(q)'
  <2>1. sink'[q] = sink[q] /\ pc'[q] = pc[q] /\ status'[q] = status[q]
    BY <1>1, <1>2
  <2> QED
    BY <1>1, <2>1, SinkFrame
<1>4. sink'[r] = SinkOf(r)'
  <2>1. slogWarn[r] = 0 /\ slogWarn'[r] = 0
    BY <1>1 DEF HInv, WireInv
  <2>2. sink[r] = {}
    BY <1>1 DEF SinkInv, SinkOf
  <2>3. log'[r] = emitLog(endpoint[r], status'[r]) /\ pc'[r] = "done"
        /\ status'[r] \in {StatusPass, StatusWarn, StatusFail}
    BY <1>1, <1>2 DEF aggregate
  <2>4. log'[r] = <<>> <=> status'[r] = StatusPass
    BY <2>3 DEF emitLog, StatusPass, StatusWarn, StatusFail
  <2>5. sink'[r] = IF status'[r] = StatusPass THEN {} ELSE {logger}
    BY <1>1, <1>2, <2>2, <2>4
  <2> QED
    BY <1>1, <2>1, <2>3, <2>5 DEF SinkOf
<1> QED
  BY <1>1, <1>3, <1>4 DEF SinkInv, Chosen

LEMMA ReplySinks ==
  ASSUME HInv, RouteInv, SinkInv, NEW r \in Requests, Reply(r)
  PROVE  SinkInv'
<1>1. /\ UNCHANGED <<options, logger, slogDefault, pc, status>>
      /\ sink' = [sink EXCEPT ![r] =
                    IF slogWarn' = slogWarn THEN @ ELSE @ \cup {slogDefault}]
      /\ slogWarn' = slogWarn \/ slogWarn' = [slogWarn EXCEPT ![r] = @ + 1]
  BY DEF Reply, wiring, Write, WriteError, WritePanics, WriteHeader, WriteBody,
    vars, requestVars
<1>2. slogWarn \in [Requests -> Nat] /\ DOMAIN sink = Requests
  BY DEF HInv, HTypeOK, RouteInv
<1>3. ASSUME NEW q \in Requests \ {r} PROVE sink'[q] = SinkOf(q)'
  BY <1>1, <1>2, <1>3, SinkFrame
<1>4. sink'[r] = SinkOf(r)'
  <2>1. CASE slogWarn' = slogWarn
    BY <1>1, <1>2, <2>1, SinkFrame
  <2>2. CASE slogWarn' # slogWarn
    <3>1. slogWarn'[r] = slogWarn[r] + 1 /\ slogWarn'[r] # 0
      BY <1>1, <1>2, <2>2
    <3>2. pc[r] = "done"
      BY <2>2 DEF Reply, Write, WriteError, WritePanics, WriteHeader, WriteBody, HInv, WireInv,
        nothing
    <3>3. sink'[r] = sink[r] \cup {slogDefault}
      BY <1>1, <1>2, <2>2
    <3>4. sink[r] = SinkOf(r)
      BY DEF SinkInv
    <3> QED
      BY <1>1, <3>1, <3>2, <3>3, <3>4 DEF SinkOf
  <2> QED
    BY <2>1, <2>2
<1> QED
  BY <1>1, <1>3, <1>4 DEF SinkInv, Chosen

LEMMA SinkKeeps == HInv /\ RouteInv /\ SinkInv /\ [SNext]_svars => SinkInv'
<1> SUFFICES ASSUME HInv, RouteInv, SinkInv, [SNext]_svars PROVE SinkInv'
  OBVIOUS
<1>1. CASE Mount \/ Startup \/ UNCHANGED svars
  <2>1. UNCHANGED <<options, logger, slogDefault, sink, slogWarn, pc, status>>
    BY <1>1 DEF Mount, Startup, Register, RegisterHealthCheck, RegisterReadinessCheck,
      RegisterLivenessCheck, RegisterWith, Serve, svars, hvars, vars, requestVars,
      serviceVars, wiring
  <2> QED
    BY <2>1, SinkFrame DEF SinkInv, Chosen
<1>2. ASSUME NEW r \in Requests, Work(r) \/ \E path : Get(r, path) PROVE SinkInv'
  <2>1. UNCHANGED <<options, logger, slogDefault, sink, slogWarn, status>>
    BY <1>2 DEF Work, Get, RunLivez, RunReadyz, RunHealthz, Begin, Launch, Wait, Merge, Cancel,
      Goroutine, RunOneNil, RunOneCall, DeadlineExceeded, RunReturns, WgDone, goFrame,
      serviceVars, wiring
  <2>2. \A q \in Requests : pc'[q] = "done" <=> pc[q] = "done"
    BY <1>2 DEF Work, Get, RunLivez, RunReadyz, RunHealthz, Begin, Launch, Launches, Wait,
      Waited, Merge, Cancel, Goroutine, RunOneNil, RunOneCall, DeadlineExceeded, RunReturns,
      WgDone, goFrame, HInv, IInv, TypeOK
  <2> QED
    BY <2>1, <2>2, SinkFrame DEF SinkInv, Chosen
<1> QED
  BY <1>1, <1>2, SetDefaultSinks, ReturnSinks, ReplySinks DEF SNext, STerminated

\* However a request ends, what its checks reported shows at the logger the owner
\* chose last, a body that w.Write refused at the default logger of that moment,
\* and nothing else anywhere (NewEngine, WithLogger, emitLog, write).
THEOREM LinesReachTheOwner == SSpec => []LinesReachOwner
<1>1. SInit => SinkInv
  BY DEF SInit, HInit, Init, SinkInv, SinkOf, Chosen, NewEngine
<1>2. SSpec => []SinkInv
  BY <1>1, SinkKeeps, RoutesHold, ServiceImplementsHandlers, HInvInvariant, PTL DEF SSpec
<1>3. HInv /\ SinkInv => LinesReachOwner
  <2> SUFFICES ASSUME HInv, SinkInv, NEW r \in Requests, Ended(r)
               PROVE  sink[r] = (IF Observed(r, StatusFail) \/ Observed(r, StatusWarn)
                                 THEN {Chosen} ELSE {})
                        \cup (IF wire[r].stage = "broken" THEN {slogDefault} ELSE {})
    BY DEF LinesReachOwner, Chosen
  <2>1. /\ pc[r] = "done" /\ slogWarn[r] = IF wire[r].stage = "broken" THEN 1 ELSE 0
    BY DEF Ended, HInv, WireInv, nothing, aborted
  <2>2. logger = Chosen /\ sink[r] = SinkOf(r)
    BY DEF SinkInv
  <2>3. (IF slogWarn[r] = 0 THEN {} ELSE {slogDefault})
          = IF wire[r].stage = "broken" THEN {slogDefault} ELSE {}
    BY <2>1
  <2>4. SinkOf(r) = (IF status[r] = StatusPass THEN {} ELSE {logger})
                      \cup (IF slogWarn[r] = 0 THEN {} ELSE {slogDefault})
    BY <2>1 DEF SinkOf
  <2>5. status[r] = StatusPass <=> ~(Observed(r, StatusFail) \/ Observed(r, StatusWarn))
    BY <2>1, IInvVerdict DEF HInv, VerdictExact, StatusPass, StatusWarn, StatusFail
  <2> QED
    BY <2>2, <2>3, <2>4, <2>5
<1> QED
  BY <1>2, <1>3, ServiceImplementsHandlers, HInvInvariant, PTL
=============================================================================
