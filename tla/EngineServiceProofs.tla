------------------------ MODULE EngineServiceProofs -------------------------
(***************************************************************************)
(* core.Engine implements HealthService, for any set of requests, any pool *)
(* of checks and any number of registrations.  The step that answers a     *)
(* request needs what the inductive invariant says of the finished         *)
(* response; every other step maps to one abstract step or to none.        *)
(***************************************************************************)
EXTENDS EngineService, EngineProofs

\* The three slices are all there is to the scopes.
LEMMA ScopesSame ==
  ASSUME UNCHANGED <<livez, readyz, healthz>>
  PROVE  scopeBar' = scopeBar
  BY DEF scopeBar, Scope

\* What is seen of the checks changes only when a goroutine stores.
LEMMA SeenSame ==
  ASSUME \A r \in Requests, i \in Slots :
           /\ gor'[r][i] \in {"stored", "finished"} <=> gor[r][i] \in {"stored", "finished"}
           /\ runResults'[r][i] = runResults[r][i]
  PROVE  seenBar' = seenBar
<1>1. \A r \in Requests, i \in Slots :
        (IF gor'[r][i] \in {"stored", "finished"} THEN {runResults'[r][i]} ELSE {})
          = (IF gor[r][i] \in {"stored", "finished"} THEN {runResults[r][i]} ELSE {})
  OBVIOUS
<1>2. \A r \in Requests :
        [i \in Slots |-> IF gor'[r][i] \in {"stored", "finished"} THEN {runResults'[r][i]} ELSE {}]
          = [i \in Slots |-> IF gor[r][i] \in {"stored", "finished"} THEN {runResults[r][i]} ELSE {}]
  BY <1>1, Zenon
<1>3. Slots' = Slots
  BY DEF Slots
<1> QED
  BY <1>2, <1>3, Zenon DEF seenBar

\* A reply is there from the return of the Run method on.
LEMMA ReplySame ==
  ASSUME \A r \in Requests :
           /\ pc'[r] = "done" <=> pc[r] = "done"
           /\ pc[r] = "done" => status'[r] = status[r] /\ out'[r] = out[r]
  PROVE  replyBar' = replyBar
<1>1. \A r \in Requests :
        (IF pc'[r] = "done" THEN {[status |-> status'[r], checks |-> out'[r]]} ELSE {})
          = (IF pc[r] = "done" THEN {[status |-> status[r], checks |-> out[r]]} ELSE {})
  OBVIOUS
<1> QED
  BY <1>1 DEF replyBar

LEMMA RequestsSame ==
  ASSUME UNCHANGED requestVars
  PROVE  UNCHANGED <<endpoint, seenBar, replyBar>>
<1>1. UNCHANGED <<pc, endpoint, gor, runResults, status, out>>
  BY DEF requestVars, goVars
<1> QED
  BY <1>1, SeenSame, ReplySame

LEMMA InitMaps == Init => HS!Init
<1> SUFFICES ASSUME Init PROVE HS!Init
  OBVIOUS
<1>1. scopeBar = [e \in Endpoint |-> <<>>]
  BY DEF Init, scopeBar, Scope, Endpoint
<1>2. seenBar = [r \in Requests |-> [i \in Slots |-> {}]]
  BY DEF Init, seenBar
<1>3. replyBar = [r \in Requests |-> {}]
  BY DEF Init, replyBar
<1> QED
  BY <1>1, <1>2, <1>3 DEF Init, HS!Init, HS!Endpoint, HS!Slots, Endpoint, Slots

\* A Register method adds the check to the slices its cascade names.
LEMMA RegisterMaps ==
  ASSUME NEW c \in CheckPool,
         RegisterHealthCheck(c) \/ RegisterReadinessCheck(c) \/ RegisterLivenessCheck(c)
  PROVE  HS!Next
<1>1. UNCHANGED <<endpoint, seenBar, replyBar>> /\ phase = "startup"
  BY RequestsSame DEF RegisterHealthCheck, RegisterReadinessCheck, RegisterLivenessCheck,
    RegisterWith
<1>2. CASE Reserved(c)
  <2>1. phase' = "panicked" /\ UNCHANGED <<livez, readyz, healthz>>
    BY <1>2 DEF RegisterHealthCheck, RegisterReadinessCheck, RegisterLivenessCheck,
      RegisterWith
  <2>2. HS!Refuse(c)
    BY <1>1, <1>2, <2>1, ScopesSame
      DEF HS!Refuse, Reserved, systemTimeCheckName, HS!systemTimeCheckName
  <2> QED
    BY <2>2 DEF HS!Next
<1>3. CASE ~Reserved(c)
  <2> DEFINE After(ep) == [e \in Endpoint |->
                IF e \in HS!Cascade(ep) THEN Append(scopeBar[e], c) ELSE scopeBar[e]]
  <2>1. /\ scopeBar["livez"] = livez /\ scopeBar["readyz"] = readyz
        /\ scopeBar["healthz"] = healthz
    BY DEF scopeBar, Scope, Endpoint
  <2>2. \A ep \in Endpoint : scopeBar' = After(ep) => HS!Register(c, ep)
    BY <1>1, <1>3 DEF HS!Register, HS!Endpoint, Endpoint, Reserved, systemTimeCheckName,
      HS!systemTimeCheckName, RegisterHealthCheck, RegisterReadinessCheck,
      RegisterLivenessCheck, RegisterWith
  <2>3. scopeBar' = [e \in Endpoint |-> CASE e = "livez" -> livez' [] e = "readyz" -> readyz'
                                          [] e = "healthz" -> healthz']
    BY DEF scopeBar, Scope
  <2>4. CASE RegisterHealthCheck(c)
    <3>1. healthz' = Append(healthz, c) /\ readyz' = readyz /\ livez' = livez
      BY <1>3, <2>4 DEF RegisterHealthCheck, RegisterWith
    <3>2. scopeBar' = After("healthz")
      BY <2>1, <2>3, <3>1 DEF HS!Cascade, Endpoint
    <3> QED
      BY <2>2, <3>2 DEF HS!Next, HS!Endpoint, Endpoint
  <2>5. CASE RegisterReadinessCheck(c)
    <3>1. healthz' = Append(healthz, c) /\ readyz' = Append(readyz, c) /\ livez' = livez
      BY <1>3, <2>5 DEF RegisterReadinessCheck, RegisterWith
    <3>2. scopeBar' = After("readyz")
      BY <2>1, <2>3, <3>1 DEF HS!Cascade, Endpoint
    <3> QED
      BY <2>2, <3>2 DEF HS!Next, HS!Endpoint, Endpoint
  <2>6. CASE RegisterLivenessCheck(c)
    <3>1. healthz' = Append(healthz, c) /\ readyz' = Append(readyz, c)
          /\ livez' = Append(livez, c)
      BY <1>3, <2>6 DEF RegisterLivenessCheck, RegisterWith
    <3>2. scopeBar' = After("livez")
      BY <2>1, <2>3, <3>1 DEF HS!Cascade, Endpoint
    <3> QED
      BY <2>2, <3>2 DEF HS!Next, HS!Endpoint, Endpoint
  <2> QED
    BY <2>4, <2>5, <2>6
<1> QED
  BY <1>2, <1>3

\* A goroutine that exists belongs to a check of the endpoint that was asked.
LEMMA GoroutineOfScope ==
  ASSUME IInv, NEW r \in Requests, NEW i \in Slots, gor[r][i] # "none"
  PROVE  /\ endpoint[r] \in Endpoint /\ i \in 1..Len(checks[r])
         /\ scopeBar[endpoint[r]] = checks[r]
<1>1. spawned[r] \in Nat /\ i \in Nat /\ i <= spawned[r] /\ spawned[r] <= Len(checks[r])
      /\ i >= 1
  BY DEF IInv, TypeOK, RequestInv, SpawnInv, Slots
<1>2. checks[r] \in Seq(Check)
  BY DEF IInv, TypeOK
<1>3. i \in 1..Len(checks[r])
  BY <1>1, <1>2
<1>4. pc[r] # "idle"
  BY <1>1 DEF IInv, RequestInv, SnapshotInv
<1>5. endpoint[r] \in Endpoint /\ checks[r] = Scope(endpoint[r])
  BY <1>4 DEF IInv, RequestInv, SnapshotInv
<1> QED
  BY <1>3, <1>5 DEF scopeBar

\* A Run method that begins is a request for its endpoint.
LEMMA BeginMaps ==
  ASSUME IInv, NEW r \in Requests, NEW ep \in Endpoint, NEW slice, Begin(r, ep, slice)
  PROVE  HS!Next
<1>1. /\ phase = "serving" /\ pc[r] = "idle" /\ endpoint[r] = "none"
      /\ endpoint' = [endpoint EXCEPT ![r] = ep]
      /\ UNCHANGED <<phase, livez, readyz, healthz, gor, runResults, status>>
  BY DEF Begin, IInv, RequestInv, SnapshotInv, engineVars, goVars
<1>2. \A q \in Requests :
        /\ pc'[q] = "done" <=> pc[q] = "done"
        /\ pc[q] = "done" => status'[q] = status[q] /\ out'[q] = out[q]
  BY <1>1 DEF Begin, IInv, TypeOK
<1>3. UNCHANGED <<scopeBar, seenBar, replyBar>>
  BY <1>1, <1>2, ScopesSame, SeenSame, ReplySame
<1>4. HS!Ask(r, ep)
  BY <1>1, <1>3 DEF HS!Ask
<1> QED
  BY <1>4 DEF HS!Next, HS!Endpoint, Endpoint

\* A goroutine that stores is the one observation of its check.
LEMMA StoreMaps ==
  ASSUME IInv, NEW r \in Requests, NEW i \in Slots,
         RunOneNil(r, i) \/ RunReturns(r, i)
  PROVE  HS!Next
<1>1. /\ gor[r][i] \in {"ready", "running"}
      /\ UNCHANGED <<phase, livez, readyz, healthz, pc, endpoint, out, status>>
  BY DEF RunOneNil, RunReturns, goFrame, engineVars
<1>2. UNCHANGED <<scopeBar, replyBar>>
  BY <1>1, ScopesSame, ReplySame
<1>3. /\ endpoint[r] \in Endpoint /\ i \in 1..Len(checks[r])
      /\ scopeBar[endpoint[r]] = checks[r]
  BY <1>1, GoroutineOfScope
<1>4. PICK rs \in (IF checks[r][i].run THEN Outcomes ELSE {nilRunResults}) : Store(r, i, rs)
  <2>1. CASE RunOneNil(r, i)
    BY <2>1 DEF RunOneNil
  <2>2. CASE RunReturns(r, i)
    <3>1. checks[r][i].run
      BY <1>1, <2>2 DEF RunReturns, IInv, RequestInv, StoreInv
    <3> QED
      BY <2>2, <3>1 DEF RunReturns
  <2> QED
    BY <2>1, <2>2
<1>5. seenBar[r][i] = {}
  BY <1>1 DEF seenBar
<1>6. seenBar' = [seenBar EXCEPT ![r][i] = {rs}]
  <2>1. /\ gor \in [Requests -> [Slots -> Gor]]
        /\ runResults \in [Requests -> [Slots -> Seq(Result)]]
        /\ gor' = [gor EXCEPT ![r][i] = "stored"]
        /\ runResults' = [runResults EXCEPT ![r][i] = rs]
    BY <1>4 DEF Store, IInv, TypeOK
  <2>2. seenBar \in [Requests -> [Slots -> {{}} \cup {{x} : x \in Seq(Result)}]]
    BY <2>1, Zenon DEF seenBar
  <2>3. ASSUME NEW q \in Requests, NEW j \in Slots
        PROVE  seenBar'[q][j] = [seenBar EXCEPT ![r][i] = {rs}][q][j]
    <3>1. seenBar'[q][j] =
            (IF gor'[q][j] \in {"stored", "finished"} THEN {runResults'[q][j]} ELSE {})
      BY DEF seenBar
    <3>2. CASE q = r /\ j = i
      BY <2>1, <2>2, <3>1, <3>2
    <3>3. CASE ~(q = r /\ j = i)
      <4>1. gor'[q][j] = gor[q][j] /\ runResults'[q][j] = runResults[q][j]
        BY <2>1, <3>3
      <4>2. seenBar'[q][j] = seenBar[q][j]
        BY <3>1, <4>1 DEF seenBar
      <4> QED
        BY <2>2, <3>3, <4>2
    <3> QED
      BY <3>2, <3>3
  <2> DEFINE after == [seenBar EXCEPT ![r][i] = {rs}]
  <2>4. /\ seenBar' = [q \in Requests |-> seenBar'[q]]
        /\ after = [q \in Requests |-> after[q]]
    BY DEF seenBar
  <2>5. \A q \in Requests : /\ seenBar'[q] = [j \in Slots |-> seenBar'[q][j]]
                            /\ after[q] = [j \in Slots |-> after[q][j]]
    BY <2>2 DEF seenBar
  <2> HIDE DEF after
  <2>6. \A q \in Requests : seenBar'[q] = after[q]
    BY <2>3, <2>5 DEF after
  <2>7. seenBar' = after
    BY <2>4, <2>6
  <2> QED
    BY <2>7 DEF after
<1>7. HS!Observe(r, i)
  BY <1>1, <1>2, <1>3, <1>4, <1>5, <1>6 DEF HS!Observe, HS!Checks, HS!Endpoint, Endpoint,
    nilRunResults, HS!nilRunResults, StatusFail, HS!StatusFail
<1> QED
  BY <1>7 DEF HS!Next, HS!Slots, Slots

\* A Run method that returns answers the request with what the checks said.
LEMMA RespondMaps ==
  ASSUME IInv, IInv', NEW r \in Requests, Respond(r)
  PROVE  HS!Next
<1>1. /\ pc[r] = "merged" /\ pc'[r] = "done" /\ pc' = [pc EXCEPT ![r] = "done"]
      /\ UNCHANGED <<phase, livez, readyz, healthz, endpoint, checks, gor, runResults, out>>
      /\ status' = [status EXCEPT ![r] = aggregate(out[r])]
  BY DEF Respond, IInv, TypeOK, engineVars, goVars
<1>2. UNCHANGED <<scopeBar, seenBar>>
  BY <1>1, ScopesSame, SeenSame
<1>3. /\ endpoint[r] \in Endpoint /\ scopeBar[endpoint[r]] = checks[r]
      /\ checks[r] = Scope(endpoint[r]) /\ checks[r] \in Seq(Check)
  BY <1>1 DEF IInv, TypeOK, RequestInv, SnapshotInv, scopeBar
<1>4. \A i \in 1..Len(checks[r]) : i \in Slots /\ seenBar[r][i] = {runResults[r][i]}
  <2>1. /\ spawned[r] = Len(checks[r]) /\ spawned[r] \in 0..MaxChecks /\ Active(r) = {}
        /\ gor[r] \in [Slots -> Gor]
        /\ \A i \in Slots : gor[r][i] = "none" <=> i > spawned[r]
    BY <1>1 DEF IInv, TypeOK, RequestInv, SpawnInv, BarrierInv
  <2> SUFFICES ASSUME NEW i \in 1..Len(checks[r])
               PROVE  i \in Slots /\ seenBar[r][i] = {runResults[r][i]}
    OBVIOUS
  <2>2. i \in Slots /\ ~(i > spawned[r])
    BY <2>1, EngineAssumption DEF Slots
  <2>3. gor[r][i] = "finished"
    BY <2>1, <2>2 DEF Active, Gor
  <2> QED
    BY <2>2, <2>3 DEF seenBar
<1> DEFINE doc == [status |-> status'[r], checks |-> out[r]]
<1>5. replyBar[r] = {} /\ replyBar' = [replyBar EXCEPT ![r] = {doc}]
  <2>1. replyBar[r] = {}
    BY <1>1 DEF replyBar
  <2>2. \A q \in Requests :
          (IF pc'[q] = "done" THEN {[status |-> status'[q], checks |-> out'[q]]} ELSE {})
            = IF q = r THEN {doc} ELSE replyBar[q]
    BY <1>1 DEF replyBar, IInv, TypeOK
  <2>3. replyBar' = [q \in Requests |-> IF q = r THEN {doc} ELSE replyBar[q]]
    BY <2>2 DEF replyBar
  <2> QED
    BY <2>1, <2>3 DEF replyBar
<1>6. VerdictExact' /\ ResponseExact' /\ HeartbeatIntact'
  <2>1. (IInv => VerdictExact)' /\ (IInv => ResponseExact)'
    BY IInvVerdict, IInvResponse, PTL
  <2>2. HeartbeatIntact'
    BY DEF HeartbeatIntact, IInv, RequestInv, OutInv
  <2> QED
    BY <2>1, <2>2
<1>7. HS!Documents(doc, r)
  <2>0. /\ HS!Checks(r) = checks[r] /\ Scope(endpoint[r])' = checks[r]
        /\ doc.status = status'[r] /\ doc.checks = out[r]
    BY <1>1, <1>3 DEF HS!Checks, Scope
  <2>1. Lookup(out[r], systemTimeCheckName) = <<systemTimeStatus>>
    BY <1>1, <1>6 DEF HeartbeatIntact, Lookup
  <2>2. status'[r] = HS!Verdict(r)
    <3>1. ASSUME NEW s PROVE HS!Said(r, s) <=> Observed(r, s)'
      <4>1. HS!Said(r, s) <=> \E i \in 1..Len(checks[r]) : \E k \in 1..Len(runResults[r][i]) :
              runResults[r][i][k].status = s
        BY <2>0, <1>4 DEF HS!Said
      <4> QED
        BY <4>1, <2>0, <1>1 DEF Observed
    <3>2. status'[r] = IF Observed(r, StatusFail)' THEN StatusFail
                       ELSE IF Observed(r, StatusWarn)' THEN StatusWarn
                       ELSE StatusPass
      BY <1>1, <1>6 DEF VerdictExact, StatusFail, StatusWarn, StatusPass
    <3> QED
      BY <3>1, <3>2 DEF HS!Verdict, HS!StatusFail, HS!StatusWarn, HS!StatusPass,
        StatusFail, StatusWarn, StatusPass
  <2> DEFINE shown == [i \in 1..Len(checks[r]) |-> Shown(checks[r][i], runResults[r][i])]
  <2>3. \A n \in Name \ {systemTimeCheckName} :
          /\ Concatenates(Lookup(out[r], n), n, checks[r], shown, Len(checks[r]))
          /\ n \in DOMAIN out[r] => out[r][n] # <<>>
    BY <1>1, <1>6, <2>0 DEF ResponseExact
  <2>4. HS!ShownBy(r) = shown
    <3>1. \A i \in 1..Len(checks[r]) : (CHOOSE rs \in seenBar[r][i] : TRUE) = runResults[r][i]
      BY <1>4
    <3>2. \A i \in 1..Len(checks[r]) :
            HS!Shown(checks[r][i], CHOOSE rs \in seenBar[r][i] : TRUE)
              = Shown(checks[r][i], runResults[r][i])
      BY <3>1 DEF HS!Shown, Shown, HS!StatusPass, StatusPass
    <3> QED
      BY <2>0, <3>2 DEF HS!ShownBy
  <2> HIDE DEF shown, doc
  <2>5. \A n \in Name \ {systemTimeCheckName} :
          /\ HS!Concatenates(HS!Lookup(out[r], n), n, checks[r], shown, Len(checks[r]))
          /\ n \in DOMAIN out[r] => out[r][n] # <<>>
    BY <2>3, Zenon DEF HS!Concatenates, Concatenates, HS!Lookup, Lookup
  <2>6. HS!systemTimeCheckName = systemTimeCheckName /\ HS!systemTimeStatus = systemTimeStatus
    BY DEF HS!systemTimeCheckName, systemTimeCheckName, HS!systemTimeStatus, systemTimeStatus,
      HS!StatusPass, StatusPass
  <2>7. HS!Lookup(doc.checks, HS!systemTimeCheckName) = <<HS!systemTimeStatus>>
    BY <2>0, <2>1, <2>6, Zenon DEF HS!Lookup, Lookup
  <2> QED
    BY <2>0, <2>2, <2>4, <2>5, <2>6, <2>7 DEF HS!Documents
<1> HIDE DEF doc
<1>8. HS!Answer(r)
  <2>1. doc \in replyBar'[r]
    BY <1>5 DEF replyBar
  <2>2. \A i \in 1..Len(HS!Checks(r)) : seenBar[r][i] # {}
    BY <1>3, <1>4 DEF HS!Checks
  <2>3. UNCHANGED <<phase, scopeBar, endpoint, seenBar>>
    BY <1>1, <1>2
  <2>4. endpoint[r] \in HS!Endpoint
    BY <1>3 DEF HS!Endpoint, Endpoint
  <2>5. \E d \in replyBar'[r] : HS!Documents(d, r) /\ replyBar' = [replyBar EXCEPT ![r] = {d}]
    BY <2>1, <1>5, <1>7
  <2> QED
    BY <1>5, <2>2, <2>3, <2>4, <2>5 DEF HS!Answer
<1> QED
  BY <1>8 DEF HS!Next

\* The remaining steps of a request and of its goroutines do not show.
LEMMA HiddenSteps ==
  ASSUME IInv, NEW r \in Requests,
         \/ Launch(r) \/ Wait(r) \/ Merge(r) \/ Cancel(r)
         \/ \E i \in Slots : RunOneCall(r, i) \/ DeadlineExceeded(r, i) \/ WgDone(r, i)
  PROVE  UNCHANGED HS!serviceVars
<1>1. UNCHANGED <<phase, livez, readyz, healthz, endpoint, runResults, status>>
  BY DEF Launch, Wait, Merge, Cancel, RunOneCall, DeadlineExceeded, WgDone, goFrame,
    engineVars, goVars
<1>2. replyBar' = replyBar
  <2>1. \A q \in Requests : /\ pc'[q] = "done" <=> pc[q] = "done"
                            /\ pc[q] = "done" => out'[q] = out[q]
    BY DEF Launch, Launches, Wait, Waited, Merge, Cancel, RunOneCall, DeadlineExceeded,
      WgDone, goFrame, IInv, TypeOK
  <2> QED
    BY <1>1, <2>1, ReplySame
<1>3. seenBar' = seenBar
  <2>1. gor \in [Requests -> [Slots -> Gor]]
    BY DEF IInv, TypeOK
  <2>2. CASE Launch(r)
    <3>1. spawned[r] + 1 \in Slots => gor[r][spawned[r] + 1] = "none"
      <4>1. spawned[r] \in 0..MaxChecks
        BY DEF IInv, TypeOK
      <4> QED
        BY <4>1, EngineAssumption DEF IInv, RequestInv, SpawnInv, Slots
    <3>2. gor' = [gor EXCEPT ![r][spawned[r] + 1] = "ready"]
      BY <2>2 DEF Launch
    <3> QED
      BY <1>1, <2>1, <3>1, <3>2, SeenSame
  <2>3. CASE Wait(r) \/ Merge(r) \/ Cancel(r)
    BY <1>1, <2>3, SeenSame DEF Wait, Merge, Cancel, goVars
  <2>4. ASSUME NEW i \in Slots, RunOneCall(r, i) \/ DeadlineExceeded(r, i) \/ WgDone(r, i)
        PROVE  seenBar' = seenBar
    BY <1>1, <2>1, <2>4, SeenSame DEF RunOneCall, DeadlineExceeded, WgDone
  <2> QED
    BY <2>2, <2>3, <2>4
<1> QED
  BY <1>1, <1>2, <1>3, ScopesSame DEF HS!serviceVars

LEMMA StepMaps ==
  IInv /\ IInv' /\ [Next]_vars => [HS!Next]_(HS!serviceVars)
<1> SUFFICES ASSUME IInv, IInv', [Next]_vars PROVE [HS!Next]_(HS!serviceVars)
  OBVIOUS
<1>1. CASE Register
  BY <1>1, RegisterMaps DEF Register
<1>2. CASE Serve
  <2>1. UNCHANGED <<scopeBar, endpoint, seenBar, replyBar>>
    BY <1>2, ScopesSame, RequestsSame DEF Serve
  <2> QED
    BY <1>2, <2>1 DEF Serve, HS!Next, HS!Open
<1>3. ASSUME NEW r \in Requests, Request(r) PROVE [HS!Next]_(HS!serviceVars)
  <2>1. CASE RunLivez(r) \/ RunReadyz(r) \/ RunHealthz(r)
    BY <2>1, BeginMaps DEF RunLivez, RunReadyz, RunHealthz, Endpoint
  <2>2. CASE Respond(r)
    BY <2>2, RespondMaps
  <2>3. CASE Launch(r) \/ Wait(r) \/ Merge(r) \/ Cancel(r)
    BY <2>3, HiddenSteps
  <2> QED
    BY <1>3, <2>1, <2>2, <2>3 DEF Request
<1>4. ASSUME NEW r \in Requests, NEW i \in Slots, Goroutine(r, i)
      PROVE  [HS!Next]_(HS!serviceVars)
  BY <1>4, StoreMaps, HiddenSteps DEF Goroutine
<1>5. CASE UNCHANGED vars
  <2>1. UNCHANGED <<phase, livez, readyz, healthz>> /\ UNCHANGED requestVars
    BY <1>5 DEF vars, engineVars
  <2> QED
    BY <2>1, ScopesSame, RequestsSame DEF HS!serviceVars
<1> QED
  BY <1>1, <1>2, <1>3, <1>4, <1>5 DEF Next, Terminated

\* The Engine implements the abstract service, for any number of requests,
\* checks and outcomes and any interleaving of the goroutines (core.Engine).
THEOREM Implementation == Spec => ImplementsService
  BY InitMaps, StepMaps, IInvInvariant, PTL DEF Spec, ImplementsService, HS!Spec
=============================================================================
