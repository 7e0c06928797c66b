---------------------------- MODULE HealthService ----------------------------
(***************************************************************************)
(* What the health service promises, with no goroutine, WaitGroup, timer,  *)
(* merge loop or context in it: a request asks for one endpoint, each      *)
(* check of that endpoint's scope is observed exactly once for this        *)
(* request, in any order, and one document answers it, which shows exactly *)
(* these observations and takes its status from them.  Module              *)
(* EngineService shows that core.Engine implements this specification.     *)
(***************************************************************************)
EXTENDS Health

CONSTANTS Requests, CheckPool, Outcomes, MaxChecks

VARIABLES
  phase,  \* "startup", "serving", or "panicked"
  scope,  \* the checks of each endpoint, in registration order
  asked,  \* the endpoint each request asked for, or "none"
  seen,   \* for each request and check: {} or {what the check reported}
  reply   \* for each request: {} or {the document}

serviceVars == <<phase, scope, asked, seen, reply>>

Slots    == 1..MaxChecks
Endpoint == {"livez", "readyz", "healthz"}

Init ==
  /\ phase = "startup"
  /\ scope = [e \in Endpoint |-> <<>>]
  /\ asked = [r \in Requests |-> "none"]
  /\ seen  = [r \in Requests |-> [i \in Slots |-> {}]]
  /\ reply = [r \in Requests |-> {}]

\* What gates liveness gates readiness, and both are on the dashboard.
Cascade(ep) == CASE ep = "livez"   -> {"livez", "readyz", "healthz"}
                 [] ep = "readyz"  -> {"readyz", "healthz"}
                 [] ep = "healthz" -> {"healthz"}

Register(c, ep) ==
  /\ phase = "startup" /\ c.name # systemTimeCheckName
  /\ scope' = [e \in Endpoint |->
                 IF e \in Cascade(ep) THEN Append(scope[e], c) ELSE scope[e]]
  /\ UNCHANGED <<phase, asked, seen, reply>>

\* The name of the heartbeat is refused, and the service does not start.
Refuse(c) ==
  /\ phase = "startup" /\ c.name = systemTimeCheckName
  /\ phase' = "panicked"
  /\ UNCHANGED <<scope, asked, seen, reply>>

Open ==
  /\ phase = "startup" /\ phase' = "serving"
  /\ UNCHANGED <<scope, asked, seen, reply>>

Ask(r, ep) ==
  /\ phase = "serving" /\ asked[r] = "none"
  /\ asked' = [asked EXCEPT ![r] = ep]
  /\ UNCHANGED <<phase, scope, seen, reply>>

Checks(r) == scope[asked[r]]

\* The i-th check of the endpoint has its say, once; a check without a Run
\* function always fails.
Observe(r, i) ==
  /\ asked[r] \in Endpoint /\ i \in 1..Len(Checks(r)) /\ seen[r][i] = {}
  /\ \E rs \in (IF Checks(r)[i].run THEN Outcomes ELSE {nilRunResults}) :
       seen' = [seen EXCEPT ![r][i] = {rs}]
  /\ UNCHANGED <<phase, scope, asked, reply>>

Said(r, s) ==
  \E i \in 1..Len(Checks(r)) : \E rs \in seen[r][i] :
    \E k \in 1..Len(rs) : rs[k].status = s

Verdict(r) == IF Said(r, StatusFail) THEN StatusFail
              ELSE IF Said(r, StatusWarn) THEN StatusWarn
              ELSE StatusPass

\* What each check said, as a client sees it.
ShownBy(r) ==
  [i \in 1..Len(Checks(r)) |-> Shown(Checks(r)[i], CHOOSE rs \in seen[r][i] : TRUE)]

\* The document shows the heartbeat and what each check said, by name and in
\* registration order.
Documents(doc, r) ==
  /\ doc.status = Verdict(r)
  /\ Lookup(doc.checks, systemTimeCheckName) = <<systemTimeStatus>>
  /\ \A n \in Name \ {systemTimeCheckName} :
       /\ Concatenates(Lookup(doc.checks, n), n, Checks(r), ShownBy(r), Len(Checks(r)))
       /\ n \in DOMAIN doc.checks => doc.checks[n] # <<>>

Answer(r) ==
  /\ asked[r] \in Endpoint /\ reply[r] = {}
  /\ \A i \in 1..Len(Checks(r)) : seen[r][i] # {}
  /\ \E doc \in reply'[r] : /\ Documents(doc, r)
                            /\ reply' = [reply EXCEPT ![r] = {doc}]
  /\ UNCHANGED <<phase, scope, asked, seen>>

Next ==
  \/ \E c \in CheckPool : Refuse(c) \/ \E ep \in Endpoint : Register(c, ep)
  \/ Open
  \/ \E r \in Requests : \/ \E ep \in Endpoint : Ask(r, ep)
                         \/ \E i \in Slots : Observe(r, i)
                         \/ Answer(r)

Spec == Init /\ [][Next]_serviceVars
=============================================================================
