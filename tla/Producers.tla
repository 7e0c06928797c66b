------------------------------ MODULE Producers -----------------------------
(***************************************************************************)
(* The checks that ship with the framework and inspect one component:      *)
(* dbcheck, s3check, redischeck.New, tcpcheck and httpcheck.  A probe      *)
(* calls the Run function of one of them again and again, one call at a    *)
(* time, each with a context bounded by the check's Timeout; between the   *)
(* calls stay the connections Run has left behind.                         *)
(*                                                                         *)
(* The dependency may answer, refuse, or never answer.  Connection pools   *)
(* of database drivers and SDKs are theirs; the connections of tcpcheck    *)
(* and httpcheck are opened and released by the code here.                 *)
(***************************************************************************)
EXTENDS Health

CONSTANTS
  Target,  \* the address or url the check was built with
  Code     \* HTTP status codes a server may answer with

ASSUME ProducersAssumption ==
  /\ Target \in ComponentId /\ Code \subseteq Nat /\ 0 \notin Code
  /\ {"component", "datastore"} \subseteq ComponentType
  /\ {"database:connections", "storage", "redis:ping", "tcp", "http"} \subseteq Name

VARIABLES
  kind,   \* which check
  pc,     \* "idle" between probes, then where Run is, "returned" at its end
  ctx,    \* Run's context: "live" or "done"
  code,   \* resp.StatusCode, 0 without a response
  body,   \* the response body: "none", "drained" or "broken"
  fault,  \* "error" once a call Run made to the dependency has failed
  inUse,  \* connections opened and not yet released
  pooled, \* idle connections in the http.Client's pool
  out     \* what Run returns

local == <<code, body, fault>>
conns == <<inUse, pooled>>
vars  == <<kind, pc, ctx, local, conns, out>>

NewCheck(name, type, seconds) ==
  [name |-> name, componentType |-> type, timeout |-> seconds, run |-> TRUE]

dbcheckNew    == NewCheck("database:connections", "datastore", 2)
s3checkNew    == NewCheck("storage", "datastore", 5)
redischeckNew == NewCheck("redis:ping", "datastore", 1)
tcpcheckNew   == NewCheck("tcp", "component", 2)
httpcheckNew  == NewCheck("http", "component", 5)

New == [db |-> dbcheckNew, s3 |-> s3checkNew, redis |-> redischeckNew,
        tcp |-> tcpcheckNew, http |-> httpcheckNew]

Init ==
  /\ kind \in DOMAIN New
  /\ pc = "idle" /\ ctx = "live"
  /\ code = 0 /\ body = "none" /\ fault = "none"
  /\ inUse = 0 /\ pooled = 0
  /\ out = <<>>

\* runOne calls Run, for this probe or the next one.
Probe ==
  /\ pc \in {"idle", "returned"}
  /\ pc' = "run" /\ ctx' = "live"
  /\ code' = 0 /\ body' = "none" /\ fault' = "none" /\ out' = <<>>
  /\ UNCHANGED <<kind, conns>>

\* The Timeout passes, or the caller gives up (external: package context).
ContextDone ==
  /\ pc \notin {"idle", "returned"} /\ ctx = "live"
  /\ ctx' = "done"
  /\ UNCHANGED <<kind, pc, local, conns, out>>

\* The server or the pool closes a connection that is idle (external).
PoolEvicts ==
  /\ pooled > 0
  /\ pooled' = pooled - 1
  /\ UNCHANGED <<kind, pc, ctx, local, inUse, out>>

-----------------------------------------------------------------------------
\* Mutation: a failure comes without the text of its error.
ReturnsSilent(id, s) ==
  /\ out' = << [componentId |-> id, status |-> s, output |-> FALSE, affected |-> FALSE] >>
  /\ pc' = "returned"

Returns(id, s) ==
  /\ out' = << [componentId |-> id, status |-> s,
                output |-> s = StatusFail, affected |-> FALSE] >>
  /\ pc' = "returned"

\* Run makes one call, which returns an error or not, and reports that.
ReportsCall(id) ==
  /\ pc = "run"
  /\ \/ fault' = "error" /\ Returns(id, StatusFail)
     \/ fault' = "none"  /\ Returns(id, StatusPass)
  /\ UNCHANGED <<kind, ctx, code, body, conns>>

PingContext == kind = "db" /\ ReportsCall("")
HeadBucket  == kind = "s3" /\ ReportsCall("")
Ping        == kind = "redis" /\ ReportsCall(Target)

DialContext ==
  /\ kind = "tcp" /\ pc = "run"
  /\ \/ /\ fault' = "error" /\ Returns(Target, StatusFail)
        /\ UNCHANGED inUse
     \/ /\ inUse' = inUse + 1 /\ pc' = "close"
        /\ UNCHANGED <<fault, out>>
  /\ UNCHANGED <<kind, ctx, code, body, pooled>>

\* conn.Close(), whose error is dropped, and the return.
CloseConn ==
  /\ pc = "close"
  /\ inUse' = inUse - 1
  /\ Returns(Target, StatusPass)
  /\ UNCHANGED <<kind, ctx, local, pooled>>

-----------------------------------------------------------------------------
(***************************************************************************)
(* httpcheck: NewRequestWithContext, Do, the drain of the body, and the    *)
(* look at the status code, each with its early return.                    *)
(***************************************************************************)
NewRequest ==
  /\ kind = "http" /\ pc = "run"
  /\ \/ /\ Returns(Target, StatusFail)   \* the url does not parse
     \/ /\ pc' = "do"
        /\ UNCHANGED out
  /\ UNCHANGED <<kind, ctx, local, conns>>

\* Do takes a pooled connection if there is one, and returns at the header of
\* the response.  On an error it keeps no connection (PoolEvicts closes the one
\* it may have tried).
Do ==
  /\ pc = "do"
  /\ \/ /\ fault' = "error" /\ Returns(Target, StatusFail)
        /\ UNCHANGED <<code, conns>>
     \/ /\ code' \in Code /\ pc' = "drain"
        /\ inUse' = inUse + 1
        /\ pooled' = IF pooled > 0 THEN pooled - 1 ELSE 0
        /\ UNCHANGED <<fault, out>>
  /\ UNCHANGED <<kind, ctx, body>>

\* io.Copy reaches the end of the body, at which the transport takes the
\* connection back, or fails; its error is dropped.
Drain ==
  /\ pc = "drain" /\ pc' = "judge"
  /\ \/ /\ body' = "drained"
        /\ inUse' = inUse - 1 /\ pooled' = pooled + 1
        /\ UNCHANGED fault
     \/ /\ body' = "broken" /\ fault' = "error"
        /\ UNCHANGED conns
  /\ UNCHANGED <<kind, ctx, code, out>>

\* Mutation: every answer but a server error passes.
AcceptedLax(c) == c >= 200 /\ c < 500

Accepted(c) == c >= 200 /\ c < 400

\* Mutation: the deferred resp.Body.Close() is missing.
ClosedNone == 0

\* Connections the deferred resp.Body.Close() closes: one whose body was not
\* read to its end.
Closed == IF body = "broken" THEN 1 ELSE 0

\* The verdict, and the deferred Close.
Judge ==
  /\ pc = "judge"
  /\ Returns(Target, IF Accepted(code) THEN StatusPass ELSE StatusFail)
  /\ inUse' = inUse - Closed
  /\ UNCHANGED <<kind, ctx, local, pooled>>

-----------------------------------------------------------------------------
\* The steps that wait for the dependency, and the ones that do not.
Remote == PingContext \/ HeadBucket \/ Ping \/ DialContext \/ Do \/ Drain
Local  == CloseConn \/ NewRequest \/ Judge

\* Mutation: the calls are made without Run's context.
GivesUpDetached == FALSE /\ Remote

\* Every remote call gets Run's context (the body read gets the request's), and
\* so ends once that is done.
GivesUp == ctx = "done" /\ Remote

Next == Probe \/ ContextDone \/ PoolEvicts \/ Remote \/ Local

Spec == Init /\ [][Next]_vars

(***************************************************************************)
(* The scheduler runs Run, the Timeout of the check fires, and a call      *)
(* whose context is done returns.  The dependency need not ever answer and *)
(* no further probe need ever come.                                        *)
(***************************************************************************)
FairSpec ==
  /\ Spec
  /\ WF_vars(Local) /\ WF_vars(GivesUp)
  /\ WF_vars(New[kind].timeout > 0 /\ ContextDone)

-----------------------------------------------------------------------------
ProducersTypeOK ==
  /\ kind \in DOMAIN New
  /\ pc \in {"idle", "run", "close", "do", "drain", "judge", "returned"}
  /\ ctx \in {"live", "done"}
  /\ code \in Code \cup {0} /\ body \in {"none", "drained", "broken"}
  /\ fault \in {"none", "error"}
  /\ inUse \in 0..1 /\ pooled \in 0..1
  /\ out \in Seq(Result)

\* A connection is in use exactly while Run holds it, and there is at most one:
\* consecutive probes take turns with it.
ConnInv ==
  /\ inUse = IF pc \in {"close", "drain"} \/ (pc = "judge" /\ body = "broken")
             THEN 1 ELSE 0
  /\ inUse + pooled <= 1

\* What is known at each step of the early-return chain.
PathInv ==
  /\ pc \in {"run", "do"} => code = 0 /\ fault = "none"
  /\ pc = "close" => kind = "tcp" /\ fault = "none"
  /\ pc \in {"do", "drain", "judge"} => kind = "http"
  /\ pc \in {"drain", "judge"} => code \in Code
  /\ kind # "http" => pooled = 0

\* What the dependency itself did, whatever Run made of it.
Healthy == IF kind = "http" THEN code \in 200..399 ELSE fault = "none"

\* The response of an Engine with this check alone.
Response == merge([k \in {systemTimeCheckName} |-> <<systemTimeStatus>>],
                  New[kind].name, convert(New[kind], out))

\* After every probe the response fails exactly when the dependency did, and
\* the one entry of the check explains a failure: no early return reports
\* another's outcome, and an HTTP answer counts by the class of its code however
\* the rest of the exchange ended.
ReportHonest ==
  pc = "returned" =>
    /\ aggregate(Response) = IF Healthy THEN StatusPass ELSE StatusFail
    /\ Len(out) = 1
    /\ out[1].output <=> ~Healthy

\* However many probes ran, and however each ended, none has left a connection
\* open, and at most one is kept for the next probe.
NoConnectionLeak ==
  /\ pc \in {"idle", "returned"} => inUse = 0
  /\ inUse + pooled <= 1

CR == INSTANCE CheckRun
        WITH call <- IF pc \in {"idle", "returned"} THEN pc ELSE "running",
             reported <- out,
             instances <- IF kind \in {"db", "s3"} THEN "one" ELSE "named"

\* Every call of dbcheck and of s3check keeps the whole contract of Check.Run,
\* along each of its early returns, and starts afresh after the one before;
\* those of tcpcheck, httpcheck and redischeck.New keep all of it but the rule
\* on ComponentId, which they fill in like a check of several instances.
BuiltinsImplementRun == CR!Spec

\* What the comment on Result.ComponentId says: it is left empty for
\* single-instance checks.  tcpcheck, httpcheck and redischeck.New, which report
\* one Result on one target, set it to the address or the url.
SingleInstanceUnnamed ==
  \A k \in 1..Len(out) : out[k].componentId = ""

\* With the Timeout each constructor sets, Run returns although the dependency
\* may accept the call and never answer, at the header or in the body.
RunReturns == pc = "run" ~> pc = "returned"

\* What the package comment of httpcheck says: any transport-level error, a
\* timeout included, is a failure.  The code drops the error of io.Copy.
TransportErrorFails ==
  pc = "returned" /\ fault = "error" => out[1].status = StatusFail

\* At every point of a Run, the connection count is that of the step it is in,
\* and a finished Run has told the truth.
ProducersInv == ProducersTypeOK /\ ConnInv /\ PathInv /\ ReportHonest
=============================================================================
