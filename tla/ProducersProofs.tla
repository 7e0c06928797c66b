-------------------------- MODULE ProducersProofs ---------------------------
(***************************************************************************)
(* Proofs about the built-in checks, for any target, any set of status     *)
(* codes and any number of probes.                                         *)
(***************************************************************************)
EXTENDS Producers, HealthProofs

Heartbeat == [k \in {systemTimeCheckName} |-> <<systemTimeStatus>>]

ResultFor(id, s) == [componentId |-> id, status |-> s,
                     output |-> s = StatusFail, affected |-> FALSE]

\* A slice with one element.
LEMMA OneElement ==
  ASSUME NEW S, NEW e \in S
  PROVE  /\ <<e>> \in Seq(S) /\ Len(<<e>>) = 1 /\ <<e>>[1] = e
         /\ \A k \in 1..Len(<<e>>) : k = 1 /\ <<e>>[k] = e
OBVIOUS

\* runOne's conversion of a slice with one Result.
LEMMA ConvertOne ==
  ASSUME NEW c \in Check, NEW r \in Result
  PROVE  /\ convert(c, <<r>>) \in Seq(ComponentStatus)
         /\ Len(convert(c, <<r>>)) = 1
         /\ convert(c, <<r>>)[1].status = r.status
<1> DEFINE rs == <<r>>
<1>1. rs \in Seq(Result) /\ Len(rs) = 1 /\ rs[1] = r
  BY OneElement
<1> HIDE DEF rs
<1> DEFINE list == convert(c, rs)
<1>2. /\ list \in Seq(ComponentStatus) /\ Len(list) = Len(rs)
      /\ \A k \in 1..Len(rs) : list[k].status = rs[k].status
  BY <1>1, ConvertFacts
<1> HIDE DEF list
<1>3. list \in Seq(ComponentStatus) /\ Len(list) = 1 /\ list[1].status = r.status
  BY <1>1, <1>2
<1> QED
  BY <1>3 DEF list, rs

\* The constructors produce well-typed checks.
LEMMA NewFacts ==
  ASSUME NEW k \in DOMAIN New
  PROVE  New[k] \in Check /\ New[k].name \in Key
<1>1. k \in {"db", "s3", "redis", "tcp", "http"}
  BY DEF New
<1>2. /\ dbcheckNew \in Check /\ s3checkNew \in Check /\ redischeckNew \in Check
      /\ tcpcheckNew \in Check /\ httpcheckNew \in Check
  BY ProducersAssumption DEF NewCheck, dbcheckNew, s3checkNew, redischeckNew,
     tcpcheckNew, httpcheckNew, Check, Key
<1>3. New[k] \in Check
  BY <1>1, <1>2 DEF New
<1> QED
  BY <1>3 DEF Check

\* Merging one observation, a pass or a fail, into a map that only passes gives
\* a map with the verdict of that observation.
LEMMA VerdictOfOne ==
  ASSUME NEW h, IsChecksMap(h), NEW n \in Key, NEW list \in Seq(ComponentStatus),
         \A x \in DOMAIN h : \A j \in 1..Len(h[x]) : h[x][j].status = StatusPass,
         Len(list) = 1, list[1].status \in {StatusPass, StatusFail}
  PROVE  aggregate(merge(h, n, list)) = list[1].status
<1> DEFINE m == merge(h, n, list)
<1>1. /\ \A l \in 1..Len(list) :
           n \in DOMAIN m /\ \E j \in 1..Len(m[n]) : m[n][j] = list[l]
      /\ \A x \in DOMAIN m : \A j \in 1..Len(m[x]) :
           \/ x \in DOMAIN h /\ j \in 1..Len(h[x]) /\ m[x][j] = h[x][j]
           \/ x = n /\ \E l \in 1..Len(list) : m[x][j] = list[l]
  BY MergeFacts
<1> HIDE DEF m
<1>2. Reports(m, list[1].status)
  BY <1>1 DEF Reports
<1>3. \A x \in DOMAIN m : \A j \in 1..Len(m[x]) :
        m[x][j].status \in {StatusPass, list[1].status}
  BY <1>1
<1>4. ~Reports(m, StatusWarn)
  BY <1>3 DEF Reports, StatusPass, StatusFail, StatusWarn
<1>5. list[1].status = StatusPass => ~Reports(m, StatusFail)
  BY <1>3 DEF Reports, StatusPass, StatusFail
<1>6. aggregate(m) = list[1].status
  BY <1>2, <1>4, <1>5 DEF aggregate
<1> QED
  BY <1>6 DEF m

\* The heartbeat is a map with nothing but a pass.
LEMMA HeartbeatFacts ==
  /\ IsChecksMap(Heartbeat)
  /\ \A x \in DOMAIN Heartbeat : \A j \in 1..Len(Heartbeat[x]) :
       Heartbeat[x][j].status = StatusPass
<1>1. systemTimeStatus \in ComponentStatus /\ systemTimeStatus.status = StatusPass
  BY DEF systemTimeStatus, ComponentStatus, Status, StatusPass
<1>2. /\ <<systemTimeStatus>> \in Seq(ComponentStatus)
      /\ Len(<<systemTimeStatus>>) = 1 /\ <<systemTimeStatus>>[1] = systemTimeStatus
  BY <1>1
<1>3. /\ DOMAIN Heartbeat = {systemTimeCheckName}
      /\ Heartbeat[systemTimeCheckName] = <<systemTimeStatus>>
      /\ Heartbeat = [k \in DOMAIN Heartbeat |-> Heartbeat[k]]
  BY DEF Heartbeat
<1> HIDE DEF Heartbeat
<1>4. IsChecksMap(Heartbeat)
  BY <1>2, <1>3 DEF IsChecksMap, Key
<1> QED
  BY <1>1, <1>2, <1>3, <1>4

\* A Run that ends with Returns has an honest report when the status it passes
\* is that of the dependency.
LEMMA ReturnsHonest ==
  ASSUME kind \in DOMAIN New, kind' = kind,
         NEW id \in ComponentId \cup {""}, NEW s \in {StatusPass, StatusFail},
         Returns(id, s),
         s = StatusPass <=> Healthy'
  PROVE  ReportHonest' /\ out' \in Seq(Result)
<1> DEFINE r == ResultFor(id, s)
<1>0. r \in Result /\ r.status = s
  BY DEF ResultFor, Result, Status, StatusPass, StatusFail
<1>1. r.output <=> s = StatusFail
  BY DEF ResultFor
<1>2. out' = <<r>>
  BY DEF Returns, ResultFor
<1> HIDE DEF r
<1>3. Len(out') = 1 /\ out'[1] = r /\ out' \in Seq(Result)
  BY <1>0, <1>2, OneElement
<1>4. New[kind] \in Check
  BY NewFacts
<1>5. Response' = merge(Heartbeat, New[kind].name, convert(New[kind], <<r>>))
  BY <1>2 DEF Response, Heartbeat
<1>6. aggregate(Response') = s
  <2> DEFINE list == convert(New[kind], <<r>>)
  <2>1. list \in Seq(ComponentStatus) /\ Len(list) = 1 /\ list[1].status = r.status
    BY <1>0, <1>4, ConvertOne
  <2>2. list[1].status = s
    BY <1>0, <2>1
  <2> HIDE DEF list
  <2>3. aggregate(merge(Heartbeat, New[kind].name, list)) = s
    BY <2>1, <2>2, NewFacts, HeartbeatFacts, VerdictOfOne
  <2> QED
    BY <1>5, <2>3 DEF list
<1>7. aggregate(Response)' = aggregate(Response')
  BY DEF aggregate, Reports
<1>8. s = StatusFail <=> ~Healthy'
  BY DEF StatusPass, StatusFail
<1> QED
  BY <1>1, <1>3, <1>6, <1>7, <1>8 DEF ReportHonest, StatusPass, StatusFail

\* A Run that has not returned has reported nothing yet.
LEMMA NotReturned == pc' # "returned" => ReportHonest'
BY DEF ReportHonest

\* A report stays honest while nothing it is judged by changes.
LEMMA HonestFrame ==
  ASSUME ReportHonest, UNCHANGED <<kind, pc, code, fault, out>>
  PROVE  ReportHonest'
<1>1. Response' = Response
  BY DEF Response
<1>2. aggregate(Response)' = aggregate(Response')
  BY DEF aggregate, Reports
<1>3. aggregate(Response)' = aggregate(Response)
  BY <1>1, <1>2
<1>4. Healthy' = Healthy
  BY DEF Healthy
<1> HIDE DEF Response, Healthy
<1> QED
  BY <1>3, <1>4 DEF ReportHonest

\* The inductive step, action by action.
LEMMA StepKeeps ==
  ASSUME ProducersInv, [Next]_vars
  PROVE  ProducersInv'
<1> USE DEF ProducersInv
<1>0. /\ Target \in ComponentId \cup {""} /\ StatusPass \in {StatusPass, StatusFail}
      /\ StatusFail \in {StatusPass, StatusFail} /\ StatusPass # StatusFail
      /\ 0 \notin Code /\ Code \subseteq Nat
  BY ProducersAssumption DEF StatusPass, StatusFail
<1>1. CASE Probe
  <2>1. ConnInv' /\ inUse' \in 0..1 /\ pooled' \in 0..1
    BY <1>1 DEF Probe, ProducersTypeOK, ConnInv, PathInv, conns
  <2>2. ProducersTypeOK'
    BY <1>1, <2>1 DEF Probe, ProducersTypeOK, conns
  <2>3. PathInv'
    BY <1>1, <1>0 DEF Probe, PathInv, conns
  <2>4. ReportHonest'
    BY <1>1, NotReturned DEF Probe
  <2> QED
    BY <2>1, <2>2, <2>3, <2>4
<1>2. CASE ContextDone
  BY <1>2, HonestFrame DEF ContextDone, ProducersTypeOK, ConnInv, PathInv, conns, local
<1>3. CASE PoolEvicts
  <2>1. ReportHonest'
    BY <1>3, HonestFrame DEF PoolEvicts, local
  <2> QED
    BY <2>1, <1>3 DEF PoolEvicts, ProducersTypeOK, ConnInv, PathInv, local
<1>4. ASSUME NEW id \in ComponentId \cup {""}, ReportsCall(id),
             kind \in {"db", "s3", "redis"}
      PROVE  ProducersInv'
  <2>1. ASSUME NEW s \in {StatusPass, StatusFail}, Returns(id, s),
               fault' = IF s = StatusPass THEN "none" ELSE "error"
        PROVE  ProducersInv'
    <3>1. s = StatusPass <=> Healthy'
      BY <1>4, <2>1 DEF ReportsCall, Healthy
    <3>2. ReportHonest' /\ out' \in Seq(Result)
      BY <1>4, <2>1, <3>1, ReturnsHonest DEF ReportsCall, ProducersTypeOK
    <3> QED
      BY <1>4, <2>1, <3>2 DEF ReportsCall, Returns, ProducersTypeOK, ConnInv, PathInv, conns
  <2> QED
    BY <1>0, <1>4, <2>1 DEF ReportsCall
<1>5. CASE PingContext
  BY <1>4, <1>5 DEF PingContext
<1>6. CASE HeadBucket
  BY <1>4, <1>6 DEF HeadBucket
<1>7. CASE Ping
  BY <1>0, <1>4, <1>7 DEF Ping
<1>8. CASE DialContext
  <2>1. CASE fault' = "error" /\ Returns(Target, StatusFail) /\ UNCHANGED inUse
    <3>1. ~Healthy'
      BY <1>8, <2>1 DEF DialContext, Healthy
    <3>2. ReportHonest' /\ out' \in Seq(Result)
      BY <1>0, <1>8, <2>1, <3>1, ReturnsHonest DEF DialContext, ProducersTypeOK
    <3> QED
      BY <1>8, <2>1, <3>2 DEF DialContext, Returns, ProducersTypeOK, ConnInv, PathInv
  <2>2. CASE inUse' = inUse + 1 /\ pc' = "close" /\ UNCHANGED <<fault, out>>
    <3>1. ConnInv' /\ inUse' \in 0..1 /\ pooled' \in 0..1
      BY <1>8, <2>2 DEF DialContext, ProducersTypeOK, ConnInv, PathInv
    <3>2. ProducersTypeOK'
      BY <1>8, <2>2, <3>1 DEF DialContext, ProducersTypeOK
    <3>3. PathInv'
      BY <1>8, <2>2, <1>0 DEF DialContext, PathInv
    <3>4. ReportHonest'
      BY <1>8, <2>2, NotReturned DEF DialContext
    <3> QED
      BY <3>1, <3>2, <3>3, <3>4
  <2> QED
    BY <1>8, <2>1, <2>2 DEF DialContext
<1>9. CASE CloseConn
  <2>1. Healthy'
    BY <1>9 DEF CloseConn, Healthy, PathInv, local
  <2>2. ReportHonest' /\ out' \in Seq(Result)
    BY <1>0, <1>9, <2>1, ReturnsHonest DEF CloseConn, ProducersTypeOK, PathInv
  <2> QED
    BY <1>9, <2>2 DEF CloseConn, Returns, ProducersTypeOK, ConnInv, PathInv, local
<1>10. CASE NewRequest
  <2>1. CASE Returns(Target, StatusFail)
    <3>1. ~Healthy'
      BY <1>10 DEF NewRequest, Healthy, PathInv, local
    <3>2. ReportHonest' /\ out' \in Seq(Result)
      BY <1>0, <1>10, <2>1, <3>1, ReturnsHonest DEF NewRequest, ProducersTypeOK
    <3> QED
      BY <1>10, <2>1, <3>2 DEF NewRequest, Returns, ProducersTypeOK, ConnInv, PathInv,
         local, conns
  <2>2. CASE pc' = "do" /\ UNCHANGED out
    BY <1>10, <2>2 DEF NewRequest, ProducersTypeOK, ConnInv, PathInv, ReportHonest,
       local, conns
  <2> QED
    BY <1>10, <2>1, <2>2 DEF NewRequest
<1>11. CASE Do
  <2>1. CASE fault' = "error" /\ Returns(Target, StatusFail) /\ UNCHANGED <<code, conns>>
    <3>1. ~Healthy'
      BY <1>11, <2>1 DEF Do, Healthy, PathInv
    <3>2. ReportHonest' /\ out' \in Seq(Result)
      BY <1>0, <1>11, <2>1, <3>1, ReturnsHonest DEF Do, ProducersTypeOK, PathInv
    <3> QED
      BY <1>11, <2>1, <3>2 DEF Do, Returns, ProducersTypeOK, ConnInv, PathInv, conns
  <2>2. CASE /\ code' \in Code /\ pc' = "drain" /\ inUse' = inUse + 1
             /\ pooled' = IF pooled > 0 THEN pooled - 1 ELSE 0
             /\ UNCHANGED <<fault, out>>
    <3>1. ConnInv' /\ inUse' \in 0..1 /\ pooled' \in 0..1
      BY <1>11, <2>2 DEF Do, ProducersTypeOK, ConnInv, PathInv
    <3>2. ProducersTypeOK'
      BY <1>11, <2>2, <3>1 DEF Do, ProducersTypeOK
    <3>3. PathInv'
      BY <1>11, <2>2, <1>0 DEF Do, PathInv
    <3>4. ReportHonest'
      BY <1>11, <2>2, NotReturned DEF Do
    <3> QED
      BY <3>1, <3>2, <3>3, <3>4
  <2> QED
    BY <1>11, <2>1, <2>2 DEF Do
<1>12. CASE Drain
  <2>1. ConnInv' /\ inUse' \in 0..1 /\ pooled' \in 0..1
    BY <1>12 DEF Drain, ProducersTypeOK, ConnInv, PathInv, conns
  <2>2. ProducersTypeOK'
    BY <1>12, <2>1 DEF Drain, ProducersTypeOK, conns
  <2>3. PathInv'
    BY <1>12, <1>0 DEF Drain, PathInv, conns
  <2>4. ReportHonest'
    BY <1>12, NotReturned DEF Drain
  <2> QED
    BY <2>1, <2>2, <2>3, <2>4
<1>13. CASE Judge
  <2> DEFINE s == IF Accepted(code) THEN StatusPass ELSE StatusFail
  <2>1. code \in Nat /\ kind = "http"
    BY <1>0, <1>13 DEF Judge, PathInv
  <2>2. s = StatusPass <=> Healthy'
    <3>1. kind' = "http" /\ code' = code
      BY <1>13, <2>1 DEF Judge, local
    <3>2. Accepted(code) <=> Healthy'
      BY <2>1, <3>1 DEF Accepted, Healthy
    <3> QED
      BY <3>2 DEF StatusPass, StatusFail
  <2>3. s \in {StatusPass, StatusFail} /\ Returns(Target, s)
    BY <1>13 DEF Judge
  <2> HIDE DEF s
  <2>4. ReportHonest' /\ out' \in Seq(Result)
    BY <1>0, <1>13, <2>1, <2>2, <2>3, ReturnsHonest DEF Judge, ProducersTypeOK
  <2> QED
    BY <1>13, <2>4 DEF Judge, Closed, Returns, ProducersTypeOK, ConnInv, PathInv, local
<1>14. CASE UNCHANGED vars
  <2>1. ConnInv' /\ inUse' \in 0..1 /\ pooled' \in 0..1
    BY <1>14 DEF vars, ProducersTypeOK, ConnInv, PathInv, local, conns
  <2>2. ProducersTypeOK'
    BY <1>14, <2>1 DEF vars, ProducersTypeOK, local, conns
  <2>3. PathInv'
    BY <1>14, <1>0 DEF vars, PathInv, local, conns
  <2>4. ReportHonest'
    BY <1>14, HonestFrame DEF vars, local
  <2> QED
    BY <2>1, <2>2, <2>3, <2>4
<1> QED
  BY <1>1, <1>2, <1>3, <1>5, <1>6, <1>7, <1>8, <1>9, <1>10, <1>11, <1>12, <1>13, <1>14
  DEF Next, Remote, Local

\* Every reachable state of a built-in check satisfies the inductive invariant.
THEOREM ProducersInvariant == Spec => []ProducersInv
<1>1. Init => ProducersInv
  BY ProducersAssumption DEF Init, ProducersInv, ProducersTypeOK, ConnInv, PathInv,
     ReportHonest
<1>2. ProducersInv /\ [Next]_vars => ProducersInv'
  BY StepKeeps
<1> QED
  BY <1>1, <1>2, PTL DEF Spec

\* The report of every probe is the state of the dependency (Run of each check).
THEOREM ReportsAreHonest == Spec => []ReportHonest
<1>1. ProducersInv => ReportHonest
  BY DEF ProducersInv
<1> QED
  BY <1>1, ProducersInvariant, PTL

\* No number of probes accumulates connections (conn.Close, the drain and
\* resp.Body.Close).
THEOREM ConnectionsReleased == Spec => []NoConnectionLeak
<1>1. ProducersInv => NoConnectionLeak
  BY DEF ProducersInv, ConnInv, NoConnectionLeak
<1> QED
  BY <1>1, ProducersInvariant, PTL

\* The contract's vocabulary is that of module Health.
LEMMA ContractVocabulary ==
  /\ CR!Result = Result /\ CR!StatusPass = StatusPass
  /\ \A rs : CR!Known(rs) <=> Known(rs)
  BY DEF CR!Result, Result, CR!Status, Status, CR!Known, Known, CR!StatusPass, CR!StatusWarn,
    CR!StatusFail, CR!StatusOther, StatusPass, StatusWarn, StatusFail, StatusOther

\* Every way out of a Run is a slice that the contract of Check.Run allows.
LEMMA ReturnsReported ==
  ASSUME NEW id \in {"", Target}, NEW s \in {StatusPass, StatusFail}, Returns(id, s),
         kind \in {"db", "s3"} => id = ""
  PROVE  out' \in CR!Reported
<1> DEFINE r == ResultFor(id, s)
<1>1. /\ r \in Result /\ r.status \in {StatusPass, StatusWarn, StatusFail}
      /\ r.componentId = id
      /\ r.output <=> r.status # StatusPass
  BY ProducersAssumption DEF ResultFor, Result, Status, StatusPass, StatusFail
<1>2. out' = <<r>>
  BY DEF Returns, ResultFor
<1> HIDE DEF r
<1>3. /\ out' \in Seq(Result)
      /\ \A k \in 1..Len(out') : k = 1 /\ out'[k] = r
  BY <1>1, <1>2, OneElement, Zenon
<1>4. Known(out')
  BY <1>1, <1>3 DEF Known
<1>5. \A k \in 1..Len(out') : out'[k].output <=> out'[k].status # StatusPass
  BY <1>1, <1>3, Zenon
<1>6. \A j, k \in 1..Len(out') : j = k
  BY <1>3
<1>7. \A k \in 1..Len(out') :
        (IF kind \in {"db", "s3"} THEN "one" ELSE "named") = "one" => out'[k].componentId = ""
  BY <1>1, <1>3
<1> QED
  BY <1>3, <1>4, <1>5, <1>6, <1>7, ContractVocabulary, Zenon DEF CR!Reported

\* dbcheck and s3check keep the contract of Check.Run in every call, and tcpcheck,
\* httpcheck and redischeck.New all of it but the rule that a single-instance
\* check leaves ComponentId empty, for any target and any answers (Run of each).
THEOREM BuiltinsImplement == Spec => BuiltinsImplementRun
<1> DEFINE call      == IF pc \in {"idle", "returned"} THEN pc ELSE "running"
           instances == IF kind \in {"db", "s3"} THEN "one" ELSE "named"
<1>1. Init => CR!Init
  BY DEF Init, CR!Init
<1>2. ProducersInv /\ [Next]_vars => [CR!Call \/ CR!Return]_<<call, out, instances>>
  <2> SUFFICES ASSUME ProducersInv, [Next]_vars
               PROVE  CR!Call \/ CR!Return \/ UNCHANGED <<call, out, instances>>
    OBVIOUS
  <2>0. kind' = kind
    BY DEF Next, Probe, ContextDone, PoolEvicts, Remote, Local, PingContext, HeadBucket, Ping,
      ReportsCall, DialContext, CloseConn, NewRequest, Do, Drain, Judge, vars
  <2>1. CASE Probe
    BY <2>0, <2>1 DEF Probe, CR!Call
  <2>2. ASSUME pc \notin {"idle", "returned"}, NEW id \in {"", Target},
               NEW s \in {StatusPass, StatusFail}, Returns(id, s),
               kind \in {"db", "s3"} => id = ""
        PROVE  CR!Return
    <3>1. out' \in CR!Reported
      BY <2>2, ReturnsReported
    <3> QED
      BY <2>0, <2>2, <3>1 DEF Returns, CR!Return
  <2>3. CASE Remote \/ Local
    <3>1. pc \notin {"idle", "returned"}
      BY <2>3 DEF Remote, Local, PingContext, HeadBucket, Ping, ReportsCall, DialContext,
        CloseConn, NewRequest, Do, Drain, Judge
    <3>2. \/ \E id \in {"", Target}, s \in {StatusPass, StatusFail} :
               Returns(id, s) /\ (kind \in {"db", "s3"} => id = "")
          \/ out' = out /\ pc' \notin {"idle", "returned"}
      BY <2>3 DEF Remote, Local, PingContext, HeadBucket, Ping, ReportsCall, DialContext,
        CloseConn, NewRequest, Do, Drain, Judge, ProducersInv, PathInv
    <3> QED
      BY <2>0, <2>2, <3>1, <3>2
  <2>4. CASE ContextDone \/ PoolEvicts \/ UNCHANGED vars
    BY <2>4 DEF ContextDone, PoolEvicts, vars
  <2> QED
    BY <2>1, <2>3, <2>4 DEF Next
<1> QED
  BY <1>1, <1>2, ProducersInvariant, PTL DEF Spec, BuiltinsImplementRun, CR!Spec
=============================================================================
