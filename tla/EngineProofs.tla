---------------------------- MODULE EngineProofs ----------------------------
(***************************************************************************)
(* Proofs that the safety invariants of Engine hold for any number of      *)
(* requests and checks, any Check values and any observations.  Every      *)
(* step of the inductive argument is one lemma per action: the request     *)
(* that moves keeps RequestInv, the others are framed by OthersKeep.       *)
(***************************************************************************)
EXTENDS EngineInv, HealthProofs, FiniteSetTheorems

SameRequest(q) ==
  /\ pc'[q] = pc[q]           /\ endpoint'[q] = endpoint[q]
  /\ checks'[q] = checks[q]   /\ spawned'[q] = spawned[q]
  /\ wg'[q] = wg[q]           /\ gor'[q] = gor[q]
  /\ timer'[q] = timer[q]     /\ runResults'[q] = runResults[q]
  /\ results'[q] = results[q] /\ merged'[q] = merged[q]
  /\ out'[q] = out[q]         /\ status'[q] = status[q]
  /\ log'[q] = log[q]

\* The parts of the invariant that a registration or a start could disturb
\* concern requests that have begun; the slices are fixed by then.
LEMMA FrameKeeps ==
  ASSUME NEW q \in Requests, RequestInv(q), SameRequest(q),
         \/ UNCHANGED engineVars
         \/ pc[q] = "idle"
  PROVE  RequestInv(q)'
<1>1. SnapshotInv(q)'
  BY DEF RequestInv, SnapshotInv, SameRequest, engineVars, Scope
<1>2. SpawnInv(q)'
  BY DEF RequestInv, SpawnInv, SameRequest
<1>3. BarrierInv(q)'
  BY DEF RequestInv, BarrierInv, SameRequest, Active
<1>4. StoreInv(q)'
  BY DEF RequestInv, StoreInv, SameRequest
<1>5. MergeInv(q)'
  BY DEF RequestInv, MergeInv, SameRequest
<1>6. OutInv(q)'
  BY DEF RequestInv, OutInv, SameRequest
<1>7. StatusInv(q)'
  BY DEF RequestInv, StatusInv, SameRequest, engineVars, emitLog, LogLine, Scope, Kind
<1> QED
  BY <1>1, <1>2, <1>3, <1>4, <1>5, <1>6, <1>7 DEF RequestInv

\* The slice a request works on is one of the Engine's: well typed, within the
\* bound, and without the reserved name.
LEMMA SliceFacts ==
  ASSUME TypeOK, NEW r \in Requests, SnapshotInv(r)
  PROVE  /\ checks[r] \in Seq(Check)
         /\ Len(checks[r]) \in Nat
         /\ Len(checks[r]) <= MaxChecks
         /\ \A i \in 1..Len(checks[r]) :
              /\ checks[r][i] \in Check
              /\ checks[r][i].name \in Name \ {systemTimeCheckName}
<1>1. CASE pc[r] = "idle"
  BY <1>1, EngineAssumption DEF TypeOK, SnapshotInv
<1>2. CASE pc[r] # "idle"
  <2>1. checks[r] \in {livez, readyz, healthz}
    BY <1>2 DEF SnapshotInv, Endpoint, Scope
  <2>2. IsSlice(checks[r]) /\ IsSlice(healthz)
    BY <2>1 DEF TypeOK
  <2>3. Len(checks[r]) <= Len(healthz) /\ Len(healthz) <= MaxChecks
    BY <2>1, <2>2 DEF TypeOK, IsSlice
  <2> QED
    BY <2>2, <2>3, EngineAssumption DEF IsSlice
<1> QED
  BY <1>1, <1>2

LEMMA ActiveFinite == \A r : IsFiniteSet(Active(r))
<1>1. IsFiniteSet(Slots)
  BY EngineAssumption, FS_Interval DEF Slots
<1>2. \A r : Active(r) \subseteq Slots
  BY DEF Active
<1> QED
  BY <1>1, <1>2, FS_Subset

\* append(e.xxx, c) keeps a slice well formed and the nesting of two slices.
LEMMA AppendFacts ==
  ASSUME NEW s, NEW t, NEW c \in Check, IsSlice(s), IsSlice(t), Covered(s, t)
  PROVE  /\ c.name # systemTimeCheckName => IsSlice(Append(s, c))
         /\ Covered(s, Append(t, c))
         /\ Covered(Append(s, c), Append(t, c))
<1>1. s \in Seq(Check) /\ t \in Seq(Check) /\ Len(s) \in Nat /\ Len(t) \in Nat
  BY DEF IsSlice
<1>2. /\ Append(s, c) \in Seq(Check) /\ Append(t, c) \in Seq(Check)
      /\ Len(Append(s, c)) = Len(s) + 1 /\ Len(Append(t, c)) = Len(t) + 1
      /\ \A i \in 1..Len(s) : Append(s, c)[i] = s[i]
      /\ \A i \in 1..Len(t) : Append(t, c)[i] = t[i]
      /\ Append(s, c)[Len(s) + 1] = c /\ Append(t, c)[Len(t) + 1] = c
  BY <1>1
<1>3. c.name # systemTimeCheckName => IsSlice(Append(s, c))
  BY <1>1, <1>2 DEF IsSlice, Check, Key
<1>4. Covered(s, Append(t, c))
  <2> SUFFICES ASSUME NEW i \in 1..Len(s)
               PROVE  \E j \in 1..Len(Append(t, c)) : Append(t, c)[j] = s[i]
    BY DEF Covered
  <2>1. PICK j \in 1..Len(t) : t[j] = s[i]
    BY DEF Covered
  <2> QED
    BY <2>1, <1>1, <1>2
<1>5. Covered(Append(s, c), Append(t, c))
  <2> SUFFICES ASSUME NEW i \in 1..Len(Append(s, c))
               PROVE  \E j \in 1..Len(Append(t, c)) : Append(t, c)[j] = Append(s, c)[i]
    BY DEF Covered
  <2>1. CASE i = Len(s) + 1
    BY <2>1, <1>1, <1>2
  <2>2. CASE i \in 1..Len(s)
    BY <2>2, <1>2, <1>4 DEF Covered
  <2> QED
    BY <2>1, <2>2, <1>1, <1>2
<1> QED
  BY <1>3, <1>4, <1>5

-----------------------------------------------------------------------------
LEMMA InitHolds == Init => IInv
<1> SUFFICES ASSUME Init PROVE IInv
  OBVIOUS
<1>0. MaxChecks \in Nat
  BY EngineAssumption
<1>1. TypeOK
  <2>1. \A r \in Requests : IsChecksMap(out[r])
    BY DEF Init, IsChecksMap
  <2> QED
    BY <1>0, <2>1 DEF Init, TypeOK, IsSlice, Pc, Gor, Timer
<1>2. ScopesNested
  BY DEF Init, ScopesNested, Covered
<1>3. ASSUME NEW r \in Requests PROVE RequestInv(r)
  <2>1. Active(r) = {}
    BY DEF Init, Active
  <2>2. BarrierInv(r)
    BY <2>1, FS_EmptySet DEF Init, BarrierInv
  <2>3. SpawnInv(r)
    BY <1>0 DEF Init, SpawnInv, Slots
  <2> QED
    BY <2>2, <2>3 DEF Init, RequestInv, SnapshotInv, StoreInv, MergeInv, OutInv, StatusInv
<1> QED
  BY <1>1, <1>2, <1>3 DEF IInv

\* A Register call finds every request idle, and keeps the slices nested.
LEMMA RegisterKeeps ==
  ASSUME IInv, NEW c \in CheckPool,
         RegisterHealthCheck(c) \/ RegisterReadinessCheck(c) \/ RegisterLivenessCheck(c)
  PROVE  IInv'
<1>1. c \in Check /\ MaxChecks \in Nat
  BY EngineAssumption
<1>2. phase = "startup" /\ UNCHANGED requestVars
  BY DEF RegisterHealthCheck, RegisterReadinessCheck, RegisterLivenessCheck, RegisterWith
<1>3. \A q \in Requests : pc[q] = "idle"
  BY <1>2 DEF IInv, RequestInv, SnapshotInv
<1>4. \A q \in Requests : RequestInv(q)'
  <2>1. \A q \in Requests : SameRequest(q)
    BY <1>2 DEF requestVars, goVars, SameRequest
  <2> QED
    BY <2>1, <1>3, FrameKeeps DEF IInv
<1>5. /\ Len(livez) \in Nat /\ Len(readyz) \in Nat /\ Len(healthz) \in Nat
      /\ Len(Append(livez, c)) = Len(livez) + 1
      /\ Len(Append(readyz, c)) = Len(readyz) + 1
      /\ Len(Append(healthz, c)) = Len(healthz) + 1
  BY DEF IInv, TypeOK, IsSlice
<1>6. \/ /\ UNCHANGED <<livez, readyz, healthz>>
         /\ phase' = "panicked"
      \/ /\ UNCHANGED <<phase, livez, readyz>>
         /\ healthz' = Append(healthz, c)
         /\ c.name # systemTimeCheckName /\ Len(healthz) < MaxChecks
      \/ /\ UNCHANGED <<phase, livez>>
         /\ readyz' = Append(readyz, c) /\ healthz' = Append(healthz, c)
         /\ c.name # systemTimeCheckName /\ Len(healthz) < MaxChecks
      \/ /\ UNCHANGED phase /\ livez' = Append(livez, c)
         /\ readyz' = Append(readyz, c) /\ healthz' = Append(healthz, c)
         /\ c.name # systemTimeCheckName /\ Len(healthz) < MaxChecks
  BY DEF RegisterHealthCheck, RegisterReadinessCheck, RegisterLivenessCheck,
         RegisterWith, Reserved
<1>7. /\ IsSlice(livez) /\ IsSlice(readyz) /\ IsSlice(healthz)
      /\ Covered(livez, readyz) /\ Covered(readyz, healthz) /\ Covered(healthz, healthz)
  BY DEF IInv, TypeOK, ScopesNested, Covered
<1>8. ScopesNested'
  BY <1>1, <1>6, <1>7, AppendFacts DEF ScopesNested
<1>9. TypeOK'
  <2>1. IsSlice(livez') /\ IsSlice(readyz') /\ IsSlice(healthz')
    BY <1>1, <1>6, <1>7, AppendFacts
  <2>2. /\ Len(livez') <= Len(healthz') /\ Len(readyz') <= Len(healthz')
        /\ Len(healthz') <= MaxChecks
    BY <1>1, <1>5, <1>6 DEF IInv, TypeOK
  <2> QED
    BY <1>2, <1>6, <2>1, <2>2 DEF IInv, TypeOK, requestVars, goVars
<1> QED
  BY <1>4, <1>8, <1>9 DEF IInv

LEMMA ServeKeeps ==
  ASSUME IInv, Serve
  PROVE  IInv'
<1>1. UNCHANGED <<livez, readyz, healthz>> /\ UNCHANGED requestVars
  BY DEF Serve
<1>2. \A q \in Requests : SameRequest(q) /\ pc[q] = "idle"
  BY <1>1 DEF Serve, requestVars, goVars, SameRequest, IInv, RequestInv, SnapshotInv
<1>3. \A q \in Requests : RequestInv(q)'
  BY <1>2, FrameKeeps DEF IInv
<1> QED
  BY <1>1, <1>3 DEF Serve, IInv, ScopesNested, TypeOK, requestVars, goVars

-----------------------------------------------------------------------------
\* Before the merge loop, no result has been placed.
LEMMA ConcatNone ==
  ASSUME NEW n, NEW cs, NEW rs
  PROVE  Concatenates(<<>>, n, cs, rs, 0)
<1> DEFINE off == [i \in 0..0 |-> 0]
<1>1. off \in [0..0 -> 0..Len(<<>>)] /\ off[0] = 0 /\ off[0] = Len(<<>>)
  OBVIOUS
<1> HIDE DEF off
<1> QED
  BY <1>1 DEF Concatenates

LEMMA OrderedNone ==
  ASSUME NEW o, DOMAIN o = {systemTimeCheckName}, NEW cs, NEW rs
  PROVE  Ordered(o, cs, rs, 0)
<1>1. \A n \in Name \ {systemTimeCheckName} : Lookup(o, n) = <<>>
  BY DEF Lookup
<1> QED
  BY <1>1, ConcatNone DEF Ordered

\* RunLivez, RunReadyz, RunHealthz up to the launch loop.
LEMMA BeginKeeps ==
  ASSUME IInv, NEW r \in Requests,
         RunLivez(r) \/ RunReadyz(r) \/ RunHealthz(r)
  PROVE  IInv'
<1>1. PICK ep \in Endpoint : Begin(r, ep, Scope(ep))
  BY DEF RunLivez, RunReadyz, RunHealthz, Endpoint, Scope
<1>2. IsSlice(Scope(ep)) /\ Scope(ep) \in Seq(Check)
  BY DEF IInv, TypeOK, IsSlice, Endpoint, Scope
<1>3. UNCHANGED engineVars /\ ScopesNested'
  BY <1>1 DEF Begin, engineVars, IInv, ScopesNested
<1>4. ASSUME NEW q \in Requests \ {r} PROVE RequestInv(q)'
  <2>1. SameRequest(q)
    BY <1>1 DEF Begin, SameRequest, goVars, IInv, TypeOK
  <2> QED
    BY <2>1, <1>3, FrameKeeps DEF IInv
<1>5. /\ pc'[r] \in {"merged", "launching"} /\ (pc'[r] = "merged" <=> Scope(ep) = <<>>)
      /\ endpoint'[r] = ep /\ checks'[r] = Scope(ep)
      /\ out'[r] = [k \in {systemTimeCheckName} |-> <<systemTimeStatus>>]
  BY <1>1 DEF Begin, IInv, TypeOK
<1>6. TypeOK'
  <2>1. IsChecksMap(out'[r])
    <3>1. systemTimeStatus \in ComponentStatus
      BY DEF ComponentStatus, systemTimeStatus, Status, StatusPass
    <3>2. <<systemTimeStatus>> \in Seq(ComponentStatus)
      BY <3>1
    <3> QED
      BY <1>5, <3>2 DEF IsChecksMap, Key
  <2>2. DOMAIN out' = Requests /\ \A q \in Requests : IsChecksMap(out'[q])
    BY <1>1, <2>1 DEF Begin, IInv, TypeOK
  <2> QED
    BY <1>1, <1>2, <2>2 DEF Begin, IInv, TypeOK, engineVars, goVars, Pc
<1>7. RequestInv(r)'
  <2>1. pc[r] = "idle" /\ phase = "serving" /\ checks[r] = <<>>
    BY <1>1 DEF Begin, IInv, RequestInv, SnapshotInv
  <2>2. merged[r] = 0 /\ spawned[r] = 0
    BY <2>1 DEF IInv, TypeOK, RequestInv, SpawnInv, MergeInv
  <2>3. /\ spawned' = spawned /\ wg' = wg /\ gor' = gor /\ timer' = timer
        /\ runResults' = runResults /\ results' = results /\ merged' = merged
    BY <1>1 DEF Begin, goVars
  <2>4. \A i \in Slots : gor[r][i] = "none"
    BY <2>2 DEF IInv, RequestInv, SpawnInv, Slots
  <2>5. Len(Scope(ep)) \in Nat /\ (Scope(ep) # <<>> => Len(Scope(ep)) > 0)
    BY <1>2
  <2>6. SnapshotInv(r)'
    BY <1>3, <1>5, <2>1 DEF SnapshotInv, engineVars, Scope
  <2>7. SpawnInv(r)'
    BY <1>5, <2>2, <2>3, <2>4, <2>5 DEF SpawnInv, Slots
  <2>8. Active(r) = {} /\ Active(r)' = {}
    BY <2>3, <2>4 DEF Active
  <2>9. BarrierInv(r)'
    BY <2>3, <2>8 DEF IInv, RequestInv, BarrierInv
  <2>10. StoreInv(r)'
    BY <2>3, <2>4 DEF IInv, RequestInv, StoreInv
  <2>11. MergeInv(r)'
    BY <1>5, <2>2, <2>3, <2>5 DEF MergeInv
  <2>12. OutInv(r)'
    <3>1. DOMAIN out'[r] = {systemTimeCheckName}
      BY <1>5
    <3>2. Ordered(out'[r], checks'[r], results'[r], 0)
      BY <3>1, OrderedNone
    <3> QED
      BY <1>5, <2>2, <2>3, <3>1, <3>2 DEF OutInv, Complete, Sound
  <2>13. StatusInv(r)'
    BY <1>5 DEF StatusInv
  <2> QED
    BY <2>6, <2>7, <2>9, <2>10, <2>11, <2>12, <2>13 DEF RequestInv
<1> QED
  BY <1>3, <1>4, <1>6, <1>7 DEF IInv

\* wg.Add(1) and the go statement: one more goroutine, counted once.
LEMMA LaunchKeeps ==
  ASSUME IInv, NEW r \in Requests, Launch(r)
  PROVE  IInv'
<1> DEFINE n == spawned[r] + 1
<1>1. /\ checks[r] \in Seq(Check) /\ Len(checks[r]) \in Nat
      /\ Len(checks[r]) <= MaxChecks /\ MaxChecks \in Nat
  BY SliceFacts, EngineAssumption DEF IInv, RequestInv
<1>2. /\ pc[r] = "launching" /\ spawned[r] \in Nat /\ spawned[r] < Len(checks[r])
      /\ n \in Slots /\ gor[r][n] = "none"
  <2>1. pc[r] = "launching"
    BY DEF Launch, Launches
  <2>2. spawned[r] \in Nat /\ spawned[r] < Len(checks[r])
    BY <2>1 DEF IInv, TypeOK, RequestInv, SpawnInv
  <2>3. n \in Slots /\ n > spawned[r]
    BY <1>1, <2>2 DEF Slots
  <2> QED
    BY <2>1, <2>2, <2>3 DEF IInv, RequestInv, SpawnInv
<1>3. UNCHANGED engineVars /\ ScopesNested'
  BY DEF Launch, engineVars, IInv, ScopesNested
<1>4. ASSUME NEW q \in Requests \ {r} PROVE RequestInv(q)'
  <2>1. SameRequest(q)
    BY DEF Launch, SameRequest, IInv, TypeOK
  <2> QED
    BY <2>1, <1>3, FrameKeeps DEF IInv
<1>5. /\ spawned'[r] = n /\ wg'[r] = wg[r] + 1
      /\ gor'[r] = [gor[r] EXCEPT ![n] = "ready"]
      /\ pc'[r] = IF n = Len(checks[r]) THEN "waiting" ELSE "launching"
      /\ UNCHANGED <<endpoint, checks, timer, runResults, results, merged, out, status, log>>
  BY <1>2 DEF Launch, IInv, TypeOK
<1>6. TypeOK'
  <2>1. spawned' \in [Requests -> 0..MaxChecks]
    BY <1>1, <1>2 DEF Launch, IInv, TypeOK
  <2>2. wg' \in [Requests -> Nat] /\ pc' \in [Requests -> Pc]
    BY DEF Launch, IInv, TypeOK, Pc
  <2>3. gor' \in [Requests -> [Slots -> Gor]]
    BY <1>2 DEF Launch, IInv, TypeOK, Gor
  <2> QED
    BY <1>3, <2>1, <2>2, <2>3 DEF Launch, IInv, TypeOK, engineVars
<1>7. RequestInv(r)'
  <2>0. gor[r] \in [Slots -> Gor]
    BY DEF IInv, TypeOK
  <2>1. SnapshotInv(r)'
    BY <1>2, <1>3, <1>5 DEF IInv, RequestInv, SnapshotInv, engineVars, Scope
  <2>2. SpawnInv(r)'
    BY <1>1, <1>2, <1>5, <2>0 DEF IInv, RequestInv, SpawnInv, Slots
  <2>3. BarrierInv(r)'
    <3>1. Active(r)' = Active(r) \cup {n} /\ n \notin Active(r)
      BY <1>2, <1>5, <2>0 DEF Active
    <3>2. IsFiniteSet(Active(r))
      BY ActiveFinite
    <3>3. Cardinality(Active(r)') = Cardinality(Active(r)) + 1
      BY <3>1, <3>2, FS_AddElement
    <3> QED
      BY <1>5, <3>3 DEF IInv, RequestInv, BarrierInv
  <2>4. StoreInv(r)'
    BY <1>2, <1>5, <2>0 DEF IInv, RequestInv, StoreInv
  <2>5. MergeInv(r)'
    BY <1>2, <1>5 DEF IInv, RequestInv, MergeInv
  <2>6. OutInv(r)'
    BY <1>2, <1>5 DEF IInv, RequestInv, OutInv
  <2>7. StatusInv(r)'
    BY <1>5 DEF StatusInv
  <2> QED
    BY <2>1, <2>2, <2>3, <2>4, <2>5, <2>6, <2>7 DEF RequestInv
<1> QED
  BY <1>3, <1>4, <1>6, <1>7 DEF IInv

-----------------------------------------------------------------------------
\* The goroutine's steps touch only its own slot of its own request.
LEMMA StoreKeeps ==
  ASSUME IInv, NEW r \in Requests, NEW i \in Slots,
         RunOneNil(r, i) \/ RunReturns(r, i)
  PROVE  IInv'
<1>1. PICK rs \in Seq(Result) : Store(r, i, rs) /\ (rs \in Outcomes \/ rs = nilRunResults)
  <2>1. nilRunResults \in Seq(Result)
    <3> DEFINE e == [componentId |-> "", status |-> StatusFail,
                     output |-> TRUE, affected |-> FALSE]
    <3>1. e \in Result /\ nilRunResults = <<e>>
      BY DEF nilRunResults, Result, Status, StatusFail
    <3> HIDE DEF e
    <3> QED
      BY <3>1
  <2> QED
    BY <2>1, EngineAssumption DEF RunOneNil, RunReturns
<1>2. gor[r][i] \in {"ready", "running"} /\ UNCHANGED <<goFrame, wg>>
  BY DEF RunOneNil, RunReturns
<1>3. UNCHANGED engineVars /\ ScopesNested'
  BY <1>2 DEF goFrame, engineVars, IInv, ScopesNested
<1>4. ASSUME NEW q \in Requests \ {r} PROVE RequestInv(q)'
  <2>1. SameRequest(q)
    BY <1>1, <1>2 DEF Store, goFrame, SameRequest, IInv, TypeOK
  <2> QED
    BY <2>1, <1>3, FrameKeeps DEF IInv
<1>5. /\ runResults'[r] = [runResults[r] EXCEPT ![i] = rs]
      /\ results'[r] = [results[r] EXCEPT ![i] = convert(checks[r][i], rs)]
      /\ gor'[r] = [gor[r] EXCEPT ![i] = "stored"]
      /\ timer'[r] = [timer[r] EXCEPT ![i] = cancel(@)]
      /\ UNCHANGED <<pc, endpoint, checks, spawned, wg, merged, out, status, log>>
  BY <1>1, <1>2 DEF Store, goFrame, IInv, TypeOK
<1>6. /\ i \in 1..Len(checks[r]) /\ checks[r][i] \in Check
      /\ pc[r] \notin {"idle", "merging", "merged", "done"}
  <2>1. /\ Len(checks[r]) \in Nat
        /\ \A k \in 1..Len(checks[r]) : checks[r][k] \in Check
    BY SliceFacts DEF IInv, RequestInv
  <2>2. i \in Nat /\ i >= 1 /\ i <= spawned[r] /\ spawned[r] <= Len(checks[r])
    BY <1>2, EngineAssumption DEF IInv, RequestInv, SpawnInv, TypeOK, Slots
  <2>3. i \in Active(r)
    BY <1>2 DEF Active
  <2>4. spawned[r] \in Nat
    BY DEF IInv, TypeOK
  <2>5. i \in 1..Len(checks[r])
    BY <2>1, <2>2, <2>4
  <2>6. pc[r] # "idle"
    BY <2>1, <2>5 DEF IInv, RequestInv, SnapshotInv
  <2> QED
    BY <2>1, <2>3, <2>5, <2>6 DEF IInv, RequestInv, BarrierInv
<1>7. TypeOK'
  <2>1. convert(checks[r][i], rs) \in Seq(ComponentStatus)
    BY <1>6, ConvertFacts
  <2>2. results' \in [Requests -> [Slots -> Seq(ComponentStatus)]]
    BY <1>1, <2>1 DEF Store, IInv, TypeOK
  <2>3. runResults' \in [Requests -> [Slots -> Seq(Result)]]
    BY <1>1 DEF Store, IInv, TypeOK
  <2>4. gor' \in [Requests -> [Slots -> Gor]]
    BY <1>1 DEF Store, IInv, TypeOK, Gor
  <2>5. timer' \in [Requests -> [Slots -> Timer]]
    BY <1>1 DEF Store, cancel, IInv, TypeOK, Timer
  <2> QED
    BY <1>2, <1>3, <2>2, <2>3, <2>4, <2>5 DEF goFrame, IInv, TypeOK, engineVars
<1>8. RequestInv(r)'
  <2>0. /\ gor[r] \in [Slots -> Gor] /\ results[r] \in [Slots -> Seq(ComponentStatus)]
        /\ runResults[r] \in [Slots -> Seq(Result)] /\ timer[r] \in [Slots -> Timer]
    BY DEF IInv, TypeOK
  <2>1. SnapshotInv(r)'
    BY <1>3, <1>5 DEF IInv, RequestInv, SnapshotInv, engineVars, Scope
  <2>2. SpawnInv(r)'
    BY <1>2, <1>5, <2>0 DEF IInv, RequestInv, SpawnInv
  <2>3. BarrierInv(r)'
    <3>1. Active(r)' = Active(r)
      BY <1>2, <1>5, <2>0 DEF Active
    <3> QED
      BY <3>1, <1>5 DEF IInv, RequestInv, BarrierInv
  <2>4. StoreInv(r)'
    BY <1>1, <1>2, <1>5, <2>0 DEF IInv, RequestInv, StoreInv, cancel
  <2>5. MergeInv(r)'
    BY <1>5 DEF IInv, RequestInv, MergeInv
  <2>6. merged[r] = 0
    BY <1>6 DEF IInv, TypeOK, Pc, RequestInv, MergeInv
  <2>7. OutInv(r)'
    <3>1. Ordered(out[r], checks[r], results[r], 0) => Ordered(out[r], checks[r], results'[r], 0)
      BY DEF Ordered, Concatenates
    <3> QED
      BY <1>5, <2>6, <3>1 DEF IInv, RequestInv, OutInv, Complete, Sound
  <2>8. StatusInv(r)'
    BY <1>5, <1>6 DEF StatusInv
  <2> QED
    BY <2>1, <2>2, <2>3, <2>4, <2>5, <2>7, <2>8 DEF RequestInv
<1> QED
  BY <1>3, <1>4, <1>7, <1>8 DEF IInv

LEMMA CallKeeps ==
  ASSUME IInv, NEW r \in Requests, NEW i \in Slots,
         RunOneCall(r, i) \/ DeadlineExceeded(r, i)
  PROVE  IInv'
<1>1. /\ UNCHANGED <<goFrame, wg, runResults, results>>
      /\ UNCHANGED engineVars /\ ScopesNested'
  BY DEF RunOneCall, DeadlineExceeded, goFrame, engineVars, IInv, ScopesNested
<1>2. /\ gor[r] \in [Slots -> Gor] /\ timer[r] \in [Slots -> Timer]
      /\ gor \in [Requests -> [Slots -> Gor]] /\ timer \in [Requests -> [Slots -> Timer]]
  BY DEF IInv, TypeOK
<1>3. /\ gor[r][i] \in {"ready", "running"}
      /\ gor' = [gor EXCEPT ![r][i] = "running"]
      /\ \/ timer' = [timer EXCEPT ![r][i] = "none"]
         \/ timer' = [timer EXCEPT ![r][i] = "armed"]
         \/ timer' = [timer EXCEPT ![r][i] = "expired"]
  BY <1>2 DEF RunOneCall, WithTimeout, DeadlineExceeded, IInv, RequestInv, StoreInv
<1>4. ASSUME NEW q \in Requests \ {r} PROVE RequestInv(q)'
  <2>1. SameRequest(q)
    BY <1>1, <1>2, <1>3 DEF goFrame, SameRequest
  <2> QED
    BY <2>1, <1>1, FrameKeeps DEF IInv
<1>5. TypeOK'
  <2>1. gor' \in [Requests -> [Slots -> Gor]]
    BY <1>2, <1>3 DEF Gor
  <2>2. timer' \in [Requests -> [Slots -> Timer]]
    BY <1>2, <1>3 DEF Timer
  <2> QED
    BY <1>1, <2>1, <2>2 DEF goFrame, IInv, TypeOK, engineVars
<1>6. RequestInv(r)'
  <2>0. /\ gor'[r] = [gor[r] EXCEPT ![i] = "running"]
        /\ \A k \in Slots \ {i} : timer'[r][k] = timer[r][k]
        /\ UNCHANGED <<pc, endpoint, checks, spawned, wg, runResults, results, merged,
                       out, status, log>>
    BY <1>1, <1>2, <1>3 DEF goFrame
  <2>1. SnapshotInv(r)'
    BY <1>1, <2>0 DEF IInv, RequestInv, SnapshotInv, engineVars, Scope
  <2>2. SpawnInv(r)'
    BY <1>2, <1>3, <2>0 DEF IInv, RequestInv, SpawnInv
  <2>3. BarrierInv(r)'
    <3>1. Active(r)' = Active(r)
      BY <1>2, <1>3, <2>0 DEF Active
    <3> QED
      BY <3>1, <2>0 DEF IInv, RequestInv, BarrierInv
  <2>4. StoreInv(r)'
    <3>1. StoreInv(r)
      BY DEF IInv, RequestInv
    <3>2. /\ checks[r][i].run
          /\ checks[r][i].timeout > 0 => timer'[r][i] \in {"armed", "expired"}
      BY <1>2, <3>1 DEF RunOneCall, WithTimeout, DeadlineExceeded, StoreInv
    <3>3. \A k \in Slots : gor'[r][k] = "running" =>
            /\ checks'[r][k].run
            /\ checks'[r][k].timeout > 0 => timer'[r][k] \in {"armed", "expired"}
      BY <1>2, <2>0, <3>1, <3>2 DEF StoreInv
    <3>4. \A k \in Slots :
            /\ gor'[r][k] \in {"stored", "finished"} =>
                 /\ results'[r][k] = convert(checks'[r][k], runResults'[r][k])
                 /\ runResults'[r][k] \in Outcomes \/ runResults'[r][k] = nilRunResults
            /\ timer'[r][k] \in {"armed", "expired"} => gor'[r][k] = "running"
      BY <1>2, <1>3, <2>0, <3>1 DEF StoreInv
    <3> QED
      BY <3>3, <3>4 DEF StoreInv
  <2>5. MergeInv(r)' /\ OutInv(r)'
    BY <2>0 DEF IInv, RequestInv, MergeInv, OutInv
  <2>6. StatusInv(r)'
    BY <1>1, <2>0 DEF IInv, RequestInv, StatusInv, engineVars, emitLog, LogLine, Scope, Kind
  <2> QED
    BY <2>1, <2>2, <2>3, <2>4, <2>5, <2>6 DEF RequestInv
<1> QED
  BY <1>1, <1>4, <1>5, <1>6 DEF IInv

\* wg.Done(): one goroutine fewer, and the count says so.
LEMMA WgDoneKeeps ==
  ASSUME IInv, NEW r \in Requests, NEW i \in Slots, WgDone(r, i)
  PROVE  IInv'
<1>1. /\ gor[r][i] = "stored" /\ i \in Active(r)
      /\ UNCHANGED engineVars /\ ScopesNested'
  BY DEF WgDone, goFrame, engineVars, IInv, ScopesNested, Active
<1>2. gor[r] \in [Slots -> Gor] /\ wg[r] \in Nat
  BY DEF IInv, TypeOK
<1>3. ASSUME NEW q \in Requests \ {r} PROVE RequestInv(q)'
  <2>1. SameRequest(q)
    BY DEF WgDone, goFrame, SameRequest, IInv, TypeOK
  <2> QED
    BY <2>1, <1>1, FrameKeeps DEF IInv
<1>4. /\ gor'[r] = [gor[r] EXCEPT ![i] = "finished"] /\ wg'[r] = wg[r] - 1
      /\ UNCHANGED <<pc, endpoint, checks, spawned, timer, runResults, results, merged,
                     out, status, log>>
  BY DEF WgDone, Done, goFrame, IInv, TypeOK
<1>5. /\ Active(r)' = Active(r) \ {i}
      /\ wg[r] - 1 = Cardinality(Active(r)') /\ wg[r] - 1 \in Nat
  <2>1. Active(r)' = Active(r) \ {i}
    BY <1>1, <1>2, <1>4 DEF Active
  <2>2. IsFiniteSet(Active(r)) /\ IsFiniteSet(Active(r)')
    BY <2>1, ActiveFinite, FS_Subset
  <2>3. Cardinality(Active(r)') = Cardinality(Active(r)) - 1
    BY <1>1, <2>1, <2>2, FS_RemoveElement
  <2>4. Cardinality(Active(r)') \in Nat
    BY <2>2, FS_CardinalityType
  <2> QED
    BY <2>1, <2>3, <2>4 DEF IInv, RequestInv, BarrierInv
<1>6. TypeOK'
  <2>1. gor' \in [Requests -> [Slots -> Gor]]
    BY DEF WgDone, IInv, TypeOK, Gor
  <2>2. wg' \in [Requests -> Nat]
    BY <1>5 DEF WgDone, Done, IInv, TypeOK
  <2> QED
    BY <1>1, <2>1, <2>2 DEF WgDone, goFrame, IInv, TypeOK, engineVars
<1>7. RequestInv(r)'
  <2>1. SnapshotInv(r)'
    BY <1>1, <1>4 DEF IInv, RequestInv, SnapshotInv, engineVars, Scope
  <2>2. SpawnInv(r)'
    BY <1>1, <1>2, <1>4 DEF IInv, RequestInv, SpawnInv
  <2>3. BarrierInv(r)'
    BY <1>4, <1>5 DEF IInv, RequestInv, BarrierInv
  <2>4. StoreInv(r)'
    BY <1>1, <1>2, <1>4 DEF IInv, RequestInv, StoreInv
  <2>5. MergeInv(r)' /\ OutInv(r)'
    BY <1>4 DEF IInv, RequestInv, MergeInv, OutInv
  <2>6. StatusInv(r)'
    BY <1>1, <1>4 DEF IInv, RequestInv, StatusInv, engineVars, emitLog, LogLine, Scope, Kind
  <2> QED
    BY <2>1, <2>2, <2>3, <2>4, <2>5, <2>6 DEF RequestInv
<1> QED
  BY <1>1, <1>3, <1>6, <1>7 DEF IInv

-----------------------------------------------------------------------------
\* wg.Wait() returns only when the set of active goroutines is empty.
LEMMA WaitKeeps ==
  ASSUME IInv, NEW r \in Requests, Wait(r)
  PROVE  IInv'
<1>1. /\ pc[r] = "waiting" /\ pc'[r] = "merging" /\ wg[r] = 0
      /\ UNCHANGED engineVars /\ ScopesNested' /\ UNCHANGED goVars
      /\ UNCHANGED <<endpoint, checks, spawned, wg, merged, out, status, log>>
  BY DEF Wait, Waited, goVars, engineVars, IInv, TypeOK, ScopesNested
<1>2. ASSUME NEW q \in Requests \ {r} PROVE RequestInv(q)'
  <2>1. SameRequest(q)
    BY DEF Wait, goVars, SameRequest, IInv, TypeOK
  <2> QED
    BY <2>1, <1>1, FrameKeeps DEF IInv
<1>3. TypeOK'
  BY DEF Wait, IInv, TypeOK, engineVars, goVars, Pc
<1>4. RequestInv(r)'
  <2>1. Active(r) = {} /\ Active(r)' = Active(r)
    <3>1. IsFiniteSet(Active(r)) /\ Cardinality(Active(r)) = 0
      BY <1>1, ActiveFinite DEF IInv, RequestInv, BarrierInv
    <3>2. Active(r) = {}
      BY <3>1, FS_EmptySet
    <3> QED
      BY <3>2, <1>1 DEF Active, goVars
  <2>2. Len(checks[r]) \in Nat /\ Len(checks[r]) > 0
    <3>1. Len(checks[r]) \in Nat
      BY SliceFacts DEF IInv, RequestInv
    <3> QED
      BY <3>1, <1>1 DEF IInv, RequestInv, MergeInv
  <2>3. SnapshotInv(r)'
    BY <1>1 DEF IInv, RequestInv, SnapshotInv, engineVars, Scope
  <2>4. SpawnInv(r)' /\ StoreInv(r)'
    BY <1>1 DEF IInv, RequestInv, SpawnInv, StoreInv, goVars
  <2>5. BarrierInv(r)'
    BY <1>1, <2>1 DEF IInv, RequestInv, BarrierInv
  <2>6. MergeInv(r)'
    BY <1>1, <2>2 DEF IInv, RequestInv, MergeInv
  <2>7. OutInv(r)' /\ StatusInv(r)'
    BY <1>1 DEF IInv, RequestInv, OutInv, StatusInv, goVars
  <2> QED
    BY <2>3, <2>4, <2>5, <2>6, <2>7 DEF RequestInv
<1> QED
  BY <1>1, <1>2, <1>3, <1>4 DEF IInv

\* One iteration of the merge loop extends the accounted-for results by one
\* check and does not touch the heartbeat.
LEMMA MergeOut ==
  ASSUME NEW o, IsChecksMap(o), NEW cs, NEW rs, NEW m \in Nat,
         Complete(o, cs, rs, m), Sound(o, cs, rs, m),
         cs[m + 1].name \in Name \ {systemTimeCheckName},
         rs[m + 1] \in Seq(ComponentStatus),
         systemTimeCheckName \in DOMAIN o
  PROVE  LET new == merge(o, cs[m + 1].name, rs[m + 1]) IN
         /\ IsChecksMap(new)
         /\ systemTimeCheckName \in DOMAIN new
         /\ new[systemTimeCheckName] = o[systemTimeCheckName]
         /\ Complete(new, cs, rs, m + 1)
         /\ Sound(new, cs, rs, m + 1)
<1> DEFINE n    == cs[m + 1].name
           list == rs[m + 1]
           new  == merge(o, n, list)
<1>1. n \in Key /\ n # systemTimeCheckName /\ list \in Seq(ComponentStatus)
  BY DEF Key
<1> HIDE DEF n, list
<1>2. /\ IsChecksMap(new)
      /\ DOMAIN o \subseteq DOMAIN new
      /\ \A x \in DOMAIN o \ {n} : new[x] = o[x]
      /\ \A x \in DOMAIN new : new[x] = <<>> => x \in DOMAIN o /\ o[x] = <<>>
      /\ \A x \in DOMAIN o : \A j \in 1..Len(o[x]) :
           j \in 1..Len(new[x]) /\ new[x][j] = o[x][j]
      /\ \A l \in 1..Len(list) :
           n \in DOMAIN new /\ \E j \in 1..Len(new[n]) : new[n][j] = list[l]
      /\ \A x \in DOMAIN new : \A j \in 1..Len(new[x]) :
           \/ x \in DOMAIN o /\ j \in 1..Len(o[x]) /\ new[x][j] = o[x][j]
           \/ x = n /\ \E l \in 1..Len(list) : new[x][j] = list[l]
  BY <1>1, MergeFacts
<1> HIDE DEF new
<1>3. Complete(new, cs, rs, m + 1)
  <2> SUFFICES ASSUME NEW i \in 1..(m + 1), NEW k \in 1..Len(rs[i])
               PROVE  /\ cs[i].name \in DOMAIN new
                      /\ \E j \in 1..Len(new[cs[i].name]) : new[cs[i].name][j] = rs[i][k]
    BY DEF Complete
  <2>1. CASE i = m + 1
    BY <2>1, <1>2 DEF n, list
  <2>2. CASE i \in 1..m
    <3>1. /\ cs[i].name \in DOMAIN o
          /\ \E j \in 1..Len(o[cs[i].name]) : o[cs[i].name][j] = rs[i][k]
      BY <2>2 DEF Complete
    <3> QED
      BY <3>1, <1>2
  <2> QED
    BY <2>1, <2>2
<1>4. Sound(new, cs, rs, m + 1)
  <2>0. \A x \in DOMAIN new \ {systemTimeCheckName} : new[x] # <<>>
    BY <1>2 DEF Sound
  <2> SUFFICES ASSUME NEW x \in DOMAIN new \ {systemTimeCheckName},
                      NEW j \in 1..Len(new[x])
               PROVE  \E i \in 1..(m + 1) :
                        cs[i].name = x /\ \E k \in 1..Len(rs[i]) : new[x][j] = rs[i][k]
    BY <2>0 DEF Sound
  <2>1. CASE x \in DOMAIN o /\ j \in 1..Len(o[x]) /\ new[x][j] = o[x][j]
    <3>1. PICK i \in 1..m : cs[i].name = x /\ \E k \in 1..Len(rs[i]) : o[x][j] = rs[i][k]
      BY <2>1 DEF Sound
    <3> QED
      BY <3>1, <2>1
  <2>2. CASE x = n /\ \E l \in 1..Len(list) : new[x][j] = list[l]
    BY <2>2 DEF n, list
  <2> QED
    BY <2>1, <2>2, <1>2
<1> QED
  BY <1>1, <1>2, <1>3, <1>4 DEF new, n, list

\* The results of check m + 1 extend the list of its name and no other.
LEMMA ConcatStep ==
  ASSUME NEW S, NEW list \in Seq(S), NEW n, NEW cs, NEW rs, NEW m \in Nat,
         \A i \in 1..(m + 1) : rs[i] \in Seq(S),
         Concatenates(list, n, cs, rs, m)
  PROVE  /\ cs[m + 1].name = n => Concatenates(list \o rs[m + 1], n, cs, rs, m + 1)
         /\ cs[m + 1].name # n => Concatenates(list, n, cs, rs, m + 1)
<1>1. PICK off \in [0..m -> 0..Len(list)] :
        /\ off[0] = 0 /\ off[m] = Len(list)
        /\ \A i \in 1..m :
             IF cs[i].name = n
             THEN /\ off[i] = off[i - 1] + Len(rs[i])
                  /\ \A k \in 1..Len(rs[i]) : list[off[i - 1] + k] = rs[i][k]
             ELSE off[i] = off[i - 1]
  BY DEF Concatenates
<1>2. ASSUME NEW new \in Seq(S), Len(new) >= Len(list),
             \A j \in 1..Len(list) : new[j] = list[j],
             IF cs[m + 1].name = n
             THEN /\ Len(new) = Len(list) + Len(rs[m + 1])
                  /\ \A k \in 1..Len(rs[m + 1]) : new[Len(list) + k] = rs[m + 1][k]
             ELSE Len(new) = Len(list)
      PROVE  Concatenates(new, n, cs, rs, m + 1)
  <2> DEFINE end == [i \in 0..(m + 1) |-> IF i = m + 1 THEN Len(new) ELSE off[i]]
  <2>1. Len(list) \in Nat /\ Len(new) \in Nat
    OBVIOUS
  <2>2. /\ end \in [0..(m + 1) -> 0..Len(new)]
        /\ end[0] = 0 /\ end[m + 1] = Len(new)
        /\ \A i \in 0..m : end[i] = off[i]
    BY <1>1, <1>2, <2>1
  <2> HIDE DEF end
  <2>3. ASSUME NEW i \in 1..(m + 1)
        PROVE  IF cs[i].name = n
               THEN /\ end[i] = end[i - 1] + Len(rs[i])
                    /\ \A k \in 1..Len(rs[i]) : new[end[i - 1] + k] = rs[i][k]
               ELSE end[i] = end[i - 1]
    <3>1. CASE i = m + 1
      <4>1. i - 1 = m /\ end[i - 1] = Len(list) /\ end[i] = Len(new)
        BY <3>1, <1>1, <2>2
      <4> QED
        BY <4>1, <3>1, <1>2
    <3>2. CASE i \in 1..m
      <4>1. end[i] = off[i] /\ end[i - 1] = off[i - 1]
        BY <3>2, <2>2
      <4>2. off[i] \in 0..Len(list) /\ off[i - 1] \in 0..Len(list) /\ Len(rs[i]) \in Nat
        BY <3>2, <1>1
      <4>3. CASE cs[i].name = n
        <5>1. /\ off[i] = off[i - 1] + Len(rs[i])
              /\ \A k \in 1..Len(rs[i]) : list[off[i - 1] + k] = rs[i][k]
          BY <4>3, <3>2, <1>1
        <5>2. \A k \in 1..Len(rs[i]) : off[i - 1] + k \in 1..Len(list)
          BY <5>1, <4>2, <2>1
        <5>3. \A k \in 1..Len(rs[i]) : new[off[i - 1] + k] = rs[i][k]
          BY <5>1, <5>2, <1>2
        <5> QED
          BY <4>1, <4>3, <5>1, <5>3
      <4>4. CASE cs[i].name # n
        BY <4>1, <4>4, <3>2, <1>1
      <4> QED
        BY <4>3, <4>4
    <3> QED
      BY <3>1, <3>2
  <2> QED
    BY <2>2, <2>3 DEF Concatenates
<1>3. CASE cs[m + 1].name = n
  <2> DEFINE tail == rs[m + 1]
  <2>1. tail \in Seq(S)
    OBVIOUS
  <2>2. /\ list \o tail \in Seq(S) /\ Len(list \o tail) = Len(list) + Len(tail)
        /\ Len(tail) \in Nat /\ Len(list) \in Nat
        /\ \A j \in 1..Len(list) : (list \o tail)[j] = list[j]
        /\ \A k \in 1..Len(tail) : (list \o tail)[Len(list) + k] = tail[k]
    <3> HIDE DEF tail
    <3> QED
      BY <2>1
  <2>3. Len(list \o tail) >= Len(list)
    BY <2>2
  <2> QED
    BY <1>2, <1>3, <2>2, <2>3
<1>4. CASE cs[m + 1].name # n
  <2>1. Len(list) \in Nat /\ Len(list) >= Len(list)
    OBVIOUS
  <2> QED
    BY <1>2, <1>4, <2>1
<1> QED
  BY <1>3, <1>4

\* One iteration of the merge loop keeps the order of the slice.
LEMMA OrderedStep ==
  ASSUME NEW o, IsChecksMap(o), NEW cs, NEW rs, NEW m \in Nat,
         \A i \in 1..(m + 1) : rs[i] \in Seq(ComponentStatus),
         Ordered(o, cs, rs, m)
  PROVE  Ordered(merge(o, cs[m + 1].name, rs[m + 1]), cs, rs, m + 1)
<1> DEFINE new == merge(o, cs[m + 1].name, rs[m + 1])
<1> SUFFICES ASSUME NEW n \in Name \ {systemTimeCheckName}
             PROVE  Concatenates(Lookup(new, n), n, cs, rs, m + 1)
  BY DEF Ordered
<1>1. Lookup(o, n) \in Seq(ComponentStatus)
  BY DEF Lookup, IsChecksMap
<1>2. Concatenates(Lookup(o, n), n, cs, rs, m)
  BY DEF Ordered
<1>3. /\ cs[m + 1].name = n => Concatenates(Lookup(o, n) \o rs[m + 1], n, cs, rs, m + 1)
      /\ cs[m + 1].name # n => Concatenates(Lookup(o, n), n, cs, rs, m + 1)
  BY <1>1, <1>2, ConcatStep
<1>4. rs[m + 1] = <<>> => Lookup(o, n) \o rs[m + 1] = Lookup(o, n)
  BY <1>1
<1>5. Lookup(new, n) = IF cs[m + 1].name = n THEN Lookup(o, n) \o rs[m + 1]
                       ELSE Lookup(o, n)
  BY <1>4 DEF merge, Assign, Lookup
<1> QED
  BY <1>3, <1>5

LEMMA MergeKeeps ==
  ASSUME IInv, NEW r \in Requests, Merge(r)
  PROVE  IInv'
<1> DEFINE i == merged[r] + 1
<1>1. /\ pc[r] = "merging" /\ UNCHANGED engineVars /\ ScopesNested' /\ UNCHANGED goVars
      /\ UNCHANGED <<endpoint, checks, spawned, wg, status, log>>
      /\ merged'[r] = i
      /\ pc'[r] = IF i = Len(checks[r]) THEN "merged" ELSE "merging"
      /\ out'[r] = merge(out[r], checks[r][i].name, results[r][i])
  BY DEF Merge, engineVars, goVars, IInv, TypeOK, ScopesNested
<1>2. ASSUME NEW q \in Requests \ {r} PROVE RequestInv(q)'
  <2>1. SameRequest(q)
    BY DEF Merge, goVars, SameRequest, IInv, TypeOK
  <2> QED
    BY <2>1, <1>1, FrameKeeps DEF IInv
<1>3. /\ merged[r] \in Nat /\ merged[r] < Len(checks[r]) /\ Len(checks[r]) \in Nat
      /\ i \in 1..Len(checks[r]) /\ i \in Slots /\ i \in 0..MaxChecks
      /\ checks[r][i].name \in Name \ {systemTimeCheckName}
      /\ results[r][i] \in Seq(ComponentStatus)
  <2>1. /\ Len(checks[r]) \in Nat /\ Len(checks[r]) <= MaxChecks /\ MaxChecks \in Nat
        /\ \A k \in 1..Len(checks[r]) : checks[r][k].name \in Name \ {systemTimeCheckName}
    BY SliceFacts, EngineAssumption DEF IInv, RequestInv
  <2>2. merged[r] \in Nat /\ merged[r] < Len(checks[r])
    BY <1>1 DEF IInv, TypeOK, RequestInv, MergeInv
  <2>3. i \in 1..Len(checks[r]) /\ i \in Slots /\ i \in 0..MaxChecks
    BY <2>1, <2>2 DEF Slots
  <2> QED
    BY <2>1, <2>2, <2>3 DEF IInv, TypeOK
<1>4. /\ IsChecksMap(out'[r])
      /\ systemTimeCheckName \in DOMAIN out'[r]
      /\ out'[r][systemTimeCheckName] = <<systemTimeStatus>>
      /\ Complete(out'[r], checks[r], results[r], i)
      /\ Sound(out'[r], checks[r], results[r], i)
      /\ Ordered(out'[r], checks[r], results[r], i)
  <2>1. /\ IsChecksMap(out[r]) /\ systemTimeCheckName \in DOMAIN out[r]
        /\ out[r][systemTimeCheckName] = <<systemTimeStatus>>
        /\ Complete(out[r], checks[r], results[r], merged[r])
        /\ Sound(out[r], checks[r], results[r], merged[r])
        /\ Ordered(out[r], checks[r], results[r], merged[r])
    BY <1>1 DEF IInv, TypeOK, RequestInv, OutInv
  <2>2. \A k \in 1..i : results[r][k] \in Seq(ComponentStatus)
    BY <1>3, EngineAssumption DEF IInv, TypeOK, Slots
  <2>3. Ordered(out'[r], checks[r], results[r], i)
    BY <2>1, <2>2, <1>1, <1>3, OrderedStep
  <2> QED
    BY <2>1, <2>3, <1>1, <1>3, MergeOut
<1>5. TypeOK'
  <2>1. merged' \in [Requests -> 0..MaxChecks]
    BY <1>3 DEF Merge, IInv, TypeOK
  <2>2. pc' \in [Requests -> Pc]
    BY DEF Merge, IInv, TypeOK, Pc
  <2>3. DOMAIN out' = Requests /\ \A q \in Requests : IsChecksMap(out'[q])
    BY <1>4 DEF Merge, IInv, TypeOK
  <2> QED
    BY <2>1, <2>2, <2>3 DEF Merge, IInv, TypeOK, engineVars, goVars
<1>6. RequestInv(r)'
  <2>1. SnapshotInv(r)'
    BY <1>1 DEF IInv, RequestInv, SnapshotInv, engineVars, Scope
  <2>2. SpawnInv(r)' /\ StoreInv(r)'
    BY <1>1 DEF IInv, RequestInv, SpawnInv, StoreInv, goVars
  <2>3. BarrierInv(r)'
    <3>1. Active(r)' = Active(r)
      BY <1>1 DEF Active, goVars
    <3> QED
      BY <3>1, <1>1 DEF IInv, RequestInv, BarrierInv
  <2>4. MergeInv(r)'
    BY <1>1, <1>3 DEF MergeInv
  <2>5. OutInv(r)'
    BY <1>1, <1>4 DEF OutInv, goVars
  <2>6. StatusInv(r)'
    BY <1>1 DEF StatusInv
  <2> QED
    BY <2>1, <2>2, <2>3, <2>4, <2>5, <2>6 DEF RequestInv
<1> QED
  BY <1>1, <1>2, <1>5, <1>6 DEF IInv

\* aggregate, emitLog and the return; and the cancellation of the caller's
\* context, which no part of the invariant looks at.
LEMMA RespondKeeps ==
  ASSUME IInv, NEW r \in Requests, Respond(r)
  PROVE  IInv'
<1>1. /\ pc[r] = "merged" /\ pc'[r] = "done"
      /\ UNCHANGED engineVars /\ ScopesNested' /\ UNCHANGED goVars
      /\ UNCHANGED <<endpoint, checks, spawned, wg, merged, out>>
      /\ status'[r] = aggregate(out[r]) /\ log'[r] = emitLog(endpoint[r], aggregate(out[r]))
  BY DEF Respond, engineVars, goVars, IInv, TypeOK, ScopesNested
<1>2. ASSUME NEW q \in Requests \ {r} PROVE RequestInv(q)'
  <2>1. SameRequest(q)
    BY DEF Respond, goVars, SameRequest, IInv, TypeOK
  <2> QED
    BY <2>1, <1>1, FrameKeeps DEF IInv
<1>3. TypeOK'
  <2>1. aggregate(out[r]) \in Status
    BY DEF aggregate, Status
  <2>2. emitLog(endpoint[r], aggregate(out[r])) \in Seq(LogText)
    <3>1. endpoint[r] \in Endpoint
      BY <1>1 DEF IInv, RequestInv, SnapshotInv
    <3>2. Len(Scope(endpoint[r])) \in Nat
      BY <3>1 DEF IInv, TypeOK, IsSlice, Endpoint, Scope
    <3>3. Kind(endpoint[r]) \in {"liveness", "readiness", "health"}
      BY <3>1 DEF Endpoint, Kind
    <3>4. \A level \in {"warn", "error"} : LogLine(level, endpoint[r]) \in LogText
      BY <3>2, <3>3 DEF LogLine, LogText
    <3> QED
      BY <3>4 DEF emitLog
  <2>3. /\ status' \in [Requests -> Status \cup {"none"}] /\ pc' \in [Requests -> Pc]
        /\ log' \in [Requests -> Seq(LogText)]
    BY <2>1, <2>2 DEF Respond, IInv, TypeOK, Pc
  <2> QED
    BY <2>3 DEF Respond, IInv, TypeOK, engineVars, goVars
<1>4. RequestInv(r)'
  <2>1. SnapshotInv(r)'
    BY <1>1 DEF IInv, RequestInv, SnapshotInv, engineVars, Scope
  <2>2. SpawnInv(r)' /\ StoreInv(r)'
    BY <1>1 DEF IInv, RequestInv, SpawnInv, StoreInv, goVars
  <2>3. BarrierInv(r)'
    <3>1. Active(r)' = Active(r)
      BY <1>1 DEF Active, goVars
    <3> QED
      BY <3>1, <1>1 DEF IInv, RequestInv, BarrierInv
  <2>4. MergeInv(r)' /\ OutInv(r)'
    BY <1>1 DEF IInv, RequestInv, MergeInv, OutInv, goVars
  <2>5. StatusInv(r)'
    BY <1>1 DEF StatusInv, engineVars, emitLog, LogLine, Scope, Kind
  <2> QED
    BY <2>1, <2>2, <2>3, <2>4, <2>5 DEF RequestInv
<1> QED
  BY <1>1, <1>2, <1>3, <1>4 DEF IInv

LEMMA CancelKeeps ==
  ASSUME IInv, NEW r \in Requests, Cancel(r)
  PROVE  IInv'
<1>1. UNCHANGED engineVars /\ ScopesNested'
  BY DEF Cancel, engineVars, IInv, ScopesNested
<1>2. \A q \in Requests : SameRequest(q)
  BY DEF Cancel, goVars, SameRequest
<1>3. \A q \in Requests : RequestInv(q)'
  BY <1>1, <1>2, FrameKeeps DEF IInv
<1>4. TypeOK'
  BY DEF Cancel, IInv, TypeOK, engineVars, goVars
<1> QED
  BY <1>1, <1>3, <1>4 DEF IInv

LEMMA StutterKeeps ==
  ASSUME IInv, UNCHANGED vars
  PROVE  IInv'
<1>1. UNCHANGED engineVars /\ ScopesNested' /\ TypeOK'
  BY DEF vars, requestVars, engineVars, goVars, IInv, ScopesNested, TypeOK
<1>2. \A q \in Requests : SameRequest(q)
  BY DEF vars, requestVars, goVars, SameRequest
<1> QED
  BY <1>1, <1>2, FrameKeeps DEF IInv

LEMMA NextKeeps == IInv /\ [Next]_vars => IInv'
<1> SUFFICES ASSUME IInv, [Next]_vars PROVE IInv'
  OBVIOUS
<1>1. CASE Register
  BY <1>1, RegisterKeeps DEF Register
<1>2. CASE Serve
  BY <1>2, ServeKeeps
<1>3. ASSUME NEW r \in Requests, Request(r) PROVE IInv'
  BY <1>3, BeginKeeps, LaunchKeeps, WaitKeeps, MergeKeeps, RespondKeeps, CancelKeeps
  DEF Request
<1>4. ASSUME NEW r \in Requests, NEW i \in Slots, Goroutine(r, i) PROVE IInv'
  BY <1>4, StoreKeeps, CallKeeps, WgDoneKeeps DEF Goroutine
<1>5. CASE Terminated \/ UNCHANGED vars
  BY <1>5, StutterKeeps DEF Terminated
<1> QED
  BY <1>1, <1>2, <1>3, <1>4, <1>5 DEF Next

-----------------------------------------------------------------------------
\* IInv is an invariant: at every point of every interleaving of any number of
\* requests and their goroutines, the response under construction holds
\* exactly what was merged so far (Engine.runChecks).
THEOREM IInvInvariant == Spec => []IInv
<1>1. Init => IInv
  BY InitHolds
<1>2. IInv /\ [Next]_vars => IInv'
  BY NextKeeps
<1> QED
  BY <1>1, <1>2, PTL DEF Spec

\* Type correctness, and that no check under the reserved name is ever
\* registered (Engine.RegisterHealthCheck and its siblings).
THEOREM TypeCorrect == Spec => []TypeOK
<1>1. IInv => TypeOK
  BY DEF IInv
<1> QED
  BY <1>1, IInvInvariant, PTL

\* The three scopes stay nested under any sequence of Register calls.
THEOREM ScopesStayNested == Spec => []ScopesNested
<1>1. IInv => ScopesNested
  BY DEF IInv
<1> QED
  BY <1>1, IInvInvariant, PTL

\* No response loses or alters its heartbeat entry (Engine.runChecks).
THEOREM HeartbeatStays == Spec => []HeartbeatIntact
<1>1. IInv => HeartbeatIntact
  BY DEF IInv, RequestInv, OutInv, HeartbeatIntact
<1> QED
  BY <1>1, IInvInvariant, PTL

\* No derived context outlives its request (defer cancel() in Engine.runOne).
THEOREM ContextsReleased == Spec => []NoContextLeak
<1>1. IInv => NoContextLeak
  <2> SUFFICES ASSUME IInv, NEW r \in Requests, pc[r] = "done", NEW i \in Slots
               PROVE  timer[r][i] \in {"none", "released"}
    BY DEF NoContextLeak
  <2>1. i \notin Active(r)
    BY DEF IInv, RequestInv, BarrierInv
  <2>2. timer[r][i] \in Timer /\ timer[r][i] \notin {"armed", "expired"}
    BY <2>1 DEF Active, IInv, TypeOK, RequestInv, StoreInv
  <2> QED
    BY <2>2 DEF Timer
<1> QED
  BY <1>1, IInvInvariant, PTL

\* The conversion runOne makes is what a client should see.
LEMMA ShownFacts ==
  ASSUME NEW c \in Check, NEW rs \in Seq(Result)
  PROVE  convert(c, rs) = Shown(c, rs)
<1>1. \A k \in 1..Len(rs) : rs[k] \in Result
  OBVIOUS
<1>2. \A k \in 1..Len(rs) : rs[k].output \in BOOLEAN /\ rs[k].affected \in BOOLEAN
  BY <1>1 DEF Result
<1> QED
  BY <1>2 DEF convert, Shown, toComponentStatus, affectedOf

\* Once a request is answered, every check of its slice has been run to the end.
LEMMA FinishedWhenDone ==
  ASSUME IInv, NEW r \in Requests, pc[r] = "done", NEW i \in 1..Len(checks[r])
  PROVE  i \in Slots /\ gor[r][i] = "finished"
<1>1. Len(checks[r]) \in Nat /\ Len(checks[r]) <= MaxChecks /\ MaxChecks \in Nat
  BY SliceFacts, EngineAssumption DEF IInv, RequestInv
<1>2. i \in Slots /\ i <= spawned[r]
  BY <1>1 DEF Slots, IInv, RequestInv, SpawnInv
<1>3. gor[r][i] \in Gor
  BY <1>2 DEF IInv, TypeOK
<1>4. gor[r][i] # "none" /\ i \notin Active(r)
  BY <1>1, <1>2 DEF IInv, TypeOK, RequestInv, SpawnInv, BarrierInv
<1> QED
  BY <1>2, <1>3, <1>4 DEF Active, Gor

\* Once a request is answered, every slot of its results slice holds the
\* conversion of what the Run function of that check returned.
LEMMA ResultsConverted ==
  ASSUME IInv, NEW r \in Requests, pc[r] = "done", NEW i \in 1..Len(checks[r])
  PROVE  /\ results[r][i] = Shown(checks[r][i], runResults[r][i])
         /\ Len(results[r][i]) = Len(runResults[r][i])
         /\ \A k \in 1..Len(results[r][i]) :
              results[r][i][k].status = runResults[r][i][k].status
<1>1. checks[r][i] \in Check
  BY SliceFacts DEF IInv, RequestInv
<1>2. i \in Slots /\ gor[r][i] = "finished"
  BY FinishedWhenDone
<1>3. runResults[r][i] \in Seq(Result)
  BY <1>2 DEF IInv, TypeOK
<1>4. results[r][i] = convert(checks[r][i], runResults[r][i])
  BY <1>2 DEF IInv, RequestInv, StoreInv
<1> QED
  BY <1>1, <1>3, <1>4, ConvertFacts, ShownFacts

\* In a finished response, an observation of a given status is in the map
\* exactly when a check of the endpoint made it in this request.
LEMMA ReportsObserved ==
  ASSUME IInv, NEW r \in Requests, pc[r] = "done",
         NEW s \in {StatusFail, StatusWarn}
  PROVE  Reports(out[r], s) <=> Observed(r, s)
<1>1. /\ checks[r] = Scope(endpoint[r]) /\ merged[r] = Len(checks[r])
      /\ Complete(out[r], checks[r], results[r], Len(checks[r]))
      /\ Sound(out[r], checks[r], results[r], Len(checks[r]))
      /\ out[r][systemTimeCheckName] = <<systemTimeStatus>>
  BY DEF IInv, RequestInv, SnapshotInv, MergeInv, OutInv
<1>2. \A i \in 1..Len(checks[r]) :
        /\ Len(results[r][i]) = Len(runResults[r][i])
        /\ \A k \in 1..Len(results[r][i]) :
             results[r][i][k].status = runResults[r][i][k].status
  BY ResultsConverted
<1>3. ASSUME Reports(out[r], s) PROVE Observed(r, s)
  <2>1. PICK n \in DOMAIN out[r] : \E j \in 1..Len(out[r][n]) : out[r][n][j].status = s
    BY <1>3 DEF Reports
  <2>2. PICK j \in 1..Len(out[r][n]) : out[r][n][j].status = s
    BY <2>1
  <2>3. n # systemTimeCheckName
    <3> SUFFICES ASSUME n = systemTimeCheckName PROVE FALSE
      OBVIOUS
    <3>1. out[r][n] = <<systemTimeStatus>> /\ j = 1
      BY <1>1
    <3>2. systemTimeStatus.status = s
      BY <3>1, <2>2
    <3> QED
      BY <3>2 DEF systemTimeStatus, StatusPass, StatusFail, StatusWarn
  <2>4. PICK i \in 1..Len(checks[r]) :
          \E k \in 1..Len(results[r][i]) : out[r][n][j] = results[r][i][k]
    BY <1>1, <2>3 DEF Sound
  <2>5. PICK k \in 1..Len(results[r][i]) : out[r][n][j] = results[r][i][k]
    BY <2>4
  <2>6. k \in 1..Len(runResults[r][i]) /\ runResults[r][i][k].status = s
    BY <1>2, <2>2, <2>5
  <2> QED
    BY <1>1, <2>6 DEF Observed
<1>4. ASSUME Observed(r, s) PROVE Reports(out[r], s)
  <2>1. PICK i \in 1..Len(checks[r]) :
          \E k \in 1..Len(results[r][i]) : results[r][i][k].status = s
    BY <1>1, <1>2, <1>4 DEF Observed
  <2>2. PICK k \in 1..Len(results[r][i]) : results[r][i][k].status = s
    BY <2>1
  <2>3. /\ checks[r][i].name \in DOMAIN out[r]
        /\ \E j \in 1..Len(out[r][checks[r][i].name]) :
             out[r][checks[r][i].name][j] = results[r][i][k]
    BY <1>1, <2>2 DEF Complete
  <2> QED
    BY <2>2, <2>3 DEF Reports
<1> QED
  BY <1>3, <1>4

LEMMA IInvVerdict == IInv => VerdictExact
<1> SUFFICES ASSUME IInv, NEW r \in Requests, pc[r] = "done"
             PROVE  status[r] = IF Observed(r, StatusFail) THEN StatusFail
                                ELSE IF Observed(r, StatusWarn) THEN StatusWarn
                                ELSE StatusPass
  BY DEF VerdictExact
<1>1. status[r] = aggregate(out[r])
  BY DEF IInv, RequestInv, StatusInv
<1>2. /\ Reports(out[r], StatusFail) <=> Observed(r, StatusFail)
      /\ Reports(out[r], StatusWarn) <=> Observed(r, StatusWarn)
  BY ReportsObserved
<1> QED
  BY <1>1, <1>2 DEF aggregate

\* The status of every response is decided by exactly the observations that
\* the checks of its endpoint made in this request (runChecks, aggregate).
THEOREM VerdictIsExact == Spec => []VerdictExact
  BY IInvVerdict, IInvInvariant, PTL

\* A concatenation depends on the entries of the lists only.
LEMMA ConcatSame ==
  ASSUME NEW list, NEW n, NEW cs, NEW a, NEW b, NEW m,
         \A i \in 1..m : b[i] = a[i], Concatenates(list, n, cs, a, m)
  PROVE  Concatenates(list, n, cs, b, m)
<1>1. PICK off \in [0..m -> 0..Len(list)] :
        /\ off[0] = 0 /\ off[m] = Len(list)
        /\ \A i \in 1..m :
             IF cs[i].name = n
             THEN /\ off[i] = off[i - 1] + Len(a[i])
                  /\ \A k \in 1..Len(a[i]) : list[off[i - 1] + k] = a[i][k]
             ELSE off[i] = off[i - 1]
  BY DEF Concatenates
<1>2. ASSUME NEW i \in 1..m
      PROVE  IF cs[i].name = n
             THEN /\ off[i] = off[i - 1] + Len(b[i])
                  /\ \A k \in 1..Len(b[i]) : list[off[i - 1] + k] = b[i][k]
             ELSE off[i] = off[i - 1]
  BY <1>1
<1> QED
  BY <1>1, <1>2 DEF Concatenates

LEMMA IInvResponse == IInv => ResponseExact
<1> SUFFICES ASSUME IInv, NEW r \in Requests, pc[r] = "done",
                    NEW n \in Name \ {systemTimeCheckName}
             PROVE  LET cs    == Scope(endpoint[r])
                        shown == [i \in 1..Len(cs) |-> Shown(cs[i], runResults[r][i])]
                    IN  /\ Concatenates(Lookup(out[r], n), n, cs, shown, Len(cs))
                        /\ n \in DOMAIN out[r] => out[r][n] # <<>>
  BY DEF ResponseExact
<1> DEFINE shown == [i \in 1..Len(checks[r]) |-> Shown(checks[r][i], runResults[r][i])]
<1>1. /\ checks[r] = Scope(endpoint[r])
      /\ Concatenates(Lookup(out[r], n), n, checks[r], results[r], Len(checks[r]))
      /\ n \in DOMAIN out[r] => out[r][n] # <<>>
  BY DEF IInv, RequestInv, SnapshotInv, MergeInv, OutInv, Ordered, Sound
<1>2. \A i \in 1..Len(checks[r]) : shown[i] = results[r][i]
  BY ResultsConverted
<1> HIDE DEF shown
<1>3. Concatenates(Lookup(out[r], n), n, checks[r], shown, Len(checks[r]))
  BY <1>1, <1>2, ConcatSame
<1> QED
  BY <1>1, <1>3 DEF shown

\* Every finished response lists, under each name, the observations of the
\* checks with that name in registration order and nothing else, for any
\* number of checks and any order in which they finish (runOne, runChecks).
THEOREM ResponsesAreExact == Spec => []ResponseExact
  BY IInvResponse, IInvInvariant, PTL

\* No goroutine writes the results slice once wg.Wait() has returned, so the
\* merge loop of Engine.runChecks reads it without a race.
THEOREM ResultsStayFrozen == Spec => ResultsFrozen
<1> DEFINE Frozen == \A r \in Requests : pc[r] \in {"merging", "merged", "done"} =>
                       results'[r] = results[r]
<1>1. IInv /\ [Next]_vars => [Frozen]_vars
  <2> SUFFICES ASSUME IInv, Next, NEW r \in Requests,
                      pc[r] \in {"merging", "merged", "done"}
               PROVE  results'[r] = results[r]
    OBVIOUS
  <2>1. CASE results' = results
    BY <2>1
  <2>2. CASE \E q \in Requests, i \in Slots : RunOneNil(q, i) \/ RunReturns(q, i)
    <3>1. PICK q \in Requests, i \in Slots : RunOneNil(q, i) \/ RunReturns(q, i)
      BY <2>2
    <3>2. i \in Active(q)
      BY <3>1 DEF RunOneNil, RunReturns, Active
    <3>3. q # r
      BY <3>2 DEF IInv, RequestInv, BarrierInv
    <3> QED
      BY <3>1, <3>3 DEF RunOneNil, RunReturns, Store, IInv, TypeOK
  <2>3. results' = results \/ \E q \in Requests, i \in Slots : RunOneNil(q, i) \/ RunReturns(q, i)
    BY DEF Next, Register, RegisterHealthCheck, RegisterReadinessCheck,
      RegisterLivenessCheck, RegisterWith, Serve, Request, RunLivez, RunReadyz, RunHealthz, Begin, Launch,
      Wait, Merge, Respond, Cancel, Goroutine, RunOneCall, DeadlineExceeded, WgDone,
      Terminated, vars, requestVars, goVars
  <2> QED
    BY <2>1, <2>2, <2>3
<1> QED
  BY <1>1, IInvInvariant, PTL DEF Spec, ResultsFrozen

\* A request that observed a failure leaves exactly one line, at level error, one
\* that observed a warning at worst exactly one, at level warn, any other none,
\* and the line counts the checks that ran (Engine.emitLog).
THEOREM AlarmsAreLogged == Spec => []AlarmLogged
<1>1. IInv => AlarmLogged
  <2> SUFFICES ASSUME IInv, NEW r \in Requests, pc[r] = "done"
               PROVE  LET level == IF Observed(r, StatusFail) THEN "error"
                                   ELSE IF Observed(r, StatusWarn) THEN "warn" ELSE "none"
                      IN  IF level = "none" THEN log[r] = <<>>
                          ELSE /\ Len(log[r]) = 1 /\ log[r][1].level = level
                               /\ log[r][1].count =
                                    Cardinality({i \in Slots : gor[r][i] = "finished"})
    BY DEF AlarmLogged
  <2> DEFINE n == Len(Scope(endpoint[r]))
  <2>1. /\ status[r] \in {StatusPass, StatusWarn, StatusFail}
        /\ log[r] = emitLog(endpoint[r], status[r])
        /\ checks[r] = Scope(endpoint[r]) /\ spawned[r] = n
    BY DEF IInv, RequestInv, StatusInv, SnapshotInv, SpawnInv, aggregate
  <2>2. n = Cardinality({i \in Slots : gor[r][i] = "finished"})
    <3>1. n \in Nat /\ n <= MaxChecks /\ MaxChecks \in Nat
      BY <2>1, SliceFacts, EngineAssumption DEF IInv, RequestInv
    <3>2. \A i \in Slots : gor[r][i] = "finished" <=> i <= n
      <4> SUFFICES ASSUME NEW i \in Slots PROVE gor[r][i] = "finished" <=> i <= n
        OBVIOUS
      <4>0. gor[r][i] \in Gor /\ i \notin Active(r)
        BY DEF IInv, TypeOK, RequestInv, BarrierInv
      <4>1. gor[r][i] \in {"none", "finished"}
        BY <4>0 DEF Active, Gor
      <4>2. gor[r][i] = "none" <=> i > n
        BY <2>1 DEF IInv, RequestInv, SpawnInv
      <4> QED
        BY <3>1, <4>1, <4>2 DEF Slots
    <3>3. {i \in Slots : gor[r][i] = "finished"} = 1..n
      BY <3>1, <3>2 DEF Slots
    <3>4. Cardinality(1..n) = n
      <4> HIDE DEF n
      <4> QED
        BY <3>1, FS_Interval
    <3> QED
      BY <3>3, <3>4
  <2> HIDE DEF n
  <2>3. \/ status[r] = StatusPass /\ log[r] = <<>>
        \/ status[r] = StatusWarn /\ log[r] = <<LogLine("warn", endpoint[r])>>
        \/ status[r] = StatusFail /\ log[r] = <<LogLine("error", endpoint[r])>>
    BY <2>1 DEF emitLog, StatusPass, StatusWarn, StatusFail
  <2>4. \A level : /\ LogLine(level, endpoint[r]).level = level
                   /\ LogLine(level, endpoint[r]).count = n
    BY DEF LogLine, n
  <2>5. status[r] = IF Observed(r, StatusFail) THEN StatusFail
                    ELSE IF Observed(r, StatusWarn) THEN StatusWarn ELSE StatusPass
    BY IInvVerdict DEF VerdictExact
  <2>6. ASSUME NEW level, log[r] = <<LogLine(level, endpoint[r])>>
        PROVE  Len(log[r]) = 1 /\ log[r][1].level = level /\ log[r][1].count = n
    <3>1. Len(log[r]) = 1 /\ log[r][1] = LogLine(level, endpoint[r])
      BY <2>6
    <3> QED
      BY <2>4, <3>1
  <2>7. CASE Observed(r, StatusFail)
    <3>1. log[r] = <<LogLine("error", endpoint[r])>>
      BY <2>3, <2>5, <2>7 DEF StatusPass, StatusWarn, StatusFail
    <3> QED
      BY <2>2, <2>6, <2>7, <3>1
  <2>8. CASE ~Observed(r, StatusFail) /\ Observed(r, StatusWarn)
    <3>1. log[r] = <<LogLine("warn", endpoint[r])>>
      BY <2>3, <2>5, <2>8 DEF StatusPass, StatusWarn, StatusFail
    <3> QED
      BY <2>2, <2>6, <2>8, <3>1
  <2>9. CASE ~Observed(r, StatusFail) /\ ~Observed(r, StatusWarn)
    BY <2>3, <2>5, <2>9 DEF StatusPass, StatusWarn, StatusFail
  <2> QED
    BY <2>7, <2>8, <2>9
<1> QED
  BY <1>1, IInvInvariant, PTL

-----------------------------------------------------------------------------
\* wg.Wait() never blocks on a count that nobody will lower, and a Run with a
\* Timeout always has the timer that ends it (Engine.runChecks, Engine.runOne).
THEOREM NobodyIsStuck == Spec => []NeverStuck
<1>1. IInv => NeverStuck
  <2> SUFFICES ASSUME IInv, NEW r \in Requests
               PROVE  /\ pc[r] = "waiting" /\ wg[r] > 0 =>
                           \E i \in 1..Len(checks[r]) :
                             gor[r][i] \in {"ready", "running", "stored"}
                      /\ \A i \in 1..Len(checks[r]) :
                           gor[r][i] = "running" /\ checks[r][i].timeout > 0 =>
                             timer[r][i] \in {"armed", "expired"}
    BY DEF NeverStuck
  <2>1. /\ Len(checks[r]) \in Nat /\ Len(checks[r]) <= MaxChecks /\ MaxChecks \in Nat
        /\ spawned[r] \in Nat /\ spawned[r] <= Len(checks[r])
    BY SliceFacts, EngineAssumption DEF IInv, TypeOK, RequestInv, SpawnInv
  <2>2. ASSUME wg[r] > 0
        PROVE  \E i \in 1..Len(checks[r]) : gor[r][i] \in {"ready", "running", "stored"}
    <3>1. wg[r] = Cardinality(Active(r))
      BY DEF IInv, RequestInv, BarrierInv
    <3>2. Active(r) # {}
      BY <2>2, <3>1, FS_EmptySet
    <3>3. PICK i \in Slots : gor[r][i] \in {"ready", "running", "stored"}
      BY <3>2 DEF Active
    <3>4. i <= spawned[r]
      BY <2>1, <3>3 DEF IInv, RequestInv, SpawnInv, Slots
    <3> QED
      BY <2>1, <3>3, <3>4 DEF Slots
  <2>3. 1..Len(checks[r]) \subseteq Slots
    BY <2>1 DEF Slots
  <2> QED
    BY <2>2, <2>3 DEF IInv, RequestInv, StoreInv
<1> QED
  BY <1>1, IInvInvariant, PTL

\* With checks that report one of the three statuses, a response passes exactly
\* when all components it shows pass (Engine.runChecks, aggregate).
THEOREM PassIsAllPass == Spec => []PassMeansAllPass
<1>1. IInv => PassMeansAllPass
  <2> SUFFICES ASSUME IInv, NEW r \in Requests, pc[r] = "done",
                      \A i \in 1..Len(checks[r]) : Known(runResults[r][i])
               PROVE  status[r] = StatusPass <=>
                        \A k \in DOMAIN out[r] : \A j \in 1..Len(out[r][k]) :
                          out[r][k][j].status = StatusPass
    BY DEF PassMeansAllPass
  <2>1. /\ status[r] = aggregate(out[r])
        /\ out[r][systemTimeCheckName] = <<systemTimeStatus>>
        /\ Sound(out[r], checks[r], results[r], Len(checks[r]))
    BY DEF IInv, RequestInv, StatusInv, MergeInv, OutInv
  <2>2. ASSUME NEW k \in DOMAIN out[r], NEW j \in 1..Len(out[r][k])
        PROVE  out[r][k][j].status \in {StatusPass, StatusWarn, StatusFail}
    <3>1. CASE k = systemTimeCheckName
      <4>1. out[r][k] = <<systemTimeStatus>>
        BY <2>1, <3>1
      <4>2. j \in 1..Len(<<systemTimeStatus>>)
        BY <4>1
      <4>3. out[r][k][j] = systemTimeStatus
        BY <4>1, <4>2
      <4>4. systemTimeStatus.status = StatusPass
        BY DEF systemTimeStatus
      <4> QED
        BY <4>3, <4>4
    <3>2. CASE k # systemTimeCheckName
      <4>1. PICK i \in 1..Len(checks[r]) :
              \E l \in 1..Len(results[r][i]) : out[r][k][j] = results[r][i][l]
        BY <2>1, <3>2 DEF Sound
      <4>2. PICK l \in 1..Len(results[r][i]) : out[r][k][j] = results[r][i][l]
        BY <4>1
      <4>3. /\ l \in 1..Len(runResults[r][i])
            /\ results[r][i][l].status = runResults[r][i][l].status
        BY ResultsConverted
      <4> QED
        BY <4>2, <4>3 DEF Known
    <3> QED
      BY <3>1, <3>2
  <2> QED
    BY <2>1, <2>2 DEF aggregate, Reports, StatusPass, StatusWarn, StatusFail
<1> QED
  BY <1>1, IInvInvariant, PTL

\* The comment on aggregate ("otherwise pass", every component passes) is true of
\* every service whose checks keep to the three statuses, a nil Run included; the
\* run engine_unknown shows that it is not without them (aggregate).
THEOREM StrictUnderContract ==
  ASSUME \A rs \in Outcomes : Known(rs)
  PROVE  Spec => []OnlyAllPassPasses
<1>1. IInv /\ PassMeansAllPass => OnlyAllPassPasses
  <2> SUFFICES ASSUME IInv, PassMeansAllPass, NEW r \in Requests, pc[r] = "done"
               PROVE  \A i \in 1..Len(checks[r]) : Known(runResults[r][i])
    BY DEF PassMeansAllPass, OnlyAllPassPasses
  <2> SUFFICES ASSUME NEW i \in 1..Len(checks[r]) PROVE Known(runResults[r][i])
    OBVIOUS
  <2>1. i \in Slots /\ gor[r][i] = "finished"
    BY FinishedWhenDone
  <2>2. runResults[r][i] \in Outcomes \/ runResults[r][i] = nilRunResults
    BY <2>1 DEF IInv, RequestInv, StoreInv
  <2>3. Known(nilRunResults)
    <3>1. ASSUME NEW e, e.status = StatusFail PROVE Known(<<e>>)
      BY <3>1 DEF Known
    <3> DEFINE e == [componentId |-> "", status |-> StatusFail,
                     output |-> TRUE, affected |-> FALSE]
    <3>2. nilRunResults = <<e>>
      BY Zenon DEF nilRunResults
    <3>3. e.status = StatusFail
      OBVIOUS
    <3> HIDE DEF e
    <3> QED
      BY <3>1, <3>2, <3>3
  <2> QED
    BY <2>2, <2>3
<1> QED
  BY <1>1, IInvInvariant, PassIsAllPass, PTL

\* What a request has still to do is a finite set.
LEMMA TodoFinite ==
  ASSUME IInv, NEW r \in Requests
  PROVE  IsFiniteSet(Todo(r)) /\ Remaining(r) \in Nat
<1> DEFINE S == 0..MaxChecks
<1>1. /\ Len(checks[r]) \in Nat /\ Len(checks[r]) <= MaxChecks /\ MaxChecks \in Nat
  BY SliceFacts, EngineAssumption DEF IInv, RequestInv
<1>2. IsFiniteSet(S)
  BY <1>1, FS_Interval
<1>3. ASSUME NEW s PROVE IsFiniteSet({s} \X S)
  BY <1>2, FS_Singleton, FS_Product
<1> DEFINE All == ({"launch"} \X S) \cup ({"run"} \X S) \cup ({"expire"} \X S)
                  \cup ({"return"} \X S) \cup ({"done"} \X S) \cup ({"wait"} \X S)
                  \cup ({"merge"} \X S) \cup ({"respond"} \X S) \cup ({"cancel"} \X S)
<1>4. IsFiniteSet(All)
  BY <1>3, FS_Union
<1>5. 1..Len(checks[r]) \subseteq S /\ {0} \subseteq S
  BY <1>1
<1>6. Todo(r) \subseteq All
  BY <1>5 DEF Todo
<1> HIDE DEF All
<1>7. IsFiniteSet(Todo(r))
  BY <1>4, <1>6, FS_Subset
<1> QED
  BY <1>7, FS_CardinalityType DEF Remaining

\* A step that strikes something off the list and adds nothing shrinks it.
LEMMA StruckOff ==
  ASSUME IInv, NEW r \in Requests, Todo(r)' \subseteq Todo(r),
         NEW t \in Todo(r), t \notin Todo(r)'
  PROVE  Remaining(r)' < Remaining(r)
<1>1. IsFiniteSet(Todo(r)) /\ Cardinality(Todo(r)) \in Nat
  BY TodoFinite DEF Remaining
<1>2. /\ IsFiniteSet(Todo(r)') /\ Cardinality(Todo(r)') <= Cardinality(Todo(r))
      /\ Cardinality(Todo(r)') # Cardinality(Todo(r))
  BY <1>1, FS_Subset
<1>3. Cardinality(Todo(r)') \in Nat
  BY <1>2, FS_CardinalityType
<1> QED
  BY <1>1, <1>2, <1>3 DEF Remaining

\* The launch loop, the wait, the merge loop, the answer and a cancellation each
\* strike one step off the list of their request.
LEMMA RequestShrinks ==
  ASSUME IInv, NEW r \in Requests,
         Launch(r) \/ Wait(r) \/ Merge(r) \/ Respond(r) \/ Cancel(r)
  PROVE  Remaining(r)' < Remaining(r)
<1>1. /\ checks[r] \in Seq(Check) /\ Len(checks[r]) \in Nat
      /\ Len(checks[r]) <= MaxChecks /\ MaxChecks \in Nat
      /\ spawned[r] \in Nat /\ merged[r] \in Nat /\ gor[r] \in [Slots -> Gor]
      /\ RequestInv(r)
  BY SliceFacts, EngineAssumption DEF IInv, TypeOK, RequestInv
<1>2. checks' = checks /\ timer' = timer
  BY DEF Launch, Wait, Merge, Respond, Cancel, goVars
<1>3. CASE Launch(r)
  <2> DEFINE n == spawned[r] + 1
  <2>1. n \in 1..Len(checks[r]) /\ n \in Slots /\ pc[r] = "launching" /\ gor[r][n] = "none"
    BY <1>1, <1>3 DEF Launch, Launches, RequestInv, SpawnInv, Slots
  <2>2. /\ gor'[r] = [gor[r] EXCEPT ![n] = "ready"] /\ pc'[r] \in {"launching", "waiting"}
        /\ merged' = merged /\ ctx' = ctx
    BY <1>3, <2>1 DEF Launch, IInv, TypeOK
  <2> HIDE DEF n
  <2>3. Todo(r)' \subseteq Todo(r)
    BY <1>1, <1>2, <2>1, <2>2 DEF Todo, Slots
  <2>4. <<"launch", n>> \in Todo(r) /\ <<"launch", n>> \notin Todo(r)'
    BY <1>1, <1>2, <2>1, <2>2 DEF Todo
  <2> QED
    BY <2>3, <2>4, StruckOff
<1>4. CASE Wait(r)
  <2>1. /\ pc[r] = "waiting" /\ pc'[r] = "merging"
        /\ gor' = gor /\ merged' = merged /\ ctx' = ctx
    BY <1>4 DEF Wait, Waited, IInv, TypeOK, goVars
  <2>2. Todo(r)' \subseteq Todo(r)
    BY <1>2, <2>1 DEF Todo
  <2>3. <<"wait", 0>> \in Todo(r) /\ <<"wait", 0>> \notin Todo(r)'
    BY <1>2, <2>1 DEF Todo
  <2> QED
    BY <2>2, <2>3, StruckOff
<1>5. CASE Merge(r)
  <2> DEFINE n == merged[r] + 1
  <2>1. /\ pc[r] = "merging" /\ pc'[r] \in {"merging", "merged"}
        /\ gor' = gor /\ merged'[r] = n /\ ctx' = ctx
    BY <1>5 DEF Merge, IInv, TypeOK, goVars
  <2>2. n \in 1..Len(checks[r]) /\ n > merged[r] /\ \A i \in 1..Len(checks[r]) : i > n => i > merged[r]
    BY <1>1, <2>1 DEF RequestInv, MergeInv
  <2> HIDE DEF n
  <2>3. Todo(r)' \subseteq Todo(r)
    BY <1>2, <2>1, <2>2 DEF Todo
  <2>4. ~(n > n)
    BY <2>2
  <2>5. <<"merge", n>> \in Todo(r) /\ <<"merge", n>> \notin Todo(r)'
    BY <1>2, <2>1, <2>2, <2>4 DEF Todo
  <2> QED
    BY <2>3, <2>5, StruckOff
<1>6. CASE Respond(r)
  <2>1. /\ pc[r] = "merged" /\ pc'[r] = "done"
        /\ gor' = gor /\ merged' = merged /\ ctx' = ctx
    BY <1>6 DEF Respond, IInv, TypeOK, goVars
  <2>2. Todo(r)' \subseteq Todo(r)
    BY <1>2, <2>1 DEF Todo
  <2>3. <<"respond", 0>> \in Todo(r) /\ <<"respond", 0>> \notin Todo(r)'
    BY <1>2, <2>1 DEF Todo
  <2> QED
    BY <2>2, <2>3, StruckOff
<1>7. CASE Cancel(r)
  <2>1. /\ ctx[r] = "live" /\ ctx'[r] = "cancelled"
        /\ pc' = pc /\ gor' = gor /\ merged' = merged
    BY <1>7 DEF Cancel, IInv, TypeOK, goVars
  <2>2. Todo(r)' \subseteq Todo(r)
    BY <1>2, <2>1 DEF Todo
  <2>3. <<"cancel", 0>> \in Todo(r) /\ <<"cancel", 0>> \notin Todo(r)'
    BY <1>2, <2>1 DEF Todo
  <2> QED
    BY <2>2, <2>3, StruckOff
<1> QED
  BY <1>3, <1>4, <1>5, <1>6, <1>7

\* So does every step of a goroutine.
LEMMA GoroutineShrinks ==
  ASSUME IInv, NEW r \in Requests, NEW i \in Slots, Goroutine(r, i)
  PROVE  Remaining(r)' < Remaining(r)
<1>0. Len(checks[r]) \in Nat /\ Len(checks[r]) <= MaxChecks /\ MaxChecks \in Nat
  BY SliceFacts, EngineAssumption DEF IInv, RequestInv
<1>1. /\ spawned[r] \in Nat /\ spawned[r] <= Len(checks[r])
      /\ gor[r] \in [Slots -> Gor] /\ timer[r] \in [Slots -> Timer]
      /\ 1..Len(checks[r]) \subseteq Slots
  BY <1>0 DEF IInv, TypeOK, RequestInv, SpawnInv, Slots
<1>2. UNCHANGED <<pc, checks, merged, ctx>>
  BY DEF Goroutine, RunOneNil, RunOneCall, DeadlineExceeded, RunReturns, WgDone, goFrame
<1>3. gor[r][i] \in {"ready", "running", "stored"} /\ i \in 1..Len(checks[r])
  <2>1. gor[r][i] \in {"ready", "running", "stored"}
    BY DEF Goroutine, RunOneNil, RunOneCall, DeadlineExceeded, RunReturns, WgDone,
      IInv, RequestInv, StoreInv
  <2>2. i <= spawned[r]
    BY <1>0, <1>1, <2>1 DEF IInv, RequestInv, SpawnInv, Slots
  <2> QED
    BY <1>0, <1>1, <2>1, <2>2 DEF Slots
<1>4. CASE RunOneNil(r, i) \/ RunReturns(r, i)
  <2>1. /\ gor[r][i] \in {"ready", "running"} /\ gor'[r] = [gor[r] EXCEPT ![i] = "stored"]
        /\ timer'[r] = [timer[r] EXCEPT ![i] = cancel(timer[r][i])]
    BY <1>4 DEF RunOneNil, RunReturns, Store, IInv, TypeOK
  <2>2. Todo(r)' \subseteq Todo(r)
    <3>1. cancel(timer[r][i]) # "armed"
      BY DEF cancel
    <3> QED
      BY <1>1, <1>2, <2>1, <3>1 DEF Todo
  <2>3. <<"return", i>> \in Todo(r) /\ <<"return", i>> \notin Todo(r)'
    BY <1>1, <1>2, <1>3, <2>1 DEF Todo
  <2> QED
    BY <2>2, <2>3, StruckOff
<1>5. CASE RunOneCall(r, i)
  <2>1. /\ gor[r][i] = "ready" /\ gor'[r] = [gor[r] EXCEPT ![i] = "running"]
        /\ timer'[r] = [timer[r] EXCEPT ![i] = WithTimeout(checks[r][i])]
    BY <1>5 DEF RunOneCall, IInv, TypeOK
  <2>2. Todo(r)' \subseteq Todo(r)
    BY <1>1, <1>2, <2>1 DEF Todo
  <2>3. <<"run", i>> \in Todo(r) /\ <<"run", i>> \notin Todo(r)'
    BY <1>1, <1>2, <1>3, <2>1 DEF Todo
  <2> QED
    BY <2>2, <2>3, StruckOff
<1>6. CASE DeadlineExceeded(r, i)
  <2>1. /\ timer[r][i] = "armed" /\ timer'[r] = [timer[r] EXCEPT ![i] = "expired"]
        /\ gor' = gor /\ gor[r][i] = "running"
    BY <1>6 DEF DeadlineExceeded, IInv, TypeOK, RequestInv, StoreInv
  <2>2. Todo(r)' \subseteq Todo(r)
    BY <1>1, <1>2, <2>1 DEF Todo
  <2>3. <<"expire", i>> \in Todo(r) /\ <<"expire", i>> \notin Todo(r)'
    BY <1>1, <1>2, <1>3, <2>1 DEF Todo
  <2> QED
    BY <2>2, <2>3, StruckOff
<1>7. CASE WgDone(r, i)
  <2>1. /\ gor[r][i] = "stored" /\ gor'[r] = [gor[r] EXCEPT ![i] = "finished"]
        /\ timer' = timer
    BY <1>7 DEF WgDone, IInv, TypeOK
  <2>2. Todo(r)' \subseteq Todo(r)
    BY <1>1, <1>2, <2>1 DEF Todo
  <2>3. <<"done", i>> \in Todo(r) /\ <<"done", i>> \notin Todo(r)'
    BY <1>1, <1>2, <1>3, <2>1 DEF Todo
  <2> QED
    BY <2>2, <2>3, StruckOff
<1> QED
  BY <1>4, <1>5, <1>6, <1>7 DEF Goroutine

\* No request ever repeats a step: together with NobodyIsStuck, the part of the
\* argument for its termination that needs no fairness (runChecks, runOne).
THEOREM WorkAlwaysShrinks == Spec => WorkShrinks
<1> DEFINE Shrinks == \A r \in Requests : pc[r] # "idle" =>
                        UNCHANGED RequestState(r) \/ Remaining(r)' < Remaining(r)
<1>1. IInv /\ [Next]_vars => [Shrinks]_vars
  <2> SUFFICES ASSUME IInv, Next, NEW r \in Requests, pc[r] # "idle"
               PROVE  UNCHANGED RequestState(r) \/ Remaining(r)' < Remaining(r)
    OBVIOUS
  <2>1. CASE Register \/ Serve
    <3>1. phase = "startup"
      BY <2>1 DEF Register, RegisterHealthCheck, RegisterReadinessCheck,
        RegisterLivenessCheck, RegisterWith, Serve
    <3> QED
      BY <3>1 DEF IInv, RequestInv, SnapshotInv
  <2>2. ASSUME NEW q \in Requests, Request(q)
        PROVE  UNCHANGED RequestState(r) \/ Remaining(r)' < Remaining(r)
    <3>1. CASE q # r
      BY <2>2, <3>1 DEF Request, RunLivez, RunReadyz, RunHealthz, Begin, Launch, Wait,
        Merge, Respond, Cancel, goVars, RequestState, IInv, TypeOK
    <3>2. CASE q = r
      <4>1. ~RunLivez(r) /\ ~RunReadyz(r) /\ ~RunHealthz(r)
        BY DEF RunLivez, RunReadyz, RunHealthz, Begin
      <4> QED
        BY <2>2, <3>2, <4>1, RequestShrinks DEF Request
    <3> QED
      BY <3>1, <3>2
  <2>3. ASSUME NEW q \in Requests, NEW i \in Slots, Goroutine(q, i)
        PROVE  UNCHANGED RequestState(r) \/ Remaining(r)' < Remaining(r)
    <3>1. CASE q # r
      BY <2>3, <3>1 DEF Goroutine, RunOneNil, RunOneCall, DeadlineExceeded, RunReturns,
        Store, WgDone, goFrame, RequestState, IInv, TypeOK
    <3> QED
      BY <2>3, <3>1, GoroutineShrinks
  <2>4. CASE Terminated
    BY <2>4 DEF Terminated, vars, requestVars, goVars, RequestState
  <2> QED
    BY <2>1, <2>2, <2>3, <2>4 DEF Next
<1> QED
  BY <1>1, IInvInvariant, PTL DEF Spec, WorkShrinks
=============================================================================
