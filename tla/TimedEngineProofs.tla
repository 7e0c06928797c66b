-------------------------- MODULE TimedEngineProofs --------------------------
(***************************************************************************)
(* How long a request may take, for any number of requests and checks, any *)
(* timeouts and any clock.  The invariant says of every open request where *)
(* the clock stands against its timers; only Tick can disturb the bounds,  *)
(* and Tick waits for every step that is due.                              *)
(***************************************************************************)
EXTENDS TimedEngine, EngineProofs

WallTimeOf(r) ==
  (Open(r) /\ \A i \in 1..Len(checks[r]) : Bounded(checks[r][i])) =>
    \/ now = began[r]
    \/ \E i \in 1..Len(checks[r]) :
         checks[r][i].run /\ now <= began[r] + checks[r][i].timeout

CapOf(r) == (Open(r) /\ cap[r] > 0) => now <= began[r] + cap[r]

TimeOf(r) == TimerInv(r) /\ WallTimeOf(r) /\ CapOf(r)

LEMMA TInvParts == TInv <=> IInv /\ TTypeOK /\ \A r \in Requests : TimeOf(r)
  BY DEF TInv, TimeOf, WallTimeBounded, CallerCaps, WallTimeOf, CapOf

LEMMA TInvNext ==
  ASSUME IInv', TTypeOK', \A r \in Requests : TimeOf(r)'
  PROVE  TInv'
  BY DEF TInv, TimeOf, WallTimeBounded, CallerCaps, WallTimeOf, CapOf

LEMMA TInitHolds == TInit => TInv
<1> SUFFICES ASSUME TInit PROVE TInv
  OBVIOUS
<1>1. IInv
  BY InitHolds DEF TInit
<1>2. TTypeOK
  BY DEF TInit, TTypeOK
<1>3. ASSUME NEW r \in Requests PROVE TimeOf(r)
  BY DEF TInit, Init, TimeOf, TimerInv, WallTimeOf, CapOf, Open
<1> QED
  BY <1>1, <1>2, <1>3, TInvParts

\* A step that leaves request r and the clock alone leaves its bounds alone.
LEMMA TimeFrame ==
  ASSUME NEW r \in Requests, TimeOf(r), now' = now, began'[r] = began[r], cap'[r] = cap[r],
         deadline'[r] = deadline[r], pc'[r] = pc[r], checks'[r] = checks[r],
         gor'[r] = gor[r], timer'[r] = timer[r]
  PROVE  TimeOf(r)'
  BY DEF TimeOf, TimerInv, WallTimeOf, CapOf, Open, Bounded

\* A step that takes no time, opens no request and calls no Run keeps the
\* bounds: a goroutine may become ready only while launching, and one inside
\* Run stays under its timer.
LEMMA InstantKeeps ==
  ASSUME NEW r \in Requests, TimeOf(r), UNCHANGED timeVars, checks'[r] = checks[r],
         Open(r)' => Open(r), pc'[r] = "launching" => pc[r] = "launching",
         \A i \in Slots :
           /\ gor'[r][i] = "ready" => gor[r][i] = "ready" \/ pc[r] = "launching"
           /\ gor'[r][i] = "running" =>
                /\ gor[r][i] = "running"
                /\ \/ timer'[r][i] = timer[r][i]
                   \/ timer[r][i] = "armed" /\ timer'[r][i] = "expired" /\ now >= deadline[r][i]
  PROVE  TimeOf(r)'
<1>1. now' = now /\ began' = began /\ cap' = cap /\ deadline' = deadline
  BY DEF timeVars
<1>2. TimerInv(r)'
  BY <1>1 DEF TimeOf, TimerInv
<1>3. WallTimeOf(r)' /\ CapOf(r)'
  BY <1>1 DEF TimeOf, WallTimeOf, CapOf, Bounded
<1> QED
  BY <1>2, <1>3 DEF TimeOf

LEMMA CallKeepsTime ==
  ASSUME TInv, NEW r \in Requests, Call(r)
  PROVE  TInv'
<1>1. IInv'
  BY NextKeeps DEF TInv, Call, Next, Request
<1>2. TTypeOK'
  BY TimedAssumption DEF TInv, TTypeOK, Call
<1>3. PICK ep, slice : Begin(r, ep, slice)
  BY DEF Call, RunLivez, RunReadyz, RunHealthz
<1>4. /\ now' = now /\ deadline' = deadline /\ gor' = gor /\ timer' = timer
      /\ began' = [began EXCEPT ![r] = now]
      /\ \E d \in Caps : cap' = [cap EXCEPT ![r] = d]
  BY <1>3 DEF Call, Begin, goVars
<1>5. \A q \in Requests \ {r} : pc'[q] = pc[q] /\ checks'[q] = checks[q]
  BY <1>3 DEF Begin, TInv, IInv, TypeOK
<1>6. ASSUME NEW q \in Requests \ {r} PROVE TimeOf(q)'
  <2>1. began'[q] = began[q] /\ cap'[q] = cap[q]
    BY <1>4 DEF TInv, TTypeOK
  <2>2. TimeOf(q)
    BY TInvParts
  <2> QED
    BY <1>4, <1>5, <2>1, <2>2, TimeFrame
<1>7. TimeOf(r)'
  <2>1. \A i \in Slots : gor[r][i] = "none"
    <3>1. pc[r] = "idle" /\ checks[r] = <<>> /\ spawned[r] \in Nat /\ spawned[r] <= Len(checks[r])
      BY <1>3, EngineAssumption DEF Begin, TInv, IInv, TypeOK, RequestInv, SnapshotInv, SpawnInv
    <3>2. spawned[r] = 0
      BY <3>1
    <3> QED
      BY <3>2 DEF TInv, IInv, RequestInv, SpawnInv, Slots
  <2>2. began'[r] = now /\ cap'[r] \in Nat /\ now \in Nat
    BY <1>4, TimedAssumption DEF TInv, TTypeOK
  <2>3. TimerInv(r)'
    BY <1>4, <2>1, <2>2 DEF TimerInv
  <2>4. WallTimeOf(r)' /\ CapOf(r)'
    BY <1>4, <2>2 DEF WallTimeOf, CapOf
  <2> QED
    BY <2>3, <2>4 DEF TimeOf
<1>8. \A q \in Requests : TimeOf(q)'
  BY <1>6, <1>7
<1> QED
  BY <1>1, <1>2, <1>8, TInvNext

LEMMA CallRunKeepsTime ==
  ASSUME TInv, NEW r \in Requests, NEW i \in Slots, CallRun(r, i)
  PROVE  TInv'
<1>1. IInv'
  BY NextKeeps DEF TInv, CallRun, Next, Goroutine
<1>2. /\ gor[r][i] = "ready" /\ gor' = [gor EXCEPT ![r][i] = "running"]
      /\ timer' = [timer EXCEPT ![r][i] = WithTimeout(checks[r][i])]
      /\ deadline' = [deadline EXCEPT ![r][i] = now + checks[r][i].timeout]
      /\ UNCHANGED <<now, began, cap, pc, checks>>
  BY DEF CallRun, RunOneCall, goFrame
<1>3. /\ gor \in [Requests -> [Slots -> Gor]] /\ timer \in [Requests -> [Slots -> Timer]]
      /\ now \in Nat /\ began[r] \in Nat /\ deadline \in [Requests -> [Slots -> Int]]
      /\ checks[r] \in Seq(Check)
  BY DEF TInv, IInv, TypeOK, TTypeOK
<1>4. i \in 1..Len(checks[r])
  <2>1. spawned[r] \in Nat /\ i \in Nat /\ i >= 1 /\ i <= spawned[r] /\ spawned[r] <= Len(checks[r])
    BY <1>2, EngineAssumption DEF TInv, IInv, TypeOK, RequestInv, SpawnInv, Slots
  <2> QED
    BY <1>3, <2>1
<1>5. checks[r][i].timeout \in Int
  <2>1. checks[r][i] \in Check
    BY <1>3, <1>4
  <2> QED
    BY <2>1 DEF Check
<1>6. TTypeOK'
  BY <1>2, <1>3, <1>5 DEF TInv, TTypeOK
<1>7. ASSUME NEW q \in Requests \ {r} PROVE TimeOf(q)'
  <2>1. gor'[q] = gor[q] /\ timer'[q] = timer[q] /\ deadline'[q] = deadline[q]
    BY <1>2, <1>3
  <2>2. TimeOf(q)
    BY TInvParts
  <2> QED
    BY <1>2, <2>1, <2>2, TimeFrame
<1>8. TimeOf(r)'
  <2>1. TimeOf(r)
    BY TInvParts
  <2>2. now = began[r]
    BY <1>2, <2>1 DEF TimeOf, TimerInv
  <2>3. \A k \in Slots \ {i} :
          gor'[r][k] = gor[r][k] /\ timer'[r][k] = timer[r][k] /\ deadline'[r][k] = deadline[r][k]
    BY <1>2, <1>3
  <2>4. /\ gor'[r][i] = "running" /\ deadline'[r][i] = now + checks[r][i].timeout
        /\ timer'[r][i] = IF checks[r][i].timeout > 0 THEN "armed" ELSE "none"
    BY <1>2, <1>3 DEF WithTimeout
  <2>5. TimerInv(r)'
    BY <1>2, <1>3, <1>5, <2>1, <2>2, <2>3, <2>4 DEF TimeOf, TimerInv
  <2>6. WallTimeOf(r)' /\ CapOf(r)'
    BY <1>2, <2>1 DEF TimeOf, WallTimeOf, CapOf, Open, Bounded
  <2> QED
    BY <2>5, <2>6 DEF TimeOf
<1>9. \A q \in Requests : TimeOf(q)'
  BY <1>7, <1>8
<1> QED
  BY <1>1, <1>6, <1>9, TInvNext

\* The goroutines and the request go on: no time passes.
LEMMA StepKeepsTime ==
  ASSUME TInv, Step \/ \E r \in Requests, i \in Slots : Expire(r, i)
  PROVE  TInv'
<1>1. UNCHANGED timeVars
  BY DEF Step, Expire
<1>2. IInv' /\ TTypeOK'
  <2>1. Next
    BY DEF Step, Expire, Next, Request, Goroutine
  <2>2. TTypeOK'
    BY <1>1 DEF TInv, TTypeOK, timeVars
  <2> QED
    BY <2>1, <2>2, NextKeeps DEF TInv
<1>3. /\ pc \in [Requests -> Pc] /\ gor \in [Requests -> [Slots -> Gor]]
      /\ timer \in [Requests -> [Slots -> Timer]]
  BY DEF TInv, IInv, TypeOK
<1> SUFFICES ASSUME NEW q \in Requests PROVE TimeOf(q)'
  BY <1>2, TInvNext
<1>4. TimeOf(q)
  BY TInvParts
<1>5. CASE UNCHANGED <<pc, gor, timer, checks>>
  BY <1>1, <1>4, <1>5, InstantKeeps DEF Open
<1>6. ASSUME NEW r \in Requests, Launch(r) PROVE TimeOf(q)'
  <2>1. /\ pc[r] = "launching" /\ gor' = [gor EXCEPT ![r][spawned[r] + 1] = "ready"]
        /\ pc' = [pc EXCEPT ![r] = pc'[r]] /\ pc'[r] \in {"launching", "waiting"}
        /\ UNCHANGED <<timer, checks>>
    BY <1>3, <1>6 DEF Launch, Launches
  <2> QED
    BY <1>1, <1>3, <1>4, <2>1, InstantKeeps DEF Open
<1>7. ASSUME NEW r \in Requests, Wait(r) \/ Merge(r) \/ Respond(r) PROVE TimeOf(q)'
  <2>1. /\ pc[r] \in {"waiting", "merging", "merged"}
        /\ pc' = [pc EXCEPT ![r] = pc'[r]] /\ pc'[r] \in {"merging", "merged", "done"}
        /\ UNCHANGED <<gor, timer, checks>>
    BY <1>3, <1>7 DEF Wait, Waited, Merge, Respond, goVars
  <2> QED
    BY <1>1, <1>3, <1>4, <2>1, InstantKeeps DEF Open
<1>8. ASSUME NEW r \in Requests, NEW i \in Slots,
             RunOneNil(r, i) \/ RunReturns(r, i) \/ WgDone(r, i) \/ Expire(r, i)
      PROVE  TimeOf(q)'
  <2>1. UNCHANGED <<pc, checks>>
    BY <1>8 DEF RunOneNil, RunReturns, WgDone, Expire, DeadlineExceeded, goFrame
  <2>2. \/ /\ UNCHANGED gor /\ timer[r][i] = "armed" /\ now >= deadline[r][i]
           /\ timer' = [timer EXCEPT ![r][i] = "expired"]
        \/ /\ gor' = [gor EXCEPT ![r][i] = gor'[r][i]]
           /\ gor'[r][i] \in {"stored", "finished"}
           /\ timer' = [timer EXCEPT ![r][i] = timer'[r][i]]
    BY <1>3, <1>8 DEF RunOneNil, RunReturns, Store, WgDone, Expire, DeadlineExceeded
  <2> QED
    BY <1>1, <1>3, <1>4, <2>1, <2>2, InstantKeeps DEF Open
<1> QED
  BY <1>5, <1>6, <1>7, <1>8 DEF Step, Register, RegisterHealthCheck, RegisterReadinessCheck,
    RegisterLivenessCheck, RegisterWith, Serve, Cancel, requestVars, goVars

\* Time passes: an open request has a goroutine inside Run that may go on.
LEMMA TickKeepsTime == ASSUME TInv, Tick PROVE TInv'
<1>1. /\ now' = now + 1 /\ UNCHANGED <<began, cap, deadline, pc, ctx, checks, gor, timer>>
      /\ UNCHANGED vars
  BY DEF Tick, vars, requestVars, goVars
<1>2. IInv' /\ TTypeOK'
  BY <1>1, StutterKeeps DEF TInv, TTypeOK
<1> SUFFICES ASSUME NEW r \in Requests PROVE TimeOf(r)'
  BY <1>2, TInvNext
<1>3. /\ now \in Nat /\ began[r] \in Nat /\ cap[r] \in Nat /\ pc[r] \in Pc
      /\ gor[r] \in [Slots -> Gor] /\ checks[r] \in Seq(Check)
      /\ deadline[r] \in [Slots -> Int] /\ TimeOf(r)
  BY TInvParts DEF TInv, IInv, TypeOK, TTypeOK
<1>4. Idle(r)
  BY DEF Tick
<1>5. \A i \in Slots :
        /\ gor[r][i] # "ready" /\ gor[r][i] # "stored"
        /\ gor[r][i] = "running" => ctx[r] # "cancelled" /\ timer[r][i] # "expired"
        /\ timer[r][i] = "armed" => ~(now >= deadline[r][i])
  BY <1>4 DEF Idle, Busy, CtxDone
<1>6. TimerInv(r)'
  BY <1>1, <1>3, <1>4, <1>5 DEF TimeOf, TimerInv, Idle, Launches
<1>7. ASSUME Open(r)
      PROVE  \E i \in Slots : i \in 1..Len(checks[r]) /\ gor[r][i] = "running"
  <2>1. pc[r] = "waiting"
    BY <1>3, <1>4, <1>7 DEF Idle, Launches, Open, Pc
  <2>2. wg[r] # 0 /\ wg[r] = Cardinality(Active(r))
    BY <1>4, <2>1 DEF Idle, Waited, TInv, IInv, RequestInv, BarrierInv
  <2>3. Active(r) # {}
    BY <2>2, FS_EmptySet
  <2>4. PICK i \in Slots : gor[r][i] \in {"ready", "running", "stored"}
    BY <2>3 DEF Active
  <2>5. gor[r][i] = "running"
    BY <1>5, <2>4
  <2>6. spawned[r] \in Nat /\ i \in Nat /\ i >= 1 /\ i <= spawned[r] /\ spawned[r] <= Len(checks[r])
    BY <2>4, EngineAssumption DEF TInv, IInv, TypeOK, RequestInv, SpawnInv, Slots
  <2> QED
    BY <1>3, <2>5, <2>6
<1>8. WallTimeOf(r)'
  <2> SUFFICES ASSUME Open(r), \A i \in 1..Len(checks[r]) : Bounded(checks[r][i])
               PROVE  \E i \in 1..Len(checks[r]) :
                        checks[r][i].run /\ now + 1 <= began[r] + checks[r][i].timeout
    BY <1>1 DEF WallTimeOf, Open, Bounded
  <2>1. PICK i \in Slots : i \in 1..Len(checks[r]) /\ gor[r][i] = "running"
    BY <1>7
  <2>2. checks[r][i].run
    BY <2>1 DEF TInv, IInv, RequestInv, StoreInv
  <2>3. checks[r][i].timeout > 0
    BY <2>1, <2>2 DEF Bounded
  <2>4. timer[r][i] = "armed" /\ deadline[r][i] = began[r] + checks[r][i].timeout
    BY <1>3, <1>5, <2>1, <2>3 DEF TimeOf, TimerInv
  <2>5. ~(now >= began[r] + checks[r][i].timeout)
    BY <1>5, <2>4
  <2>6. checks[r][i] \in Check
    BY <1>3, <2>1
  <2>7. checks[r][i].timeout \in Int
    BY <2>6 DEF Check
  <2>8. now + 1 <= began[r] + checks[r][i].timeout
    BY <1>3, <2>5, <2>7
  <2> QED
    BY <2>1, <2>2, <2>8
<1>9. CapOf(r)'
  <2> SUFFICES ASSUME Open(r), cap[r] > 0 PROVE now + 1 <= began[r] + cap[r]
    BY <1>1 DEF CapOf, Open
  <2>1. ctx[r] = "live"
    <3>1. ctx[r] # "cancelled"
      BY <1>5, <1>7
    <3> QED
      BY <3>1 DEF TInv, IInv, TypeOK
  <2>2. ~(now >= began[r] + cap[r])
    BY <1>4, <2>1 DEF Idle, CapDue
  <2> QED
    BY <1>3, <2>2
<1> QED
  BY <1>6, <1>8, <1>9 DEF TimeOf

LEMMA TimeStutter == ASSUME TInv, UNCHANGED tvars PROVE TInv'
<1>1. UNCHANGED vars /\ UNCHANGED timeVars
  BY DEF tvars
<1>2. IInv' /\ TTypeOK'
  BY <1>1, StutterKeeps DEF TInv, TTypeOK, timeVars
<1>3. UNCHANGED <<now, began, cap, deadline, pc, checks, gor, timer>>
  BY <1>1 DEF timeVars, vars, requestVars, goVars
<1> QED
  BY <1>2, <1>3, TInvParts, TimeFrame, TInvNext

\* At every instant the timers agree with the clock and no open request has
\* outlived its bounds, for any number of requests, checks and timeouts.
THEOREM TInvInvariant == TSpec => []TInv
<1>1. TInv /\ [TNext]_tvars => TInv'
  BY CallKeepsTime, CallRunKeepsTime, StepKeepsTime, TickKeepsTime, TimeStutter
    DEF TNext, Terminated, tvars
<1> QED
  BY <1>1, TInitHolds, PTL DEF TSpec

\* A request all of whose checks have a Timeout is open no longer than the
\* largest of them: the checks run side by side (runChecks).
THEOREM SlowestCheckBounds == TSpec => []WallTimeBounded
<1>1. TInv => WallTimeBounded
  BY DEF TInv
<1> QED
  BY <1>1, TInvInvariant, PTL

\* The deadline of the caller's context caps the request, whatever its checks'
\* own timeouts are (runChecks, runOne).
THEOREM CallerDeadlineCaps == TSpec => []CallerCaps
<1>1. TInv => CallerCaps
  BY DEF TInv
<1> QED
  BY <1>1, TInvInvariant, PTL

\* A check that its timer cuts off is cut off exactly at its own Timeout after
\* the request began, whatever the checks before it in the slice do (runOne).
THEOREM TimeoutIsTheChecksOwn == TSpec => []CutOnTime
<1>1. TInv => CutOnTime
  <2> SUFFICES ASSUME TInv, NEW r \in Requests, NEW i \in Slots,
                      gor[r][i] = "running", timer[r][i] = "expired"
               PROVE  now = began[r] + checks[r][i].timeout
    BY DEF CutOnTime
  <2>1. /\ deadline[r][i] = began[r] + checks[r][i].timeout
        /\ now <= deadline[r][i] /\ now >= deadline[r][i]
    BY DEF TInv, TimerInv
  <2>2. now \in Int /\ deadline[r][i] \in Int
    BY DEF TInv, TTypeOK
  <2> QED
    BY <2>1, <2>2
<1> QED
  BY <1>1, TInvInvariant, PTL

\* The clock adds nothing but time: every timed run is a run of the Engine, so
\* whatever is proved of the Engine holds at every instant.
THEOREM TimedImplementsEngine == TSpec => Spec
<1>1. TInit => Init
  BY DEF TInit
<1>2. [TNext]_tvars => [Next]_vars
  <2>1. Step => Next
    BY DEF Step, Next, Request, Goroutine
  <2>2. ASSUME NEW r \in Requests, Call(r) PROVE Next
    BY <2>2 DEF Call, Next, Request
  <2>3. ASSUME NEW r \in Requests, NEW i \in Slots, CallRun(r, i) \/ Expire(r, i) PROVE Next
    BY <2>3 DEF CallRun, Expire, Next, Goroutine
  <2>4. CASE Tick \/ Terminated \/ UNCHANGED tvars
    BY <2>4 DEF Tick, Terminated, tvars
  <2> QED
    BY <2>1, <2>2, <2>3, <2>4 DEF TNext
<1> QED
  BY <1>1, <1>2, PTL DEF TSpec, Spec
=============================================================================
