----------------------------- MODULE TimedEngine -----------------------------
(***************************************************************************)
(* core.Engine with a clock: how long a request may take.  Every step of   *)
(* the framework is instantaneous and taken as soon as it can be; time     *)
(* passes only while every request that is open waits for a Run function   *)
(* that is entitled to go on.  A Run function may return at any time, and  *)
(* does return at the instant its context is done (Check.Run: "must not    *)
(* block past ctx.Done()").                                                *)
(***************************************************************************)
EXTENDS EngineInv

CONSTANTS
  Caps,     \* deadlines a caller may put on its context; 0 is none
  Horizon   \* bound: the clock stops here

ASSUME TimedAssumption == Caps \subseteq Nat /\ Horizon \in Nat

VARIABLES
  now,      \* the clock
  began,    \* when each request called its Run method
  cap,      \* the deadline of its context, counted from then
  deadline  \* the deadline of the context runOne derived for each check

timeVars == <<now, began, cap, deadline>>
tvars    == <<vars, timeVars>>

TInit ==
  /\ Init
  /\ now = 0
  /\ began    = [r \in Requests |-> 0]
  /\ cap      = [r \in Requests |-> 0]
  /\ deadline = [r \in Requests |-> [i \in Slots |-> 0]]

-----------------------------------------------------------------------------
\* The transport calls a Run method with the context of its request.
Call(r) ==
  /\ RunLivez(r) \/ RunReadyz(r) \/ RunHealthz(r)
  /\ began' = [began EXCEPT ![r] = now]
  /\ \E d \in Caps : cap' = [cap EXCEPT ![r] = d]
  /\ UNCHANGED <<now, deadline>>

\* context.WithTimeout counts from the moment runOne calls it.
CallRun(r, i) ==
  /\ RunOneCall(r, i)
  /\ deadline' = [deadline EXCEPT ![r][i] = now + checks[r][i].timeout]
  /\ UNCHANGED <<now, began, cap>>

\* A timer does not fire early.
Expire(r, i) ==
  /\ DeadlineExceeded(r, i) /\ now >= deadline[r][i]
  /\ UNCHANGED timeVars

\* Every other step takes no time.
Step ==
  /\ \/ Register \/ Serve
     \/ \E r \in Requests : Launch(r) \/ Wait(r) \/ Merge(r) \/ Respond(r) \/ Cancel(r)
     \/ \E r \in Requests, i \in Slots : RunOneNil(r, i) \/ RunReturns(r, i) \/ WgDone(r, i)
  /\ UNCHANGED timeVars

Open(r) == pc[r] \notin {"idle", "done"}

\* The caller's own deadline is due: its context is about to be cancelled.
CapDue(r) == Open(r) /\ ctx[r] = "live" /\ cap[r] > 0 /\ now >= began[r] + cap[r]

\* Goroutine i has a step to take now.
Busy(r, i) ==
  \/ gor[r][i] \in {"ready", "stored"}
  \/ gor[r][i] = "running" /\ CtxDone(r, i)
  \/ timer[r][i] = "armed" /\ now >= deadline[r][i]

\* Nothing of request r is left to do before time passes.
Idle(r) ==
  /\ ~Launches(r) /\ ~Waited(r) /\ pc[r] \notin {"merging", "merged"}
  /\ ~CapDue(r)
  /\ \A i \in Slots : ~Busy(r, i)

Tick ==
  /\ now < Horizon
  /\ \A r \in Requests : Idle(r)
  /\ now' = now + 1
  /\ UNCHANGED <<vars, began, cap, deadline>>

TNext ==
  \/ Step
  \/ \E r \in Requests : Call(r)
  \/ \E r \in Requests, i \in Slots : CallRun(r, i) \/ Expire(r, i)
  \/ Tick
  \/ Terminated /\ UNCHANGED timeVars

TSpec == TInit /\ [][TNext]_tvars

-----------------------------------------------------------------------------
\* The checks run side by side: a request whose checks all have a Timeout is
\* open no longer than the largest of these, whatever the others, its callers
\* and its own checks do ("the total wall time is bounded by the slowest
\* individual check", runChecks).
WallTimeBounded ==
  \A r \in Requests :
    (Open(r) /\ \A i \in 1..Len(checks[r]) : Bounded(checks[r][i])) =>
      \/ now = began[r]
      \/ \E i \in 1..Len(checks[r]) :
           checks[r][i].run /\ now <= began[r] + checks[r][i].timeout

\* A caller that puts a deadline on its context caps the whole request, even
\* one with checks that have no Timeout or a longer one ("callers that want to
\* cap end-to-end probe time should pass a context with a deadline", runChecks).
CallerCaps ==
  \A r \in Requests : (Open(r) /\ cap[r] > 0) => now <= began[r] + cap[r]

\* A check that is cut off has had all of its own Timeout, counted from the
\* beginning of the request, and not a moment more: no slow check launched
\* before it takes time from it or defers its timer (runOne, runChecks).
CutOnTime ==
  \A r \in Requests, i \in Slots :
    (gor[r][i] = "running" /\ timer[r][i] = "expired") =>
      now = began[r] + checks[r][i].timeout

\* Launching takes no time, and a check inside Run with a Timeout is under a
\* timer that counts from the beginning of the request and is not overdue.
TimerInv(r) ==
  /\ pc[r] = "launching" => now = began[r]
  /\ \A i \in Slots :
       /\ gor[r][i] = "ready" => now = began[r]
       /\ (gor[r][i] = "running" /\ (checks[r][i].timeout > 0 \/ timer[r][i] # "none")) =>
            /\ timer[r][i] \in {"armed", "expired"}
            /\ deadline[r][i] = began[r] + checks[r][i].timeout
            /\ now <= deadline[r][i]
            /\ timer[r][i] = "expired" => now >= deadline[r][i]

TTypeOK ==
  /\ now \in Nat
  /\ began    \in [Requests -> Nat]
  /\ cap      \in [Requests -> Nat]
  /\ deadline \in [Requests -> [Slots -> Int]]

\* At every instant the timers of all checks inside Run agree with the clock,
\* and no open request has outlived its bounds (runOne, runChecks).
TInv ==
  /\ IInv /\ TTypeOK
  /\ \A r \in Requests : TimerInv(r)
  /\ WallTimeBounded /\ CallerCaps
=============================================================================
