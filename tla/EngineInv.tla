----------------------------- MODULE EngineInv ------------------------------
(***************************************************************************)
(* The inductive invariant of Engine: what holds at every point of every   *)
(* interleaving of a request with the goroutines it launched.  The safety  *)
(* invariants of Engine follow from it (EngineProofs); TLC checks it as an *)
(* invariant of its own.                                                   *)
(***************************************************************************)
EXTENDS Engine

\* Goroutines that have been counted by wg.Add(1) and not yet by wg.Done().
Active(r) == {i \in Slots : gor[r][i] \in {"ready", "running", "stored"}}

\* A request works on the slice of its endpoint, which no longer grows.
SnapshotInv(r) ==
  /\ pc[r] = "idle" => endpoint[r] = "none" /\ checks[r] = <<>>
  /\ pc[r] # "idle" => /\ phase = "serving"
                       /\ endpoint[r] \in Endpoint
                       /\ checks[r] = Scope(endpoint[r])

\* The launch loop: goroutine i exists exactly when it has been started.
SpawnInv(r) ==
  /\ spawned[r] <= Len(checks[r])
  /\ pc[r] = "launching" => spawned[r] < Len(checks[r])
  /\ pc[r] \in {"waiting", "merging", "merged", "done"} => spawned[r] = Len(checks[r])
  /\ \A i \in Slots : gor[r][i] = "none" <=> i > spawned[r]

\* The WaitGroup counts the active goroutines, and none outlives the wait.
BarrierInv(r) ==
  /\ wg[r] = Cardinality(Active(r))
  /\ pc[r] \in {"merging", "merged", "done"} => Active(r) = {}

\* A goroutine past Run has stored the conversion of what Run, or
\* runOne in the place of a nil Run, returned; only a
\* goroutine inside Run has a derived context that nobody released, and it has
\* one whenever the check has a Timeout.
StoreInv(r) ==
  \A i \in Slots :
    /\ gor[r][i] \in {"stored", "finished"} =>
         /\ results[r][i] = convert(checks[r][i], runResults[r][i])
         /\ runResults[r][i] \in Outcomes \/ runResults[r][i] = nilRunResults
    /\ timer[r][i] \in {"armed", "expired"} => gor[r][i] = "running"
    /\ gor[r][i] = "running" =>
         /\ checks[r][i].run
         /\ checks[r][i].timeout > 0 => timer[r][i] \in {"armed", "expired"}

\* The merge loop does not start before the wait is over.
MergeInv(r) ==
  /\ pc[r] \in {"idle", "launching", "waiting"} => merged[r] = 0
  /\ pc[r] \in {"waiting", "merging"} => merged[r] < Len(checks[r])
  /\ pc[r] \in {"merged", "done"} => merged[r] = Len(checks[r])

\* Every entry of the first m results is in the map under its check's name,
\* every entry of the map but the heartbeat is one of these, and no key is
\* there without an entry.
Complete(o, cs, rs, m) ==
  \A i \in 1..m : \A k \in 1..Len(rs[i]) :
    /\ cs[i].name \in DOMAIN o
    /\ \E j \in 1..Len(o[cs[i].name]) : o[cs[i].name][j] = rs[i][k]

Sound(o, cs, rs, m) ==
  \A n \in DOMAIN o \ {systemTimeCheckName} :
    /\ o[n] # <<>>
    /\ \A j \in 1..Len(o[n]) : \E i \in 1..m :
         cs[i].name = n /\ \E k \in 1..Len(rs[i]) : o[n][j] = rs[i][k]

\* Under every name, the entries are in the order of the slice.
Ordered(o, cs, rs, m) ==
  \A n \in Name \ {systemTimeCheckName} : Concatenates(Lookup(o, n), n, cs, rs, m)

\* The response holds the heartbeat, the results merged so far, nothing else.
OutInv(r) ==
  pc[r] # "idle" =>
    /\ systemTimeCheckName \in DOMAIN out[r]
    /\ out[r][systemTimeCheckName] = <<systemTimeStatus>>
    /\ Complete(out[r], checks[r], results[r], merged[r])
    /\ Sound(out[r], checks[r], results[r], merged[r])
    /\ Ordered(out[r], checks[r], results[r], merged[r])

\* The status and the log line are those of the finished response.
StatusInv(r) ==
  pc[r] = "done" => /\ status[r] = aggregate(out[r])
                    /\ log[r] = emitLog(endpoint[r], status[r])

RequestInv(r) ==
  /\ SnapshotInv(r) /\ SpawnInv(r) /\ BarrierInv(r) /\ StoreInv(r)
  /\ MergeInv(r) /\ OutInv(r) /\ StatusInv(r)

\* At every point of a request, the response under construction holds exactly
\* what the checks merged so far reported, the WaitGroup counts exactly the
\* goroutines still at work, and the slice the request works on is the one
\* registered for its endpoint (Engine.runChecks, line by line).
IInv == TypeOK /\ ScopesNested /\ \A r \in Requests : RequestInv(r)
=============================================================================
