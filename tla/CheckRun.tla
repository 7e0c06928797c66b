------------------------------ MODULE CheckRun ------------------------------
(***************************************************************************)
(* What core/check.go asks of a Run function, as the Engine that calls it  *)
(* sees it: a call returns one slice, which is not touched afterwards, and *)
(* every Result in it can be told from the others, has one of the three    *)
(* statuses and explains itself unless it passes.  A check of one instance *)
(* leaves ComponentId empty; one that names its instances is held to the   *)
(* rest only.  The checks that ship with the framework implement this      *)
(* specification (ClusterCheck, Producers).                                *)
(***************************************************************************)
EXTENDS Health

VARIABLES
  call,      \* "idle" before the first call, then "running" or "returned"
  reported,  \* the slice the call returned, empty until then
  instances  \* "one", or "named" if the Results name theirs

Reported == {rs \in Seq(Result) :
  /\ Known(rs)
  /\ \A k \in 1..Len(rs) : rs[k].output <=> rs[k].status # StatusPass
  /\ \A j, k \in 1..Len(rs) : rs[j].componentId = rs[k].componentId => j = k
  /\ \A k \in 1..Len(rs) : instances = "one" => rs[k].componentId = ""}

Init ==
  /\ call \in {"idle", "running"} /\ reported = <<>>
  /\ instances \in {"one", "named"}

Call ==
  /\ call # "running" /\ call' = "running" /\ reported' = <<>>
  /\ UNCHANGED instances

Return ==
  /\ call = "running" /\ call' = "returned" /\ reported' \in Reported
  /\ UNCHANGED instances

Spec == Init /\ [][Call \/ Return]_<<call, reported, instances>>
=============================================================================
