---------------------------- MODULE EngineService ----------------------------
(***************************************************************************)
(* core.Engine implements HealthService.  A check has been observed once   *)
(* its goroutine has stored what Run returned, and a request is answered   *)
(* once the Run method has returned; launching, waiting and merging do not *)
(* show.                                                                   *)
(***************************************************************************)
EXTENDS EngineInv

scopeBar == [e \in Endpoint |-> Scope(e)]

seenBar ==
  [r \in Requests |-> [i \in Slots |->
     IF gor[r][i] \in {"stored", "finished"} THEN {runResults[r][i]} ELSE {}]]

replyBar ==
  [r \in Requests |->
     IF pc[r] = "done" THEN {[status |-> status[r], checks |-> out[r]]} ELSE {}]

HS == INSTANCE HealthService
        WITH scope <- scopeBar, asked <- endpoint, seen <- seenBar, reply <- replyBar

\* Every run of the Engine is one of the abstract service: each check of the
\* endpoint is observed exactly once per request, the document is published
\* once, after the last of them, it shows these observations and no others and
\* takes its status from them, and neither the scopes nor an observation nor a
\* published document changes afterwards (runChecks, the Run methods).
ImplementsService == HS!Spec
=============================================================================
