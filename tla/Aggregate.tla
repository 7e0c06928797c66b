----------------------------- MODULE Aggregate ------------------------------
(***************************************************************************)
(* The loop of aggregate (core/engine.go).  Go ranges over a map in an     *)
(* order it leaves open, so each iteration of the outer loop takes any of  *)
(* the keys not visited yet; a fail returns at once, from the middle of    *)
(* both loops.  Module Engine uses the operator Health!aggregate for the   *)
(* call; here the loop is shown to return it whatever order it takes.      *)
(***************************************************************************)
EXTENDS Health

CONSTANT Maps   \* the arguments: values of map[string][]ComponentStatus

ASSUME MapsAssumption == \A m \in Maps : IsChecksMap(m)

VARIABLES
  checks,   \* the argument
  visited,  \* keys whose iteration of the outer loop has begun
  key,      \* the current key
  pos,      \* inner loop: number of entries of checks[key] handled
  overall,  \* the local variable, and the result once returned
  pc        \* "outer", "inner" or "returned"

vars == <<checks, visited, key, pos, overall, pc>>

Init ==
  /\ checks \in Maps
  /\ visited = {} /\ key = systemTimeCheckName /\ pos = 0
  /\ overall = StatusPass
  /\ pc = "outer"

NextKey ==
  /\ pc = "outer"
  /\ \E k \in DOMAIN checks \ visited :
       /\ key' = k
       /\ visited' = visited \cup {k}
  /\ pos' = 0 /\ pc' = "inner"
  /\ UNCHANGED <<checks, overall>>

\* Mutation: the last entry decides.
WorseLast(s) == s

\* What an entry that does not fail makes of the variable.
Worse(s) == IF s = StatusWarn THEN StatusWarn ELSE overall

Entry ==
  /\ pc = "inner" /\ pos < Len(checks[key])
  /\ LET s == checks[key][pos + 1].status IN
     \/ /\ s = StatusFail
        /\ overall' = StatusFail /\ pc' = "returned"
        /\ UNCHANGED pos
     \/ /\ s # StatusFail
        /\ overall' = Worse(s)
        /\ pos' = pos + 1
        /\ UNCHANGED pc
  /\ UNCHANGED <<checks, visited, key>>

EndOfList ==
  /\ pc = "inner" /\ pos = Len(checks[key])
  /\ pc' = "outer"
  /\ UNCHANGED <<checks, visited, key, pos, overall>>

\* Mutation: the loop gives up once it has seen a warning.
ExhaustedOnWarn == visited = DOMAIN checks \/ overall = StatusWarn

Exhausted == visited = DOMAIN checks

Return ==
  /\ pc = "outer" /\ Exhausted
  /\ pc' = "returned"
  /\ UNCHANGED <<checks, visited, key, pos, overall>>

Terminated == pc = "returned" /\ UNCHANGED vars

Next == NextKey \/ Entry \/ EndOfList \/ Return \/ Terminated

Spec == Init /\ [][Next]_vars

-----------------------------------------------------------------------------
\* Entry j of key k has been looked at.
Seen(k, j) ==
  /\ k \in visited
  /\ k = key /\ pc # "outer" => j <= pos

SeenReports(s) ==
  \E k \in DOMAIN checks : \E j \in 1..Len(checks[k]) :
    Seen(k, j) /\ checks[k][j].status = s

AggregateTypeOK ==
  /\ checks \in Maps
  /\ visited \subseteq DOMAIN checks
  /\ pc \in {"outer", "inner", "returned"}
  /\ pc = "inner" => key \in visited /\ pos \in 0..Len(checks[key])
  /\ overall \in {StatusPass, StatusWarn, StatusFail}

\* The result does not depend on the order in which Go visits the map.
OrderIrrelevant == pc = "returned" => overall = aggregate(checks)

\* Until it returns, the loop has met no fail, and its variable says exactly
\* whether it has met a warning; it returns fail only on account of a fail that
\* is in the map, and anything else only after the whole map (aggregate).
LoopInv ==
  /\ AggregateTypeOK
  /\ pc # "returned" =>
       /\ ~SeenReports(StatusFail)
       /\ overall = IF SeenReports(StatusWarn) THEN StatusWarn ELSE StatusPass
  /\ OrderIrrelevant
=============================================================================
