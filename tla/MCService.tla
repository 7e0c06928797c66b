------------------------------ MODULE MCService ------------------------------
(***************************************************************************)
(* Instances of Service for TLC.                                           *)
(***************************************************************************)
EXTENDS Service, TLC

MCName          == {"a"}
MCComponentType == {"component"}
MCComponentId   == {"n1"}

ResultOf(s) == [componentId |-> "n1", status |-> s, output |-> TRUE, affected |-> FALSE]

PoolOne      == {[name |-> "a", componentType |-> "component", timeout |-> 0, run |-> TRUE]}
\* A response passes when its endpoint has no checks.
OutcomesWire == {<<ResultOf(StatusWarn)>>, <<ResultOf(StatusFail)>>}

RoutesOf(l, rd, h) == [livez |-> l, readyz |-> rd, healthz |-> h]

\* Three paths, two endpoints at one path, a path left out, and a relative one.
MCRooted  == {"/livez", "/readyz", "/healthz", "/health"}
MCRoutes  == {RoutesOf("/livez", "/readyz", "/healthz"),
              RoutesOf("/health", "/readyz", "/health"), RoutesOf("/livez", "", "/healthz"),
              RoutesOf("/livez", "/readyz", "healthz")}
MCOptions == {<<>>, <<"first", "own">>}

RequestSymmetry == Permutations(Requests)
=============================================================================
