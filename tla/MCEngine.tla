------------------------------ MODULE MCEngine ------------------------------
(***************************************************************************)
(* Instances of Engine for TLC.                                            *)
(***************************************************************************)
EXTENDS EngineService, TLC

ResultOf(id, s, o, a) == [componentId |-> id, status |-> s, output |-> o, affected |-> a]
CheckOf(n, t, d, run) == [name |-> n, componentType |-> t, timeout |-> d, run |-> run]

MCName          == {"a", "b"}
MCComponentType == {"datastore", "component"}
MCComponentId   == {"n1", "n2"}

\* Two namesakes of different type, one bounded and one not, a nil Run, and
\* the reserved name.
bounded   == CheckOf("a", "datastore", 2, TRUE)
unbounded == CheckOf("a", "component", 0, TRUE)
negative  == CheckOf("b", "component", -1, TRUE)
nilRun    == CheckOf("b", "component", 1, FALSE)
reserved  == CheckOf(systemTimeCheckName, "component", 0, TRUE)

passing == ResultOf("", StatusPass, TRUE, TRUE)   \* with stale diagnostics
failing == ResultOf("n1", StatusFail, TRUE, TRUE)
warning == ResultOf("n2", StatusWarn, TRUE, FALSE)
typo    == ResultOf("n1", StatusOther, TRUE, FALSE)

PoolAll      == {bounded, unbounded, nilRun, reserved}
PoolTwo      == {bounded, nilRun}
PoolLive     == {bounded, unbounded, nilRun, negative}
PoolUnbounded == {unbounded}
OutcomesAll  == {<<>>, <<passing>>, <<failing>>, <<warning, passing>>, <<typo>>}
OutcomesFew  == {<<>>, <<failing>>}
OutcomesUnknown == {<<passing>>, <<typo>>}

RequestSymmetry == Permutations(Requests)
=============================================================================
