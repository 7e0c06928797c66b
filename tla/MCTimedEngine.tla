---------------------------- MODULE MCTimedEngine ----------------------------
(***************************************************************************)
(* Instances of TimedEngine for TLC.                                       *)
(***************************************************************************)
EXTENDS TimedEngine

MCName          == {"a"}
MCComponentType == {"datastore"}
MCComponentId   == {"n1"}

CheckOf(d, run) == [name |-> "a", componentType |-> "datastore", timeout |-> d, run |-> run]

\* Two timeouts of different length, no Timeout, and a nil Run.
PoolTimed  == {CheckOf(1, TRUE), CheckOf(2, TRUE), CheckOf(0, TRUE), CheckOf(2, FALSE)}
OutcomeOne == {<<>>}

=============================================================================
