---------------------------- MODULE MCAggregate -----------------------------
(***************************************************************************)
(* Maps for TLC: the heartbeat and up to two names, each with up to two    *)
(* entries of any status, or no entry at all.                              *)
(***************************************************************************)
EXTENDS Aggregate, FiniteSets

EntryOf(s) == [componentId |-> "", componentType |-> "component", status |-> s,
               output |-> FALSE, affected |-> FALSE]
Lists(n)   == UNION {[1..l -> {EntryOf(s) : s \in Status}] : l \in 0..n}

MCName          == {"a", "b"}
MCComponentType == {"component"}
MCComponentId   == {"n1"}
MCMaps == {[k \in ks \cup {systemTimeCheckName} |->
              IF k = systemTimeCheckName THEN <<systemTimeStatus>> ELSE f[k]] :
             ks \in SUBSET MCName, f \in [MCName -> Lists(2)]}
=============================================================================
