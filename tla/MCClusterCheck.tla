--------------------------- MODULE MCClusterCheck ---------------------------
(***************************************************************************)
(* An instance of ClusterCheck for TLC.  The nodes are not symmetric: the  *)
(* run checks a liveness property.                                         *)
(***************************************************************************)
EXTENDS ClusterCheck

MCNode          == {"n1", "n2", "n3"}
MCComponentId   == MCNode
MCName          == {"redis:ping"}
MCComponentType == {"datastore"}
=============================================================================
