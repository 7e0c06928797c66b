---------------------------- MODULE MCProducers -----------------------------
(***************************************************************************)
(* An instance of Producers for TLC: codes on both sides of each boundary  *)
(* httpcheck draws.                                                        *)
(***************************************************************************)
EXTENDS Producers

MCTarget        == "t1"
MCComponentId   == {"t1"}
MCComponentType == {"component", "datastore"}
MCName          == {New[k].name : k \in DOMAIN New}
MCCode          == {101, 199, 200, 399, 400, 503}
=============================================================================
