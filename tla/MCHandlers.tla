----------------------------- MODULE MCHandlers -----------------------------
(***************************************************************************)
(* Instances of Handlers for TLC, over the constants of MCEngine.          *)
(***************************************************************************)
EXTENDS Handlers, MCEngine

OutcomesWire == {<<>>, <<passing>>, <<failing>>}
=============================================================================
