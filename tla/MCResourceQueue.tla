-------------------------- MODULE MCResourceQueue --------------------------
(* A small queue for TLC: two resources, every cap within reach. *)
EXTENDS ResourceQueue

MCResources == 1 .. 2
=============================================================================
