---------------------------- MODULE MCInBoxAgent ----------------------------
(* One launch, in a fresh box or in the continuation of a parent's. *)
EXTENDS InBoxAgent, TLC
=============================================================================
