---------------------------- MODULE MCBranchAgent ----------------------------
(* The agent loop with every budget up to the bound. *)
EXTENDS BranchAgent, TLC
=============================================================================
