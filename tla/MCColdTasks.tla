---------------------------- MODULE MCColdTasks ----------------------------
(***************************************************************************)
(* Small instances of ColdTasks for TLC.                                   *)
(***************************************************************************)
EXTENDS ColdTasks, TLC

\* Safety only: the jobs are interchangeable.
JobSymmetry == Permutations(Jobs)
=============================================================================
