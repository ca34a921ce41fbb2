---------------------------- MODULE MCBranchTree ----------------------------
(* A search of at most two children per round and two rounds.  MaxBranches  *)
(* leaves room for a third round, so that it is MaxDepth that ends a tree.   *)
EXTENDS BranchTree, TLC
=============================================================================
