---------------------------- MODULE MCRootMemory ----------------------------
(***************************************************************************)
(* RootMemory: two scripts, one node.                                      *)
(***************************************************************************)
EXTENDS RootMemory, TLC

MCBucket == [n \in Names |-> 0]
MCKeys == {0}
Symmetric == Permutations(Threads)
=============================================================================
