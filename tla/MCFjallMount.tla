---------------------------- MODULE MCFjallMount ----------------------------
(***************************************************************************)
(* FjallMount: one node, which three threads turn into objects, lists and    *)
(* maps; a list grows to two entries.                                      *)
(***************************************************************************)
EXTENDS FjallMount, TLC

MCSymmetry == Permutations(Threads) \cup Permutations(Values)
=============================================================================
