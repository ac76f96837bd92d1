------------------------- MODULE MCProcessRegistry --------------------------
(***************************************************************************)
(* ProcessRegistry: two threads; a process whose output has a character of *)
(* two bytes, and one that reads nothing and leaves a daemon behind.       *)
(***************************************************************************)
EXTENDS ProcessRegistry

CONSTANTS plain, daemon
MCProcs == {plain, daemon}
MCStream == [p \in Procs |-> IF p = plain THEN <<"L", "C">> ELSE <<>>]
=============================================================================
