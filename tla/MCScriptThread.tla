--------------------------- MODULE MCScriptThread ---------------------------
(***************************************************************************)
(* ScriptThread with lengths small enough that chunks fill up: the first   *)
(* chunk holds two Dynamics, one struct size needs a chunk of its own.     *)
(***************************************************************************)
EXTENDS ScriptThread, TLC

MCPowersOfTwo == {1, 2, 4, 8}
MCByteSizes == {5}
MCQuotas == {1}
CONSTANTS path1, path2
MCPaths == {path1, path2}

\* The paths are only compared with each other.
MCSymmetry == Permutations(MCPaths)
=============================================================================
