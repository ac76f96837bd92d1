---------------------------- MODULE MCDirMount ------------------------------
(***************************************************************************)
(* DirMount: two files, which a transaction writes together.               *)
(***************************************************************************)
EXTENDS DirMount

CONSTANTS p1, p2
MCPaths == {p1, p2}
MCOrder == [x \in Txs |-> <<p1, p2>>]

\* A writer writes either file; or all write the same one.
Either == [w \in Writers |-> MCPaths]
Same == [w \in Writers |-> {p1}]
=============================================================================
