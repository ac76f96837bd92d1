----------------------------- MODULE MCWsServer -----------------------------
(***************************************************************************)
(* WsServer with three connections and one script; connections are alike.  *)
(***************************************************************************)
EXTENDS WsServer, TLC

CONSTANTS s1, c1, c2, c3, k1
MCServers == {s1}
MCConns == {c1, c2, c3}
MCCalls == {k1}
MCSymmetry == Permutations(MCConns)
=============================================================================
