--------------------------- MODULE MCHostChannel ----------------------------
(***************************************************************************)
(* HostChannel: p runs commands, a asks, and they share the nodes of ask.  *)
(***************************************************************************)
EXTENDS HostChannel

CONSTANTS p, a, q
MCChannelOf == [c \in Callers |-> "ask"]
MCQuestions == {q}

\* "cargo test" is allowed; "cargo run" has to be asked for; "sh" is a shell.
MCCommands == {<<"cargo", "test">>, <<"cargo", "run">>, <<"rm", "all">>, <<"sh", "all">>}
MCShells == {"sh"}
MCPolicies == {NoPolicy, [autoApprove |-> FALSE, allow |-> {<<"cargo", "test">>, <<>>}]}
=============================================================================
