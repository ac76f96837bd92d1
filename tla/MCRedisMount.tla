---------------------------- MODULE MCRedisMount ----------------------------
(* Two processes, and three paths: a directory, its child and their sibling. *)
EXTENDS RedisMount
MCPaths == {<<"a">>, <<"a", "b">>, <<"a", "c">>}
MCKeyLock == [q \in MCPaths |-> Front(q) \o <<Last(q) \o "::k">>]
=============================================================================
