----------------------------- MODULE MCLifecycle -----------------------------
(* Two processes that share a database; one of them gets a request over HTTP *)
(* and a stream over gRPC.  A plugin with a manifest registers itself.       *)
EXTENDS Lifecycle

MCHome == [r \in {"h", "g"} |-> "a"]
MCGlobals == {<<"parser", "dummy">>}
=============================================================================
