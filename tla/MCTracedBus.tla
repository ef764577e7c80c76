---------------------------- MODULE MCTracedBus ----------------------------
(* Two events of two types; a subscriber of everything, one of a type.       *)
EXTENDS TracedBus

MCEvents == 1..3
MCClient == [e \in MCEvents |-> IF e = 2 THEN "d" ELSE "c"]
MCType   == [e \in MCEvents |-> IF e = 2 THEN "command" ELSE "task"]
MCReplays == {[types |-> {"command"}, limit |-> 0], [types |-> {}, limit |-> 1]}
MCFilter == [s \in Subscribers |-> IF s = "all" THEN {} ELSE {"command"}]

\* A replay shares nothing with the subscriptions: they are checked apart.
Apart == replay.state = "none" \/ \A s \in Subscribers : sub[s] = "none"
=============================================================================
