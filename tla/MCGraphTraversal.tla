-------------------------- MODULE MCGraphTraversal --------------------------
(***************************************************************************)
(* Small instances of GraphTraversal: three nodes with a cycle, a pair of  *)
(* opposite relationships and one that joins a node to itself.             *)
(***************************************************************************)
EXTENDS GraphTraversal

MCNodes == {1, 2, 3}
MCRels  == {"12", "23", "31", "21", "33"}
MCFrom  == [r \in MCRels |-> CASE r = "12" -> 1 [] r = "23" -> 2 [] r = "31" -> 3
                               [] r = "21" -> 2 [] r = "33" -> 3]
MCTo    == [r \in MCRels |-> CASE r = "12" -> 2 [] r = "23" -> 3 [] r = "31" -> 1
                               [] r = "21" -> 1 [] r = "33" -> 3]
=============================================================================
