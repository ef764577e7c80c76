-------------------------- MODULE MCKnowledgeGraph --------------------------
(***************************************************************************)
(* A small instance of KnowledgeGraph: two nodes, a relationship between   *)
(* them and one that joins a node to itself.                               *)
(***************************************************************************)
EXTENDS KnowledgeGraph, TLC

CONSTANTS n1, n2, r1, r2, a, b, up, down

MCNodes == {n1, n2}
MCRels  == {r1, r2}
MCFrom  == [r \in MCRels |-> IF r = r1 THEN n1 ELSE n2]
MCTo    == [r \in MCRels |-> n2]

\* Neither two requests nor two statuses are told apart.
Interchangeable == Permutations({a, b}) \union Permutations({up, down})
=============================================================================
