----------------------------- MODULE GraphTables -----------------------------
(***************************************************************************)
(* The identifiers of the knowledge graph: KnowledgeGraph changes the two  *)
(* tables, GraphTraversal reads the one of relationships.                  *)
(***************************************************************************)
CONSTANTS
  Nodes,     \* node identifiers, chosen by clients
  Rels,      \* relationship identifiers, fresh for every request
  From, To   \* the nodes each relationship joins

ASSUME EndsAssumption == From \in [Rels -> Nodes] /\ To \in [Rels -> Nodes]
=============================================================================
