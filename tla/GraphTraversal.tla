--------------------------- MODULE GraphTraversal ---------------------------
(***************************************************************************)
(* Traverse of rel_repo_sqlite.go: a breadth-first search that asks the    *)
(* database for the relationships of one node after another, while other   *)
(* requests create and delete relationships.  What it returns lies between *)
(* what can be reached over the relationships that were there throughout   *)
(* and over those that were there at some time; on a graph nobody changes  *)
(* it is exactly what can be reached.                                      *)
(*                                                                         *)
(* An operator named X_Mistake is X with one plausible mistake, and not    *)
(* part of the specification.                                              *)
(***************************************************************************)
EXTENDS GraphTables, Naturals, FiniteSets

CONSTANTS
  Depths,     \* the values of MaxDepth asked for; 0 stands for none
  MaxChanges  \* bound: relationships created or deleted meanwhile

ASSUME TraversalAssumption ==
  /\ IsFiniteSet(Nodes) /\ IsFiniteSet(Rels)
  /\ Depths \subseteq Nat
  /\ MaxChanges \in Nat

VARIABLES
  graph,      \* the relationships table
  \* Traverse.
  start, direction, maxDepth,  \* its arguments
  depth,      \* the level it is at
  frontier,   \* nodes of this level still to be asked for
  next,       \* nodes of the next level
  visited, collected,
  state,      \* "running", "done", "error"
  \* History.
  changes,    \* how often the table changed
  always,     \* relationships that were there throughout
  ever        \* relationships that were there at some time

arguments    == <<start, direction, maxDepth>>
search       == <<depth, frontier, next, visited, collected, state>>
traverseVars == <<graph, arguments, search, changes, always, ever>>

Directions == {"out", "in", "both"}

\* maxDepth <= 0 means 1; no direction means "out", as the handlers ask too.
TraverseInit ==
  /\ graph \in SUBSET Rels
  /\ start \in Nodes /\ direction \in Directions
  /\ maxDepth \in {IF d = 0 THEN 1 ELSE d : d \in Depths}
  /\ depth = 0 /\ frontier = {start} /\ next = {}
  /\ visited = {start} /\ collected = {}
  /\ state = "running"
  /\ changes = 0 /\ always = graph /\ ever = graph

-----------------------------------------------------------------------------
\* queryForTraversal: the relationships of n in the direction asked for.
Touching(n) ==
  {r \in graph : \/ direction # "in"  /\ From[r] = n
                 \/ direction # "out" /\ To[r] = n}

\* The other end, seen from n.
Other(r, n) == IF From[r] = n THEN To[r] ELSE From[r]

\* The end of a relationship is always taken for the other one.
Ask_ToOnly(n) ==
  /\ state = "running" /\ n \in frontier
  /\ LET found == Touching(n) \ collected
         others == {To[r] : r \in found} \ visited
     IN  /\ collected' = collected \union found
         /\ visited' = visited \union others
         /\ next' = next \union others
  /\ frontier' = frontier \ {n}
  /\ UNCHANGED <<graph, arguments, depth, state, changes, always, ever>>

\* One turn of the loop over the frontier.
Ask(n) ==
  /\ state = "running" /\ n \in frontier
  /\ LET found == Touching(n) \ collected
         others == {Other(r, n) : r \in found} \ visited
     IN  /\ collected' = collected \union found
         /\ visited' = visited \union others
         /\ next' = next \union others
  /\ frontier' = frontier \ {n}
  /\ UNCHANGED <<graph, arguments, depth, state, changes, always, ever>>

\* A query fails, and Traverse returns the error and nothing else.
AskFails ==
  /\ state = "running" /\ frontier # {}
  /\ state' = "error"
  /\ UNCHANGED <<graph, arguments, depth, frontier, next, visited, collected,
                 changes, always, ever>>

\* The end of a level: the next one, if there is one and it is wanted.
NextLevel ==
  /\ state = "running" /\ frontier = {}
  /\ depth' = depth + 1
  /\ frontier' = next /\ next' = {}
  /\ state' = IF depth' < maxDepth /\ next # {} THEN "running" ELSE "done"
  /\ UNCHANGED <<graph, arguments, visited, collected, changes, always, ever>>

\* Another request creates or deletes a relationship between two queries.
Create(r) ==
  /\ state = "running" /\ changes < MaxChanges
  /\ r \notin graph
  /\ graph' = graph \union {r} /\ ever' = ever \union {r}
  /\ changes' = changes + 1
  /\ UNCHANGED <<arguments, search, always>>

Delete(r) ==
  /\ state = "running" /\ changes < MaxChanges
  /\ r \in graph
  /\ graph' = graph \ {r} /\ always' = always \ {r}
  /\ changes' = changes + 1
  /\ UNCHANGED <<arguments, search, ever>>

TraverseNext ==
  \/ \E n \in Nodes : Ask(n)
  \/ AskFails \/ NextLevel
  \/ \E r \in Rels : Create(r) \/ Delete(r)

TraverseSpec == TraverseInit /\ [][TraverseNext]_traverseVars

-----------------------------------------------------------------------------
(* What can be reached, without an algorithm.                              *)

\* One step along a relationship in the direction asked for.
Leads(r, m, n) ==
  \/ direction # "in"  /\ From[r] = m /\ To[r] = n
  \/ direction # "out" /\ To[r] = m /\ From[r] = n

\* The nodes at most k steps of g from the start.
Near(g) ==
  LET near[k \in 0..maxDepth] ==
        IF k = 0 THEN {start}
        ELSE near[k - 1] \union
               {n \in Nodes : \E r \in g, m \in near[k - 1] : Leads(r, m, n)}
  IN  near

\* The relationships that begin, in that direction, fewer steps away than
\* asked for.
Reachable(g) ==
  {r \in g : \E m \in Near(g)[maxDepth - 1], n \in Nodes : Leads(r, m, n)}

-----------------------------------------------------------------------------
(* Properties.                                                             *)

\* The type invariant.
TraverseTypeOK ==
  /\ graph \subseteq Rels /\ always \subseteq graph /\ graph \subseteq ever
  /\ start \in Nodes /\ direction \in Directions /\ maxDepth \in Nat \ {0}
  /\ depth \in 0..maxDepth
  /\ frontier \subseteq visited /\ next \subseteq visited
  /\ start \in visited /\ visited \subseteq Nodes
  /\ collected \subseteq ever
  /\ state \in {"running", "done", "error"}
  /\ changes \in 0..MaxChanges

\* At any time Traverse has collected only relationships that can be reached
\* within its depth over relationships that were there when it looked.
NothingBeyond == collected \subseteq Reachable(ever)

\* When it is done it has collected everything that can be reached over the
\* relationships nobody touched, whatever was created and deleted meanwhile:
\* that a relationship was collected, or a node visited, from elsewhere never
\* hides anything behind it.
NothingMissed == state = "done" => Reachable(always) \subseteq collected

\* A search that ran out of nodes, not out of levels, has visited all nodes it
\* could get to and collected all relationships between them.
Closed ==
  state = "done" /\ frontier = {} =>
    \A r \in always, m \in visited, n \in Nodes :
      Leads(r, m, n) => r \in collected /\ n \in visited

\* All three: the search is exact, but for what was changed beside it.
SearchExact == NothingBeyond /\ NothingMissed /\ Closed

-----------------------------------------------------------------------------
(* The inductive invariant behind TraverseTypeOK and SearchExact.          *)

\* Nodes whose relationships have been read.
Asked == visited \ (frontier \union next)

Searched ==
  /\ state = "running" => depth < maxDepth
  /\ state = "done" => next = {}
  /\ frontier \intersect next = {}
  /\ \A r \in collected : From[r] \in visited /\ To[r] \in visited
  /\ \A r \in always, m \in Asked, n \in Nodes :
       Leads(r, m, n) => r \in collected /\ n \in visited

\* The level at hand holds only nodes that are near enough over relationships
\* that were there at some time, and all that are over those there throughout.
Levels ==
  state = "running" =>
    /\ frontier \subseteq Near(ever)[depth] /\ next \subseteq Near(ever)[depth + 1]
    /\ Near(always)[depth] \subseteq visited \ next

TraverseInv == TraverseTypeOK /\ Searched /\ Levels /\ NothingBeyond /\ NothingMissed
=============================================================================
