\* Every graph of five relationships on three nodes, every start, direction and
\* depth up to three, two changes meanwhile.
SPECIFICATION TraverseSpec
CONSTANTS
  Nodes <- MCNodes
  Rels <- MCRels
  From <- MCFrom
  To <- MCTo
  Depths = {0, 2, 3}
  MaxChanges = 2
INVARIANT
  SearchExact
CHECK_DEADLOCK FALSE
