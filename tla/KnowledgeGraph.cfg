\* Two requests at a time on two nodes and two relationships.
SPECIFICATION Spec
CONSTANTS
  n1 = n1
  n2 = n2
  r1 = r1
  r2 = r2
  a = a
  b = b
  up = up
  down = down
  Clients = {a, b}
  Nodes <- MCNodes
  Rels <- MCRels
  From <- MCFrom
  To <- MCTo
  Statuses = {up, down}
  Keep = Keep
  None = None
  MaxCalls = 3
INVARIANTS
  NoDangling
  DeletionComplete
  CopyAgrees
SYMMETRY Interchangeable
CHECK_DEADLOCK FALSE
