\* Two slots, two commands of which clients cancel one, one retry; equal
\* stamps, so that the queue gives the commands out in any order.
SPECIFICATION Spec
CONSTANTS
  Commands = {c1, c2}
  Cancellable = {c1}
  Priorities = {0}
  Times = {0}
  Workers = {w1, w2, w3}
  MaxConcurrent = 2
  MaxRetries = 1
  NoCommand = none
SYMMETRY Interchangeable
INVARIANTS
  ConcurrencyBound
  OneHolder
  HonestOutcome
  StoppedMeansQuiet
PROPERTIES
  OutcomeSticks
  ImplementsDelivery
CHECK_DEADLOCK FALSE
