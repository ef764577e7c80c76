\* One slot, no cancellation, with the scheduler's fairness: liveness, the
\* order of deliveries and the counters.
SPECIFICATION FairSpec
CONSTANTS
  Commands = {c1, c2}
  Cancellable = {}
  Priorities = {0, 1}
  Times = {0, 1}
  Workers = {w1, w2}
  MaxConcurrent = 1
  MaxRetries = 1
  NoCommand = none
INVARIANTS
  BooksAgree
PROPERTIES
  InOrder
  NothingHangs
CHECK_DEADLOCK FALSE
