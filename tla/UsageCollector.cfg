\* Four readings, a queue of two, run and one caller of Flush.
SPECIFICATION FairSpec
CONSTANTS
  Records <- MCRecords
  Base = 2
  Meter <- MCMeter
  TakenAt <- MCTakenAt
  Count <- MCCount
  BucketInterval = 4
  Day = 8
  Units <- MCUnits
  Queries <- MCQueries
  Callers = {caller}
  QueueCapacity = 2
  Run = run
  None = None
INVARIANTS
  BilledExactly
  CloseFlushes
PROPERTY
  NothingHangs
CHECK_DEADLOCK FALSE
