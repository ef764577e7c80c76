\* Three events, a limit of one, a clock of three seconds; the TTL is less
\* than a second.
SPECIFICATION Spec
CONSTANTS
  Base = 2
  Events <- MCEvents
  Stamp <- MCStamp
  TTL = 1
  MaxEvents = 1
  MaxNow = 5
 
PROPERTIES
  RetentionToTheSecond
  LimitKept
CHECK_DEADLOCK FALSE
