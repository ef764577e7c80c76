\* Two producers, two subscribers of which one comes first and stays, room for
\* one event in publishCh and in each subscriber's channel, a store that keeps
\* one event when it is cleaned up.
SPECIFICATION FairSpec
CONSTANTS
  Events <- MCEvents
  Type <- MCType
  Stamp <- MCStamp
  Subscribers <- MCSubscribers
  Filter <- MCFilter
  PublishBuffer = 1
  SubBuffer = 1
  MaxEvents = 1
  Limits = {0}
INVARIANTS
  CatchUp
PROPERTIES
  ImplementsMessageBus
  CallsReturn
CONSTRAINT OneStays
CHECK_DEADLOCK FALSE
