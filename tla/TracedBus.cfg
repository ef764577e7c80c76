\* Three events, one subscriber of everything, room for one event in each channel;
\* replays are checked apart from the subscriptions.
SPECIFICATION TSpec
CONSTANTS
  Events <- MCEvents
  Client <- MCClient
  Type <- MCType
  Subscribers = {"all"}
  Filter <- MCFilter
  ChanBuffer = 1
  Batch = 1
  Replays <- MCReplays
  WrapBuffer = 1
CONSTRAINT Apart
INVARIANTS
  
  ReplayComplete
PROPERTIES
  ImplementsMessageBus
  CloseTerminates
  ReaderCannotBlock
  UnsubscribedEnds
CHECK_DEADLOCK FALSE
