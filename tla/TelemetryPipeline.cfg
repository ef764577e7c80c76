\* Two peers, of which one sends three lines, a limit of one connection (which both
\* can pass if they come together), a queue of two lines; and one call of the
\* API, with up to two frames in batches of two.
SPECIFICATION FairSpec
CONSTANTS
  a = a
  b = b
  Conns <- MCConns
  MaxLines <- MCMaxLines
  Calls = {call}
  MaxFrames = 2
  MaxConns = 1
  BufferSize = 2
  Batch = 2
INVARIANTS
  NoPushAfterClose
  LinesAccounted
PROPERTY
  NothingHangs
CHECK_DEADLOCK FALSE
