SPECIFICATION Stops
CONSTANTS
  States = {s1, s2}
  NoState = NoState
  MaxDepth = 2
  ThrowsAfterMove = FALSE
  AcquiresAfterExit = FALSE
  MaxIds = 2
  MaxWaits = 2
  Host = Host
CHECK_DEADLOCK FALSE
INVARIANTS TracksWhatRuns CancelledIsOver
PROPERTIES StopDisposes CancelUnwinds
