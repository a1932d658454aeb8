CONSTANTS
  None = None
  Sockets = {s1, s2}
  Base = 2
  Ceiling = 5
  MaxFailures = 4
  FirstReport = {"nothing", "start", "stop", "restart"}
  PauseReport = {"nothing", "stop", "throw"}
  MaxBegun = 2
  MaxChunks = 2
  Keeps = {1}
  MaxBytes = 2
  Games = {g1, g2}
  Feeds = {"old", "new"}
  MaxCalls = 2
  MaxPending = 1
  Pushed = {u1, u2, u3}
  File = File
  Viewed = v
  e1 = e1
  e2 = e2
  Plain = Plain
SPECIFICATION Traces
INVARIANTS NothingLeaks HistoryIsSound SessionsAreServed TraceIsWhole ArrivesWhole
PROPERTIES BackoffKept FinishedIsFrozen ExpiredIsCollected NothingWaitsForever
CHECK_DEADLOCK FALSE
