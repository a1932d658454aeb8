CONSTANTS
  Players = {p1, p2}
  None = None
  Timeout = 2
  Interval = 3
  Scoped = TRUE
  Loading = TRUE
  Callbacks = {"returns"}
  Vetoes = {"yes", "no"}
  Reenters = FALSE
SPECIFICATION FairSpec
INVARIANT DetachedIsQuiet
PROPERTIES ReleasedAfterGrace RoomIsReclaimed
