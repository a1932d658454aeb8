CONSTANTS
  Games = {g1}
  Feeds = {f1}
  None = None
  MaxBegun = 2
  MaxCalls = 2
  MaxPending = 1
SPECIFICATION Spec
INVARIANT UnfinishedIsKept
