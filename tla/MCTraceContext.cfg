CONSTANTS
  States = {s1, s2}
  NoState = NoState
  MaxDepth = 2
  ThrowsAfterMove = FALSE
  AcquiresAfterExit = FALSE
SPECIFICATION ReadSpec
INVARIANT OwnerIsTheTop
CHECK_DEADLOCK FALSE
