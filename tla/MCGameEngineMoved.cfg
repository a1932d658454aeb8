CONSTANTS
  States = {s1, s2}
  NoState = NoState
  MaxDepth = 3
  ThrowsAfterMove = TRUE
  AcquiresAfterExit = FALSE
SPECIFICATION Spec
INVARIANTS NothingOrphaned
CHECK_DEADLOCK FALSE
