CONSTANTS
  States = {s1, s2, s3}
  NoState = NoState
  MaxDepth = 3
  ThrowsAfterMove = FALSE
  AcquiresAfterExit = FALSE
SPECIFICATION ReadSpec
SYMMETRY Symmetry
INVARIANTS StackIsSound NothingLeaks ReaderFollows
PROPERTIES ImplementsLifecycle ExitCalledOnce
CHECK_DEADLOCK FALSE
