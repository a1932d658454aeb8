CONSTANTS
  None = None
  Owners = {o1, o2}
  Subs = {s1, s2}
  Regions = {r1}
  Visitors = {v1, v2}
  Second = 2
  MaxTime = 2
  MaxNow = 5
  TimerDepth = 3
  Listeners = {l1, l2}
  Once = {l1}
  Guests = {g1, g2, g3}
  MaxScans = 1
  Size = 3
  Batch = 2
  Rooms = {a1, a2}
  Keys = {k1, k2}
  ScopeDepth = 3
  Boards = {b1, b2}
  Providers = {b1}
  Named = {p1, p2}
  Words = {"w"}
  MaxRuns = 2
SPECIFICATION Components
INVARIANTS SignalsAreSound TimerIsSound RoomsAreProtected OwnedIsReleased
PROPERTIES DeafAfterDetach DeliveryEnds ReportsAlternate
CHECK_DEADLOCK FALSE
