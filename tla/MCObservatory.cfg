SPECIFICATION FairSpec
CONSTANTS
  Sessions = {t1, t2}
  Conns = {c1, c2}
  Users = {u1}
  None = None
  Parts = 2
  Cap = 1
  MaxLate = 1
INVARIANTS RoutesAgree ArchiveIsWhole DeletedIsGone
PROPERTIES SweepEnds
