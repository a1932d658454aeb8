SPECIFICATION Services
CONSTANTS
  Players = {p1, p2}
  Games = {g1, g2}
  Callbacks = {c1, c2}
  Policies = {"exclusive", "shared"}
  MaxDepth = 2
  PlayersDepth = 4
  Keys = {k1, k2}
  Daemons = {k2}
  Instances = {i1, i2, i3}
  None = None
  ManagerDepth = 4
  Ids = {a, b}
  Groups = {t1, t2}
  Given <- Arrays
  Set = Set
  GroupsCalls = 1
SYMMETRY Symmetry
CHECK_DEADLOCK FALSE
INVARIANTS StateIsConsistent NoLostWakeup WrappersFollowMembers KeysAgree GroupsAgree
PROPERTIES ImplementsMembership RollbackReleases
