CONSTANTS
  Owners = {o1}
  Subs = {s1, s2}
  Regions = {r1}
  Visitors = {v1}
  None = None
  Tidy = FALSE
  Settled = TRUE
SPECIFICATION Spec
INVARIANT StatesHaveSubscribers
