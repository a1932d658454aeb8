SPECIFICATION Spec
CONSTANTS
  Keys = {k1}
  Daemons = {}
  Instances = {i1, i2}
  None = None
  MaxDepth = 3
SYMMETRY Symmetry
INVARIANT OneGameOneSession
