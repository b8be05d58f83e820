\* Two connections that may or may not have the same key.
CONSTANTS
  Clients = {c1, c2}
  Keys = {k1, k2}
  Ids = {i1, i2}
  None = None
  Requests <- FewRequests
CHECK_DEADLOCK FALSE
SPECIFICATION Spec
SYMMETRY Symmetry
VIEW NoOut
INVARIANTS OneInside OneAtTheExtrema KeysSeparateMemory
