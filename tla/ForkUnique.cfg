\* Two connections whose process numbers agree in the eight bits ftok keeps.
CONSTANTS
  Clients = {c1, c2}
  Keys = {k1, k2}
  Ids = {i1, i2}
  None = None
  Requests <- FewRequests
CHECK_DEADLOCK FALSE
SPECIFICATION Spec
INVARIANTS ClientUniqueMemory
