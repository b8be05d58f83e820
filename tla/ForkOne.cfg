\* One connection, every request: what it sends, when it hangs up.
CONSTANTS
  Clients = {c1}
  Keys = {k1}
  Ids = {i1}
  None = None
  Requests <- AllRequests
CHECK_DEADLOCK FALSE
SPECIFICATION FairSpec
INVARIANTS SendsCoherent ExtremaExact
PROPERTIES  QuitEndsConnection
