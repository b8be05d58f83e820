\* All kinds of requests, kills, failing waits and restarts at any point.
CONSTANTS
  Faults = {"kill", "fail"}
  Results <- PlainResults
  Ops <- AllButErrors
SPECIFICATION Spec
INVARIANTS Exclusion SemaphoresHeal JobsWhole  ExtremaExact
