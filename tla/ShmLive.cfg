\* Every program scheduled; kills, failing waits and restarts at any point.
CONSTANTS
  Faults = {"kill", "fail"}
  Results <- PlainResults
  Ops <- QuitOnly
SPECIFICATION FairSpec
PROPERTIES SemaphoresAreGivenBack QuitSpreads
