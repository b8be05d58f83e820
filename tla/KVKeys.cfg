\* Read-write lock server: two keys, so that the list has two nodes; every thread
\* scheduled.
CONSTANTS
  Clients = {c1, c2}
  Keys = {k1, k2}
  Char = {a, b}
  Width = 1
  Position = 1
  Blank = Blank
  NoClient = NoClient
  SharedReads = TRUE
SPECIFICATION FairSpec
INVARIANTS Exclusion ByteProvenance OneNodePerKey PointersValid
PROPERTIES LinearizableByte AnsweredOnceOthersPause GetsDoNotWaitForGets
