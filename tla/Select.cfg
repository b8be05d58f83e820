\* Two clients of the select calculator that come again and again.
CONSTANTS
  Conns = {c1, c2}
  Results <- SignedResults
  Ops <- AllOps
SPECIFICATION FairSpec
INVARIANTS DescriptorsKept AnswersFit
PROPERTIES EveryoneIsServed
CHECK_DEADLOCK FALSE
