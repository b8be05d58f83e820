\* Three clients of the one-request servers, of which HW1 and HW2 serve two.
CONSTANTS
  Clients = {c1, c2, c3}
  MaxClients = 2
  Results <- SignedResults
SPECIFICATION FairSpec
INVARIANTS Extremal RangesNest ConversationInOrder
 
CHECK_DEADLOCK FALSE
