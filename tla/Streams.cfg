\* Two connections for each echo server, three for the chat server.
CONSTANTS
  Conns = {c1, c2, c3}
  EchoConns = {c1, c2}
  Speakers = {c1, c2}
  MaxSent = 3
  MaxSaid = 1
  BufferSize = 1
  MaxSlots = 1
SPECIFICATION FairSpec
INVARIANTS DescriptorsLookedAfter LeaversAreHarmless 
PROPERTIES EchoedInFull EveryoneIsReleased LeaversLeaveTheList
CHECK_DEADLOCK FALSE
