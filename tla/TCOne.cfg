\* One connection, every kind of request, results on both sides of zero.
CONSTANTS
  Conns = {c1}
  NoConn = NoConn
  Results <- SignedResults
  Ops <- AllOps
SPECIFICATION FairSpec
INVARIANTS PacketCoherent
PROPERTIES StatsImplementExtrema QuitCompletes
CHECK_DEADLOCK FALSE
