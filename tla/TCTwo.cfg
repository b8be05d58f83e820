\* Two connections that calculate, quit and may send '#'.
CONSTANTS
  Conns = {c1, c2}
  NoConn = NoConn
  Results <- PlainResults
  Ops <- AllButTraps
SYMMETRY Symmetry
SPECIFICATION Spec
INVARIANTS PoliteClientsAreHarmless 
PROPERTIES HashStopsEveryone
CHECK_DEADLOCK FALSE
