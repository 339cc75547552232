SPECIFICATION FairSpec
CONSTANTS
  k1 = k1
  k2 = k2
  k3 = k3
  Conns <- ThreeConns
INVARIANTS
  TypeOK
PROPERTIES
  ImplementsServerLife
  ConnectionsEnd
  QuitStops
CHECK_DEADLOCK FALSE
