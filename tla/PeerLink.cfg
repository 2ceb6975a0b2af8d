CONSTANTS
  a = a  b = b  d = d
  Nodes <- MCNodes
  PeerPub <- MCPeerPub
  HostOf <- MCHostOf
  PortOf <- MCPortOf
  KeyOf <- MCKeyOf
  Found = 2
  FoundAll = 2
  EventCap = 1
  None = None
SPECIFICATION FairSpec
INVARIANTS
  TypeOK
  RegistryIsAuthentic
  FilterIsRespected
PROPERTIES
  LinkedAtBothEnds
  
CHECK_DEADLOCK FALSE
