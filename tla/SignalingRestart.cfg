CONSTANTS
  a = a  b = b  a1 = a1  a2 = a2  b1 = b1
  Nodes <- MCNodes
  Daemons <- Restart
  NodeOf <- RestartNodeOf
  PeerPub <- RestartPeerPub
  ChanCap = 1
  None = None
  Nil = Nil
SPECIFICATION Spec
INVARIANTS
  TypeOK
  LookupsAreOpen
  RendezvousPairs
  FoundUnlessCleanedUp
PROPERTIES
  KeepsThePromise
CHECK_DEADLOCK FALSE
