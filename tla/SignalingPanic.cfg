CONSTANTS
  a = a  b = b  a1 = a1  a2 = a2  b1 = b1
  Nodes <- MCNodes
  Daemons <- Mutual
  NodeOf <- MutualNodeOf
  PeerPub <- MutualPeerPub
  ChanCap = 1
  None = None
  Nil = Nil
SPECIFICATION Spec
INVARIANTS
  ServerKeepsRunning
CHECK_DEADLOCK FALSE
