CONSTANTS
  a = a  b = b  a1 = a1  a2 = a2  b1 = b1
  Nodes <- MCNodes
  Daemons <- Mutual
  NodeOf <- MutualNodeOf
  PeerPub <- MutualPeerPub
  ChanCap = 1
  None = None
  Nil = Nil
SPECIFICATION FairSpec
INVARIANTS
  CallerToldFirst
  NothingLostWhileServing
  OneDialGetsThrough
PROPERTIES
  DialReturns
  BrokenStreamEnds
  NilEndsStream
CHECK_DEADLOCK FALSE
