CONSTANTS
  Lives = {d1, d2}
  MaxCalls = 1
  None = None
SPECIFICATION FairSpec
INVARIANTS
  TypeOK
  SocketServes
  
PROPERTIES
  ShutdownEnds
  
CHECK_DEADLOCK FALSE
