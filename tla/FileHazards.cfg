CONSTANTS
  s = s  t = t  x = x  y = y
  Transfers <- One
  Names <- MCNames
  NameOf <- OneName
  Size <- OneSize
  ProgressEvery = 2
  ProgressCap = 1
  Edits = TRUE
  DiskErrors = TRUE
  None = None
SPECIFICATION FairSpec
INVARIANTS
  TypeOK
  
  VerifiedMissesOnlyTheLast
PROPERTIES
  
  ReceiverEnds
CHECK_DEADLOCK FALSE
