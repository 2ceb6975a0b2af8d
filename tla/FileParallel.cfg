CONSTANTS
  s = s  t = t  x = x  y = y
  Transfers <- Two
  Names <- MCNames
  NameOf <- Apart
  Size <- TwoSize
  ProgressEvery = 1
  ProgressCap = 1
  Edits = FALSE
  DiskErrors = FALSE
  None = None
SPECIFICATION FairSpec
INVARIANTS
  VerifiedMeansIntact
PROPERTIES
  SuccessReachesDisk
CHECK_DEADLOCK FALSE
