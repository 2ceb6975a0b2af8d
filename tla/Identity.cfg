CONSTANTS
  path = path  tmp = tmp
  Daemons = {d1, d2}
  Paths = {path}
  PathOf <- MCPathOf
  Tmp <- MCTmp
  Inodes = {i0, i1, i2, i3}
  Foreign = {i0}
  Keys = {k1, k2, k3}
  Torn = Torn
  None = None
SPECIFICATION Spec
INVARIANTS
  TypeOK
  WholeUnlessRaced
  RunningKeyIsStored
PROPERTIES
  IdentityIsKept
CHECK_DEADLOCK FALSE
