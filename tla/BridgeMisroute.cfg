CONSTANTS
  Peers = {p1, p2}
  Traffic = 3
  SeqModulus = 16
  Window = 2
  None = None
SPECIFICATION Spec
INVARIANTS
  PacketsFollowTheirRoute
CHECK_DEADLOCK FALSE
