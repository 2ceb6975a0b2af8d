CONSTANTS
  Peers = {p1, p2}
  Traffic = 5
  SeqModulus = 3
  Window = 2
  None = None
SPECIFICATION Spec
INVARIANTS
  InjectedOnce
  
  RefusedOnlyIfReplayOrTooOld
PROPERTY
  SessionsKeepThePromise
CHECK_DEADLOCK FALSE
