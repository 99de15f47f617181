SPECIFICATION Spec
CONSTANTS
  Lease = {p1, w1}
  Worker = {w1}
  Memory <- Needs
  MaxMemory = 3
  MaxSessions = 2
  MaxAttempts = 3
  Call = {c1, c2}
  None = None
INVARIANT OneOpeningPerLease
SYMMETRY Symmetric
CHECK_DEADLOCK FALSE
