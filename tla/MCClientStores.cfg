SPECIFICATION EitherSpec
CONSTANTS
  Stage = {s1, s2}
  Lease = {l1, l2}
  RowCapacity = 3
  StageRows <- Uniform
  Demand = FALSE
  Idle = Idle
  Path <- MCPath
  MaxNodes = 3
  MaxStaged = 2
  MaxPages = 3
  MaxFiles = 7
  MaxRevision = 2
  MaxCreated = 8
  NoHead = NoHead
INVARIANTS
  Accounted
  NothingDangles
  OnlyPublished
PROPERTIES
  OneTimeRows
SYMMETRY Symmetric
CHECK_DEADLOCK FALSE
