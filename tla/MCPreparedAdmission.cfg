SPECIFICATION Spec
CONSTANTS
  Sid = {i1, i2}
  NAttempts = 2
  Model = {m1}
  Shape = {x1}
  Holder = {p1}
  NoHolder = NoHolder
  NoMeta = NoMeta
  Capacity = 3
  MaxBytes = 6
  SessionCapacity = 2
  Timeout = 1
  IdleTimeout = 2
  Ses = {e1}
  NStages = 2
  MaxRows = 1
  BytesPerRow = 1
  Header = 1
  Overhead = 1
  MaxAttemptsPerSession = 2
  OneMeta <- OnlyMeta
  m1 = m1
  x1 = x1
INVARIANTS
  ReadyIsBacked
  NoLeakedSessions
  AdmissionSuffices
SYMMETRY Symmetric
