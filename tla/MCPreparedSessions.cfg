SPECIFICATION Spec
CONSTANTS
  Sid = {i1}
  NAttempts = 2
  Model = {m1}
  Shape = {x1}
  Holder = {p1, p2}
  NoHolder = NoHolder
  NoMeta = NoMeta
  Capacity = 2
  MaxBytes = 3
  SessionCapacity = 2
  Timeout = 1
  IdleTimeout = 1
  Ses = {e1, e2}
  NStages = 1
  MaxRows = 2
  BytesPerRow = 1
  Header = 1
  Overhead = 1
  MaxAttemptsPerSession = 2
  OneMeta <- OnlyMeta
  m1 = m1
  x1 = x1
INVARIANTS
  TypeOK
  OneUse
  DisjointReservations
  TerminalSessionHoldsNothing
PROPERTIES
  UseIsReserved
  RequestsSettle
SYMMETRY SymmetricSessions
