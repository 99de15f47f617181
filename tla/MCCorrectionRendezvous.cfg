SPECIFICATION Spec
CONSTANTS
  Sid = {s1, s2}
  NAttempts = 2
  Model = {m1}
  Shape = {x1}
  Holder = {p1}
  NoHolder = NoHolder
  NoMeta = NoMeta
  Capacity = 2
  MaxBytes = 4
  SessionCapacity = 2
  Timeout = 1
  IdleTimeout = 1
  Payload = {3}
INVARIANTS
  TypeOK
  OneUse
  ByteAccounting
PROPERTIES
  UseIsAuthorized
  WaitersSettle
  ImplementsOneTimeMaterial
