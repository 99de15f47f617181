SPECIFICATION Spec
CONSTANTS
  Request = {r1, r2, r3}
  Prompt <- TwoPrompts
  NoNode = NoNode
  MaxRequests = 2
  MaxNodes = 2
  MaxBytes = 16
  RowBytes = 1
  LogitsBytes = 1
  OverlapBytes = 1
INVARIANTS
  JoinableIsAlive
  RunningIsIndexed
  CancelOnlyAbandoned
  SnapshotOutlivesRequests
  ReservationsAreExact
PROPERTIES
  NobodyIsStuck
