SPECIFICATION AttemptsSpec
CONSTANTS
  Request = {a1, a2}
  Prompt <- OnePrompt
  NoNode = NoNode
  NoScope = NoScope
  Maximum = 2
  MaxRequests = 3
  MaxNodes = 2
  MaxBytes = 100
  RowBytes = 1
  LogitsBytes = 1
  OverlapBytes = 1
  MaxCancelled = 2
  MaxBroken = 2
INVARIANTS
  Ownership
PROPERTIES
  TurnsInOrder
  DepartedFinishes
  AttemptsEnd
CHECK_DEADLOCK FALSE
