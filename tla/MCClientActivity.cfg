SPECIFICATION Spec
CONSTANTS
  Response = {r1, r2}
  Caller = {c1, c2}
  Inventory = {i1, i2, i3}
  Rows = 2
  None = None
INVARIANTS
  NeverOverlap
  InventoriesKept
PROPERTIES
  EverybodyEnds
CHECK_DEADLOCK FALSE
