SPECIFICATION IssueSpec
CONSTANTS
  N = 3
  Cost <- LastIsLarge
  Width = 2
  MaxBytes = 4
  Prepared = Prepared
  NoSession = NoSession
INVARIANTS
  EndsClean
PROPERTIES
  IssuanceEnds
CHECK_DEADLOCK FALSE
