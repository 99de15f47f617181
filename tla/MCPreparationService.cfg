SPECIFICATION Spec
CONSTANTS
  Session = {s1, s2}
  Owner = {o1, o2}
  Stage = {t1, t2}
  Attempt = {i1, i2}
  Authorization = {a1, a2}
  Request = {r1, r2}
  Capacity = 1
  NoSession = NoSession
INVARIANTS
  ConsumedOnce
  ServicesAgree
SYMMETRY Symmetric
CHECK_DEADLOCK FALSE
