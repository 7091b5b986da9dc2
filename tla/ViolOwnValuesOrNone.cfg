\* Stateful serving: an initialize and a notification.
CONSTANTS
  Req = {q1, q2}
  Ident = {i1, i2}
  Sid = {s1}
  None = None
  Stateless = FALSE
  LegacyIds = FALSE
SPECIFICATION Spec
SYMMETRY MCSymmetry
CHECK_DEADLOCK FALSE
INVARIANT
  OwnValuesOrNone
