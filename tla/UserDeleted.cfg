SPECIFICATION Spec
CONSTANTS
  Emails = {e1}
  Requests = {r1}
  MaxId = 1
  None = None
INVARIANTS AdmittedExisted
CHECK_DEADLOCK FALSE
