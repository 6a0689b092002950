SPECIFICATION Spec
CONSTANTS
  Requests <- MCRequests
  Absent = Absent
  None = None
  MaxVersion = 1
INVARIANTS ServedOwnAndFresh MixUpsAmbiguous
CHECK_DEADLOCK FALSE
