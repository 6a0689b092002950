SPECIFICATION FairSpec
CONSTANTS
  Actors = {a1, a2, a3}
  Capacity = 2
  None = None
INVARIANTS TypeOK NoHoldAndWait
PROPERTIES OnlySocketsExhaust
