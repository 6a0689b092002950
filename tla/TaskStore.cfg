SPECIFICATION Spec
CONSTANTS
  Users = {u1, u2}
  Titles = {t1, t2}
  Statuses = {s1, s2}
  Filters = {}
  Writers = {c1, c2}
  Readers = {}
  MaxId = 1
  All = All
  None = None
SYMMETRY Symmetry
PROPERTIES OnlyOwnerChanges DeletedStaysDeleted ImplementsStore
CHECK_DEADLOCK FALSE
