SPECIFICATION Spec
CONSTANTS
  Users = {u1}
  Titles = {t1, t2}
  Statuses = {s1}
  Filters = {}
  Writers = {c1, c2}
  Readers = {}
  MaxId = 2
  All = All
  None = None
SYMMETRY Symmetry
INVARIANTS TitlesUnique
CHECK_DEADLOCK FALSE
