SPECIFICATION FairSpec
CONSTANTS
  Users = {u1}
  Titles = {t1}
  Statuses = {s1, s2}
  Filters = {s1}
  Writers = {c1, c2}
  Readers = {q1}
  MaxId = 1
  All = All
  None = None
INVARIANTS TypeOK CacheCoherent FillsCoherent
PROPERTIES EventuallyFresh
CHECK_DEADLOCK FALSE
