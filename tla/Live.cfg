SPECIFICATION LiveFairSpec
CONSTANTS
  u1 = u1
  u2 = u2
  Users = {u1, u2}
  Titles = {t1}
  Statuses = {v1, v2}
  Filters = {}
  Writers = {c1, c2}
  Readers = {}
  MaxId = 1
  All = All
  None = None
  Sessions = {s1}
  SessionUser <- FirstUser
  MaxBacklog = 2
INVARIANTS LiveTypeOK ViewsExplained EventsCurrent ChannelsApart
PROPERTIES ViewsSettle
CHECK_DEADLOCK FALSE
