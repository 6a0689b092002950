SPECIFICATION FairSpec
CONSTANTS
  Emails = {e1, e2}
  Requests = {r1, r2}
  MaxId = 2
  None = None
INVARIANTS TypeOK EmailsUnique WelcomesAreAccounts SnapshotsAreAccounts
PROPERTIES DeletedLockedOut
CHECK_DEADLOCK FALSE
