SPECIFICATION FairSpec
CONSTANTS
  u1 = u1
  w1 = w1
  w2 = w2
  Users = {u1}
  Sockets = {w1}
  Callers <- MCCallers
  Nobody = Nobody
  Owner <- MCOwner
INVARIANTS TypeOK NoOrphanTask EndedIsClean SendersMatchTasks
PROPERTIES WritesStartOnOpenWire ImplementsRegistry DroppedSessionsEnd GonePeersEnd SilentPeersEnd
CHECK_DEADLOCK FALSE
