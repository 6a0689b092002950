SPECIFICATION FairSpec
CONSTANTS
  u1 = u1
  u2 = u2
  w1 = w1
  w2 = w2
  w3 = w3
  Users = {u1, u2}
  Sockets = {w1, w2, w3}
  Callers = {c1, c2}
  Nobody = Nobody
  Owner <- MCOwner
INVARIANTS TypeOK LocksMatchRegistry
PROPERTIES ImplementsRegistry CallsEnd DroppedSocketsDrain
