SPECIFICATION FairSpec
CONSTANTS
  Callers = {c1, c2}
  Closers = {m1}
  Sessions = {s1, s2}
  Worker = worker
  Reader = reader
  MaxReferences = 2
  MaxFaults = 1
CHECK_DEADLOCK FALSE
INVARIANTS
  UsedClientStaysOpen
  NothingIsOrphaned
PROPERTIES
  CloseReturnsUnlessBlocked
