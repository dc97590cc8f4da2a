SPECIFICATION FairSpec
CONSTANTS
  MaxTurn = 2
  Daemon = {1, 2}
  MaxStarts = 2
  MaxFaults = 1
CHECK_DEADLOCK FALSE
INVARIANTS
  OwnerIsManager
PROPERTIES
  CapturedFenceLifts
