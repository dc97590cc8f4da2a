\* One daemon, one activation, one crash and one failed file access.
SPECIFICATION FairSpec
CONSTANTS
  d1 = d1
  d2 = d2
  c1 = c1
  c2 = c2
  Daemons = {d1}
  Calls = {c1}
  Warning = 1
  Critical = 2
  MaxTime = 2
  MaxEvents = 1
  MaxActivations = 1
  MaxStops = 1
  MaxFailures = 1
  MaxLogFailures = 0
  BatchLimit = 1
CHECK_DEADLOCK FALSE
INVARIANTS
  CursorIsCovered
PROPERTIES
  ImplementsLedger
  WarningMeansSilence
  StatesAreRecorded
