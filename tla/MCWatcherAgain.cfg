\* One daemon, two activations, an open and closed tool call, one crash or failed log
\* access; two daemons with what MCNotificationWatcher leaves of the bounds.
SPECIFICATION AgainOrPairSpec
CONSTANTS
  d1 = d1
  d2 = d2
  c1 = c1
  c2 = c2
  Daemons = {d1, d2}
  Calls = {c1}
  Warning = 1
  Critical = 2
  MaxTime = 1
  MaxEvents = 2
  MaxActivations = 2
  MaxStops = 1
  MaxFailures = 0
  MaxLogFailures = 1
  BatchLimit = 1
SYMMETRY Symmetry
CONSTRAINT OneAtATime
CHECK_DEADLOCK FALSE
INVARIANTS
  AnnouncedOnce
  OnlyDaemonPolls
  SharedProgressCountsOnce
