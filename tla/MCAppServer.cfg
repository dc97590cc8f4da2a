\* The bounds of the instances are in the module; two callers and one session use the service.
SPECIFICATION PartsSpec
CONSTANTS
  a = a  b = b
  c1 = c1
  t1 = t1  t2 = t2
  h1 = h1
  s1 = s1  s2 = s2
  None = None
  Nothing = Nothing
  Sessions = {"s1"}
  Callers = {a, b}
  Warning = 1
  Restart = 2
  Interval = 1
  Reported = {"started", "completed"}
  MaxTasks = 2
  MaxRequests = 3
  MaxReports = 1
  MaxNow = 2
SYMMETRY Symmetry
CHECK_DEADLOCK FALSE
INVARIANTS
  ServiceIsArmed
  TurnsAreTracked
PROPERTIES
  AnnouncedTurnsAreSettled
