\* As MCSharedFiles, with a tool that tells its end by an event beside other tools.
SPECIFICATION PartsSpec
CONSTANTS
  NoFile = NoFile
  Nobody = Nobody
  NoId = NoId
  NoTime = NoTime
  p1 = p1  p2 = p2  p3 = p3
  Writers = {w1, w2}
  EventId = {e1, e2}
  Capacity = 2
  MaxWrites = 7
  Default <- MCDefault
  Custom <- MCCustom
  Outcome <- MCOutcome
  MaxVersion = 2
  Hosts = {"posix", "windows"}
  Edits = {"model", "theme"}
  CMW = "cmw"
  UserSettings = "user"
  MaxCalls = 3
  MaxFailures = 2
  MaxCrashes = 1
  c1 = c1  c2 = c2  c3 = c3
  Overlap = TRUE
  Process <- Processes
  MaxSession = 2
  MaxUpdate = 2
SYMMETRY Symmetry
CHECK_DEADLOCK FALSE
INVARIANTS
  GapsAreQuietTime
