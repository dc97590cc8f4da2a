\* Two keys, three schedule calls, two threads closing; the other bounds are in the module.
SPECIFICATION PartsSpec
CONSTANTS
  NoCursor = NoCursor
  Nothing = Nothing
  Unreadable = Unreadable
  g1 = g1
  h1 = h1
  a = a  b = b
  MaxLine = 2
  MaxBatch = 2
  MaxRecords = 2
  Lengths = {1, 2, 3}
  MaxPieces = 6
  Session = {"s1", "s2"}
  Process = {a, b}
  HandOff = 2
  TickLimit = 2
  Keys = {k1, k2}
  Deadlines <- MCDeadlines
  Closers = {c1, c2}
  MaxSequence = 3
  MaxTime = 2
CHECK_DEADLOCK FALSE
INVARIANTS
  NoLostWakeup
  CloseMeansQuiet
  LinesAreTaken
  LaunchIsWatched
PROPERTIES
  ImplementsTimer
  TimerSettles
  StopsEnd
  EveryLineIsTaken
  ExpiredPageEnds
