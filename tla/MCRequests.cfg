\* Two servers, one session and one turn; two pages, two sessions and one watcher.
SPECIFICATION PartsSpec
CONSTANTS
  None = None
  Nothing = Nothing
  Unreadable = Unreadable
  Page = {g1, g2}
  Webhook = {h1}
  Opening = {a, b}
  Watcher = {w1}
  Inherited = Nothing
  Lifetime = 1
  MaxNoteNow = 1
  Server = {a, b}
  Session = {t1}
  MaxKeys = 2
  MaxGen = 2
  MaxTurn = 1
  Ttl = 0
  MaxTime = 1
SYMMETRY Symmetry
CHECK_DEADLOCK FALSE
INVARIANTS
  CredentialsWorkOnce
  PagesAreOwned
  OfferedOnce
PROPERTIES
  EndIsFinal
