\* Five calls, two failing steps, two killed processes, one edit by others.
SPECIFICATION Spec
CONSTANTS
  MaxCalls = 5
  MaxFailures = 2
  MaxCrashes = 2
  MaxEdits = 1
  MaxIds = 12
CHECK_DEADLOCK FALSE
INVARIANTS
  InstalledStateAgrees
  UninstallationFinishes
PROPERTIES
  OnlyAskedForIsDeleted
