---------------------------- MODULE MCSharedFiles ----------------------------
(***************************************************************************)
(* The files the processes share, one component moving in a behaviour: the *)
(* state files of a session, the diagnostic log, the calibration of the    *)
(* thresholds, the gaps it is computed from and the publication of         *)
(* config.toml.                                                            *)
(***************************************************************************)
EXTENDS StateFile, Sequences, TLC

CONSTANTS
  p1, p2, p3, c1, c2, c3, NoTime, Overlap,
  Writers, EventId, NoId, Capacity, MaxWrites,       \* of the diagnostic log
  Default, Custom, Outcome, MaxVersion,              \* of the calibration
  Hosts, Edits, CMW, UserSettings,                   \* of the publication
  MaxCalls, MaxFailures, MaxCrashes

ASSUME SharedFilesAssumption ==
  /\ Nobody \notin Writers \cup EventId \cup {NoId} /\ Nobody \notin Seq(EventId \cup {NoId})
  /\ Capacity \in Nat \ {0}
  /\ Nobody \notin Process \cup {Default} \cup Custom

VARIABLES
  component,  \* the component that moves, the same in a whole behaviour
  logFile, logLock, logPc, logEvent, logWritten, calInstalled, calCalibration,
  calSettings, calLock, calPc, calVersion, calDocument, calConsented,
  gapRecords, gapQuiet, gapTurn, gapOpen, gapEnded, pubHost, pubDir,
  pubLitter, pubData, pubPc, pubCall, pubSpent, pubRaced, pubFailedAt

MCDefault == <<5, 10>>
MCCustom == {<<2, 1>>, <<3, 9>>}
MCOutcome == {<<4, 8>>, Nobody}

Items ==
  {[type |-> "message", spoken |-> b, completed |-> FALSE] : b \in BOOLEAN}

Log == INSTANCE DiagnosticLog WITH
  file <- logFile, lock <- logLock, pc <- logPc, event <- logEvent,
  written <- logWritten, Process <- Writers

Calibration == INSTANCE Calibration WITH
  installed <- calInstalled, calibration <- calCalibration,
  settings <- calSettings, lock <- calLock, pc <- calPc,
  version <- calVersion, document <- calDocument, consented <- calConsented

Gaps == INSTANCE ProgressGaps WITH
  records <- gapRecords, quiet <- gapQuiet, turn <- gapTurn, open <- gapOpen,
  ended <- gapEnded, Call <- {c1, c2, c3}, Reported <- {c3},
  Overlap <- Overlap, Item <- Items, MinSamples <- 2, Pause <- {0, 100},
  MaxRecords <- 6

Pub == INSTANCE ConfigPublication WITH
  host <- pubHost, dir <- pubDir, litter <- pubLitter, data <- pubData,
  pc <- pubPc, call <- pubCall, spent <- pubSpent, raced <- pubRaced,
  failedAt <- pubFailedAt, User <- UserSettings

logVars ==
  <<logFile, logLock, logPc, logEvent, logWritten>>
calVars ==
  <<calInstalled, calCalibration, calSettings, calLock, calPc, calVersion,
    calDocument, calConsented>>
gapVars ==
  <<gapRecords, gapQuiet, gapTurn, gapOpen, gapEnded>>
pubVars ==
  <<pubHost, pubDir, pubLitter, pubData, pubPc, pubCall, pubSpent, pubRaced,
    pubFailedAt>>

PartsInit ==
  /\ component \in {"files", "log", "calibration", "gaps", "publication"}
  /\ Init
  /\ Log!Init
  /\ Calibration!Init
  /\ Gaps!Init
  /\ Pub!Init
  /\ component # "publication" => pubHost = "posix" /\ pubData = <<>>

PartsNext ==
  \/ component = "files" /\ Next
     /\ UNCHANGED <<component, logVars, calVars, gapVars, pubVars>>
  \/ component = "log" /\ Log!Next
     /\ UNCHANGED <<component, vars, calVars, gapVars, pubVars>>
  \/ component = "calibration" /\ Calibration!Next
     /\ UNCHANGED <<component, vars, logVars, gapVars, pubVars>>
  \/ component = "gaps" /\ Gaps!Next
     /\ UNCHANGED <<component, vars, logVars, calVars, pubVars>>
  \/ component = "publication" /\ Pub!Next
     /\ UNCHANGED <<component, vars, logVars, calVars, gapVars>>

partsVars == <<component, vars, logVars, calVars, gapVars, pubVars>>

PartsSpec == PartsInit /\ [][PartsNext]_partsVars

\* two notification daemons on one session
StopNext ==
  /\ component = "files" /\ NotificationNext
  /\ UNCHANGED <<component, logVars, calVars, gapVars, pubVars>>

StopSpec == PartsInit /\ [][StopNext]_partsVars

Processes == {p1, p2, p3}
Symmetry == Permutations(Processes)

(* Every gap that is sampled is a time in which the turn ran and no tool    *)
(* did (scan_history).                                                      *)
GapsAreQuietTime == Gaps!GapsAreQuietTime

(* A publication that fails while nobody else writes leaves config.toml as  *)
(* its snapshot has it, from every step but those where the original is     *)
(* displaced, a new file has a name and was not looked at yet, or the       *)
(* restoration fails itself (write_config_bytes).                           *)
RolledBackUnlessDisplaced ==
  component = "publication" => Pub!RolledBackUnlessDisplaced

(* The log and its backups hold the last records written, in order, each    *)
(* event once, however appends and rotations interleave (append).           *)
LogIsTheEnd == component = "log" => Log!LogIsTheEnd

(* Thresholds change by one answer to the scan of one version               *)
(* (record_decision).                                                       *)
AnsweredOnce == Calibration!AnsweredOnce

(* The recommendation is computed from quiet time and can be applied        *)
(* (scan_history, recommend_thresholds).                                    *)
RecommendationIsSound == component = "gaps" => Gaps!RecommendationIsSound

(* No setting is lost by a publication: none while nobody else writes,      *)
(* none that one other writer adds on POSIX (write_config_bytes).           *)
SettingsSurvive == Pub!SettingsSurvive
===============================================================================
