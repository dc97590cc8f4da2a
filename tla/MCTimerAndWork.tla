--------------------------- MODULE MCTimerAndWork ---------------------------
(***************************************************************************)
(* The daemon's timer, the scheduled work of its service, the reading of a *)
(* rollout, the notification page and the lease of the standalone watcher, *)
(* one component moving in a behaviour: what each of them must end, under  *)
(* the fairness of its thread.                                             *)
(***************************************************************************)
EXTENDS DeadlineScheduler

CONSTANTS
  a, b, g1, h1, Nothing, Unreadable,
  NoCursor, MaxLine, MaxBatch, MaxRecords, Lengths, MaxPieces,  \* of the reader
  Session, Process, HandOff, TickLimit                          \* of the lease

ASSUME ReaderAssumption ==
  /\ NoCursor \notin Nat /\ Lengths \subseteq Nat \ {0}
  /\ MaxLine \in Nat /\ MaxBatch \in Nat /\ MaxRecords \in Nat \ {0}

VARIABLES
  component,  \* the component that moves, the same in a whole behaviour
  workNow, workFile, workHeld, workFence, workTasks, workArmed, workWorker,
  workCaller, workReserved, workOverlapped, workRequests, workReports,
  readerFile, readerUnwritten, readerReplaced, readerCursor, readerStart,
  readerBatch, readerSeen, readerFailed, pageNow, pageCurrent, pagePhase,
  pageStop, pageDeadline, pageSubmitted, pageConfigured, pageAccepted,
  pageClaim, pageOffered, pageLock, pageDelivery, pageUsed,
  mgrFile, mgrUnread, mgrPc, mgrSnap, mgrTurn, mgrStatus, mgrOwner, mgrSeen,
  mgrActive, mgrChild, mgrAsked, mgrLock, mgrMarker, mgrEnabling,
  mgrLaunched, mgrDisabling, mgrFaults, leaseActive, leaseLaunching,
  leaseWaiting, leaseHolder, leasePhase, leaseTodo, leaseAt, leaseFound,
  leaseSpent, leaseQuarantined, leaseExcused

MCDeadlines == {0, 1, 2}

Work == INSTANCE ServiceWork WITH
  now <- workNow, file <- workFile, held <- workHeld, fence <- workFence,
  tasks <- workTasks, armed <- workArmed, worker <- workWorker,
  caller <- workCaller, reserved <- workReserved,
  overlapped <- workOverlapped, requests <- workRequests,
  reports <- workReports, Sessions <- {"s1"}, Callers <- {a, b}, Warning <- 1,
  Restart <- 2, Interval <- 1, Reported <- {"started", "status"},
  MaxTasks <- 2, MaxRequests <- 2, MaxReports <- 1, MaxNow <- 1

Reader == INSTANCE RolloutReader WITH
  file <- readerFile, unwritten <- readerUnwritten,
  replaced <- readerReplaced, cursor <- readerCursor, start <- readerStart,
  batch <- readerBatch, seen <- readerSeen, failed <- readerFailed

Page == INSTANCE Notifications WITH
  now <- pageNow, current <- pageCurrent, phase <- pagePhase,
  stop <- pageStop, deadline <- pageDeadline, submitted <- pageSubmitted,
  configured <- pageConfigured, accepted <- pageAccepted, claim <- pageClaim,
  offered <- pageOffered, lock <- pageLock, delivery <- pageDelivery,
  used <- pageUsed, Page <- {g1}, Webhook <- {h1}, Session <- {a},
  Watcher <- {b}, Inherited <- Nothing, Lifetime <- 1, MaxNow <- 1

Manager == INSTANCE ManagerSession WITH
  file <- mgrFile, unread <- mgrUnread, pc <- mgrPc, snap <- mgrSnap, turn <-
  mgrTurn, status <- mgrStatus, owner <- mgrOwner, seen <- mgrSeen, active <-
  mgrActive, child <- mgrChild, asked <- mgrAsked, lock <- mgrLock, marker <-
  mgrMarker, enabling <- mgrEnabling, launched <- mgrLaunched, disabling <-
  mgrDisabling, faults <- mgrFaults,
  NoFile <- Nothing, Process <- {1}, MaxTurn <- 1, MaxEpoch <- 0, MaxFaults <- 1

Lease == INSTANCE WatcherLease WITH
  active <- leaseActive, launching <- leaseLaunching, waiting <- leaseWaiting,
  holder <- leaseHolder, phase <- leasePhase, todo <- leaseTodo, at <- leaseAt,
  found <- leaseFound, spent <- leaseSpent, quarantined <- leaseQuarantined,
  excused <- leaseExcused, None <- Nothing

workVars ==
  <<workNow, workFile, workHeld, workFence, workTasks, workArmed, workWorker,
    workCaller, workReserved, workOverlapped, workRequests, workReports>>
readerVars ==
  <<readerFile, readerUnwritten, readerReplaced, readerCursor, readerStart,
    readerBatch, readerSeen, readerFailed>>
pageVars ==
  <<pageNow, pageCurrent, pagePhase, pageStop, pageDeadline, pageSubmitted,
    pageConfigured, pageAccepted, pageClaim, pageOffered, pageLock,
    pageDelivery, pageUsed>>
managerVars ==
  <<mgrFile, mgrUnread, mgrPc, mgrSnap, mgrTurn, mgrStatus, mgrOwner,
    mgrSeen, mgrActive, mgrChild, mgrAsked, mgrLock, mgrMarker, mgrEnabling,
    mgrLaunched, mgrDisabling, mgrFaults>>
leaseVars ==
  <<leaseActive, leaseLaunching, leaseWaiting, leaseHolder, leasePhase,
    leaseTodo, leaseAt, leaseFound, leaseSpent, leaseQuarantined, leaseExcused>>

PartsInit ==
  /\ component \in {"timer", "work", "reader", "page", "manager", "lease"}
  /\ Init
  /\ Work!Init
  /\ Reader!Init
  /\ Page!Init
  /\ Manager!Init
  /\ Lease!Init

PartsNext ==
  \/ component = "timer" /\ Next
     /\ UNCHANGED <<component, workVars, readerVars, pageVars, managerVars, leaseVars>>
  \/ component = "work" /\ Work!Next
     /\ UNCHANGED <<component, vars, readerVars, pageVars, managerVars, leaseVars>>
  \/ component = "reader" /\ Reader!Next
     /\ UNCHANGED <<component, vars, workVars, pageVars, managerVars, leaseVars>>
  \/ component = "page" /\ Page!Next
     /\ UNCHANGED <<component, vars, workVars, readerVars, managerVars, leaseVars>>
  \/ component = "manager" /\ Manager!Next
     /\ UNCHANGED <<component, vars, workVars, readerVars, pageVars, leaseVars>>
  \/ component = "lease" /\ Lease!Next
     /\ UNCHANGED <<component, vars, workVars, readerVars, pageVars, managerVars>>

partsVars ==
  <<component, vars, workVars, readerVars, pageVars, managerVars, leaseVars>>

\* the fairness of each component, asked of the one that moves
PartsFairness ==
  /\ WF_vars(component = "timer" /\ WorkerStep)
  /\ WF_vars(component = "timer" /\ Tick)
  /\ WF_vars(component = "timer" /\ (\E c \in Closers : CloseReturns(c)))
  /\ WF_workVars(component = "work" /\ Work!Work)
  /\ WF_workVars(component = "work" /\ Work!WakeManagers(a))
  /\ WF_workVars(component = "work" /\ Work!WakeManagers(b))
  /\ WF_readerVars(component = "reader" /\ (Reader!Read \/ Reader!ReadFails))
  /\ SF_readerVars(component = "reader" /\ Reader!Commit)
  /\ WF_pageVars(component = "page" /\ Page!Serve(g1))
  /\ WF_managerVars(component = "manager" /\ Manager!Manager(1))

PartsSpec == PartsInit /\ [][PartsNext]_partsVars /\ PartsFairness

(* A stop is carried out: the daemon detaches the task whose file is gone,  *)
(* whatever deadlines it has left (stop, complete, drive_managers), and a   *)
(* manager that was asked to stop for good ends the session or itself,      *)
(* whatever becomes of its child and its turn (handle_shutdown).            *)
StopsEnd ==
  /\ component = "work" => Work!StopDetaches
  /\ component = "manager" => Manager!StopEnds

(* Every complete line is taken in the end, or the session has failed       *)
(* (read_batch, commit).                                                    *)
EveryLineIsTaken == component = "reader" => Reader!EveryLineIsTaken

(* A setup page nobody uses ends at its deadline (_serve).                  *)
ExpiredPageEnds == component = "page" => Page!ExpiredPageEnds

(* The records a watcher takes are the complete lines of the rollout, in    *)
(* order, none twice, and a session is given up for a cause only            *)
(* (read_batch, commit).                                                    *)
LinesAreTaken == component = "reader" => Reader!LinesAreTaken

(* A launched watcher that finds the lease taken is not missed: what it was *)
(* launched for is watched (acquire_watcher_lease, commit_runtime_snapshot).*)
LaunchIsWatched == component = "lease" => Lease!LaunchIsWatched
===============================================================================
