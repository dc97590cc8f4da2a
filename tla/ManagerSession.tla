---------------------------- MODULE ManagerSession ----------------------------
(***************************************************************************)
(* One managed session and everyone who acts on it: the manager processes  *)
(* (scripts/manager.py) under their lease (manager_lease.py), the command  *)
(* that enables the session and launches one (setup_cli.py,                *)
(* manager_launch.py, manager_reuse.py), the command that stops it         *)
(* (setup.py, session_shutdown.py), the hooks, the passive watcher, and    *)
(* the app-server with its turns.                                          *)
(***************************************************************************)
EXTENDS ManagerEngine

CONSTANT MaxFaults      \* bound on crashes, children that die, failed cleanups

ASSUME SessionAssumption == MaxFaults \in Nat

VARIABLES
    lock,       \* the process that holds the lease's operating-system lock
    marker,     \* the pid in the lease file
    enabling,   \* where the enabling command is
    launched,   \* the process it waits for
    disabling,  \* whether the stopping command is about to remove the files
    faults      \* faults so far

leaseVars == <<lock, marker>>
userVars == <<enabling, launched, disabling>>
vars == <<engineVars, turnVars, leaseVars, userVars, faults>>

Fault == faults < MaxFaults /\ faults' = faults + 1

ProcessStates ==
    TickStates \cup {"off", "born", "idle", "idle_locked", "loaded", "locked", "init",
                     "spawned", "close", "close_bad", "unmark", "unmark_bad", "unlock",
                     "unlock_bad", "late", "late_locked", "exit", "dead"}

TypeOK ==
    /\ TurnTypeOK
    /\ file \in RuntimeFile \cup {NoFile}
    /\ unread \in BOOLEAN
    /\ pc \in [Process -> ProcessStates]
    /\ snap \in [Process -> LoadedRuntime]
    /\ turn \in [Process -> Turn \cup {None}]
    /\ lock \in Process \cup {None} /\ marker \in Process \cup {None}
    /\ enabling \in {"idle", "save", "spawn", "wait", "cancel", "rollback"}
    /\ launched \in Process \cup {None}
    /\ disabling \in BOOLEAN
    /\ faults \in 0..MaxFaults

Init ==
    /\ TurnInit
    /\ file = NoFile /\ unread = FALSE
    /\ pc = [p \in Process |-> "off"]
    /\ snap = [p \in Process |-> NothingLoaded]
    /\ turn = [p \in Process |-> None]
    /\ lock = None /\ marker = None
    /\ enabling = "idle" /\ launched = None
    /\ disabling = FALSE
    /\ faults = 0

(***************************************************************************)
(* run_manager                                                             *)
(***************************************************************************)
(* It loads the runtime file before it has the lease, and builds a client  *)
(* and an engine only if there was one.                                    *)
Begin(p) ==
    /\ pc[p] = "born"
    /\ Goto(p, IF file = NoFile THEN "idle" ELSE "loaded")
    /\ UNCHANGED <<file, unread, snap, turn, turnVars, leaseVars, userVars, faults>>

\* Fault: the marker is trusted, and nobody holds the lock itself.
AcquireFaultUnlocked(p) ==
    /\ \/ /\ pc[p] \in {"idle", "loaded"}
          /\ IF marker # None THEN UNCHANGED lock /\ Goto(p, "dead")
             ELSE lock' = p /\ Goto(p, IF pc[p] = "idle" THEN "idle_locked" ELSE "locked")
          /\ UNCHANGED marker
       \/ /\ pc[p] \in {"idle_locked", "locked"}
          /\ marker' = p /\ UNCHANGED lock
          /\ Goto(p, IF pc[p] = "idle_locked" THEN "stopping" ELSE "init")
    /\ UNCHANGED <<file, unread, snap, turn, turnVars, userVars, faults>>

\* acquire_manager_lease: the lock, then the marker.
Acquire(p) ==
    /\ \/ /\ pc[p] \in {"idle", "loaded"}
          /\ IF lock # None THEN UNCHANGED lock /\ Goto(p, "dead")
             ELSE lock' = p /\ Goto(p, IF pc[p] = "idle" THEN "idle_locked" ELSE "locked")
          /\ UNCHANGED marker
       \/ /\ pc[p] \in {"idle_locked", "locked"}
          /\ marker' = p /\ UNCHANGED lock
          /\ Goto(p, IF pc[p] = "idle_locked" THEN "stopping" ELSE "init")
    /\ UNCHANGED <<file, unread, snap, turn, turnVars, userVars, faults>>

\* ManagerEngine.initialize
Initialize(p) ==
    /\ \/ /\ pc[p] = "init" /\ file # NoFile
          /\ UNCHANGED file
          /\ \/ Spawn(p) /\ Goto(p, "spawned")
             \/ UNCHANGED turnVars /\ Goto(p, "failing")
       \/ /\ pc[p] = "init" /\ file = NoFile
          /\ Goto(p, "rest")
          /\ UNCHANGED <<file, turnVars>>
       \/ /\ pc[p] = "spawned"
          /\ Update(Ready(file, p))
          /\ Goto(p, "rest")
          /\ UNCHANGED turnVars
    /\ UNCHANGED <<unread, snap, turn, leaseVars, userVars, faults>>

(* _fail, or _record_failure_if_present: before the cleanup, or after it    *)
(* for an error it has captured.  The record may fail as well.             *)
RecordFailure(p) ==
    /\ \/ pc[p] = "failing" /\ Goto(p, "stopping")
       \/ pc[p] = "late" /\ Goto(p, "dead")
       \/ pc[p] = "late_locked" /\ Goto(p, "exit")
    /\ \/ Update(Failed(file)) /\ UNCHANGED faults
       \/ UNCHANGED file /\ Fault
    /\ UNCHANGED <<unread, snap, turn, turnVars, leaseVars, userVars>>

(* _cleanup: what fails is captured, and the rest goes on ("_bad").        *)
MarkStopped(p) ==
    /\ pc[p] = "stopping"
    /\ \/ Update(Stopped(file)) /\ Goto(p, "close") /\ UNCHANGED faults
       \/ UNCHANGED file /\ Goto(p, "close_bad") /\ Fault
    /\ UNCHANGED <<unread, snap, turn, turnVars, leaseVars, userVars>>

CloseClient(p) ==
    /\ \/ pc[p] = "close" /\ Goto(p, "unmark")
       \/ pc[p] = "close_bad" /\ Goto(p, "unmark_bad")
    /\ Close(p)
    /\ UNCHANGED <<file, unread, snap, turn, leaseVars, userVars, faults>>

(* release_manager_lease: the marker, then the lock, which stays until the *)
(* process exits when the marker cannot be removed.                        *)
RemoveMarker(p) ==
    /\ \/ /\ marker' = None /\ UNCHANGED faults
          /\ \/ pc[p] = "unmark" /\ Goto(p, "unlock")
             \/ pc[p] = "unmark_bad" /\ Goto(p, "unlock_bad")
       \/ /\ pc[p] \in {"unmark", "unmark_bad"} /\ Goto(p, "late_locked")
          /\ UNCHANGED marker /\ Fault
    /\ UNCHANGED <<file, unread, snap, turn, turnVars, lock, userVars>>

Release(p) ==
    /\ \/ pc[p] \in {"unlock", "exit"} /\ Goto(p, "dead") /\ UNCHANGED faults
       \/ pc[p] = "unlock_bad" /\ Goto(p, "late") /\ UNCHANGED faults
       \/ pc[p] = "unlock" /\ Goto(p, "late") /\ Fault
    /\ lock' = None
    /\ UNCHANGED <<file, unread, snap, turn, turnVars, marker, userVars>>

(* The operating system releases the lock; the marker stays.               *)
Crash(p) ==
    /\ pc[p] \notin {"off", "dead"} /\ Fault
    /\ Goto(p, "dead")
    /\ Close(p)
    /\ Keep(p)
    /\ lock' = IF lock = p THEN None ELSE lock
    /\ UNCHANGED <<file, unread, marker, userVars>>

\* The app-server child ends by itself.
ChildDies(p) ==
    /\ child[p] /\ Fault
    /\ ChildEnds(p)
    /\ UNCHANGED <<engineVars, leaseVars, userVars>>

Manager(p) ==
    \/ Begin(p) \/ Acquire(p) \/ Initialize(p) \/ RecordFailure(p)
    \/ MarkStopped(p) \/ CloseClient(p) \/ RemoveMarker(p) \/ Release(p)
    \/ Tick(p) /\ UNCHANGED <<leaseVars, userVars, faults>>

(***************************************************************************)
(* The enabling command.                                                   *)
(***************************************************************************)
(* manager_lease_owner: nobody when the lock is free, else the marker.     *)
LeaseOwner == IF lock = None THEN None ELSE marker

\* active_manager
ActiveManager ==
    /\ file # NoFile /\ file.ready /\ ~file.shutdown /\ ~file.failed
    /\ file.pid # None /\ LeaseOwner = file.pid

Enabling(from, to) == enabling = from /\ enabling' = to

(* reuse_ready_manager answers at once; enable_session refuses a session   *)
(* that has a runtime file or a manager still running, or saves both.  It  *)
(* holds the lock of the operation, which no manager takes to acquire the  *)
(* lease: one that loaded an earlier file may acquire it in between.       *)
Enable ==
    /\ ~ActiveManager
    /\ \E p \in Process : pc[p] = "off"
    /\ file = NoFile /\ lock = None
    /\ Enabling("idle", "save")
    /\ UNCHANGED <<engineVars, turnVars, leaseVars, launched, disabling, faults>>

SaveSession ==
    /\ Enabling("save", "spawn")
    /\ file' = NewFile
    /\ UNCHANGED <<unread, pc, snap, turn, turnVars, leaseVars, launched, disabling, faults>>

\* Neither is left behind when the configuration cannot be saved, nor when
\* the manager cannot be spawned.
Launch ==
    /\ \/ Enabling("spawn", "rollback") /\ UNCHANGED <<pc, launched>>
       \/ \E p \in Process :
            /\ Enabling("spawn", "wait")
            /\ pc[p] = "off" /\ \A q \in Process : q < p => pc[q] # "off"
            /\ Goto(p, "born")
            /\ launched' = p
    /\ UNCHANGED <<file, unread, snap, turn, turnVars, leaseVars, disabling, faults>>

(* One poll of _wait_until_ready, or its timeout.                          *)
ReadyInTime == file.ready /\ pc[launched] # "dead"
               /\ file.pid = launched /\ LeaseOwner = launched

AwaitReady ==
    /\ \/ Enabling("wait", "rollback")
          /\ \/ file = NoFile
             \/ file # NoFile /\ (file.failed \/ pc[launched] = "dead")
             \/ file # NoFile /\ file.ready /\ ~ReadyInTime
       \/ Enabling("wait", "idle") /\ file # NoFile /\ ~file.failed /\ ReadyInTime
       \/ Enabling("wait", "cancel")
          /\ file # NoFile /\ ~file.failed /\ ~file.ready /\ pc[launched] # "dead"
    /\ UNCHANGED <<engineVars, turnVars, leaseVars, launched, disabling, faults>>

CancelStartup ==
    /\ Enabling("cancel", "rollback")
    /\ Update(StartupCancelled(file))
    /\ UNCHANGED <<unread, pc, snap, turn, turnVars, leaseVars, launched, disabling, faults>>

Rollback ==
    /\ Enabling("rollback", "idle")
    /\ file' = NoFile
    /\ UNCHANGED <<unread, pc, snap, turn, turnVars, leaseVars, launched, disabling, faults>>

EnableCommand ==
    \/ Enable \/ SaveSession \/ Launch \/ AwaitReady \/ CancelStartup \/ Rollback

(***************************************************************************)
(* The stopping command, for good (interrupt) or on completion.            *)
(***************************************************************************)
RequestStop(interrupt) ==
    /\ ~disabling /\ file # NoFile
    /\ IF MayDefer(file)
       THEN file' = Deferred(file, interrupt) /\ UNCHANGED disabling
       ELSE disabling' = TRUE /\ UNCHANGED file
    /\ UNCHANGED <<unread, pc, snap, turn, turnVars, leaseVars, enabling, launched, faults>>

RemoveSession ==
    /\ enabling # "save"                 \* the lock of the operation
    /\ disabling /\ disabling' = FALSE
    /\ file' = NoFile
    /\ UNCHANGED <<unread, pc, snap, turn, turnVars, leaseVars, enabling, launched, faults>>

StopCommand == (\E interrupt \in BOOLEAN : RequestStop(interrupt)) \/ RemoveSession

(***************************************************************************)
(* Hooks, the watcher, time, and whoever asks for a restart (external: no  *)
(* module writes a request any more; what the managers accept is modelled).*)
(***************************************************************************)
Rewrite(new) ==
    /\ file # NoFile
    /\ file' = new
    /\ UNCHANGED <<unread, pc, snap, turn, turnVars, leaseVars, userVars, faults>>

Hook ==
    \/ file # NoFile /\ file.epoch < MaxEpoch /\ Rewrite(PromptSubmitted(file))
    \/ file # NoFile /\ file.epoch < MaxEpoch /\ Rewrite(ToolUsed(file))
    \/ file # NoFile /\ (file.epoch < MaxEpoch \/ file.terminal) /\ Rewrite(StopReported(file))

\* Growth while no request is out changes nothing a manager reads.
RolloutGrows ==
    /\ file # NoFile /\ file.request # NoRequest /\ ~unread
    /\ unread' = TRUE
    /\ UNCHANGED <<file, pc, snap, turn, turnVars, leaseVars, userVars, faults>>

\* A batch with activity, committed: the epoch, then the cursor.
WatcherReads ==
    /\ unread /\ file # NoFile /\ file.epoch < MaxEpoch
    /\ unread' = FALSE
    /\ file' = [file EXCEPT !.epoch = @ + 1]
    /\ UNCHANGED <<pc, snap, turn, turnVars, leaseVars, userVars, faults>>

AskRestart ==
    /\ file # NoFile /\ file.managed # None /\ file.request = NoRequest /\ ~unread
    /\ ~file.shutdown /\ OwnershipMatches(file, [turn |-> file.managed, epoch |-> file.epoch])
    /\ Rewrite([file EXCEPT !.request = [turn |-> file.managed, epoch |-> file.epoch]])

TimePasses ==
    /\ file # NoFile
    /\ \/ file.waited = "recent" /\ Rewrite([file EXCEPT !.waited = "late"])
       \/ file.claimed = "recent" /\ Rewrite([file EXCEPT !.claimed = "late"])

AppServer(t) ==
    /\ Ends(t) \/ Observes(t)
    /\ UNCHANGED <<engineVars, leaseVars, userVars, faults>>

Next ==
    \/ \E p \in Process : Manager(p) \/ Crash(p) \/ ChildDies(p)
    \/ EnableCommand \/ StopCommand
    \/ Hook \/ RolloutGrows \/ WatcherReads \/ AskRestart \/ TimePasses
    \/ \E t \in Turn : AppServer(t)

(* A process that lives runs; nothing is assumed of turns, users or hooks. *)
Spec == Init /\ [][Next]_vars /\ \A p \in Process : WF_vars(Manager(p))

-----------------------------------------------------------------------------
Resting(p) == pc[p] \in {"rest", "act"}

(* A manager that is between two steps of control leaves no turn of its    *)
(* own running that neither the file owns nor an interrupt has reached,    *)
(* unless the session is gone: not after a lost race for the handoff       *)
(* (_persist_accepted_turn), a late start (_reconcile_pending_turn), or a  *)
(* session enabled anew.                                                   *)
LiveTurnsAreRecorded ==
    \A p \in Process, t \in Turn :
        (Resting(p) /\ file # NoFile /\ owner[t] = p /\ Live(t))
            => t \in {file.pending, file.managed} \/ asked[t] > 0

(* Managers that are not dead never run two turns of the session.          *)
OneLiveTurn ==
    \A t, u \in Turn :
        (Live(t) /\ Live(u) /\ asked[t] = 0 /\ asked[u] = 0) => t = u

(* No turn is asked to stop twice, whichever of expiry, lost ownership,    *)
(* restart and shutdown asks (manager_interrupt.py, manager_shutdown.py).  *)
OneInterruptPerTurn == \A t \in Turn : asked[t] <= 1

(* What the file says of readiness is said of the process that holds the   *)
(* lease, or of one that has released it: dead, or about to record that it *)
(* could not take its readiness back (_cleanup, run_manager).              *)
ReadyMeansLeased ==
    (file # NoFile /\ file.ready)
        => (lock = file.pid \/ pc[file.pid] \in {"late", "dead"})

(* Once a stop is on record no turn is started for it: handle_shutdown and *)
(* defer_session_shutdown against _start_turn, whose snapshot is older.    *)
(* Excepted is the cancelled startup of a manager that is not ready, and   *)
(* only for a start by another one, which took the lease between the two   *)
(* steps of enable_session, or on a file some earlier manager has marked   *)
(* failed on its way out.                                                  *)
NoStartAfterStop ==
    [][\A t \in Turn :
        (status[t] = "none" /\ status'[t] = "running" /\ file # NoFile /\ file.shutdown)
            => /\ ~file.ready /\ ~file.interrupt
               /\ file.failed \/ owner'[t] # launched]_vars

(* A restart is counted for a turn that this manager asked to stop and     *)
(* that was interrupted, never for one that ended otherwise.               *)
RestartCountsAnInterrupt ==
    [][(file # NoFile /\ file' # NoFile /\ file'.restarts > file.restarts)
        => asked[file.managed] = 1 /\ status[file.managed] = "interrupted"]_vars

(* A stop for good ends the session, or its manager, whatever becomes of   *)
(* the app-server and however the turn answers.                            *)
StopEnds ==
    (file # NoFile /\ file.shutdown /\ file.interrupt /\ lock # None)
        ~> (file = NoFile \/ file.failed \/ ~file.interrupt \/ lock = None)

(* The managers' turns are one at a time and accounted for: each is named  *)
(* by the file, or was asked to stop (start_turn, _persist_accepted_turn). *)
TurnsAreOwned == TypeOK /\ ReadyMeansLeased /\ OneLiveTurn /\ LiveTurnsAreRecorded

(* What was decided is kept to: no start after a stop, but for the          *)
(* cancelled startups NoStartAfterStop excepts, and a restart counted only  *)
(* for the interruption it asked for (_decide, finish_restart).             *)
ControlIsHonoured == NoStartAfterStop /\ RestartCountsAnInterrupt

-----------------------------------------------------------------------------
\* For TLC, with processes 1 and 2: no more than one of a second process, a
\* fault, an activity of the user.
Bounded ==
    LET alone == \A p \in Process \ {1} : pc[p] = "off"
        calm == file = NoFile \/ file.epoch = 0
    IN (alone /\ (faults = 0 \/ calm)) \/ (faults = 0 /\ calm)
=============================================================================
