------------------------------ MODULE SessionTask ------------------------------
(***************************************************************************)
(* One managed session through the daemons that own it in turn: started    *)
(* and rolled back, fenced on the user's turn, handed off, and recovered   *)
(* after a crash (scripts/daemon_registry.py, daemon_activation_fence.py,  *)
(* daemon_recovery.py, daemon_task.py, manager_lease.py, the activation    *)
(* polls of daemon_service.py and fail_tasks of daemon_lifecycle.py).      *)
(* Every daemon is a process of its own; they share the runtime file, the  *)
(* lease and the rollout.  A locked update of the file is one step, and so *)
(* is each request to the app-server.  What an engine does between the     *)
(* start and the end of a turn is ManagerEngine's.                         *)
(***************************************************************************)
EXTENDS ActivationFence

CONSTANTS
    Daemon,     \* daemon processes, by pid, started in that order
    MaxStarts,  \* start requests
    MaxFaults   \* crashes and requests that fail

ASSUME TaskAssumption ==
    /\ Daemon \subseteq Nat \ {0}
    /\ MaxStarts \in Nat /\ MaxFaults \in Nat

VARIABLES
    rollout,    \* the main thread's turn events
    user,       \* the turns the user started
    file,       \* the runtime file
    lease,      \* the daemon that holds the manager lease
    pc,         \* per daemon, where it is
    owns,       \* per daemon, whether the session's task is in its registry
    fence,      \* per daemon, the pending activation
    job,        \* per daemon, what its start or recovery has captured
    heard,      \* turns whose start a daemon has taken in
    inherited,  \* history: a start took over a file it found
    shared,     \* history: two daemons have run at once
    starts, faults

vars == <<rollout, user, file, lease, pc, owns, fence, job, heard, inherited, shared, starts, faults>>

NoFile == [revision |-> -1]

\* handoff_requested, parent_turn_id, managed_turn_id, pending_turn_id,
\* manager_pid, manager_error and shutdown_requested.
RuntimeFile ==
    [revision : Nat, handoff : BOOLEAN, parent : Turn \cup {None},
     managed : Turn \cup {None}, pending : Turn \cup {None},
     pid : Daemon \cup {None}, failed : BOOLEAN, shutdown : BOOLEAN]

NewFile ==
    [revision |-> 0, handoff |-> FALSE, parent |-> None, managed |-> None,
     pending |-> None, pid |-> None, failed |-> FALSE, shutdown |-> FALSE]

\* How a transaction began, the fence a start captured, and the document it
\* restores when it fails, or the one a recovery has discovered.
Idle == [kind |-> "none", fence |-> NoFence, file |-> NoFile]

Job == [kind : {"none", "create", "reuse", "recover"}, fence : Fence \cup {NoFence},
        file : RuntimeFile \cup {NoFile}]

Place ==
    {"down", "gone", "idle",
     "checked", "init", "bind", "resume", "publish", "undo", "undone",
     "found", "claimed", "settle", "load", "restore", "record", "release",
     "complete", "fail", "remove", "started"}

Init ==
    /\ rollout = <<>> /\ user = {} /\ heard = {} /\ inherited = FALSE /\ shared = FALSE
    /\ file = NoFile /\ lease = None
    /\ pc = [d \in Daemon |-> "down"]
    /\ owns = [d \in Daemon |-> FALSE]
    /\ fence = [d \in Daemon |-> NoFence]
    /\ job = [d \in Daemon |-> Idle]
    /\ starts = 0 /\ faults = 0

Goto(d, place) == pc' = [pc EXCEPT ![d] = place]
SetJob(d, new) == job' = [job EXCEPT ![d] = new]
SetFence(d, new) == fence' = [fence EXCEPT ![d] = new]

Fails == faults < MaxFaults /\ faults' = faults + 1

Alive == {d \in Daemon : pc[d] \notin {"down", "gone"}}

(* A locked update does nothing to a file that is gone.                    *)
Bumped(f) == [f EXCEPT !.revision = @ + 1]

Update(new) == file' = IF file = NoFile THEN file ELSE Bumped(new)

\* Fault: whatever lease there is.
ReleasedFaultAny(d) == None

Released(d) == IF lease = d THEN None ELSE lease

\* DaemonTask._mark_stopped_if_owned
Stopped(d) == IF file # NoFile /\ file.pid = d THEN Bumped([file EXCEPT !.pid = None]) ELSE file

-----------------------------------------------------------------------------
(* DaemonRegistry.start of a session the daemon does not own yet.          *)

\* The file is looked for, and the fence captured, before anything changes.
StartChecked(d, t) ==
    /\ pc[d] = "idle" /\ ~owns[d] /\ starts < MaxStarts
    /\ MayCapture(rollout, t)
    /\ starts' = starts + 1
    /\ SetJob(d, [kind |-> IF file = NoFile THEN "create" ELSE "reuse",
                  fence |-> Read(rollout, t), file |-> NoFile])
    /\ Goto(d, "checked")
    /\ UNCHANGED <<rollout, user, file, lease, owns, fence, heard, inherited, shared, faults>>

Refused(d) ==
    /\ Goto(d, "undone")
    /\ UNCHANGED <<file, job, inherited>>

\* enable_session, or require_recoverable_activation and the document kept.
Enabled(d) ==
    /\ pc[d] = "checked"
    /\ IF job[d].kind = "create"
       THEN IF file # NoFile \/ lease # None
            THEN Refused(d)
            ELSE /\ file' = NewFile /\ inherited' = FALSE
                 /\ Goto(d, "init") /\ UNCHANGED job
       ELSE IF file = NoFile \/ lease # None \/ file.failed
            THEN Refused(d)
            ELSE /\ SetJob(d, [job[d] EXCEPT !.file = file])
                 /\ inherited' = TRUE
                 /\ Goto(d, "init")
                 /\ UNCHANGED file
    /\ UNCHANGED <<rollout, user, lease, owns, fence, heard, shared, starts, faults>>

(* DaemonTask.initialize: a start takes the lease, a recovery has it; the  *)
(* client is started and the manager marked ready.                         *)
Initialized(d) ==
    /\ pc[d] = "init" /\ lease \in {None, d}
    /\ lease' = d
    /\ Update([file EXCEPT !.pid = d, !.failed = FALSE])
    /\ Goto(d, IF job[d].kind = "recover" THEN "resume" ELSE "bind")
    /\ UNCHANGED <<rollout, user, owns, fence, job, heard, inherited, shared, starts, faults>>

Rollback(d) == Goto(d, IF job[d].kind = "recover" THEN "restore" ELSE "undo")

LeaseTaken(d) ==
    /\ pc[d] = "init" /\ lease \notin {None, d}
    /\ Rollback(d)
    /\ UNCHANGED <<rollout, user, file, lease, owns, fence, job, heard, inherited, shared, starts, faults>>

\* DaemonActivationFences.bind
Bound(d) ==
    /\ pc[d] = "bind"
    /\ Update([file EXCEPT !.parent = job[d].fence.turn])
    /\ SetFence(d, job[d].fence)
    /\ Goto(d, "resume")
    /\ UNCHANGED <<rollout, user, lease, owns, job, heard, inherited, shared, starts, faults>>

\* thread/resume
Resumed(d) ==
    /\ pc[d] = "resume"
    /\ Goto(d, "publish")
    /\ UNCHANGED <<rollout, user, file, lease, owns, fence, job, heard, inherited, shared, starts, faults>>

Published(d) ==
    /\ pc[d] = "publish"
    /\ owns' = [owns EXCEPT ![d] = TRUE]
    /\ SetJob(d, Idle)
    /\ Goto(d, "idle")
    /\ UNCHANGED <<rollout, user, file, lease, fence, heard, inherited, shared, starts, faults>>

\* The client cannot be started, or a request to it fails.
Raised(d) ==
    /\ pc[d] \in {"init", "resume"} /\ Fails
    /\ Rollback(d)
    /\ UNCHANGED <<rollout, user, file, lease, owns, fence, job, heard, inherited, shared, starts>>

(* _rollback_attempt: the fence, the task with its lease, and last the     *)
(* state, which a start that meant to create it removes and another puts   *)
(* back as it was.                                                         *)
TaskClosed(d) ==
    /\ pc[d] \in {"undo", "release"}
    /\ SetFence(d, NoFence)
    /\ file' = Stopped(d)
    /\ lease' = Released(d)
    /\ IF pc[d] = "undo" THEN Goto(d, "undone") /\ UNCHANGED job
       ELSE Goto(d, "idle") /\ SetJob(d, Idle)
    /\ UNCHANGED <<rollout, user, owns, heard, inherited, shared, starts, faults>>

RolledBack(d) ==
    /\ pc[d] = "undone"
    /\ file' = IF job[d].kind = "create" \/ job[d].file # NoFile THEN job[d].file ELSE file
    /\ SetJob(d, Idle)
    /\ Goto(d, "idle")
    /\ UNCHANGED <<rollout, user, lease, owns, fence, heard, inherited, shared, starts, faults>>

-----------------------------------------------------------------------------
(* DaemonRegistry.recover, once in the life of a daemon.                   *)

\* discover_persisted_tasks
Discovered(d) ==
    /\ pc[d] = "down"
    /\ \A c \in Daemon : c < d => pc[c] # "down"
    /\ shared' = (shared \/ Alive # {})
    /\ IF file = NoFile \/ file.failed
       THEN Goto(d, "idle") /\ UNCHANGED job
       ELSE Goto(d, "found") /\ SetJob(d, [Idle EXCEPT !.kind = "recover", !.file = file])
    /\ UNCHANGED <<rollout, user, file, lease, owns, fence, heard, inherited, starts, faults>>

(* acquire_recovery_manager_lease: the lease, and then the file, unchanged *)
(* since it was discovered.                                                *)
Claimed(d) ==
    /\ pc[d] = "found"
    /\ IF lease = None /\ file # NoFile /\ file.revision = job[d].file.revision
       THEN file' = Bumped(file) /\ lease' = d /\ Goto(d, "claimed") /\ UNCHANGED job
       ELSE Goto(d, "idle") /\ SetJob(d, Idle) /\ UNCHANGED <<file, lease>>
    /\ UNCHANGED <<rollout, user, owns, fence, heard, inherited, shared, starts, faults>>

WasPending(saved) == ~saved.handoff /\ saved.managed = None

Dropped(d) ==
    /\ file' = NoFile /\ lease' = None
    /\ SetJob(d, Idle) /\ Goto(d, "idle") /\ UNCHANGED fence

Fenced(d, place) ==
    /\ SetFence(d, Read(rollout, job[d].file.parent))
    /\ Goto(d, place) /\ UNCHANGED <<file, lease, job>>

(* recover_activation_fence of daemon_recovery.py.                         *)
FenceRecovered(d) ==
    LET saved == job[d].file
        fenced == WasPending(saved) /\ saved.parent # None
        found == Recovered(rollout, saved.parent) IN
    /\ pc[d] = "claimed"
    /\ \/ ~WasPending(saved) /\ Goto(d, "load") /\ UNCHANGED <<file, lease, fence, job>>
       \/ WasPending(saved) /\ (saved.parent = None \/ found = "superseded") /\ Dropped(d)
       \/ fenced /\ found \in {"completed", "aborted"} /\ Fenced(d, "settle")
       \/ fenced /\ found = "pending" /\ Fenced(d, "load")
       \/ /\ fenced /\ found = "missing"
          /\ SetJob(d, [job[d] EXCEPT !.file = NoFile])
          /\ Goto(d, "restore") /\ UNCHANGED <<file, lease, fence>>
    /\ UNCHANGED <<rollout, user, owns, heard, inherited, shared, starts, faults>>

\* The document to restore is the one the recovery has claimed.
Loaded(d) ==
    /\ pc[d] = "load"
    /\ SetJob(d, [job[d] EXCEPT !.file = file])
    /\ Goto(d, IF file = NoFile THEN "restore" ELSE "init")
    /\ UNCHANGED <<rollout, user, file, lease, owns, fence, heard, inherited, shared, starts, faults>>

(* A recovery that fails puts the document back, records the failure and   *)
(* gives the lease up.                                                     *)
Restored(d) ==
    /\ pc[d] = "restore"
    /\ file' = IF job[d].file # NoFile THEN job[d].file ELSE file
    /\ Goto(d, "record")
    /\ UNCHANGED <<rollout, user, lease, owns, fence, job, heard, inherited, shared, starts, faults>>

\* record_manager_failure
FailureRecorded(d) ==
    /\ pc[d] \in {"record", "fail"}
    /\ Update([file EXCEPT !.pid = None, !.failed = TRUE])
    /\ Goto(d, IF pc[d] = "fail" THEN "remove" ELSE "release")
    /\ UNCHANGED <<rollout, user, lease, owns, fence, job, heard, inherited, shared, starts, faults>>

-----------------------------------------------------------------------------
(* The worker of a daemon that owns the session.                           *)

Owner(d) == pc[d] = "idle" /\ owns[d]

\* _poll_activation
Poll(d) ==
    LET status == Polled(rollout, fence[d]) IN
    /\ Owner(d) /\ fence[d] # NoFence
    /\ SetFence(d, Read(rollout, fence[d].turn))
    /\ Goto(d, IF status = "pending" THEN "idle"
               ELSE IF status = "superseded" THEN "fail" ELSE "complete")
    /\ UNCHANGED <<rollout, user, file, lease, owns, job, heard, inherited, shared, starts, faults>>

(* DaemonActivationFences.complete, of a poll or of a recovery.            *)
FenceCompleted(d) ==
    LET lost == file # NoFile /\ (file.parent # fence[d].turn \/ file.managed # None)
        recovering == pc[d] = "settle" IN
    /\ pc[d] \in {"complete", "settle"}
    /\ IF lost
       THEN /\ Goto(d, IF recovering THEN "restore" ELSE "fail")
            /\ job' = [job EXCEPT ![d].file = NoFile]
            /\ UNCHANGED <<file, fence>>
       ELSE /\ Update([file EXCEPT !.handoff = TRUE])
            /\ SetFence(d, NoFence)
            /\ Goto(d, IF recovering THEN "load" ELSE "idle")
            /\ UNCHANGED job
    /\ UNCHANGED <<rollout, user, lease, owns, heard, inherited, shared, starts, faults>>

\* remove_tasks: out of the registry, and closed.
Removed(d) ==
    /\ \/ pc[d] = "remove"
       \/ Owner(d) /\ file = NoFile                     \* tick returns False
    /\ owns' = [owns EXCEPT ![d] = FALSE]
    /\ SetFence(d, NoFence)
    /\ file' = Stopped(d)
    /\ lease' = Released(d)
    /\ Goto(d, "idle")
    /\ UNCHANGED <<rollout, user, job, heard, inherited, shared, starts, faults>>

NextTurn(t) == ~Begun(rollout, t) /\ \A u \in Turn : u < t => Begun(rollout, u)

(* A tick starts the turn a handoff asks for; the server accepts it.       *)
TurnStarted(d, t) ==
    /\ Owner(d) /\ file # NoFile /\ NextTurn(t)
    /\ file.handoff /\ file.managed = None /\ file.pending = None /\ ~file.shutdown
    /\ rollout' = Append(rollout, [kind |-> "started", turn |-> t])
    /\ Update([file EXCEPT !.pending = t])
    /\ Goto(d, "started")
    /\ UNCHANGED <<user, lease, owns, fence, job, heard, inherited, shared, starts, faults>>

\* record_turn_started, of the turn the tick has started.
StartRecorded(d) ==
    /\ pc[d] = "started"
    /\ Update([file EXCEPT !.managed = file.pending, !.parent = file.pending,
                           !.pending = None, !.handoff = FALSE])
    /\ Goto(d, "idle")
    /\ UNCHANGED <<rollout, user, lease, owns, fence, job, heard, inherited, shared, starts, faults>>

(* Its outcome: the next handoff, or the end of a session to be shut down. *)
TurnFinished(d) ==
    /\ Owner(d) /\ file # NoFile /\ file.managed # None /\ EndedIn(rollout, file.managed)
    /\ file.pid = d
    /\ IF file.shutdown THEN file' = NoFile
       ELSE Update([file EXCEPT !.managed = None, !.handoff = TRUE])
    /\ UNCHANGED <<rollout, user, lease, pc, owns, fence, job, heard, inherited, shared, starts, faults>>

(* adopt_started: a turn of the user's that started before the handoff was *)
(* taken, from _claim_started.                                             *)
Adopted(d, t) ==
    /\ Owner(d) /\ t \in user \ heard /\ file # NoFile
    /\ ~file.shutdown /\ file.handoff /\ file.managed = None /\ file.pending = None
    /\ heard' = heard \cup {t}
    /\ Update([file EXCEPT !.parent = t, !.handoff = FALSE])
    /\ SetFence(d, Read(rollout, t))
    /\ UNCHANGED <<rollout, user, lease, pc, owns, job, inherited, shared, starts, faults>>

-----------------------------------------------------------------------------
(* The user, the app-server and the end of a daemon.                       *)

UserTurnStarts(t) ==
    /\ NextTurn(t)
    /\ rollout' = Append(rollout, [kind |-> "started", turn |-> t])
    /\ user' = user \cup {t}
    /\ UNCHANGED <<file, lease, pc, owns, fence, job, heard, inherited, shared, starts, faults>>

TurnEnds(t, kind) ==
    /\ t \in OpenTurns(rollout)
    /\ rollout' = Append(rollout, [kind |-> kind, turn |-> t])
    /\ UNCHANGED <<user, file, lease, pc, owns, fence, job, heard, inherited, shared, starts, faults>>

\* request_session_shutdown: deferred to a ready manager's turn, or at once.
UserStops ==
    /\ file # NoFile
    /\ IF file.pid # None /\ file.managed # None
       THEN ~file.shutdown /\ Update([file EXCEPT !.shutdown = TRUE, !.handoff = FALSE])
       ELSE file' = NoFile
    /\ UNCHANGED <<rollout, user, lease, pc, owns, fence, job, heard, inherited, shared, starts, faults>>

Forgotten(d) ==
    /\ Goto(d, "gone")
    /\ lease' = Released(d)
    /\ owns' = [owns EXCEPT ![d] = FALSE]
    /\ SetFence(d, NoFence) /\ SetJob(d, Idle)
    /\ UNCHANGED <<rollout, user, heard, inherited, shared, starts>>

Crashed(d) == d \in Alive /\ Fails /\ Forgotten(d) /\ UNCHANGED file

\* DaemonService.close, with nothing in progress.
Closed(d) == pc[d] = "idle" /\ file' = Stopped(d) /\ Forgotten(d) /\ UNCHANGED faults

-----------------------------------------------------------------------------

Transaction(d) ==
    \/ Enabled(d) \/ Initialized(d) \/ LeaseTaken(d) \/ Bound(d) \/ Resumed(d) \/ Published(d)
    \/ TaskClosed(d) \/ RolledBack(d)
    \/ Claimed(d) \/ FenceRecovered(d) \/ Loaded(d) \/ Restored(d) \/ FailureRecorded(d)

Work(d) == Poll(d) \/ FenceCompleted(d) \/ Removed(d) \/ StartRecorded(d) \/ TurnFinished(d)

Next ==
    \/ \E d \in Daemon :
          \/ Discovered(d) \/ Transaction(d) \/ Work(d)
          \/ \E t \in Turn : StartChecked(d, t) \/ TurnStarted(d, t) \/ Adopted(d, t)
          \/ Raised(d) \/ Crashed(d) \/ Closed(d)
    \/ \E t \in Turn : UserTurnStarts(t) \/ \E kind \in {"completed", "aborted"} : TurnEnds(t, kind)
    \/ UserStops

Spec == Init /\ [][Next]_vars

(* A daemon's threads run, and its scheduler calls what is due.            *)
FairSpec == Spec /\ \A d \in Daemon : WF_vars(Transaction(d)) /\ WF_vars(Work(d))

-----------------------------------------------------------------------------

TypeOK ==
    /\ rollout \in Seq(TurnEvent) /\ user \subseteq Turn /\ heard \subseteq Turn
    /\ file \in RuntimeFile \cup {NoFile}
    /\ lease \in Daemon \cup {None}
    /\ pc \in [Daemon -> Place]
    /\ owns \in [Daemon -> BOOLEAN]
    /\ fence \in [Daemon -> Fence \cup {NoFence}]
    /\ job \in [Daemon -> Job]
    /\ inherited \in BOOLEAN /\ shared \in BOOLEAN /\ starts \in 0..MaxStarts /\ faults \in 0..MaxFaults

(* DaemonRegistry.activation_pending: a session is handed off, so that its  *)
(* daemon may start a turn, only after the end of the turn the runtime file *)
(* names as its parent, the one the session was activated in or the         *)
(* manager's own last one.                                                  *)
HandoffWaits ==
    file # NoFile /\ file.handoff => file.parent # None /\ EndedIn(rollout, file.parent)

(* While a daemon waits for the user's turn the file says so, whatever     *)
(* happened to the daemons before: one that crashes here leaves its        *)
(* successor the very turn to wait for.                                    *)
FenceIsDurable ==
    \A d \in Daemon :
        owns[d] /\ fence[d] # NoFence /\ pc[d] = "idle" /\ file # NoFile /\ ~inherited =>
            /\ file.parent = fence[d].turn
            /\ WasPending(file)

(* Two daemons never own the session at once: a task in a registry has the *)
(* lease, through every rollback, failure and recovery.                    *)
OwnerHasLease == \A d \in Daemon : owns[d] => lease = d

(* The file of an owned session names its daemon as the ready manager, so  *)
(* that a stop is left to it.                                              *)
OwnerIsReady ==
    \A d \in Daemon : owns[d] /\ pc[d] # "remove" /\ file # NoFile => file.pid = d

(* The daemon that owns the session has its lease, through every rollback,  *)
(* failure and recovery of any; as long as no two have run at once, the     *)
(* file names it as the ready manager, has the turn it waits for, and hands *)
(* the session off after that turn only (claim, mark_ready, set_fence).     *)
OwnerIsManager ==
    TypeOK /\ OwnerHasLease /\ (~shared => OwnerIsReady /\ FenceIsDurable /\ HandoffWaits)

\* A daemon waits for a turn of its session that is over.
WaitsInVain(d, t) == owns[d] /\ fence[d].turn = t /\ EndedIn(rollout, t)

(* A fence captured by a start or rebuilt by a recovery is lifted after    *)
(* its turn has ended.                                                     *)
CapturedFenceLifts ==
    \A d \in Daemon, t \in Turn : WaitsInVain(d, t) ~> ~WaitsInVain(d, t) \/ t \in heard

=============================================================================
