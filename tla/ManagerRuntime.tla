---------------------------- MODULE ManagerRuntime ----------------------------
(***************************************************************************)
(* The runtime file of one managed session and the locked updates that     *)
(* write it: the manager's (scripts/manager_runtime.py, manager_failure.py *)
(* and manager_restart_guard.py), the hooks' (hook_event.py, hook_state.py)*)
(* and the user's (setup.py, session_shutdown.py).  Each update reads,     *)
(* checks and rewrites the file under its lock (mutate_existing_state) and *)
(* does nothing when the file is gone, so each is one step, written here   *)
(* as the new file in terms of the old one.                                *)
(***************************************************************************)
EXTENDS Integers

CONSTANTS
    NoFile,     \* the file does not exist
    MaxTurn,    \* turns the managers may start
    MaxEpoch,   \* activity epochs the hooks and the watcher may reach
    Process     \* manager processes, by pid

ASSUME RuntimeAssumption ==
    /\ MaxTurn \in Nat \ {0} /\ MaxEpoch \in Nat
    /\ Process \subseteq Nat \ {0}

None == 0                   \* no turn, no pid
Turn == 1..MaxTurn
UserTurn == MaxTurn + 1     \* a turn of the user's own, on another connection

NoRequest == [turn |-> None, epoch |-> 0]

\* How long ago a recorded moment is: never, within its 60 seconds, before.
Age == {"never", "recent", "late"}

Request == [turn : Turn \cup {None}, epoch : 0..MaxEpoch]

RuntimeFile ==
    [handoff : BOOLEAN,                     \* handoff_requested
     managed : Turn \cup {None},            \* managed_turn_id
     pending : Turn \cup {None},            \* pending_turn_id
     waited : Age,                          \* pending_turn_timed_out_at
     request : Request,                     \* restart_request
     claimed : Age,                         \* restart_claimed, restart_claimed_at
     ready : BOOLEAN, pid : Process \cup {None}, failed : BOOLEAN,
     shutdown : BOOLEAN, interrupt : BOOLEAN,
     restarts : Nat,                        \* restart_count
     epoch : 0..MaxEpoch,                   \* turn_activity_epoch
     parent : Turn \cup {None, UserTurn},   \* parent_turn_id
     terminal : BOOLEAN]                    \* the parent monitor's status

\* enable_session's runtime values.
NewFile ==
    [handoff |-> FALSE, managed |-> None, pending |-> None, waited |-> "never",
     request |-> NoRequest, claimed |-> "never",
     ready |-> FALSE, pid |-> None, failed |-> FALSE,
     shutdown |-> FALSE, interrupt |-> FALSE,
     restarts |-> 0, epoch |-> 0, parent |-> None, terminal |-> TRUE]

(* load_manager_runtime: what a tick keeps of the file.                    *)
Loaded(f) ==
    [handoff |-> f.handoff, managed |-> f.managed, pending |-> f.pending,
     waited |-> f.waited, request |-> f.request, claimed |-> f.claimed,
     shutdown |-> f.shutdown, interrupt |-> f.interrupt]

LoadedRuntime ==
    [handoff : BOOLEAN, managed : Turn \cup {None}, pending : Turn \cup {None},
     waited : Age, request : Request, claimed : Age, shutdown : BOOLEAN,
     interrupt : BOOLEAN]

NothingLoaded == Loaded(NewFile)

(***************************************************************************)
(* The manager's updates.  A guard that fails raises, and nothing is       *)
(* written.                                                                *)
(***************************************************************************)
Ready(f, p) == [f EXCEPT !.ready = TRUE, !.pid = p, !.failed = FALSE]

Stopped(f) == [f EXCEPT !.ready = FALSE, !.pid = None]

Failed(f) == [Stopped(f) EXCEPT !.failed = TRUE]

\* request_manager_startup_cancel: too late once the manager is ready.
StartupCancelled(f) ==
    IF f.ready THEN f
    ELSE [f EXCEPT !.shutdown = TRUE, !.interrupt = FALSE, !.handoff = FALSE]

MayPend(f) == f.handoff /\ f.managed = None /\ f.pending = None

Pending(f, t) == [f EXCEPT !.pending = t, !.waited = "never"]

TimedOut(f) == [f EXCEPT !.waited = "recent"]

WithoutPending(f) == [f EXCEPT !.pending = None, !.waited = "never"]

WithoutRequest(f) == [f EXCEPT !.request = NoRequest, !.claimed = "never"]

MayStart(f, t) == f.handoff /\ f.managed = None /\ f.pending \in {None, t}

\* record_turn_started, with start_managed_parent.
Started(f, t) ==
    [WithoutRequest(WithoutPending(f)) EXCEPT
        !.managed = t, !.handoff = FALSE, !.parent = t, !.terminal = FALSE]

\* _finish_turn
Finished(f) ==
    [WithoutRequest(WithoutPending(f)) EXCEPT !.managed = None, !.handoff = TRUE]

\* record_restart_performed
MayCountRestart(f, t) ==
    f.request.turn = t /\ f.managed = t /\ f.claimed = "recent"

Restarted(f) == [Finished(f) EXCEPT !.restarts = @ + 1]

(***************************************************************************)
(* Freshness of the restart request r a manager has loaded (_request_is_   *)
(* fresh): still the recorded one, its turn still owned, monitored and at  *)
(* the same activity epoch, nothing unread in the rollout.  A request that *)
(* is still recorded and no longer fresh is cleared.                       *)
(***************************************************************************)
OwnershipMatches(f, r) ==
    /\ f.ready /\ f.managed = r.turn /\ f.parent = r.turn
    /\ f.epoch = r.epoch /\ ~f.terminal

Fresh(f, r, unread) == f.request = r /\ OwnershipMatches(f, r) /\ ~unread

ClearedIfStale(f, r, unread) ==
    IF f.request = r /\ ~Fresh(f, r, unread) THEN WithoutRequest(f) ELSE f

ClearedIfSame(f, r) == IF f.request = r THEN WithoutRequest(f) ELSE f

\* classify_interrupt_claim, of the file as the tick has loaded it.
InterruptClaim(f, t) ==
    IF f.claimed = "never" THEN "unclaimed"
    ELSE IF f.request.turn # t THEN "mismatch"
    ELSE IF f.claimed = "late" THEN "expired" ELSE "matched"

(***************************************************************************)
(* The hooks' updates: apply_hook_event, which advances the activity epoch *)
(* with whatever it changes in the parent's monitor.                       *)
(***************************************************************************)
PromptSubmitted(f) ==
    [f EXCEPT !.parent = UserTurn, !.terminal = FALSE, !.epoch = @ + 1]

ToolUsed(f) == IF f.parent = None THEN f ELSE [f EXCEPT !.epoch = @ + 1]

\* _stop_parent of a managed session.
StopReported(f) ==
    [f EXCEPT !.handoff = ~f.shutdown,
              !.terminal = TRUE,
              !.epoch = IF f.terminal THEN @ ELSE @ + 1]

(***************************************************************************)
(* The user's: defer_session_shutdown of a turn a ready manager owns.      *)
(***************************************************************************)
MayDefer(f) == f.ready /\ f.managed # None

Deferred(f, interrupt) ==
    [WithoutRequest(f) EXCEPT !.shutdown = TRUE, !.interrupt = interrupt,
                              !.handoff = FALSE]
=============================================================================
