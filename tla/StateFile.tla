------------------------------ MODULE StateFile ------------------------------
(***************************************************************************)
(* The runtime and cursor files of one session, written by processes that  *)
(* share nothing but the disk (scripts/state.py, state_io.py), and the     *)
(* operations that use them: enable_session and disable_session            *)
(* (setup.py), the watcher's commit (watcher_commit.py), and the           *)
(* notification daemon's start and stop (notification_session.py).  Every  *)
(* look at the disk, every lock and every replacement is a step of its     *)
(* own.  A document is written to a temporary file and replaces the old    *)
(* one whole; what a crash leaves of the temporary nobody reads.           *)
(***************************************************************************)
EXTENDS Naturals

CONSTANTS
    NoFile,     \* the file does not exist
    Nobody,     \* no process
    Process,    \* processes that use the files
    MaxSession, \* bound on sessions created
    MaxUpdate   \* bound on updates of one process

ASSUME StateAssumption ==
    /\ Nobody \notin Process
    /\ MaxSession \in Nat /\ MaxUpdate \in Nat

Sessions == 1..MaxSession
Updates == Process \X (1..MaxUpdate)
Document == [session : Sessions, updates : SUBSET Updates]

ASSUME FileAssumption == NoFile \notin Document

VARIABLES
    runtime,    \* the runtime file
    cursor,     \* the cursor file, by the runtime it was taken from
    operation,  \* who holds the lock of all activations
    lock,       \* who holds the runtime file's lock
    pc,         \* per process, where its operation is
    loaded,     \* per process, the document it has loaded or read
    created,    \* sessions created so far
    count       \* per process, updates so far

vars == <<runtime, cursor, operation, lock, pc, loaded, created, count>>

Places ==
    {"idle", "found", "locked", "changed", "replaced", "done",
     "enable", "publish", "save", "config", "rollback", "rollback_locked",
     "disable", "remove", "removed", "bare",
     "start", "start_locked", "started", "stop_cursor"}

TypeOK ==
    /\ runtime \in Document \cup {NoFile}
    /\ cursor \in Document \cup {NoFile}
    /\ operation \in Process \cup {Nobody}
    /\ lock \in Process \cup {Nobody}
    /\ pc \in [Process -> Places]
    /\ loaded \in [Process -> Document \cup {NoFile}]
    /\ created \in 0..MaxSession
    /\ count \in [Process -> 0..MaxUpdate]

Init ==
    /\ runtime = NoFile /\ cursor = NoFile
    /\ operation = Nobody /\ lock = Nobody
    /\ pc = [p \in Process |-> "idle"]
    /\ loaded = [p \in Process |-> NoFile]
    /\ created = 0
    /\ count = [p \in Process |-> 0]

Goto(p, from, to) == pc[p] = from /\ pc' = [pc EXCEPT ![p] = to]

Load(p, document) == loaded' = [loaded EXCEPT ![p] = document]

\* ExclusiveWriteLock of the runtime file; its wait may also time out.
Take(p, from, to) ==
    /\ \/ Goto(p, from, to) /\ lock = Nobody /\ lock' = p
       \/ Goto(p, from, "idle") /\ lock # Nobody /\ UNCHANGED lock
    /\ operation' = IF pc'[p] = "idle" /\ operation = p THEN Nobody ELSE operation
    /\ UNCHANGED <<runtime, cursor, loaded, created, count>>

\* Leaving every "with" block.
Leave(p, from) ==
    /\ Goto(p, from, "idle")
    /\ lock' = IF lock = p THEN Nobody ELSE lock
    /\ operation' = IF operation = p THEN Nobody ELSE operation
    /\ Load(p, NoFile)
    /\ UNCHANGED <<runtime, cursor, created, count>>

(***************************************************************************)
(* mutate_existing_state, of one update, with the cursor's commit inside   *)
(* the lock (commit_runtime_snapshot).                                     *)
(***************************************************************************)
Find(p) ==
    /\ Goto(p, "idle", "found")
    /\ runtime # NoFile /\ count[p] < MaxUpdate
    /\ UNCHANGED <<runtime, cursor, operation, lock, loaded, created, count>>

LockFound(p) == Take(p, "found", "locked")

LoadLocked(p) ==
    /\ Goto(p, "locked", IF runtime = NoFile THEN "done" ELSE "changed")
    /\ Load(p, runtime)
    /\ UNCHANGED <<runtime, cursor, operation, lock, created, count>>

\* The update is in the new document, which replaces the old one.
Replace(p) ==
    /\ Goto(p, "changed", "replaced")
    /\ count' = [count EXCEPT ![p] = @ + 1]
    /\ runtime' = [loaded[p] EXCEPT !.updates = @ \cup {<<p, count'[p]>>}]
    /\ Load(p, runtime')
    /\ UNCHANGED <<cursor, operation, lock, created>>

\* after_commit: a watcher's batch moves the cursor, other updates do not.
AfterCommit(p) ==
    /\ Goto(p, "replaced", "done")
    /\ cursor' \in {cursor, loaded[p]}
    /\ UNCHANGED <<runtime, operation, lock, loaded, created, count>>

Finish(p) == Leave(p, "done")

Mutate(p) ==
    Find(p) \/ LockFound(p) \/ LoadLocked(p) \/ Replace(p) \/ AfterCommit(p) \/ Finish(p)

(***************************************************************************)
(* enable_session: the lock of all activations, a session that is not      *)
(* there yet, and save_state, which refuses nothing that is.               *)
(***************************************************************************)
BeginEnable(p) ==
    /\ Goto(p, "idle", "enable")
    /\ created < MaxSession
    /\ operation = Nobody /\ operation' = p
    /\ UNCHANGED <<runtime, cursor, lock, loaded, created, count>>

RefuseEnabled(p) == runtime # NoFile /\ Leave(p, "enable")

EnableFresh(p) ==
    /\ runtime = NoFile
    /\ Goto(p, "enable", "publish")
    /\ UNCHANGED <<runtime, cursor, operation, lock, loaded, created, count>>

LockEnabled(p) == Take(p, "publish", "save")

Create(p, from, to) ==
    /\ Goto(p, from, to)
    /\ created < MaxSession
    /\ created' = created + 1
    /\ runtime' = [session |-> created', updates |-> {}]
    /\ UNCHANGED <<cursor, operation, loaded, count>>

\* save_state, and its lock.
SaveEnabled(p) == Create(p, "save", "config") /\ lock' = Nobody

\* The configuration is saved as well, or the runtime is taken back.
SaveConfig(p) == Leave(p, "config")

TakeBack(p) ==
    /\ Goto(p, "config", "rollback")
    /\ UNCHANGED <<runtime, cursor, operation, lock, loaded, created, count>>

LockRollback(p) == Take(p, "rollback", "rollback_locked")

Unpublish(p) ==
    /\ Goto(p, "rollback_locked", "done")
    /\ runtime' = NoFile
    /\ UNCHANGED <<cursor, operation, lock, loaded, created, count>>

Enable(p) ==
    \/ BeginEnable(p) \/ RefuseEnabled(p) \/ EnableFresh(p) \/ LockEnabled(p)
    \/ SaveEnabled(p) \/ SaveConfig(p)
    \/ TakeBack(p) \/ LockRollback(p) \/ Unpublish(p)

(***************************************************************************)
(* disable_session                                                         *)
(***************************************************************************)
BeginDisable(p) ==
    /\ Goto(p, "idle", "disable")
    /\ operation = Nobody /\ operation' = p
    /\ UNCHANGED <<runtime, cursor, lock, loaded, created, count>>

FindBare(p) ==
    /\ Goto(p, "disable", IF runtime = NoFile THEN "bare" ELSE "remove")
    /\ UNCHANGED <<runtime, cursor, operation, lock, loaded, created, count>>

\* Without a runtime the cursor goes without a lock.
RemoveBareCursor(p) ==
    /\ Goto(p, "bare", "done")
    /\ cursor' = NoFile
    /\ UNCHANGED <<runtime, operation, lock, loaded, created, count>>

\* Fault: the removal does not take the runtime file's lock.
LockRemovalFaultBare(p) ==
    /\ Goto(p, "remove", "removed")
    /\ UNCHANGED <<runtime, cursor, operation, lock, loaded, created, count>>

LockRemoval(p) == Take(p, "remove", "removed")

RemoveRuntime(p) ==
    /\ Goto(p, "removed", "bare")
    /\ runtime' = NoFile
    /\ UNCHANGED <<cursor, operation, lock, loaded, created, count>>

Disable(p) ==
    \/ BeginDisable(p) \/ FindBare(p) \/ RemoveBareCursor(p)
    \/ LockRemoval(p) \/ RemoveRuntime(p)

(***************************************************************************)
(* The notification daemon's: start looks for the file before it locks it, *)
(* stop does not lock at all.                                              *)
(***************************************************************************)
BeginStart(p) ==
    /\ Goto(p, "idle", "start")
    /\ runtime = NoFile
    /\ UNCHANGED <<runtime, cursor, operation, lock, loaded, created, count>>

LockStart(p) == Take(p, "start", "start_locked")

SaveStarted(p) == Create(p, "start_locked", "done") /\ UNCHANGED lock

StopRuntime(p) ==
    /\ Goto(p, "idle", "stop_cursor")
    /\ runtime # NoFile
    /\ runtime' = NoFile
    /\ UNCHANGED <<cursor, operation, lock, loaded, created, count>>

StopCursor(p) ==
    /\ Goto(p, "stop_cursor", "idle")
    /\ cursor' = NoFile
    /\ UNCHANGED <<runtime, operation, lock, loaded, created, count>>

Daemon(p) ==
    \/ BeginStart(p) \/ LockStart(p) \/ SaveStarted(p)
    \/ StopRuntime(p) \/ StopCursor(p)

\* A process dies and another takes its place; the system frees its locks.
Crash(p) == pc[p] # "idle" /\ Leave(p, pc[p])

(***************************************************************************)
(* The files of a managed session, and of a monitored one.                 *)
(***************************************************************************)
Next == \E p \in Process : Mutate(p) \/ Enable(p) \/ Disable(p) \/ Crash(p)

Spec == Init /\ [][Next]_vars

NotificationNext == \E p \in Process : Mutate(p) \/ Daemon(p) \/ Crash(p)

NotificationSpec == Init /\ [][NotificationNext]_vars

-----------------------------------------------------------------------------
Atomic == INSTANCE AtomicState

(* The locked operations are atomic to each other: updates are not lost, a *)
(* disabled session is not written back, an enabled one is not overwritten *)
(* and no cursor is taken from a runtime that is not there (state.py       *)
(* mutate_existing_state and save_state, setup.py enable_session and       *)
(* disable_session).                                                       *)
IsAtomic == Atomic!Spec

(* A session whose stop has begun is not written back by an update that    *)
(* was under way: only a start makes a runtime file                        *)
(* (remove_notification_session).                                          *)
StopIsFinal == [][(runtime = NoFile /\ runtime' # NoFile) => created' = created + 1]_runtime
=============================================================================
