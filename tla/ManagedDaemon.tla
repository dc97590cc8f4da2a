---------------------------- MODULE ManagedDaemon ----------------------------
(***************************************************************************)
(* Ownership and shutdown in the managed daemon: concurrent starts         *)
(* (daemon_start.py, daemon_registry.py), the worker of the scheduler that *)
(* drives tasks and retires them, the threads that close a client          *)
(* (daemon_client_close.py), the reader of the app-server's output, and    *)
(* close() itself (daemon_lifecycle.py).                                   *)
(*                                                                         *)
(* A section under the service lock is one action; so is a call made       *)
(* outside of it, a request to the app-server or a lease taken.  A managed *)
(* task is named by its reference to the shared client.  Of the scheduler  *)
(* only the worker is kept: DeadlineScheduler models the rest.             *)
(***************************************************************************)
EXTENDS SharedClient

CONSTANTS
  Callers,   \* threads that serve requests to start
  Closers,   \* threads that call close
  Sessions,
  Worker,    \* the scheduler's worker
  Reader,    \* the thread that reads the app-server's output
  MaxFaults  \* bound on faults: raising calls, a fatal callback

ASSUME ManagedDaemonAssumption ==
  /\ MaxFaults \in Nat /\ IsFiniteSet(Callers) /\ Sessions # {}
  /\ Worker # Reader
  /\ {Worker, Reader} \cap (Callers \cup Closers \cup References) = {}
  /\ Callers \cap Closers = {} /\ References \cap (Callers \cup Closers) = {}

VARIABLES
  tasks,          \* the registry: each session's task
  lease,          \* the task that holds the session's manager lease
  sessions,       \* sessions reserved by a start
  active,         \* admitted operations
  closeStarted,
  closeFinished,
  pc,             \* where each thread is
  job,            \* what each thread works on
  faults,         \* faults so far
  stolen,         \* history: a raising borrow took a client others referred to
  dropped         \* history: tasks detached and never closed

daemon == <<tasks, lease, sessions, active, closeStarted, closeFinished>>
history == <<stolen, dropped>>
vars == <<pool, daemon, pc, job, faults, history>>

NoTask == 0

(* A reference stands for the thread of its CloseGate as well. *)
Threads == Callers \cup Closers \cup {Worker, Reader} \cup References
Detachers == Callers \cup Closers \cup {Worker}
Openers == Callers \cup References

(* Where threads can be. *)
StartSteps ==
  {"reserve", "lookup", "borrow", "probe", "create", "made", "held", "initialize",
   "begin", "install", "schedule", "undo", "closeTask", "release", "leave", "end"}
DetachSteps == {"detached", "owed"}
CloseSteps == {"closing", "announcing", "blocked", "stopping", "done", "failed"}
ShutdownSteps == {"drain", "join", "ending"}

(* session, task: what a start is about; client: the one it uses, or the   *)
(* one a closing thread closes; created: the client a borrow made itself;  *)
(* todo: tasks being detached; owed: obligations left to meet; failed: one *)
(* of them was not met.                                                    *)
NoJob ==
  [session |-> CHOOSE s \in Sessions : TRUE, task |-> NoTask, client |-> Nobody,
   created |-> Nobody, todo |-> {}, owed |-> {}, failed |-> FALSE]

Jobs ==
  [session : Sessions, task : 0 .. MaxReferences, client : 0 .. MaxReferences,
   created : 0 .. MaxReferences, todo : SUBSET References, owed : SUBSET References,
   failed : BOOLEAN]

Init ==
  /\ PoolInit
  /\ tasks = [s \in Sessions |-> NoTask]
  /\ lease = [s \in Sessions |-> NoTask]
  /\ sessions = {}
  /\ active = 0
  /\ closeStarted = FALSE
  /\ closeFinished = FALSE
  /\ pc = [t \in Threads |-> "idle"]
  /\ job = [t \in Threads |-> NoJob]
  /\ faults = 0
  /\ stolen = FALSE
  /\ dropped = {}

Goto(t, step) == pc' = [pc EXCEPT ![t] = step]
Set(t, j) == job' = [job EXCEPT ![t] = j]

Fault == faults < MaxFaults /\ faults' = faults + 1

(* close() got past the admissions and closed the scheduler. *)
SchedulerClosed ==
  closeFinished \/ \E m \in Closers : pc[m] \in {"join", "ending"} \cup DetachSteps

-----------------------------------------------------------------------------
(* A start: admission, session reservation, lookup. *)

AdmissionBegins == ~closeStarted /\ active' = active + 1

StartAdmitted(c, s) ==
  /\ pc[c] = "idle"
  /\ LET busy == Cardinality({d \in Callers : pc[d] # "idle"})
     IN  given + busy < MaxReferences /\ made + busy < MaxReferences
  /\ AdmissionBegins
  /\ Goto(c, "reserve")
  /\ Set(c, [NoJob EXCEPT !.session = s])
  /\ UNCHANGED <<pool, tasks, lease, sessions, closeStarted, closeFinished, faults, history>>

SessionReserved(c) ==
  /\ pc[c] = "reserve" /\ job[c].session \notin sessions
  /\ sessions' = sessions \cup {job[c].session}
  /\ Goto(c, "lookup")
  /\ UNCHANGED <<pool, tasks, lease, active, closeStarted, closeFinished, job, faults, history>>

(* A task of the session is used again, a new one is made, or the request  *)
(* does not match what is recorded of the session.                         *)
Lookup(c) ==
  /\ pc[c] = "lookup"
  /\ \/ tasks[job[c].session] # NoTask /\ Goto(c, "schedule")
     \/ tasks[job[c].session] = NoTask /\ Goto(c, "borrow")
     \/ Goto(c, "leave")
  /\ Set(c, [job[c] EXCEPT !.task = tasks[job[c].session]])
  /\ UNCHANGED <<pool, daemon, faults, history>>

-----------------------------------------------------------------------------
(* Borrowing the shared client, one thread at a time. *)

PoolReserved(c) ==
  /\ pc[c] = "borrow" /\ ~reserved
  /\ reserved' = TRUE
  /\ Goto(c, "probe")
  /\ UNCHANGED <<made, running, handles, pooled, references, given, daemon, job, faults, history>>

PooledClientFound(c) ==
  /\ pc[c] = "probe" /\ pooled # Nobody
  /\ Record(pooled)
  /\ Set(c, [job[c] EXCEPT !.task = given + 1, !.client = pooled])
  /\ Goto(c, "held")
  /\ UNCHANGED <<made, running, handles, pooled, reserved, daemon, faults, history>>

NoPooledClient(c) ==
  /\ pc[c] = "probe" /\ pooled = Nobody
  /\ Goto(c, "create")
  /\ UNCHANGED <<pool, daemon, job, faults, history>>

ClientCreated(c) ==
  /\ pc[c] = "create"
  /\ made' = made + 1
  /\ Set(c, [job[c] EXCEPT !.client = made + 1, !.created = made + 1])
  /\ Goto(c, "made")
  /\ UNCHANGED <<running, handles, pooled, references, given, reserved, daemon, faults, history>>

ClientPooled(c) ==
  /\ pc[c] = "made"
  /\ pooled' = job[c].client
  /\ Record(job[c].client)
  /\ Set(c, [job[c] EXCEPT !.task = given + 1])
  /\ Goto(c, "held")
  /\ UNCHANGED <<made, running, handles, reserved, daemon, faults, history>>

BorrowReturned(c) ==
  /\ pc[c] = "held"
  /\ reserved' = FALSE
  /\ Goto(c, "initialize")
  /\ Set(c, [job[c] EXCEPT !.created = Nobody])
  /\ UNCHANGED <<made, running, handles, pooled, references, given, daemon, faults, history>>

(* An OSError of the factory, or an interrupt of the thread, anywhere in   *)
(* the borrow: the reservation is left before the exception is handled.    *)
BorrowRaised(c) ==
  /\ pc[c] \in {"probe", "create", "made", "held"}
  /\ Fault
  /\ reserved' = FALSE
  /\ Goto(c, "undo")
  /\ UNCHANGED <<made, running, handles, pooled, references, given, daemon, job, history>>

(* The handler forgets the borrow's own reference, but takes whatever is   *)
(* pooled by now.                                                          *)
BorrowUndone(c) ==
  LET own    == {job[c].task} \ {NoTask}
      victim == IF pooled # Nobody THEN pooled ELSE job[c].created
  IN  /\ pc[c] = "undo"
      /\ references' = Released({}, own)
      /\ pooled' = Nobody
      /\ stolen' = (stolen \/ (pooled # Nobody /\ Active \ own # {}))
      /\ Set(c, [job[c] EXCEPT !.client = victim])
      /\ Goto(c, IF victim = Nobody THEN "leave" ELSE "closing")
      /\ UNCHANGED <<made, running, handles, given, reserved, daemon, faults, dropped>>

-----------------------------------------------------------------------------
(* Initialization and publication of a new task. *)

LeaseTaken(c) ==
  LET s == job[c].session
  IN  /\ pc[c] = "initialize"
      /\ IF lease[s] = NoTask
         THEN lease' = [lease EXCEPT ![s] = job[c].task] /\ Goto(c, "begin")
         ELSE UNCHANGED lease /\ Goto(c, "release")
      /\ UNCHANGED <<pool, tasks, sessions, active, closeStarted, closeFinished, job, faults,
                     history>>

Started(k) == running' = running \cup {k} /\ handles' = handles \cup {k}

(* The client starts its child, the thread is resumed over what is pooled; *)
(* the answers come through the reader.                                    *)
TaskBegun(c) ==
  /\ pc[c] = "begin" /\ pooled # Nobody /\ pc[Reader] # "await"
  /\ Started(job[c].client)
  /\ Goto(c, "install")
  /\ UNCHANGED <<made, pooled, references, given, reserved, daemon, job, faults, history>>

(* There is nothing to resume the thread over, or nobody to read the       *)
(* answer: an announcement the scheduler refused ended the reader.         *)
BeginExpired(c) ==
  /\ pc[c] = "begin"
  /\ pooled = Nobody \/ pc[Reader] = "await" \/ pc[Worker] = "exited"
  /\ Started(job[c].client)
  /\ Goto(c, "closeTask")
  /\ UNCHANGED <<made, pooled, references, given, reserved, daemon, job, faults, history>>

BeginRaised(c) ==
  /\ pc[c] = "begin" /\ Fault
  /\ Started(job[c].client) \/ UNCHANGED <<running, handles>>
  /\ Goto(c, "closeTask")
  /\ UNCHANGED <<made, pooled, references, given, reserved, daemon, job, history>>

TaskPublished(c) ==
  /\ pc[c] = "install"
  /\ references' = Committed(job[c].task)
  /\ tasks' = [tasks EXCEPT ![job[c].session] = job[c].task]
  /\ Goto(c, "schedule")
  /\ Set(c, [job[c] EXCEPT !.client = Nobody])
  /\ UNCHANGED <<made, running, handles, pooled, given, reserved, lease, sessions, active,
                 closeStarted, closeFinished, faults, history>>

TaskScheduled(c) ==
  /\ pc[c] = "schedule" /\ pc[Worker] # "exited"
  /\ Goto(c, "leave")
  /\ UNCHANGED <<pool, daemon, job, faults, history>>

(* Rollback of a start that raised: the lease goes, then the reference. *)
TaskClosed(c) ==
  LET s == job[c].session
  IN  /\ pc[c] = "closeTask"
      /\ lease' = [lease EXCEPT ![s] = IF @ = job[c].task THEN NoTask ELSE @]
      /\ Goto(c, "release")
      /\ UNCHANGED <<pool, tasks, sessions, active, closeStarted, closeFinished, job, faults,
                     history>>

ReferenceReleased(c) ==
  /\ pc[c] = "release"
  /\ Release({job[c].task} \cap Active)
  /\ Set(c, [job[c] EXCEPT
               !.owed = {r \in {job[c].task} : references'[r].state = "closing"}])
  /\ Goto(c, "owed")
  /\ UNCHANGED <<made, running, handles, given, reserved, daemon, faults, history>>

StartLeft(c) ==
  /\ pc[c] = "leave"
  /\ sessions' = sessions \ {job[c].session}
  /\ Goto(c, "end")
  /\ Set(c, NoJob)
  /\ UNCHANGED <<pool, tasks, lease, active, closeStarted, closeFinished, faults, history>>

-----------------------------------------------------------------------------
(* Admissions and their end. *)

ReaderAdmitted ==
  /\ pc[Reader] = "idle" /\ running # {}
  /\ AdmissionBegins
  /\ Goto(Reader, "announcing")
  /\ UNCHANGED <<pool, tasks, lease, sessions, closeStarted, closeFinished, job, faults, history>>

Closed(t) == IF t \in References THEN "done" ELSE "leave"
CloseRaised(t) == IF t \in References THEN "failed" ELSE "leave"

(* Where a thread goes from the end of its admission: one that ends while  *)
(* the daemon closes waits for the closer, and one inside client.close()   *)
(* gets there with what it closes half closed.  The scheduler refuses the  *)
(* announcement when its worker is gone, and client.close() raises.        *)
AfterAdmission(t) ==
  IF t \notin Openers \/ pc[t] = "end" THEN IF closeStarted THEN "await" ELSE "idle"
  ELSE IF closeStarted THEN "blocked"
  ELSE IF pc[Worker] = "exited" THEN CloseRaised(t)
  ELSE "stopping"

(* Fault: the admission is kept while its thread waits for the closer. *)
EndAdmissionHeld(t) ==
  /\ pc[t] \in {"end", "announcing"}
  /\ active' = IF closeStarted THEN active ELSE active - 1
  /\ Goto(t, AfterAdmission(t))
  /\ UNCHANGED <<pool, tasks, lease, sessions, closeStarted, closeFinished, job, faults, history>>

EndAdmission(t) ==
  /\ pc[t] \in {"end", "announcing"}
  /\ active' = active - 1
  /\ Goto(t, AfterAdmission(t))
  /\ UNCHANGED <<pool, tasks, lease, sessions, closeStarted, closeFinished, job, faults, history>>

WaitClosed(t) ==
  /\ pc[t] \in {"await", "blocked"} /\ closeFinished
  /\ Goto(t, IF pc[t] = "await" THEN "idle" ELSE "stopping")
  /\ UNCHANGED <<pool, daemon, job, faults, history>>

-----------------------------------------------------------------------------
(* client.close(), in the thread of a close attempt or in a start's. *)

(* The handle goes first; then the loss of the connection is announced,    *)
(* unless it was before or the daemon closes.                              *)
HandleDropped(t) ==
  /\ pc[t] = "closing"
  /\ handles' = handles \ {job[t].client}
  /\ \/ job[t].client \notin handles /\ Goto(t, Closed(t)) /\ UNCHANGED active
     \/ job[t].client \in handles /\ Goto(t, "stopping") /\ UNCHANGED active
     \/ /\ job[t].client \in handles /\ ~closeStarted
        /\ active' = active + 1
        /\ Goto(t, "announcing")
  /\ UNCHANGED <<made, running, pooled, references, given, reserved, tasks, lease, sessions,
                 closeStarted, closeFinished, job, faults, history>>

ChildStopped(t) ==
  /\ pc[t] = "stopping"
  /\ running' = running \ {job[t].client}
  /\ Goto(t, Closed(t))
  /\ UNCHANGED <<made, handles, pooled, references, given, reserved, daemon, job, faults, history>>

(* The child was killed and still not reaped within the time. *)
StopRaised(t) ==
  /\ pc[t] = "stopping" /\ Fault
  /\ running' = running \ {job[t].client}
  /\ Goto(t, CloseRaised(t))
  /\ UNCHANGED <<made, handles, pooled, references, given, reserved, daemon, job, history>>

-----------------------------------------------------------------------------
(* Detaching tasks: out of the registry, then the references, then every   *)
(* obligation the pool has, and the tasks themselves last.                 *)

Published == {tasks[s] : s \in Sessions} \ {NoTask}

(* Fault: tasks are counted though they left the registry before. *)
DetachUnchecked(t, T) ==
  /\ tasks' = [s \in Sessions |-> IF tasks[s] \in T THEN NoTask ELSE tasks[s]]
  /\ Set(t, [job[t] EXCEPT !.todo = T])
  /\ Goto(t, "detached")
  /\ UNCHANGED <<pool, lease, sessions, active, closeStarted, closeFinished, faults, history>>

(* The registry gives up the tasks of T that it still has. *)
Detach(t, T) ==
  /\ tasks' = [s \in Sessions |-> IF tasks[s] \in T THEN NoTask ELSE tasks[s]]
  /\ Set(t, [job[t] EXCEPT !.todo = T \cap Published])
  /\ Goto(t, "detached")
  /\ UNCHANGED <<pool, lease, sessions, active, closeStarted, closeFinished, faults, history>>

TasksReleased(t) ==
  /\ pc[t] = "detached"
  /\ Release(FirstInstalled(Cardinality(job[t].todo)))
  /\ Set(t, [job[t] EXCEPT !.owed = {r \in References : references'[r].state = "closing"}])
  /\ Goto(t, "owed")
  /\ UNCHANGED <<made, running, handles, given, reserved, daemon, faults, history>>

FirstOwed(t) == Least(job[t].owed)
Settled(t) == [job[t] EXCEPT !.owed = @ \ {FirstOwed(t)}]

AttemptStarted(t) ==
  /\ pc[t] = "owed" /\ job[t].owed # {}
  /\ references[FirstOwed(t)].state = "closing" /\ pc[FirstOwed(t)] = "idle"
  /\ job' = [job EXCEPT ![FirstOwed(t)].client = references[FirstOwed(t)].client]
  /\ Goto(FirstOwed(t), "closing")
  /\ UNCHANGED <<pool, daemon, faults, history>>

(* The attempt succeeded, or another thread saw that it did. *)
ObligationMet(t) ==
  /\ pc[t] = "owed" /\ job[t].owed # {}
  /\ references[FirstOwed(t)].state # "closing" \/ pc[FirstOwed(t)] = "done"
  /\ references' = Released({}, {FirstOwed(t)})
  /\ Set(t, Settled(t))
  /\ UNCHANGED <<made, running, handles, pooled, given, reserved, daemon, pc, faults, history>>

(* One waiter takes the error of an attempt; the gate may be tried again. *)
ObligationFailed(t) ==
  /\ pc[t] = "owed" /\ job[t].owed # {} /\ pc[FirstOwed(t)] = "failed"
  /\ Goto(FirstOwed(t), "idle")
  /\ Set(t, [Settled(t) EXCEPT !.failed = TRUE])
  /\ UNCHANGED <<pool, daemon, faults, history>>

(* An error keeps the detached tasks from being closed. *)
DetachOver(t) ==
  LET left   == job[t].failed
      closed == IF left THEN {} ELSE job[t].todo
  IN  /\ pc[t] = "owed" /\ job[t].owed = {}
      /\ lease' = [s \in Sessions |-> IF lease[s] \in closed THEN NoTask ELSE lease[s]]
      /\ dropped' = IF left THEN dropped \cup job[t].todo ELSE dropped
      /\ Goto(t, CASE t \in Callers -> "leave"
                   [] t \in Closers -> "ending"
                   [] t = Worker -> "idle")
      /\ Set(t, [NoJob EXCEPT !.session = job[t].session])
      /\ UNCHANGED <<pool, tasks, sessions, active, closeStarted, closeFinished, faults, stolen>>

(* The scheduler is unavailable: the start takes its task back. *)
SchedulingFailed(c) ==
  /\ pc[c] = "schedule" /\ pc[Worker] = "exited"
  /\ Detach(c, {job[c].task})

-----------------------------------------------------------------------------
(* The worker. *)

(* A task is driven: its client is asked something, over a child it starts *)
(* when it has none.                                                       *)
Drive(s) ==
  /\ pc[Worker] = "idle" /\ ~SchedulerClosed /\ tasks[s] # NoTask
  /\ Started(references[tasks[s]].client)
  /\ Set(Worker, [NoJob EXCEPT !.task = tasks[s]])
  /\ Goto(Worker, "asking")
  /\ UNCHANGED <<made, pooled, references, given, reserved, daemon, faults, history>>

Answered ==
  /\ pc[Worker] = "asking" /\ pc[Reader] # "await"
  /\ Set(Worker, NoJob)
  /\ Goto(Worker, "idle")
  /\ UNCHANGED <<pool, daemon, faults, history>>

(* The request timed out or failed: the task is failed and detached. *)
RequestFailed == pc[Worker] = "asking" /\ Detach(Worker, {job[Worker].task})

(* Tasks that no longer own work. *)
Retire(T) ==
  /\ pc[Worker] = "idle" /\ ~SchedulerClosed /\ T # {} /\ T \subseteq Published
  /\ Detach(Worker, T)

WorkerExits ==
  /\ pc[Worker] = "idle" /\ SchedulerClosed
  /\ Goto(Worker, "exited")
  /\ UNCHANGED <<pool, daemon, job, faults, history>>

(* A callback raised a BaseException: the scheduler is FATAL. *)
WorkerDies ==
  /\ pc[Worker] = "idle" /\ ~SchedulerClosed /\ Fault
  /\ Goto(Worker, "exited")
  /\ UNCHANGED <<pool, daemon, job, history>>

-----------------------------------------------------------------------------
(* close() *)

CloseBegins(m) ==
  /\ pc[m] = "idle" /\ ~closeFinished
  /\ closeStarted' = TRUE
  /\ Goto(m, IF closeStarted THEN "await" ELSE "drain")
  /\ UNCHANGED <<pool, tasks, lease, sessions, active, closeFinished, job, faults, history>>

Drained(m) ==
  /\ pc[m] = "drain" /\ active = 0
  /\ Goto(m, "join")
  /\ UNCHANGED <<pool, daemon, job, faults, history>>

Joined(m) ==
  /\ pc[m] = "join" /\ pc[Worker] = "exited"
  /\ Detach(m, Published)

CloseEnds(m) ==
  /\ pc[m] = "ending"
  /\ closeFinished' = TRUE
  /\ Goto(m, "idle")
  /\ UNCHANGED <<pool, tasks, lease, sessions, active, closeStarted, job, faults, history>>

-----------------------------------------------------------------------------

StartStep(c) ==
  \/ SessionReserved(c) \/ Lookup(c) \/ PoolReserved(c) \/ PooledClientFound(c)
  \/ NoPooledClient(c) \/ ClientCreated(c) \/ ClientPooled(c) \/ BorrowReturned(c)
  \/ BorrowUndone(c) \/ LeaseTaken(c) \/ TaskBegun(c) \/ BeginExpired(c) \/ TaskPublished(c)
  \/ TaskScheduled(c) \/ SchedulingFailed(c) \/ TaskClosed(c) \/ ReferenceReleased(c)
  \/ StartLeft(c)

DetachStep(t) ==
  TasksReleased(t) \/ AttemptStarted(t) \/ ObligationMet(t) \/ ObligationFailed(t) \/ DetachOver(t)

CloseStep(t) == HandleDropped(t) \/ ChildStopped(t)
AdmissionStep(t) == EndAdmission(t) \/ WaitClosed(t)
WorkerStep == Answered \/ RequestFailed \/ WorkerExits
ShutdownStep(m) == Drained(m) \/ Joined(m) \/ CloseEnds(m)

(* What a thread does once it has something to do. *)
Progress(t) ==
  \/ t \in Callers /\ StartStep(t)
  \/ t \in Detachers /\ DetachStep(t)
  \/ t \in Openers /\ CloseStep(t)
  \/ AdmissionStep(t)
  \/ t = Worker /\ WorkerStep
  \/ t \in Closers /\ ShutdownStep(t)

Requested ==
  \/ \E c \in Callers, s \in Sessions : StartAdmitted(c, s)
  \/ \E s \in Sessions : Drive(s)
  \/ \E T \in SUBSET Published : Retire(T)
  \/ \E m \in Closers : CloseBegins(m)
  \/ ReaderAdmitted

Failure ==
  \/ \E c \in Callers : BorrowRaised(c) \/ BeginRaised(c)
  \/ \E t \in Openers : StopRaised(t)
  \/ WorkerDies

Next == Requested \/ Failure \/ \E t \in Threads : Progress(t)

Spec == Init /\ [][Next]_vars

(* Threads run: a thread with a step to take is not suspended for ever.    *)
(* Requests, closes and failures need not come.                            *)
FairSpec == Spec /\ \A t \in Threads : WF_vars(Progress(t))

-----------------------------------------------------------------------------

TypeOK ==
  /\ PoolTypeOK
  /\ tasks \in [Sessions -> 0 .. MaxReferences]
  /\ lease \in [Sessions -> 0 .. MaxReferences]
  /\ sessions \subseteq Sessions
  /\ active \in Nat
  /\ closeStarted \in BOOLEAN /\ closeFinished \in BOOLEAN
  /\ pc \in [Threads -> {"idle", "asking", "await", "exited"} \cup StartSteps \cup DetachSteps
                         \cup CloseSteps \cup ShutdownSteps]
  /\ job \in [Threads -> Jobs]
  /\ faults \in 0 .. MaxFaults
  /\ stolen \in BOOLEAN
  /\ dropped \subseteq References

(* Tasks out of the registry whose reference is still counted. *)
Leaving == UNION {job[t].todo : t \in {u \in Detachers : pc[u] = "detached"}}

(* Clients some thread is closing. *)
BeingClosed ==
  {job[t].client : t \in {u \in Openers : pc[u] \in {"closing", "announcing", "blocked", "stopping"}}}

(* The installed references are as many as the tasks that count on one:    *)
(* release_installed can never underflow, though detaching threads take    *)
(* tasks and references in two separate sections.                          *)
OneCountPerTask == Cardinality(Installed) = Cardinality(Published \cup Leaving)

(* A client whose child runs stays reachable: it is pooled, or somebody    *)
(* owes its close.  Except where a raising borrow took it from others.     *)
NoOrphanClient ==
  stolen \/ \A k \in handles :
    k = pooled \/ k \in BeingClosed \/ \E r \in Owing : references[r].client = k

(* Nobody closes the client a start or a task still refers to. *)
ClosedClientIsIdle ==
  stolen \/ \A r \in Active : references[r].client \notin BeingClosed

(* A session's lease belongs to its task, to a thread that will release    *)
(* it, or to a task that was detached and then never closed.               *)
LeaseIsOwned ==
  \A s \in Sessions : lease[s] # NoTask =>
    \/ tasks[s] = lease[s]
    \/ lease[s] \in dropped
    \/ \E t \in Detachers :
          pc[t] # "idle" /\ (job[t].task = lease[s] \/ lease[s] \in job[t].todo)

(* Shutdown is complete when close() returns: no task, no admitted         *)
(* operation and no reference in use is left; without a failure no lease,  *)
(* obligation or child either.                                             *)
NothingAfterClose ==
  closeFinished =>
    /\ Published = {} /\ active = 0 /\ sessions = {} /\ Active = {}
    /\ faults = 0 => Owing = {} /\ running = {} /\ \A s \in Sessions : lease[s] = NoTask

(* close() returns unless a thread inside client.close() waits for it. *)
CloseReturnsUnlessBlocked ==
  closeStarted ~> (closeFinished \/ \E t \in Openers : pc[t] = "blocked")

(* What a start or a detachment takes has somebody who gives it back: a    *)
(* client whose child runs is pooled or owed a close, a lease belongs to a *)
(* task or to who detaches it, and nothing of it is left when close()      *)
(* returns (release, remove_tasks, shutdown).                              *)
NothingIsOrphaned == NoOrphanClient /\ LeaseIsOwned /\ NothingAfterClose

(* The count of installed references decides when the client is closed: it *)
(* is the number of tasks that use one, and no client that a start or a    *)
(* task still refers to is closed (release_installed, borrow).             *)
UsedClientStaysOpen == TypeOK /\ OneCountPerTask /\ ClosedClientIsIdle
=============================================================================
