-------------------------- MODULE DeadlineScheduler --------------------------
(***************************************************************************)
(* The keyed deadline scheduler that drives every background check of the  *)
(* daemon (scripts/daemon_scheduler.py).  One worker thread sleeps on a    *)
(* condition until the earliest live heap entry is due and then runs its   *)
(* callback without holding the lock.  Any thread, the worker's callback   *)
(* included, may schedule, cancel or close.                                *)
(*                                                                         *)
(* Each action is one section the code runs under self._condition, or one  *)
(* step of the worker between two such sections.  A heap entry is never    *)
(* removed by a caller: replacing or cancelling a key only changes the     *)
(* generation table, and the worker drops entries that are stale by then.  *)
(* Requests the code rejects (schedule after close or after a fatal        *)
(* callback, an empty key) change nothing and are stuttering steps.        *)
(***************************************************************************)
EXTENDS Integers, FiniteSets

CONSTANTS
  Keys,          \* scheduler keys
  Deadlines,     \* instants callers may schedule for
  Closers,       \* threads other than the worker that may call close
  MaxSequence,   \* bound on the number of accepted schedule calls
  MaxTime        \* bound on the clock

ASSUME SchedulerAssumption ==
  /\ Deadlines \subseteq Nat
  /\ MaxSequence \in Nat
  /\ MaxTime \in Nat

VARIABLES
  entries,      \* the heap, as a set: [key, deadline, sequence]
  generations,  \* the live generation of each key, 0 when the key has none
  sequence,     \* schedule calls accepted so far
  closed,       \* close was called
  health,       \* healthy, degraded or fatal
  failures,     \* callbacks that raised an Exception
  now,          \* the monotonic clock
  worker,       \* where the worker thread is
  current,      \* the entry whose callback the worker runs
  wakeAt,       \* the deadline of the worker's timed wait, Untimed for none
  closing       \* what each closer is doing

vars == <<entries, generations, sequence, closed, health, failures, now,
          worker, current, wakeAt, closing>>

Untimed == -1

Entry == [key : Keys, deadline : Deadlines, sequence : Nat]

NoEntry == [key |-> "none", deadline |-> 0, sequence |-> 0]

(* Fault: liveness judged by the key alone. *)
IsLiveByKey(e) == generations[e.key] # 0

(* An entry is live while it carries the generation of its key. *)
IsLive(e) == generations[e.key] = e.sequence

Live == {e \in entries : IsLive(e)}

(* Heap order: deadline first, then order of arrival. *)
Before(e, f) ==
  \/ e.deadline < f.deadline
  \/ e.deadline = f.deadline /\ e.sequence < f.sequence

IsEarliest(e) == e \in Live /\ \A f \in Live : f = e \/ Before(e, f)

Accepting == ~closed /\ health # "fatal"

Init ==
  /\ entries = {}
  /\ generations = [k \in Keys |-> 0]
  /\ sequence = 0
  /\ closed = FALSE
  /\ health = "healthy"
  /\ failures = 0
  /\ now = 0
  /\ worker = "ready"
  /\ current = NoEntry
  /\ wakeAt = Untimed
  /\ closing = [c \in Closers |-> "idle"]

(* Fault: nobody is notified. *)
NotifyNobody == UNCHANGED <<worker, wakeAt>>

(* Condition.notify: a sleeping worker re-examines the heap. *)
Notify ==
  /\ worker' = IF worker = "waiting" THEN "ready" ELSE worker
  /\ wakeAt' = IF worker = "waiting" THEN Untimed ELSE wakeAt

-------------------------------------------------------------------------------
(***************************************************************************)
(* Operations any thread may call.                                         *)
(***************************************************************************)

(* schedule, and wake, which schedules for the current instant. *)
Schedule(k, d) ==
  /\ Accepting
  /\ sequence < MaxSequence
  /\ sequence' = sequence + 1
  /\ generations' = [generations EXCEPT ![k] = sequence + 1]
  /\ entries' = entries
       \cup {[key |-> k, deadline |-> d, sequence |-> sequence + 1]}
  /\ Notify
  /\ UNCHANGED <<closed, health, failures, now, current, closing>>

Cancel(k) ==
  /\ generations' = [generations EXCEPT ![k] = 0]
  /\ Notify
  /\ UNCHANGED <<entries, sequence, closed, health, failures, now, current,
                 closing>>

(* The first section of close: later calls find the flag set. *)
MarkClosed ==
  /\ closed' = TRUE
  /\ IF closed
       THEN UNCHANGED <<entries, generations, worker, wakeAt>>
       ELSE /\ entries' = {}
            /\ generations' = [k \in Keys |-> 0]
            /\ Notify
  /\ UNCHANGED <<sequence, health, failures, now, current>>

Close(c) ==
  /\ closing[c] = "idle"
  /\ closing' = [closing EXCEPT ![c] = "waiting"]
  /\ MarkClosed

(* Fault: close does not wait for the worker. *)
CloseReturnsEarly(c) ==
  /\ closing[c] = "waiting"
  /\ closing' = [closing EXCEPT ![c] = "returned"]
  /\ UNCHANGED <<entries, generations, sequence, closed, health, failures,
                 now, worker, current, wakeAt>>

(* The second section: wait for the worker's completion event. *)
CloseReturns(c) ==
  /\ closing[c] = "waiting"
  /\ worker = "exited"
  /\ closing' = [closing EXCEPT ![c] = "returned"]
  /\ UNCHANGED <<entries, generations, sequence, closed, health, failures,
                 now, worker, current, wakeAt>>

(* A callback that closes the scheduler does not wait for itself. *)
CloseFromCallback ==
  /\ worker = "running"
  /\ MarkClosed
  /\ UNCHANGED closing

-------------------------------------------------------------------------------
(***************************************************************************)
(* The worker thread.  Discarding the stale heads of the heap leaves the   *)
(* entries that do not precede the earliest live one.                      *)
(***************************************************************************)

SleepUntimed ==
  /\ worker = "ready"
  /\ ~closed
  /\ Live = {}
  /\ entries' = {}
  /\ worker' = "waiting"
  /\ wakeAt' = Untimed
  /\ UNCHANGED <<generations, sequence, closed, health, failures, now, current,
                 closing>>

(* Fault: the wait for a due entry has no timeout. *)
SleepWithoutTimeout ==
  /\ worker = "ready"
  /\ ~closed
  /\ \E e \in Live :
       /\ IsEarliest(e)
       /\ e.deadline > now
       /\ entries' = {f \in entries : ~Before(f, e)}
       /\ wakeAt' = Untimed
  /\ worker' = "waiting"
  /\ UNCHANGED <<generations, sequence, closed, health, failures, now, current,
                 closing>>

SleepUntilDue ==
  /\ worker = "ready"
  /\ ~closed
  /\ \E e \in Live :
       /\ IsEarliest(e)
       /\ e.deadline > now
       /\ entries' = {f \in entries : ~Before(f, e)}
       /\ wakeAt' = e.deadline
  /\ worker' = "waiting"
  /\ UNCHANGED <<generations, sequence, closed, health, failures, now, current,
                 closing>>

WaitTimesOut ==
  /\ worker = "waiting"
  /\ wakeAt # Untimed
  /\ wakeAt <= now
  /\ worker' = "ready"
  /\ wakeAt' = Untimed
  /\ UNCHANGED <<entries, generations, sequence, closed, health, failures, now,
                 current, closing>>

StartCallback ==
  /\ worker = "ready"
  /\ ~closed
  /\ \E e \in Live :
       /\ IsEarliest(e)
       /\ e.deadline <= now
       /\ entries' = {f \in entries : Before(e, f)}
       /\ generations' = [generations EXCEPT ![e.key] = 0]
       /\ current' = e
  /\ worker' = "running"
  /\ UNCHANGED <<sequence, closed, health, failures, now, wakeAt, closing>>

CallbackSucceeds ==
  /\ worker = "running"
  /\ worker' = "ready"
  /\ current' = NoEntry
  /\ health' = IF health = "degraded" THEN "healthy" ELSE health
  /\ UNCHANGED <<entries, generations, sequence, closed, failures, now, wakeAt,
                 closing>>

CallbackRaises ==
  /\ worker = "running"
  /\ worker' = "ready"
  /\ current' = NoEntry
  /\ failures' = failures + 1
  /\ health' = IF health = "healthy" THEN "degraded" ELSE health
  /\ UNCHANGED <<entries, generations, sequence, closed, now, wakeAt, closing>>

(* A BaseException ends the worker; the scheduler is not marked closed. *)
CallbackIsFatal ==
  /\ worker = "running"
  /\ worker' = "exiting"
  /\ current' = NoEntry
  /\ health' = "fatal"
  /\ entries' = {}
  /\ generations' = [k \in Keys |-> 0]
  /\ UNCHANGED <<sequence, closed, failures, now, wakeAt, closing>>

WorkerSeesClosed ==
  /\ worker = "ready"
  /\ closed
  /\ worker' = "exiting"
  /\ UNCHANGED <<entries, generations, sequence, closed, health, failures, now,
                 current, wakeAt, closing>>

(* The finally clause sets the completion event. *)
WorkerExits ==
  /\ worker = "exiting"
  /\ worker' = "exited"
  /\ UNCHANGED <<entries, generations, sequence, closed, health, failures, now,
                 current, wakeAt, closing>>

Tick ==
  /\ now < MaxTime
  /\ now' = now + 1
  /\ UNCHANGED <<entries, generations, sequence, closed, health, failures,
                 worker, current, wakeAt, closing>>

-------------------------------------------------------------------------------
CallbackReturns == CallbackSucceeds \/ CallbackRaises \/ CallbackIsFatal

WorkerStep ==
  \/ SleepUntimed
  \/ SleepUntilDue
  \/ WaitTimesOut
  \/ StartCallback
  \/ CallbackReturns
  \/ WorkerSeesClosed
  \/ WorkerExits

Next ==
  \/ \E k \in Keys, d \in Deadlines : Schedule(k, d)
  \/ \E k \in Keys : Cancel(k)
  \/ \E c \in Closers : Close(c)
  \/ \E c \in Closers : CloseReturns(c)
  \/ CloseFromCallback
  \/ WorkerStep
  \/ Tick

Spec == Init /\ [][Next]_vars

(***************************************************************************)
(* The worker is a live thread, callbacks return, the clock advances and a *)
(* thread waiting for a set event continues.  Callers owe nothing.         *)
(***************************************************************************)
Fairness ==
  /\ WF_vars(WorkerStep)
  /\ WF_vars(Tick)
  /\ \A c \in Closers : WF_vars(CloseReturns(c))

FairSpec == Spec /\ Fairness

-------------------------------------------------------------------------------
(* Every variable keeps its type (the fields of DeadlineScheduler.__init__). *)
TypeOK ==
  /\ entries \subseteq Entry
  /\ generations \in [Keys -> Nat]
  /\ sequence \in Nat
  /\ closed \in BOOLEAN
  /\ health \in {"healthy", "degraded", "fatal"}
  /\ failures \in Nat
  /\ now \in Nat
  /\ worker \in {"ready", "waiting", "running", "exiting", "exited"}
  /\ current \in Entry \cup {NoEntry}
  /\ wakeAt \in Nat \cup {Untimed}
  /\ closing \in [Closers -> {"idle", "waiting", "returned"}]

(***************************************************************************)
(* No wakeup is lost: while the worker sleeps in _next_entry, the wait it  *)
(* chose still ends no later than every live deadline, whatever was        *)
(* scheduled or cancelled since, and the scheduler is not closed.          *)
(***************************************************************************)
NoLostWakeup ==
  worker = "waiting" =>
    /\ ~closed
    /\ \A e \in Live : wakeAt # Untimed /\ wakeAt <= e.deadline

(***************************************************************************)
(* When close has returned to a thread, no callback is running, none will  *)
(* ever run and nothing is armed: what the caller owned may be released.   *)
(***************************************************************************)
CloseMeansQuiet ==
  (\E c \in Closers : closing[c] = "returned") =>
    /\ worker = "exited"
    /\ ~Accepting
    /\ Live = {}

(***************************************************************************)
(* A key whose generation is set has its entry in the heap, so the lazy    *)
(* discarding of stale entries never drops an armed deadline.              *)
(***************************************************************************)
ArmedKeysAreInHeap ==
  \A k \in Keys : generations[k] # 0 =>
    \E e \in entries : e.key = k /\ e.sequence = generations[k]

(***************************************************************************)
(* The scheduler implements the abstract timer: a replaced, cancelled or   *)
(* already fired deadline never fires, deadlines fire in order, one at a   *)
(* time and never early, and nothing fires after close or a fatal error.   *)
(***************************************************************************)
Timer == INSTANCE KeyedDeadlines WITH
  armed <- Live,
  running <- IF worker = "running" THEN {current} ELSE {},
  issued <- sequence,
  open <- Accepting

ImplementsTimer == Timer!Spec

(***************************************************************************)
(* Every armed deadline is eventually settled: it fires, or its key is     *)
(* armed again, cancelled or cleared.  None is forgotten in the heap.      *)
(***************************************************************************)
EveryDeadlineSettles ==
  \A k \in Keys : \A g \in 1..MaxSequence :
    generations[k] = g ~> generations[k] # g

(* A thread that called close is eventually released by the worker's exit. *)
CloseCompletes ==
  \A c \in Closers : closing[c] = "waiting" ~> closing[c] = "returned"

(* Neither a deadline nor a thread that closes the scheduler is forgotten,  *)
(* also when a callback fails (schedule, close).                            *)
TimerSettles == EveryDeadlineSettles /\ CloseCompletes
===============================================================================
