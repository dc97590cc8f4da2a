------------------------------ MODULE ServiceWork ------------------------------
(***************************************************************************)
(* The scheduled work of the managed daemon's service.                     *)
(*                                                                         *)
(* One worker thread runs every callback of the daemon: the routing of an  *)
(* app-server activity, a reconcile of the watcher, a drive of the managed *)
(* tasks, the poll of an activation fence and the threshold deadline of a  *)
(* task.  Caller threads, one per control request, start and stop sessions *)
(* meanwhile.  Both sides arm and cancel keys of the one timer, and what   *)
(* they arm was computed from a task the other side may have changed.      *)
(*                                                                         *)
(* The timer is what KeyedDeadlines promises: one armed entry per key, a   *)
(* later one replaces it, the earliest due entry fires.  A start's file    *)
(* and lease work is one step here (SessionTask has its detail), and the   *)
(* daemon is open throughout (ManagedDaemon has the admissions).           *)
(***************************************************************************)
EXTENDS Naturals, Sequences

CONSTANTS
  Sessions,     \* the sessions callers ask for
  Callers,      \* the threads that carry control requests
  Warning,      \* silence before a task's first deadline
  Restart,      \* silence before its second deadline
  Interval,     \* time between two polls of an activation fence
  Reported,     \* the kinds of activity the app-server reports
  MaxTasks,     \* bound: tasks ever created
  MaxRequests,  \* bound: requests ever made
  MaxReports,   \* bound: activities the app-server reports
  MaxNow        \* bound: the clock

VARIABLES
  now,         \* the clock
  file,        \* per session: its runtime file ("none", "on", "stopping")
  held,        \* per session: the task the registry holds, 0 if none
  fence,       \* per session: its activation fence ("none", "captured", "adopted")
  tasks,       \* the tasks created, in order
  armed,       \* the armed entries of the timer
  worker,      \* what the worker thread is at
  caller,      \* what each caller thread is at
  reserved,    \* the sessions a start has reserved
  overlapped,  \* tasks whose monitor was last armed from a superseded deadline
  requests,    \* requests made
  reports      \* activities reported

vars == <<now, file, held, fence, tasks, armed, worker, caller, reserved,
          overlapped, requests, reports>>

Stages == {"warning", "restart", "heartbeat"}
Kinds == {"started", "progress", "completed", "status"}

WorkKeys == ({"monitor", "activation"} \X Sessions) \cup (Kinds \X Sessions)
          \cup {<<"reconcile", "">>, <<"manager", "">>}

(***************************************************************************)
(* DaemonTask.next_deadline: the silence so far and the stage give the     *)
(* instant and the kind of the one deadline a task waits for.              *)
(***************************************************************************)
Deadline(task) ==
  [at   |-> task.since + (IF task.stage = "restart" THEN Restart ELSE Warning),
   kind |-> task.stage]

NextDeadline(t) == Deadline(tasks[t])

NoDue == [at |-> 0, kind |-> "warning"]

(***************************************************************************)
(* schedule and wake: the entry of a key is replaced.  Only a monitor's    *)
(* callback carries a task and the deadline it was computed for.           *)
(***************************************************************************)
Entry(key, at, t, due) == [key |-> key, at |-> at, task |-> t, due |-> due]

Armed(entries, new) == {e \in entries : e.key # new.key} \cup {new}

Monitor(t, due) == Entry(<<"monitor", tasks[t].session>>, due.at, t, due)
Wake(key) == Entry(key, now, 0, NoDue)

(***************************************************************************)
(* _schedule_activation: nothing is armed for a session without a fence.   *)
(***************************************************************************)
ActivationArmed(entries, s, delay) ==
  IF fence[s] = "none" THEN entries
  ELSE Armed(entries, Entry(<<"activation", s>>, now + delay, 0, NoDue))

Resting == [at |-> "rest", key |-> <<"manager", "">>, task |-> 0, due |-> NoDue,
            leaving |-> {}]
Free == [at |-> "free", session |-> "", task |-> 0, due |-> NoDue]

Init ==
  /\ now = 0
  /\ file = [s \in Sessions |-> "none"]
  /\ held = [s \in Sessions |-> 0]
  /\ fence = [s \in Sessions |-> "none"]
  /\ tasks = <<>>
  /\ armed = {}
  /\ worker = Resting
  /\ caller = [c \in Callers |-> Free]
  /\ reserved = {}
  /\ overlapped = {}
  /\ requests = 0
  /\ reports = 0

(***************************************************************************)
(* A start claims its session, waiting while another start has it.         *)
(* registry.start then looks for a task of the session, without the lock.  *)
(* An existing one is reused while its file still matches the request.     *)
(***************************************************************************)
Matches(s) == file[s] # "none"

Looked(c, s) ==
  /\ held[s] # 0 => Matches(s)
  /\ reserved' = reserved \cup {s}
  /\ caller' = [caller EXCEPT ![c].at = IF held[s] = 0 THEN "create" ELSE "deadline",
                             ![c].session = s, ![c].task = held[s]]

ClaimTaken(c) ==
  /\ caller[c].at = "free"
  /\ requests < MaxRequests
  /\ \E s \in Sessions : Looked(c, s)
  /\ requests' = requests + 1
  /\ UNCHANGED <<now, file, held, fence, tasks, armed, worker, overlapped, reports>>

Claim(c) ==
  /\ caller[c].at = "free"
  /\ requests < MaxRequests
  /\ \E s \in Sessions \ reserved : Looked(c, s)
  /\ requests' = requests + 1
  /\ UNCHANGED <<now, file, held, fence, tasks, armed, worker, overlapped, reports>>

(***************************************************************************)
(* A start without a task creates one: the file is written or found        *)
(* matching, a managed task captures its activation fence, and the task    *)
(* joins the registry.                                                     *)
(***************************************************************************)
Create(c) ==
  /\ caller[c].at = "create"
  /\ Len(tasks) < MaxTasks
  /\ LET s == caller[c].session IN
       /\ file[s] # "stopping"
       /\ file' = [file EXCEPT ![s] = "on"]
       /\ held' = [held EXCEPT ![s] = Len(tasks) + 1]
       /\ \E f \in {"none", "captured"} : fence' = [fence EXCEPT ![s] = f]
       /\ tasks' = Append(tasks, [session |-> s, since |-> now, stage |-> "warning"])
       /\ caller' = [caller EXCEPT ![c].at = "deadline", ![c].task = Len(tasks) + 1]
  /\ UNCHANGED <<now, armed, worker, reserved, overlapped, requests, reports>>

(***************************************************************************)
(* _schedule_monitor, by the starter: the deadline is read ...             *)
(***************************************************************************)
ReadDeadline(c) ==
  /\ caller[c].at = "deadline"
  /\ caller' = [caller EXCEPT ![c].at = "arm", ![c].due = NextDeadline(caller[c].task)]
  /\ UNCHANGED <<now, file, held, fence, tasks, armed, worker, reserved, overlapped,
                 requests, reports>>

(***************************************************************************)
(* ... and armed, without a lock that would keep the worker from moving    *)
(* the task's deadline in between.                                         *)
(***************************************************************************)
ArmMonitor(c) ==
  /\ caller[c].at = "arm"
  /\ LET t == caller[c].task
         due == caller[c].due IN
       /\ armed' = Armed(armed, Monitor(t, due))
       /\ overlapped' = IF due = NextDeadline(t) THEN overlapped \ {t}
                        ELSE overlapped \cup {t}
  /\ caller' = [caller EXCEPT ![c].at = "rest"]
  /\ UNCHANGED <<now, file, held, fence, tasks, worker, reserved, requests, reports>>

(***************************************************************************)
(* The rest of the publication: the fence's poll, a reconcile, and the     *)
(* reservation is given back.                                              *)
(***************************************************************************)
Publish(c) ==
  /\ caller[c].at = "rest"
  /\ armed' = Armed(ActivationArmed(armed, caller[c].session, Interval),
                    Wake(<<"reconcile", "">>))
  /\ reserved' = reserved \ {caller[c].session}
  /\ caller' = [caller EXCEPT ![c] = Free]
  /\ UNCHANGED <<now, file, held, fence, tasks, worker, overlapped, requests, reports>>

(***************************************************************************)
(* A start that cannot create its task gives the session back.             *)
(***************************************************************************)
StartFails(c) ==
  /\ caller[c].at = "create"
  /\ reserved' = reserved \ {caller[c].session}
  /\ caller' = [caller EXCEPT ![c] = Free]
  /\ UNCHANGED <<now, file, held, fence, tasks, armed, worker, overlapped, requests,
                 reports>>

(***************************************************************************)
(* stop and complete: the file goes at once, or is marked for the engine   *)
(* of a live managed task to end; then the managers are woken.             *)
(***************************************************************************)
Ask(c) ==
  /\ caller[c].at = "free"
  /\ requests < MaxRequests
  /\ \E s \in Sessions :
       /\ file[s] = "on"
       /\ \E f \in {"none"} \cup (IF held[s] # 0 THEN {"stopping"} ELSE {}) :
            file' = [file EXCEPT ![s] = f]
  /\ caller' = [caller EXCEPT ![c].at = "wake"]
  /\ requests' = requests + 1
  /\ UNCHANGED <<now, held, fence, tasks, armed, worker, reserved, overlapped, reports>>

WakeNobody(c) ==
  /\ caller[c].at = "wake"
  /\ caller' = [caller EXCEPT ![c] = Free]
  /\ UNCHANGED <<now, file, held, fence, tasks, armed, worker, reserved, overlapped,
                 requests, reports>>

WakeManagers(c) ==
  /\ caller[c].at = "wake"
  /\ armed' = Armed(armed, Wake(<<"manager", "">>))
  /\ caller' = [caller EXCEPT ![c] = Free]
  /\ UNCHANGED <<now, file, held, fence, tasks, worker, reserved, overlapped, requests,
                 reports>>

(***************************************************************************)
(* The app-server's reader reports an activity; equal ones coalesce.       *)
(***************************************************************************)
Report ==
  /\ reports < MaxReports
  /\ \E k \in Reported, s \in Sessions : armed' = Armed(armed, Wake(<<k, s>>))
  /\ reports' = reports + 1
  /\ UNCHANGED <<now, file, held, fence, tasks, worker, caller, reserved, overlapped,
                 requests>>

(***************************************************************************)
(* The worker takes the earliest entry once it is due.                     *)
(***************************************************************************)
Fire ==
  /\ worker.at = "rest"
  /\ \E e \in armed :
       /\ e.at <= now
       /\ \A f \in armed : e.at <= f.at
       /\ armed' = armed \ {e}
       /\ worker' = [at |-> CASE e.key[1] \in Kinds -> "activity"
                              [] e.key[1] = "activation" -> "poll"
                              [] e.key[1] = "manager" -> "drive"
                              [] OTHER -> e.key[1],
                     key |-> e.key, task |-> e.task, due |-> e.due, leaving |-> {}]
  /\ UNCHANGED <<now, file, held, fence, tasks, caller, reserved, overlapped, requests,
                 reports>>

Goes(place) == [worker EXCEPT !.at = place]

\* a deadline's callback goes on once the managers were driven; any other is over
Driven == IF worker.key[1] = "monitor" THEN Goes("advance") ELSE Resting

(***************************************************************************)
(* _process_activity: the session's task restarts its silence on a turn    *)
(* activity and its new deadline is armed; a completed turn has its fence  *)
(* polled now; every activity is followed by a reconcile.  A started turn  *)
(* found while a handoff waits is adopted as a new fence (selected), which *)
(* nothing here arms a poll for.  A starter's arming in between would be   *)
(* replaced, so that recording and arming are one step.                    *)
(***************************************************************************)
Activity ==
  /\ worker.at = "activity"
  /\ LET kind == worker.key[1]
         s == worker.key[2]
         t == held[s]
         timed == t # 0 /\ kind # "status" IN
       /\ IF timed
          THEN /\ tasks' = [tasks EXCEPT ![t].since = now, ![t].stage = "warning"]
               /\ overlapped' = overlapped \ {t}
          ELSE UNCHANGED <<tasks, overlapped>>
       /\ \/ UNCHANGED fence
          \/ /\ kind = "started" /\ t # 0
             /\ fence[s] = "none" /\ file[s] = "on"
             /\ fence' = [fence EXCEPT ![s] = "adopted"]
       /\ LET monitored ==
                 IF timed THEN Armed(armed, Monitor(t, [at |-> now + Warning,
                                                        kind |-> "warning"]))
                 ELSE armed
              polled == IF kind = "completed" THEN ActivationArmed(monitored, s, 0)
                        ELSE monitored IN
          armed' = Armed(polled, Wake(<<"reconcile", "">>))
  /\ worker' = Resting
  /\ UNCHANGED <<now, file, held, caller, reserved, requests, reports>>

(***************************************************************************)
(* fail_tasks: what raised an error is removed, its file left to say why.  *)
(***************************************************************************)
Failing ==
  LET s == worker.key[2] IN
  CASE worker.at = "activity"  -> {held[s]} \ {0}
    [] worker.at = "reconcile" -> {held[r] : r \in Sessions} \ {0}
    [] worker.at = "poll"      -> IF fence[s] = "none" THEN {} ELSE {held[s]} \ {0}
    [] OTHER                   -> {}

WorkFails ==
  /\ Failing # {}
  /\ worker' = [worker EXCEPT !.at = "cancel", !.leaving = Failing]
  /\ UNCHANGED <<now, file, held, fence, tasks, armed, caller, reserved, overlapped,
                 requests, reports>>

(***************************************************************************)
(* _monitor_due: an entry whose task was replaced, or whose deadline is no *)
(* longer the task's, is dropped.                                          *)
(***************************************************************************)
MonitorDue ==
  /\ worker.at = "monitor"
  /\ worker' = IF held[worker.key[2]] = worker.task /\ NextDeadline(worker.task) = worker.due
               THEN Goes("reconcile") ELSE Resting
  /\ UNCHANGED <<now, file, held, fence, tasks, armed, caller, reserved, overlapped,
                 requests, reports>>

(***************************************************************************)
(* _reconcile: the watcher's tick (NotificationWatcher has it), and then   *)
(* drive_managers: every task of a snapshot is driven.  One without a file *)
(* is finished; the engine of a stopping one may end it, and its file, now *)
(* or later; any may fail.                                                 *)
(***************************************************************************)
Drive ==
  /\ worker.at \in {"reconcile", "drive"}
  /\ \E ended \in SUBSET {s \in Sessions : held[s] # 0 /\ file[s] = "stopping"},
        failed \in SUBSET {s \in Sessions : held[s] # 0} :
       /\ file' = [s \in Sessions |-> IF s \in ended THEN "none" ELSE file[s]]
       /\ LET leaving == {held[s] : s \in {r \in Sessions :
                            held[r] # 0 /\ (file'[r] = "none" \/ r \in failed)}} IN
          worker' = IF leaving = {} THEN Driven
                    ELSE [worker EXCEPT !.at = "cancel", !.leaving = leaving]
  /\ UNCHANGED <<now, held, fence, tasks, armed, caller, reserved, overlapped, requests,
                 reports>>

(***************************************************************************)
(* remove_tasks: the keys of the sessions are cancelled ...                *)
(***************************************************************************)
Cancel ==
  /\ worker.at = "cancel"
  /\ armed' = {e \in armed : ~ \E t \in worker.leaving :
                   e.key \in {<<"monitor", tasks[t].session>>,
                              <<"activation", tasks[t].session>>}}
  /\ worker' = Goes("detach")
  /\ UNCHANGED <<now, file, held, fence, tasks, caller, reserved, overlapped, requests,
                 reports>>

(***************************************************************************)
(* ... and then the tasks the registry still holds are detached with their *)
(* fences.                                                                 *)
(***************************************************************************)
Detach ==
  /\ worker.at = "detach"
  /\ LET gone == {s \in Sessions : held[s] \in worker.leaving} IN
       /\ held' = [s \in Sessions |-> IF s \in gone THEN 0 ELSE held[s]]
       /\ fence' = [s \in Sessions |-> IF s \in gone THEN "none" ELSE fence[s]]
  /\ worker' = [Driven EXCEPT !.leaving = {}]
  /\ UNCHANGED <<now, file, tasks, armed, caller, reserved, overlapped, requests, reports>>

(***************************************************************************)
(* advance_deadline, by the deadline's own callback: warning is followed   *)
(* by restart, the silence after that is counted from now, and the new     *)
(* deadline is armed.                                                      *)
(***************************************************************************)
Advanced(t) ==
  IF tasks[t].stage = "warning" THEN [tasks[t] EXCEPT !.stage = "restart"]
  ELSE [tasks[t] EXCEPT !.stage = "heartbeat", !.since = now]

Advance ==
  /\ worker.at = "advance"
  /\ LET t == worker.task IN
       IF held[worker.key[2]] = t /\ NextDeadline(t) = worker.due
       THEN /\ tasks' = [tasks EXCEPT ![t] = Advanced(t)]
            /\ armed' = Armed(armed, Monitor(t, Deadline(Advanced(t))))
            /\ overlapped' = overlapped \ {t}
       ELSE UNCHANGED <<tasks, armed, overlapped>>
  /\ worker' = Resting
  /\ UNCHANGED <<now, file, held, fence, caller, reserved, requests, reports>>

(***************************************************************************)
(* _poll_activation: without task or fence there is nothing to poll.  A    *)
(* turn that is over ends the fence and wakes the managers; an open one is *)
(* polled again; one that was superseded fails the task (WorkFails).       *)
(***************************************************************************)
Fenced(s) == held[s] # 0 /\ fence[s] # "none"

NothingToPoll ==
  /\ worker.at = "poll"
  /\ ~ Fenced(worker.key[2])
  /\ worker' = Resting
  /\ UNCHANGED <<now, file, held, fence, tasks, armed, caller, reserved, overlapped,
                 requests, reports>>

FenceLifts ==
  /\ worker.at = "poll"
  /\ Fenced(worker.key[2])
  /\ fence' = [fence EXCEPT ![worker.key[2]] = "none"]
  /\ armed' = Armed(armed, Wake(<<"manager", "">>))
  /\ worker' = Resting
  /\ UNCHANGED <<now, file, held, tasks, caller, reserved, overlapped, requests, reports>>

FenceStands ==
  /\ worker.at = "poll"
  /\ Fenced(worker.key[2])
  /\ armed' = ActivationArmed(armed, worker.key[2], Interval)
  /\ worker' = Resting
  /\ UNCHANGED <<now, file, held, fence, tasks, caller, reserved, overlapped, requests,
                 reports>>

Tick ==
  /\ now < MaxNow
  /\ now' = now + 1
  /\ UNCHANGED <<file, held, fence, tasks, armed, worker, caller, reserved, overlapped,
                 requests, reports>>

Request(c) ==
  \/ Claim(c) \/ Create(c) \/ ReadDeadline(c) \/ ArmMonitor(c)
  \/ Publish(c) \/ StartFails(c) \/ Ask(c) \/ WakeManagers(c)

Work ==
  \/ Fire \/ Activity \/ WorkFails \/ MonitorDue \/ Drive \/ Cancel \/ Detach
  \/ Advance \/ NothingToPoll \/ FenceLifts \/ FenceStands

Next == (\E c \in Callers : Request(c)) \/ Report \/ Work \/ Tick

(***************************************************************************)
(* The worker thread runs while anything is due, and a caller that has     *)
(* asked for a stop goes on to wake the managers.  Nobody has to ask.      *)
(***************************************************************************)
Fairness == WF_vars(Work) /\ \A c \in Callers : WF_vars(WakeManagers(c))

Spec == Init /\ [][Next]_vars /\ Fairness

(***************************************************************************)
(* Every component of the state has its type.                              *)
(***************************************************************************)
TypeOK ==
  /\ now \in 0..MaxNow
  /\ file \in [Sessions -> {"none", "on", "stopping"}]
  /\ held \in [Sessions -> 0..Len(tasks)]
  /\ fence \in [Sessions -> {"none", "captured", "adopted"}]
  /\ \A t \in 1..Len(tasks) :
       tasks[t] \in [session : Sessions, since : 0..MaxNow, stage : Stages]
  /\ \A e \in armed : e.key \in WorkKeys /\ e.task \in 0..Len(tasks)
  /\ reserved \subseteq Sessions
  /\ overlapped \subseteq 1..Len(tasks)

(***************************************************************************)
(* A published task is one the registry holds, no start is publishing and  *)
(* the worker is not about to move or remove.                              *)
(***************************************************************************)
Publishing(s) ==
  \E c \in Callers : caller[c].at \in {"deadline", "arm", "rest"} /\ caller[c].session = s

WorkedOn(s) ==
  \/ worker.at # "rest" /\ worker.key[2] = s
  \/ held[s] \in worker.leaving

Settled(s) == held[s] # 0 /\ ~ Publishing(s) /\ ~ WorkedOn(s)

Monitored(s) ==
  LET t == held[s] IN Monitor(t, NextDeadline(t)) \in armed

(***************************************************************************)
(* The one way to lose the threshold deadline of a published task is to    *)
(* arm it from a deadline the worker moved meanwhile: cancelling the keys  *)
(* of a session before its task is detached, and one start per session at  *)
(* a time, keep every other interleaving from it (remove_tasks, claim).    *)
(***************************************************************************)
OnlyAnOverlapLosesTheMonitor ==
  \A s \in Sessions : Settled(s) /\ held[s] \notin overlapped => Monitored(s)

(***************************************************************************)
(* A fence a start captured is polled until it is lifted: while its task   *)
(* is published, its key is armed (_schedule_activation, _poll_activation).*)
(***************************************************************************)
CapturedFenceIsPolled ==
  \A s \in Sessions :
    Settled(s) /\ fence[s] = "captured" => \E e \in armed : e.key = <<"activation", s>>

(***************************************************************************)
(* A task whose file a stop or a completion removed is detached, whatever  *)
(* deadlines it has left (stop, complete, drive_managers).                 *)
(***************************************************************************)
StopDetaches ==
  \A s \in Sessions : (file[s] = "none" /\ held[s] # 0) ~> held[s] = 0

(***************************************************************************)
(* What a published task waits for is armed: its threshold deadline but    *)
(* for that one overlap, and the polling of the fence a start captured     *)
(* (_publish, _schedule_monitor, _schedule_activation).                    *)
(***************************************************************************)
WorkIsArmed == TypeOK /\ OnlyAnOverlapLosesTheMonitor /\ CapturedFenceIsPolled
===============================================================================
