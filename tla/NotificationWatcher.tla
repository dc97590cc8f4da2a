------------------------- MODULE NotificationWatcher -------------------------
(***************************************************************************)
(* The passive monitor of one Codex thread: the resident daemons           *)
(* (notification_daemon.py, one per Codex run, sharing one state root),    *)
(* the runtime, cursor and diagnostic files they keep, and the watcher     *)
(* tick that turns new rollout records into recorded and announced         *)
(* transitions (watcher_*.py).                                             *)
(*                                                                         *)
(* A request or a tick holds the daemon's lock from beginning to end, so a *)
(* daemon does one thing at a time; pc says how far it is.  Between two    *)
(* values of pc the files can be changed by another daemon, the thread can *)
(* write, time can pass and the process can die.  The runtime file's write *)
(* lock is `lock`; the diagnostic log is read and rewritten under a lock   *)
(* of its own and is one step.                                             *)
(*                                                                         *)
(* A passive session has the parent target only, no parent turn, and no    *)
(* persisted waits, so it finishes through complete() alone and the        *)
(* target is terminal exactly when the completion was claimed.             *)
(***************************************************************************)
EXTENDS StallDetector, FiniteSets, SequencesExt

CONSTANTS
  Daemons,            \* resident daemon processes
  Calls,              \* identifiers of tool calls
  MaxTime,            \* bound on the clock
  MaxEvents,          \* bound on the records of the rollout
  MaxActivations,     \* bound on the sessions created
  MaxStops,           \* bound on crashes and closes of daemons
  MaxFailures,        \* bound on state lock timeouts and failed file writes
  MaxLogFailures,     \* bound on failed reads or writes of the diagnostic log
  BatchLimit          \* records one batch may hold

ASSUME WatcherAssumption ==
  /\ {MaxTime, MaxEvents, MaxActivations, MaxStops, MaxFailures,
      MaxLogFailures, BatchLimit} \subseteq Nat
  /\ BatchLimit > 0

VARIABLES
  now,          \* the clock; wall and monotonic time advance together
  rollout,      \* the complete records of the thread's rollout file
  runtime,      \* the session's runtime file, NoRuntime when absent
  cursor,       \* records consumed, NoCursor when the cursor file is absent
  log,          \* identities of the transitions in the diagnostic log
  lock,         \* the daemon holding the runtime file's write lock
  sent,         \* transitions delivered to the sink, in order
  pc,           \* how far each daemon is in what it does
  detector,     \* each daemon's in-memory detector of the session
  openCalls,    \* each daemon's in-memory open tool calls
  pending,      \* each daemon's transitions waiting to be flushed
  scheduled,    \* whether each daemon's scheduler holds a tick
  op,           \* each daemon's request or tick in progress
  spent,        \* how much of each bound is used
  baseline,     \* history: records skipped when the cursor was created
  completedIn   \* history: the activation whose completion was recorded last

files == <<runtime, cursor, log>>
memory == <<detector, openCalls, pending, scheduled>>
history == <<baseline, completedIn>>
vars == <<now, rollout, files, lock, sent, pc, memory, op, spent, history>>

NoRuntime ==
  [complete |-> FALSE, finished |-> FALSE, anchor |-> 0, epoch |-> 0,
   revision |-> -1]
NoCursor == -1
NoDetector == InitialState(-1)
NoOne == "nobody"
NoCall == "no call"
NoOp ==
  [purpose |-> "none", revision |-> 0, from |-> NoCursor, to |-> NoCursor,
   next |-> NoRuntime, active |-> FALSE, failed |-> FALSE]

Entry(code, epoch) == [code |-> code, epoch |-> epoch]
Silence(epoch) == Entry("silence", epoch)
Completion == Entry("completed", 0)

Bounds == {"activations", "stops", "failures", "log failures"}
Spend(what, limit) ==
  /\ spent[what] < limit
  /\ spent' = [spent EXCEPT ![what] = @ + 1]

Exists == runtime # NoRuntime
Live == Exists /\ ~runtime.complete

Untouched ==
  /\ now = 0
  /\ runtime = NoRuntime
  /\ cursor = NoCursor
  /\ log = {}
  /\ lock = NoOne
  /\ sent = <<>>
  /\ detector = [d \in Daemons |-> NoDetector]
  /\ openCalls = [d \in Daemons |-> {}]
  /\ pending = [d \in Daemons |-> <<>>]
  /\ scheduled = [d \in Daemons |-> FALSE]
  /\ op = [d \in Daemons |-> NoOp]
  /\ baseline = 0
  /\ completedIn = 0

Init ==
  /\ Untouched
  /\ rollout = <<>>
  /\ pc = [d \in Daemons |-> "idle"]
  /\ spent = [b \in Bounds |-> 0]

-------------------------------------------------------------------------------
(* The monitored thread and the clock. *)

Wrote(kind, c) == \E i \in DOMAIN rollout : rollout[i].kind = kind /\ rollout[i].call = c

Emit(kind, call) ==
  /\ Len(rollout) < MaxEvents
  /\ rollout' = Append(rollout, [kind |-> kind, call |-> call, at |-> now])
  /\ UNCHANGED <<now, files, lock, sent, pc, memory, op, spent, history>>

EmitItem == Emit("item", NoCall)
EmitStart(c) == ~Wrote("start", c) /\ Emit("start", c)
EmitResult(c) == Wrote("start", c) /\ ~Wrote("result", c) /\ Emit("result", c)

Clock ==
  /\ now < MaxTime
  /\ now' = now + 1
  /\ UNCHANGED <<rollout, files, lock, sent, pc, memory, op, spent, history>>

-------------------------------------------------------------------------------
(* Requests. *)

(* A start that finds the session's runtime reuses it; otherwise it saves  *)
(* a fresh one.  Both schedule an immediate tick.                          *)
Start(d) ==
  /\ pc[d] = "idle"
  /\ \/ /\ Exists
        /\ UNCHANGED <<runtime, spent>>
     \/ /\ ~Exists
        /\ lock = NoOne
        /\ Spend("activations", MaxActivations)
        /\ runtime' = [NoRuntime EXCEPT !.anchor = now, !.revision = 0]
  /\ scheduled' = [scheduled EXCEPT ![d] = TRUE]
  /\ UNCHANGED <<now, rollout, cursor, log, lock, sent, pc, detector,
                 openCalls, pending, op, history>>

(* A stop of a session without files changes nothing and is no step. *)
Stop(d) ==
  /\ pc[d] = "idle"
  /\ Exists \/ cursor # NoCursor
  /\ pc' = [pc EXCEPT ![d] = "removing"]
  /\ op' = [op EXCEPT ![d] = [NoOp EXCEPT !.purpose = "stop"]]
  /\ UNCHANGED <<now, rollout, files, lock, sent, memory, spent, history>>

(* Mark the runtime complete under its lock, then tick at once. *)
Complete(d) ==
  /\ pc[d] = "idle"
  /\ Exists
  /\ lock = NoOne
  /\ runtime' = [runtime EXCEPT !.complete = TRUE, !.revision = @ + 1]
  /\ pc' = [pc EXCEPT ![d] = "scanning"]
  /\ op' = [op EXCEPT ![d] = [NoOp EXCEPT !.purpose = "complete"]]
  /\ UNCHANGED <<now, rollout, cursor, log, lock, sent, memory, spent, history>>

(* Both files are unlinked without their locks, the runtime first. *)
RemoveRuntime(d) ==
  /\ pc[d] = "removing"
  /\ runtime' = NoRuntime
  /\ pc' = [pc EXCEPT ![d] = "dropping"]
  /\ UNCHANGED <<now, rollout, cursor, log, lock, sent, memory, op, spent, history>>

RemoveCursor(d) ==
  /\ pc[d] = "dropping"
  /\ cursor' = NoCursor
  /\ pc' = [pc EXCEPT ![d] = "idle"]
  /\ op' = [op EXCEPT ![d] = NoOp]
  /\ UNCHANGED <<now, rollout, runtime, log, lock, sent, memory, spent, history>>

-------------------------------------------------------------------------------
(* One tick: snapshot, read, commit, flush. *)

TickBegins(d) ==
  /\ pc[d] = "idle"
  /\ scheduled[d]
  /\ scheduled' = [scheduled EXCEPT ![d] = FALSE]
  /\ pc' = [pc EXCEPT ![d] = "scanning"]
  /\ op' = [op EXCEPT ![d] = [NoOp EXCEPT !.purpose = "tick"]]
  /\ UNCHANGED <<now, rollout, files, lock, sent, detector, openCalls, pending,
                 spent, history>>

(* Snapshot the runtime under its lock.  A completed session is committed  *)
(* without reading its rollout.                                            *)
Scan(d) ==
  /\ pc[d] = "scanning"
  /\ lock = NoOne
  /\ pc' = [pc EXCEPT ![d] = CASE ~Exists -> "flushing"
                               [] runtime.complete -> "committing"
                               [] OTHER -> "reading"]
  /\ op' = [op EXCEPT ![d].revision = runtime.revision]
  /\ UNCHANGED <<now, rollout, files, lock, sent, memory, spent, history>>

(* Without a cursor the batch is empty and starts at the end of the file. *)
ReadBatch(d) ==
  /\ pc[d] = "reading"
  /\ LET end == IF cursor = NoCursor THEN Len(rollout)
                ELSE CHOOSE n \in {cursor + BatchLimit, Len(rollout)} :
                       n <= cursor + BatchLimit /\ n <= Len(rollout)
     IN op' = [op EXCEPT ![d].from = cursor, ![d].to = end]
  /\ pc' = [pc EXCEPT ![d] = "committing"]
  /\ UNCHANGED <<now, rollout, files, lock, sent, memory, spent, history>>

(* The records of the batch no older than the persisted silence anchor. *)
Fresh(d) ==
  IF op[d].from = NoCursor THEN {}
  ELSE {i \in (op[d].from + 1)..op[d].to : rollout[i].at >= runtime.anchor}

FreshCalls(d, kind) ==
  {rollout[i].call : i \in {j \in Fresh(d) : rollout[j].kind = kind}}

(* Tool calls open after the batch, in which a call's result comes last. *)
OpenAfter(d) ==
  (openCalls[d] \cup FreshCalls(d, "start")) \ FreshCalls(d, "result")

Existing(d) ==
  IF detector[d] = NoDetector THEN RecoveredState(runtime.anchor) ELSE detector[d]

(* A warning counts as emitted when the detector says so or the log does. *)
WasWarned(d) == Existing(d).warned \/ Silence(runtime.epoch) \in log

Restored(d) ==
  IF WasWarned(d) /\ ~Existing(d).warned THEN RestoreSuspected(Existing(d))
                                         ELSE Existing(d)

Progressed(d) == Fresh(d) # {} /\ AcceptsProgress(Restored(d), now)

(* Fault: the batch is evaluated before its progress is applied. *)
PreparedStale(d) ==
  SetWaits(Restored(d), IF OpenAfter(d) = {} THEN "none" ELSE "paused")

Prepared(d) ==
  SetWaits(IF Progressed(d) THEN RecordProgress(Restored(d), now) ELSE Restored(d),
           IF OpenAfter(d) = {} THEN "none" ELSE "paused")

(* The transitions the evaluation wants recorded, each under the identity  *)
(* of the epoch the snapshot had.                                          *)
RecoveryOf(d) ==
  IF Progressed(d) /\ WasWarned(d) THEN {Entry("recovered", runtime.epoch)} ELSE {}

DiagnosticOf(d) ==
  LET action == ActionAt(Prepared(d), now)
  IN IF action \in {"silence", "critical"} THEN {Entry(action, runtime.epoch)} ELSE {}

(* Fault: transitions are queued whether or not the log holds them. *)
RecordAlways(d, transitions) ==
  /\ log' = log \cup transitions
  /\ pending' = [pending EXCEPT ![d] = @ \o SetToSeq(transitions)]

(* The recorder appends what the log does not hold and queues it. *)
Record(d, transitions) ==
  LET new == transitions \ log
  IN /\ log' = log \cup new
     /\ pending' = [pending EXCEPT ![d] = @ \o SetToSeq(new)]

(* Fault: progress opens an epoch without moving the anchor. *)
AdvancedEpochOnly(d) ==
  IF Progressed(d) THEN [runtime EXCEPT !.epoch = @ + 1] ELSE runtime

(* The runtime the evaluation leaves in memory. *)
Advanced(d) ==
  IF Progressed(d) THEN [runtime EXCEPT !.epoch = @ + 1, !.anchor = now] ELSE runtime

Evaluating(d) ==
  /\ detector' = [detector EXCEPT ![d] = Evaluate(Prepared(d), now)]
  /\ openCalls' = [openCalls EXCEPT ![d] = OpenAfter(d)]

(* The session disappeared, or changed since it was read: nothing is       *)
(* processed, and a session that is still there keeps the tick alive.      *)
CommitRefused(d) ==
  /\ pc[d] = "committing"
  /\ lock = NoOne
  /\ runtime.revision # op[d].revision
  /\ pc' = [pc EXCEPT ![d] = "flushing"]
  /\ op' = [op EXCEPT ![d].active = Exists]
  /\ UNCHANGED <<now, rollout, files, lock, sent, memory, spent, history>>

(* Fault: the snapshot is not revalidated under the lock. *)
AcceptedUnchecked(d) ==
  /\ pc[d] = "committing"
  /\ lock = NoOne
  /\ Exists

Accepted(d) ==
  /\ pc[d] = "committing"
  /\ lock = NoOne
  /\ runtime.revision = op[d].revision

Commit(d, next, active) ==
  /\ lock' = d
  /\ pc' = [pc EXCEPT ![d] = "writing"]
  /\ op' = [op EXCEPT ![d].active = active,
                      ![d].next = IF next = runtime THEN runtime
                                  ELSE [next EXCEPT !.revision = @ + 1]]
  /\ UNCHANGED <<now, rollout, runtime, cursor, sent, scheduled, spent, baseline>>

CommitProgress(d) ==
  /\ Accepted(d)
  /\ ~runtime.complete
  /\ Evaluating(d)
  /\ Record(d, RecoveryOf(d) \cup DiagnosticOf(d))
  /\ Commit(d, Advanced(d), TRUE)
  /\ UNCHANGED completedIn

Claimed(r) == [r EXCEPT !.finished = TRUE]

(* The first claim of the completion records it; the detector is terminal  *)
(* from then on.                                                           *)
CommitCompletion(d) ==
  /\ Accepted(d)
  /\ runtime.complete
  /\ detector' = [detector EXCEPT ![d] =
       SetWaits(IF @ = NoDetector THEN InitialState(now) ELSE @, "terminal")]
  /\ Record(d, IF runtime.finished THEN {} ELSE {Completion})
  /\ completedIn' = IF log' = log THEN completedIn ELSE spent["activations"]
  /\ Commit(d, Claimed(runtime), FALSE)
  /\ UNCHANGED openCalls

(* The runtime goes before the cursor.  Replacing the file brings it back  *)
(* when another daemon has unlinked it meanwhile.                          *)
WriteRuntime(d) ==
  /\ pc[d] = "writing"
  /\ runtime' = IF op[d].next.revision = op[d].revision THEN runtime ELSE op[d].next
  /\ pc' = [pc EXCEPT ![d] = "storing"]
  /\ UNCHANGED <<now, rollout, cursor, log, lock, sent, memory, op, spent, history>>

WriteCursor(d) ==
  /\ pc[d] = "storing"
  /\ cursor' = IF op[d].to = op[d].from THEN cursor ELSE op[d].to
  /\ baseline' = IF op[d].to # NoCursor /\ op[d].from = NoCursor THEN op[d].to ELSE baseline
  /\ lock' = NoOne
  /\ pc' = [pc EXCEPT ![d] = "flushing"]
  /\ UNCHANGED <<now, rollout, runtime, log, sent, memory, op, spent, completedIn>>

(* The queue is emptied first and delivered one by one; a refused delivery *)
(* is logged and not repeated.                                             *)
Deliver(d) ==
  /\ pc[d] = "flushing"
  /\ pending[d] # <<>>
  /\ sent' = Append(sent, Head(pending[d]))
  /\ pending' = [pending EXCEPT ![d] = Tail(@)]
  /\ UNCHANGED <<now, rollout, files, lock, pc, detector, openCalls, scheduled,
                 op, spent, history>>

DeliveryRefused(d) ==
  /\ pc[d] = "flushing"
  /\ pending[d] # <<>>
  /\ pending' = [pending EXCEPT ![d] = Tail(@)]
  /\ UNCHANGED <<now, rollout, files, lock, sent, pc, detector, openCalls,
                 scheduled, op, spent, history>>

(* A tick that is still needed, or that raised, is scheduled again. *)
TickEnds(d) ==
  /\ pc[d] = "flushing"
  /\ op[d].purpose = "tick"
  /\ pending[d] = <<>>
  /\ scheduled' = [scheduled EXCEPT ![d] = @ \/ op[d].active \/ op[d].failed]
  /\ pc' = [pc EXCEPT ![d] = "idle"]
  /\ op' = [op EXCEPT ![d] = NoOp]
  /\ UNCHANGED <<now, rollout, files, lock, sent, detector, openCalls, pending,
                 spent, history>>

(* complete() removes the session after its tick, unless the tick raised. *)
CompleteEnds(d) ==
  /\ pc[d] = "flushing"
  /\ op[d].purpose = "complete"
  /\ pending[d] = <<>>
  /\ pc' = [pc EXCEPT ![d] = IF op[d].failed THEN "idle" ELSE "removing"]
  /\ op' = [op EXCEPT ![d] = IF op[d].failed THEN NoOp ELSE @]
  /\ UNCHANGED <<now, rollout, files, lock, sent, memory, spent, history>>

-------------------------------------------------------------------------------
(* Failures. *)

Raise(d) ==
  /\ pc' = [pc EXCEPT ![d] = "flushing"]
  /\ op' = [op EXCEPT ![d].failed = TRUE]
  /\ lock' = IF lock = d THEN NoOne ELSE lock

(* A state lock times out, or a state file cannot be read or written. *)
FileFails(d) ==
  /\ pc[d] \in {"scanning", "reading", "committing", "writing", "storing"}
  /\ Spend("failures", MaxFailures)
  /\ Raise(d)
  /\ UNCHANGED <<now, rollout, files, sent, memory, history>>

(* The log fails before the detector is stored: in the lookup of a warning *)
(* or the start record before the batch is applied, or in the append of a  *)
(* recovery after the open calls were updated.                             *)
LogFailsBeforeEvaluation(d) ==
  /\ Accepted(d)
  /\ Spend("log failures", MaxLogFailures)
  /\ \/ UNCHANGED openCalls
     \/ /\ ~runtime.complete
        /\ RecoveryOf(d) # {}
        /\ openCalls' = [openCalls EXCEPT ![d] = OpenAfter(d)]
  /\ Raise(d)
  /\ UNCHANGED <<now, rollout, files, sent, detector, pending, scheduled, history>>

(* The log fails in the append of the diagnostic or the heartbeat, after   *)
(* the evaluated detector was stored.                                      *)
LogFailsAfterEvaluation(d) ==
  /\ Accepted(d)
  /\ ~runtime.complete
  /\ Spend("log failures", MaxLogFailures)
  /\ Evaluating(d)
  /\ Record(d, RecoveryOf(d))
  /\ Raise(d)
  /\ UNCHANGED <<now, rollout, runtime, cursor, sent, scheduled, history>>

(* The process dies or is closed: memory is lost, the file lock released. *)
Crash(d) ==
  /\ pc[d] # "down"
  /\ Spend("stops", MaxStops)
  /\ pc' = [pc EXCEPT ![d] = "down"]
  /\ op' = [op EXCEPT ![d] = NoOp]
  /\ lock' = IF lock = d THEN NoOne ELSE lock
  /\ detector' = [detector EXCEPT ![d] = NoDetector]
  /\ openCalls' = [openCalls EXCEPT ![d] = {}]
  /\ pending' = [pending EXCEPT ![d] = <<>>]
  /\ scheduled' = [scheduled EXCEPT ![d] = FALSE]
  /\ UNCHANGED <<now, rollout, files, sent, history>>

(* Fault: a new daemon waits for the next request. *)
RestartWithoutTick(d) ==
  /\ pc[d] = "down"
  /\ pc' = [pc EXCEPT ![d] = "idle"]
  /\ UNCHANGED <<now, rollout, files, lock, sent, memory, op, spent, history>>

(* A new daemon ticks at once when it finds a runtime file. *)
Restart(d) ==
  /\ pc[d] = "down"
  /\ pc' = [pc EXCEPT ![d] = "idle"]
  /\ scheduled' = [scheduled EXCEPT ![d] = Exists]
  /\ UNCHANGED <<now, rollout, files, lock, sent, detector, openCalls, pending,
                 op, spent, history>>

-------------------------------------------------------------------------------
Request(d) == Start(d) \/ Stop(d) \/ Complete(d)

DaemonStep(d) ==
  \/ TickBegins(d) \/ Scan(d) \/ ReadBatch(d)
  \/ CommitRefused(d) \/ CommitProgress(d) \/ CommitCompletion(d)
  \/ WriteRuntime(d) \/ WriteCursor(d)
  \/ Deliver(d) \/ TickEnds(d) \/ CompleteEnds(d)
  \/ RemoveRuntime(d) \/ RemoveCursor(d)

Fault(d) ==
  \/ DeliveryRefused(d) \/ FileFails(d)
  \/ LogFailsBeforeEvaluation(d) \/ LogFailsAfterEvaluation(d)
  \/ Crash(d)

Thread == EmitItem \/ \E c \in Calls : EmitStart(c) \/ EmitResult(c)

Next ==
  \/ Thread
  \/ Clock
  \/ \E d \in Daemons : Request(d) \/ DaemonStep(d) \/ Fault(d) \/ Restart(d)

Spec == Init /\ [][Next]_vars

FairSpec ==
  /\ Spec
  /\ WF_vars(Clock)
  /\ \A d \in Daemons : WF_vars(DaemonStep(d))

-------------------------------------------------------------------------------
(* Properties. *)

Epochs == 0..(MaxEvents + MaxFailures + MaxStops)
Codes == {"silence", "critical", "recovered", "completed"}
Transitions == [code : Codes, epoch : Epochs]

RuntimeFile ==
  [complete : BOOLEAN, finished : BOOLEAN, anchor : 0..MaxTime, epoch : Epochs,
   revision : Int]

(* Every variable stays in its range; only a completed session finishes,   *)
(* and only the daemon between commit and cursor write holds the lock.     *)
TypeOK ==
  /\ now \in 0..MaxTime
  /\ \A i \in DOMAIN rollout :
       rollout[i] \in [kind : {"item", "start", "result"}, call : Calls \cup {NoCall},
                       at : 0..now]
  /\ runtime \in RuntimeFile
  /\ runtime.finished => runtime.complete
  /\ cursor \in -1..MaxEvents
  /\ log \subseteq Transitions
  /\ \A d \in Daemons : detector[d] \in SilenceState /\ openCalls[d] \subseteq Calls
  /\ \A d \in Daemons : lock = d <=> pc[d] \in {"writing", "storing"}

(* What the recorder promises: every transition is recorded once, announced *)
(* at most once and never before it is in the log, and within an epoch the  *)
(* critical stage and the recovery answer a recorded suspicion, whatever    *)
(* crashes and failed writes come between.                                  *)
Ledger == INSTANCE NotificationLedger WITH
            Transition <- Transitions, recorded <- log, announced <- sent

ImplementsLedger == Ledger!Spec

(* The at-most-once part of it, which also several daemons, repeated        *)
(* activations and a failing log must not break.                            *)
AnnouncedOnce ==
  /\ \A i, j \in DOMAIN sent : sent[i] = sent[j] => i = j
  /\ \A i \in DOMAIN sent : sent[i] \in log

(* The records a daemon has consumed or holds in its batch, those skipped   *)
(* when the cursor was created excepted.                                    *)
Seen(d) ==
  {i \in DOMAIN rollout :
     \/ baseline < i /\ i <= cursor
     \/ op[d].from # NoCursor /\ op[d].from < i /\ i <= op[d].to}

(* A suspicion is recorded only when the session is at least a warning old  *)
(* and nothing the monitor read is younger than that.                       *)
WarningMeansSilence ==
  [][\A t \in log' \ log : t.code = "silence" =>
       /\ now - runtime.anchor >= Warning
       /\ \A i \in Seen(lock') : now - rollout[i].at >= Warning]_vars

(* The persisted anchor is never older than a consumed record: a daemon     *)
(* that dies after the cursor was written cannot make its successor take    *)
(* consumed progress for silence.                                           *)
AnchorCoversCursor ==
  Live => \A i \in DOMAIN rollout :
            baseline < i /\ i <= cursor => rollout[i].at <= runtime.anchor

(* A daemon that dies after the cursor was written leaves an anchor that is *)
(* not older than what was consumed (commit_new_progress, save_runtime).    *)
CursorIsCovered == TypeOK /\ AnchorCoversCursor

(* However the daemons interleave, no record of the rollout opens more than *)
(* one epoch: the batch two daemons read from the same cursor counts as     *)
(* progress once.  (A crash between the runtime and the cursor write may    *)
(* repeat a batch; the property is for daemons that stay up.)               *)
ProgressCountedOnce == Exists => runtime.epoch <= Len(rollout)

(* A daemon that does nothing while an unfinished session exists has a tick *)
(* scheduled for it: neither a raised tick nor a failed completion nor a    *)
(* restart ends the polling.                                                *)
MonitorIsDriven ==
  \A d \in Daemons :
    pc[d] = "idle" /\ Exists /\ ~runtime.finished => scheduled[d]

(* complete() removes a session only after this activation's completion     *)
(* was recorded.                                                            *)
CompletedMeansRecorded ==
  \A d \in Daemons :
    pc[d] = "removing" /\ op[d].purpose = "complete" =>
      completedIn = spent["activations"]

(* Silence past the warning threshold is recorded, unless progress, a tool  *)
(* call, the end of the session or the end of the daemon comes first.       *)
SilenceIsRecorded ==
  \A d \in Daemons, e \in Epochs :
    (/\ Live /\ runtime.epoch = e /\ now - runtime.anchor >= Warning
     /\ pc[d] # "down" /\ openCalls[d] = {})
    ~> \/ Silence(e) \in log
       \/ ~Live \/ runtime.epoch # e
       \/ pc[d] = "down" \/ openCalls[d] # {}

(* A session marked complete is recorded as completed even if the tick of   *)
(* complete() itself failed, unless it is stopped or the daemon dies.       *)
CompletionIsRecorded ==
  \A d \in Daemons :
    (Exists /\ runtime.complete /\ pc[d] # "down")
    ~> (Completion \in log \/ ~Exists \/ pc[d] = "down")

(* Both ends of a silence are recorded, that of a session too, and a       *)
(* session is removed as complete only after that (_evaluate_target,       *)
(* complete).                                                              *)
StatesAreRecorded ==
  SilenceIsRecorded /\ CompletionIsRecorded /\ []CompletedMeansRecorded
===============================================================================
